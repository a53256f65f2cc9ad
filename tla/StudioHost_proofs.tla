--------------------------- MODULE StudioHost_proofs ---------------------------
(***************************************************************************)
(* The runtime over any number of Hosts, runs and steps.                   *)
(*                                                                         *)
(* Type correctness is not inductive by itself: a turn record carries the  *)
(* attempt of the executor that writes it, which is an attempt only while  *)
(* the executor is there.  TaskHasExecutor adds that.                      *)
(***************************************************************************)
EXTENDS StudioProperties, TLAPS

TaskHasExecutor ==
  \A h \in Hosts, r \in Runs, s \in Steps :
    task[h][r][s].pc # "idle" => exec[h][r].attempt # 0

TypeInv == TypeOK /\ TaskHasExecutor

(***************************************************************************)
(* Records.                                                                *)
(***************************************************************************)
\* The constant records are of their types.
LEMMA ConstantRecords ==
  /\ Absent \in RunRecords
  /\ \A a \in Attempts : Queued(a) \in RunRecords
  /\ NoOutcome \in Outcomes /\ Unknown \in Outcomes /\ Stopped \in Outcomes
  /\ Outcome("failed", TRUE) \in Outcomes /\ Outcome("succeeded", TRUE) \in Outcomes
  /\ Outcome("cancelled", TRUE) \in Outcomes
  /\ NoExec \in Executor
  /\ NoTask \in TaskState
<1>1. 0 \in 0..MaxAttempt /\ Attempts \subseteq 0..MaxAttempt
      BY StoreConstants DEF Attempts
<1>2. Absent \in RunRecords /\ \A a \in Attempts : Queued(a) \in RunRecords
      BY <1>1 DEF Absent, RunRecords, Queued, RunStates, ActiveStates
<1>3. /\ NoOutcome \in Outcomes /\ Unknown \in Outcomes /\ Stopped \in Outcomes
      /\ Outcome("failed", TRUE) \in Outcomes /\ Outcome("succeeded", TRUE) \in Outcomes
      /\ Outcome("cancelled", TRUE) \in Outcomes
      BY DEF NoOutcome, Unknown, Stopped, Outcome, Outcomes, StepStatus
<1>4. NoExec \in Executor
      BY <1>1, <1>3 DEF NoExec, Executor
<1>5. NoTask \in TaskState
      BY <1>3 DEF NoTask, TaskState, TaskPcs
<1> QED
    BY <1>2, <1>3, <1>4, <1>5

\* Updating the fields of a run record keeps it one.
LEMMA RecordUpdates ==
  ASSUME NEW x \in RunRecords
  PROVE  /\ [x EXCEPT !.cancel = TRUE] \in RunRecords
         /\ [x EXCEPT !.state = "cancelled", !.known = "yes", !.cancel = TRUE] \in RunRecords
         /\ \A p \in RunStates : [x EXCEPT !.state = p] \in RunRecords
         /\ \A p \in RunStates, h \in Hosts \cup {NoHost} :
              [x EXCEPT !.owner = h, !.state = p] \in RunRecords
         /\ \A p \in RunStates, h \in Hosts \cup {NoHost} :
              [x EXCEPT !.state = p, !.owner = h] \in RunRecords
         /\ \A p \in RunStates, k \in {"yes", "no"} :
              [x EXCEPT !.state = p, !.known = k] \in RunRecords
         /\ [x EXCEPT !.state = "interrupted", !.owner = NoHost, !.known = "no"] \in RunRecords
BY DEF RunRecords, RunStates, ActiveStates

\* Expiring questions and aborting executors keeps the tables' types.
LEMMA ExpireType ==
  ASSUME asked \in AskTable, NEW S
  PROVE  Expire(S) \in AskTable
BY DEF Expire, AskTable, AskStates

LEMMA AbortType ==
  ASSUME exec \in ExecTable, NEW h \in Hosts, NEW S
  PROVE  Abort(h, S) \in ExecTable
<1>1. ASSUME NEW r \in Runs PROVE [exec[h][r] EXCEPT !.aborted = TRUE] \in Executor
  <2>1. exec[h][r] \in Executor
        BY DEF ExecTable
  <2> QED
      BY <2>1 DEF Executor
<1>2. [r \in Runs |-> IF r \in S /\ Executes(h, r)
                      THEN [exec[h][r] EXCEPT !.aborted = TRUE] ELSE exec[h][r]]
        \in [Runs -> Executor]
      BY <1>1 DEF ExecTable
<1> QED
    BY <1>2 DEF Abort, ExecTable

\* The tables with one entry changed.
LEMMA TableUpdates ==
  ASSUME TypeOK, NEW h \in Hosts, NEW r \in Runs
  PROVE  /\ \A x \in RunRecords : [run EXCEPT ![r] = x] \in [Runs -> RunRecords]
         /\ \A x \in Executor : [exec EXCEPT ![h][r] = x] \in ExecTable
         /\ \A s \in Steps, x \in TaskState : [task EXCEPT ![h][r][s] = x] \in TaskTable
         /\ \A s \in Steps, x \in Outcomes : [results EXCEPT ![r][s] = x] \in ResultTable
         /\ \A s \in Steps, x \in AskStates : \A a :
              [asked EXCEPT ![r][s][a] = x] \in AskTable
         /\ \A x \in TickState : [tick EXCEPT ![h] = x] \in [Hosts -> TickState]
<1>1. \A x \in RunRecords : [run EXCEPT ![r] = x] \in [Runs -> RunRecords]
      BY DEF TypeOK, StoreTypeOK
<1>2. \A x \in Executor : [exec EXCEPT ![h][r] = x] \in ExecTable
      BY DEF TypeOK, ExecTable
<1>3. \A s \in Steps, x \in TaskState : [task EXCEPT ![h][r][s] = x] \in TaskTable
      BY DEF TypeOK, TaskTable
<1>4. \A s \in Steps, x \in Outcomes : [results EXCEPT ![r][s] = x] \in ResultTable
      BY DEF TypeOK, StoreTypeOK, ResultTable
<1>5. \A s \in Steps, x \in AskStates : \A a : [asked EXCEPT ![r][s][a] = x] \in AskTable
      BY DEF TypeOK, StoreTypeOK, AskTable
<1>6. \A x \in TickState : [tick EXCEPT ![h] = x] \in [Hosts -> TickState]
      BY DEF TypeOK
<1> QED
    BY <1>1, <1>2, <1>3, <1>4, <1>5, <1>6

(***************************************************************************)
(* Initial state.                                                          *)
(***************************************************************************)
LEMMA InitType == Init => TypeInv
<1> SUFFICES ASSUME Init PROVE TypeInv
    OBVIOUS
<1>1. StoreTypeOK
  <2>1. run \in [Runs -> RunRecords] /\ results \in ResultTable
        BY ConstantRecords DEF Init, StoreInit, ResultTable
  <2>2. asked \in AskTable
        BY DEF Init, StoreInit, AskTable, AskStates
  <2> QED
      BY <2>1, <2>2 DEF Init, StoreInit, StoreTypeOK
<1>2. exec \in ExecTable /\ task \in TaskTable
      BY ConstantRecords DEF Init, ExecTable, TaskTable
<1>3. tick \in [Hosts -> TickState]
      BY ConstantRecords DEF Init, NoTick, TickState
<1>4. TypeOK
      BY <1>1, <1>2, <1>3, HostConstants DEF Init, TypeOK
<1>5. TaskHasExecutor
      BY DEF Init, TaskHasExecutor, NoTask
<1> QED
    BY <1>4, <1>5 DEF TypeInv

(***************************************************************************)
(* Commands.                                                               *)
(***************************************************************************)
LEMMA SendType ==
  ASSUME TypeOK, NEW r \in Runs, Send(r)
  PROVE  StoreTypeOK'
<1>1. Queued(1) \in RunRecords
      BY ConstantRecords, StoreConstants DEF Attempts
<1>2. run' \in [Runs -> RunRecords]
      BY <1>1 DEF TypeOK, StoreTypeOK, Send
<1> QED
    BY <1>2 DEF TypeOK, StoreTypeOK, Send

LEMMA SteerType ==
  ASSUME TypeOK, NEW r \in Runs, NEW n \in Notes, Steer(r, n)
  PROVE  StoreTypeOK'
BY DEF TypeOK, StoreTypeOK, Steer

LEMMA CancelType ==
  ASSUME TypeOK, NEW r \in Runs, Cancel(r)
  PROVE  StoreTypeOK'
<1>1. run' \in [Runs -> RunRecords]
  <2>1. ASSUME NEW q \in Runs PROVE run[q] \in RunRecords
        BY DEF TypeOK, StoreTypeOK
  <2>2. ASSUME NEW q \in Runs
        PROVE  /\ [run[q] EXCEPT !.cancel = TRUE] \in RunRecords
               /\ [run[q] EXCEPT !.state = "cancelled", !.known = "yes", !.cancel = TRUE]
                    \in RunRecords
        BY <2>1, RecordUpdates
  <2> QED
      BY <2>1, <2>2 DEF Cancel
<1> QED
    BY <1>1 DEF TypeOK, StoreTypeOK, Cancel

LEMMA ResumeType ==
  ASSUME TypeOK, NEW r \in Runs, NEW confirmed \in BOOLEAN, Resume(r, confirmed)
  PROVE  StoreTypeOK'
<1>1. run[r].attempt + 1 \in Attempts
      BY StoreConstants DEF TypeOK, StoreTypeOK, RunRecords, Resume, Attempts
<1>2. run' \in [Runs -> RunRecords]
      BY <1>1, ConstantRecords DEF TypeOK, StoreTypeOK, Resume
<1>3. results' \in ResultTable
      BY ConstantRecords DEF TypeOK, StoreTypeOK, Resume, ResultTable
<1> QED
    BY <1>2, <1>3 DEF TypeOK, StoreTypeOK, Resume

LEMMA AnswerType ==
  ASSUME TypeOK, NEW r \in Runs, NEW s \in Steps, NEW a \in Attempts, NEW d \in Answers,
         Answer(r, s, a, d)
  PROVE  StoreTypeOK'
<1>1. asked' \in AskTable
      BY DEF TypeOK, StoreTypeOK, Answer, AskTable, AskStates, Answers
<1> QED
    BY <1>1 DEF TypeOK, StoreTypeOK, Answer

LEMMA UserCommandType ==
  ASSUME TypeInv, UserCommand
  PROVE  TypeInv'
<1>1. StoreTypeOK'
      BY SendType, SteerType, CancelType, ResumeType, AnswerType
      DEF TypeInv, UserCommand, Command
<1>2. calls' \in [Runs -> [Steps -> Nat]]
      BY DEF TypeInv, TypeOK, UserCommand
<1>3. UNCHANGED <<host, tick, exec, task, expiries>> /\ woken' \subseteq woken
      BY DEF UserCommand, local
<1> QED
    BY <1>1, <1>2, <1>3 DEF TypeInv, TypeOK, TaskHasExecutor

(***************************************************************************)
(* The scheduler loop.                                                     *)
(***************************************************************************)
\* NoTick, and every stage of a tick that a scan enters, is of its type.
LEMMA NoTickType == NoTick \in TickState
BY ConstantRecords DEF NoTick, TickState

LEMMA TickStage ==
  ASSUME NEW x \in TickState
  PROVE  /\ [x EXCEPT !.pc = "recover"] \in TickState
         /\ [x EXCEPT !.pc = "scan"] \in TickState
BY DEF TickState

\* An abort changes no executor's attempt, so tasks keep their executors.
LEMMA AbortKeepsExecutors ==
  ASSUME TypeInv, NEW h \in Hosts, NEW S, exec' = Abort(h, S), UNCHANGED task
  PROVE  exec' \in ExecTable /\ TaskHasExecutor'
<1>1. exec' \in ExecTable
      BY AbortType DEF TypeInv, TypeOK
<1>2. ASSUME NEW k \in Hosts, NEW r \in Runs
      PROVE  exec'[k][r].attempt = exec[k][r].attempt
  <2>1. exec[k][r] \in Executor /\ exec[h][r] \in Executor
        BY DEF TypeInv, TypeOK, ExecTable
  <2>2. [exec[h][r] EXCEPT !.aborted = TRUE].attempt = exec[h][r].attempt
        BY <2>1 DEF Executor
  <2> QED
      BY <2>2 DEF Abort, TypeInv, TypeOK, ExecTable
<1> QED
    BY <1>1, <1>2 DEF TypeInv, TaskHasExecutor

LEMMA ScanType ==
  ASSUME TypeInv, NEW h \in Hosts, Scan(h), UNCHANGED task
  PROVE  exec' \in ExecTable /\ tick' \in [Hosts -> TickState] /\ TaskHasExecutor'
<1>1. exec' \in ExecTable /\ TaskHasExecutor'
      BY AbortKeepsExecutors DEF Scan
<1>2. QueuedRuns \in SUBSET Runs /\ {TargetOf[r] : r \in LocalRuns(h)} \in SUBSET Targets
      BY DEF TypeInv, TypeOK, StoreTypeOK, QueuedRuns, LocalRuns, Targets
<1>3. [r \in Runs |-> IF r \in QueuedRuns THEN run[r] ELSE Absent] \in [Runs -> RunRecords]
      BY ConstantRecords DEF TypeInv, TypeOK, StoreTypeOK
<1>4. [pc |-> "dispatch", queue |-> QueuedRuns,
       seen |-> [r \in Runs |-> IF r \in QueuedRuns THEN run[r] ELSE Absent],
       busy |-> {TargetOf[r] : r \in LocalRuns(h)}] \in TickState
      BY <1>2, <1>3 DEF TickState
<1>5. tick' \in [Hosts -> TickState]
      BY <1>4, NoTickType DEF Scan, TypeInv, TypeOK
<1> QED
    BY <1>1, <1>5

LEMMA AdvanceType ==
  ASSUME TypeOK, NEW h \in Hosts, NEW r \in Runs, NEW busy \in SUBSET Targets,
         Advance(h, r, busy)
  PROVE  tick' \in [Hosts -> TickState]
<1>1. tick[h] \in TickState
      BY DEF TypeOK
<1>2. tick[h].queue \ {r} \in SUBSET Runs /\ tick[h].busy \cup busy \in SUBSET Targets
      BY <1>1 DEF TickState
<1>3. [tick[h] EXCEPT !.queue = tick[h].queue \ {r}, !.busy = tick[h].busy \cup busy]
        \in TickState
      BY <1>1, <1>2 DEF TickState
<1> QED
    BY <1>3, NoTickType DEF Advance, TypeOK

LEMMA TickClaimType ==
  ASSUME TypeInv, NEW h \in Hosts, TickClaim(h)
  PROVE  TypeInv'
<1>1. CASE Claim(h) = "busy"
  <2>1. exec' = Abort(h, Runs) /\ UNCHANGED <<lease, tick>>
        BY <1>1 DEF TickClaim
  <2>2. exec' \in ExecTable /\ TaskHasExecutor'
        BY <2>1, AbortKeepsExecutors DEF TickClaim
  <2> QED
      BY <2>1, <2>2 DEF TickClaim, TypeInv, TypeOK, StoreTypeOK
<1>2. CASE Claim(h) = "owner"
  <2>1. lease' = [owner |-> h, live |-> TRUE] /\ Scan(h)
        BY <1>2 DEF TickClaim
  <2>2. exec' \in ExecTable /\ tick' \in [Hosts -> TickState] /\ TaskHasExecutor'
        BY <2>1, ScanType DEF TickClaim
  <2> QED
      BY <2>1, <2>2 DEF TickClaim, TypeInv, TypeOK, StoreTypeOK
<1>3. CASE Claim(h) = "acquired"
  <2>1. /\ lease' = [owner |-> h, live |-> TRUE]
        /\ tick' = [tick EXCEPT ![h].pc = "recover"]
        /\ UNCHANGED exec
        BY <1>3 DEF TickClaim
  <2>2. tick[h] \in TickState
        BY DEF TypeInv, TypeOK
  <2>3. tick' \in [Hosts -> TickState]
        BY <2>1, <2>2, TickStage DEF TypeInv, TypeOK
  <2> QED
      BY <2>1, <2>3 DEF TickClaim, TypeInv, TypeOK, StoreTypeOK, TaskHasExecutor
<1> QED
    BY <1>1, <1>2, <1>3 DEF Claim

LEMMA RecoverType ==
  ASSUME TypeInv, NEW h \in Hosts, Recover(h)
  PROVE  TypeInv'
<1> DEFINE orphans == {r \in active : run[r].state \in Executing}
           lost == {r \in orphans : Uncertain(r)}
<1>1. run' \in [Runs -> RunRecords]
  <2>1. ASSUME NEW r \in Runs
        PROVE  /\ run[r] \in RunRecords
               /\ [run[r] EXCEPT !.state = "interrupted", !.owner = NoHost, !.known = "no"]
                    \in RunRecords
               /\ [run[r] EXCEPT !.state = "queued", !.owner = NoHost] \in RunRecords
    <3>1. run[r] \in RunRecords
          BY DEF TypeInv, TypeOK, StoreTypeOK
    <3> QED
        BY <3>1, RecordUpdates DEF RunStates, ActiveStates
  <2>2. run' = [r \in Runs |->
          CASE r \in lost ->
                 [run[r] EXCEPT !.state = "interrupted", !.owner = NoHost, !.known = "no"]
            [] r \in orphans \ lost -> [run[r] EXCEPT !.state = "queued", !.owner = NoHost]
            [] OTHER -> run[r]]
        BY DEF Recover
  <2> HIDE DEF orphans, lost
  <2> QED
      BY <2>1, <2>2
<1>2. active' \subseteq Runs
      BY DEF Recover, TypeInv, TypeOK, StoreTypeOK
<1>3. asked' \in AskTable
      BY ExpireType DEF Recover, TypeInv, TypeOK, StoreTypeOK
<1>4. exec' \in ExecTable /\ TaskHasExecutor'
      BY AbortKeepsExecutors DEF Recover
<1>5. tick' \in [Hosts -> TickState]
  <2>1. tick[h] \in TickState
        BY DEF TypeInv, TypeOK
  <2> QED
      BY <2>1, TickStage DEF Recover, TypeInv, TypeOK
<1>6. UNCHANGED <<lease, results, turns, steering, host, task, calls, woken, expiries>>
      BY DEF Recover
<1> QED
    BY <1>1, <1>2, <1>3, <1>4, <1>5, <1>6 DEF TypeInv, TypeOK, StoreTypeOK

LEMMA TickScanType ==
  ASSUME TypeInv, NEW h \in Hosts, TickScan(h)
  PROVE  TypeInv'
<1>1. exec' \in ExecTable /\ tick' \in [Hosts -> TickState] /\ TaskHasExecutor'
      BY ScanType DEF TickScan
<1> QED
    BY <1>1 DEF TickScan, TypeInv, TypeOK, StoreTypeOK, store

LEMMA TickStartType ==
  ASSUME TypeInv, NEW h \in Hosts, NEW r \in Runs, TickStart(h, r)
  PROVE  TypeInv'
<1>1. tick[h] \in TickState /\ tick[h].seen[r] \in RunRecords
      BY DEF TypeInv, TypeOK, TickState
<1>2. [tick[h].seen[r] EXCEPT !.owner = h, !.state = "running"] \in RunRecords
      BY <1>1, RecordUpdates DEF RunStates, ActiveStates
<1>3. run' \in [Runs -> RunRecords]
      BY <1>2 DEF TickStart, TypeInv, TypeOK, StoreTypeOK
<1>4. tick[h].seen[r].attempt \in 0..MaxAttempt
      BY <1>1 DEF RunRecords
<1>5. [NoExec EXCEPT !.attempt = tick[h].seen[r].attempt] \in Executor
      BY <1>4, ConstantRecords DEF Executor
<1>6. exec' \in ExecTable
      BY <1>5, TableUpdates DEF TickStart, TypeInv
<1>7. task' \in TaskTable
      BY ConstantRecords DEF TickStart, TypeInv, TypeOK, TaskTable
<1>8. tick' \in [Hosts -> TickState]
  <2>1. {TargetOf[r]} \in SUBSET Targets
        BY DEF Targets
  <2> QED
      BY <2>1, AdvanceType DEF TickStart, TypeInv
<1>9. TaskHasExecutor'
  <2>1. ASSUME NEW k \in Hosts, NEW q \in Runs, NEW s \in Steps, task'[k][q][s].pc # "idle"
        PROVE  exec'[k][q].attempt # 0
    <3>1. k # h \/ q # r
          BY <2>1 DEF TickStart, NoTask, TypeInv, TypeOK, TaskTable
    <3>2. task'[k][q] = task[k][q] /\ exec'[k][q] = exec[k][q]
          BY <3>1 DEF TickStart, TypeInv, TypeOK, TaskTable, ExecTable
    <3> QED
        BY <2>1, <3>2 DEF TypeInv, TaskHasExecutor
  <2> QED
      BY <2>1 DEF TaskHasExecutor
<1>10. /\ UNCHANGED <<active, lease, results, turns, asked, steering, host, calls, expiries>>
       /\ woken' \subseteq woken \cup {r}
      BY DEF TickStart
<1> QED
    BY <1>3, <1>6, <1>7, <1>8, <1>9, <1>10 DEF TypeInv, TypeOK, StoreTypeOK

LEMMA TickSkipType ==
  ASSUME TypeInv, NEW h \in Hosts, NEW r \in Runs, TickSkip(h, r) \/ TickThrows(h, r)
  PROVE  TypeInv'
<1>1. tick' \in [Hosts -> TickState]
      BY AdvanceType, NoTickType DEF TickSkip, TickThrows, TypeInv, TypeOK
<1> QED
    BY <1>1 DEF TickSkip, TickThrows, TypeInv, TypeOK, StoreTypeOK, store, TaskHasExecutor

LEMMA TickType ==
  ASSUME TypeInv, NEW h \in Hosts, Tick(h)
  PROVE  TypeInv'
BY TickClaimType, RecoverType, TickScanType, TickStartType, TickSkipType DEF Tick

(***************************************************************************)
(* Executors.                                                              *)
(***************************************************************************)
\* Ending an executor ends its tasks.
LEMMA EndExecType ==
  ASSUME TypeInv, NEW h \in Hosts, NEW r \in Runs, EndExec(h, r)
  PROVE  exec' \in ExecTable /\ task' \in TaskTable /\ TaskHasExecutor'
<1>1. exec' \in ExecTable
      BY ConstantRecords, TableUpdates DEF EndExec, TypeInv
<1>2. task' \in TaskTable
      BY ConstantRecords DEF EndExec, TypeInv, TypeOK, TaskTable
<1>3. ASSUME NEW k \in Hosts, NEW q \in Runs, NEW s \in Steps, task'[k][q][s].pc # "idle"
      PROVE  exec'[k][q].attempt # 0
  <2>1. k # h \/ q # r
        BY <1>3 DEF EndExec, NoTask, TypeInv, TypeOK, TaskTable
  <2>2. task'[k][q] = task[k][q] /\ exec'[k][q] = exec[k][q]
        BY <2>1 DEF EndExec, TypeInv, TypeOK, TaskTable, ExecTable
  <2> QED
      BY <1>3, <2>2 DEF TypeInv, TaskHasExecutor
<1> QED
    BY <1>1, <1>2, <1>3 DEF TaskHasExecutor

\* The outcome of an engine is an outcome; a chat has its one step's.
LEMMA EngineOutcomeType ==
  ASSUME TypeInv, NEW h \in Hosts, NEW r \in Runs, EngineReturns(h, r)
  PROVE  EngineOutcome(h, r) \in Outcomes
<1>1. OutcomesOf(h, r) \subseteq Outcomes
  <2>1. ASSUME NEW s \in StepsOf[r] PROVE task[h][r][s].out \in Outcomes
    <3>1. s \in Steps
          BY StoreConstants
    <3>2. task[h][r][s] \in TaskState
          BY <3>1 DEF TypeInv, TypeOK, TaskTable
    <3> QED
        BY <3>2 DEF TaskState
  <2> QED
      BY <2>1 DEF OutcomesOf
<1>2. CASE KindOf[r] = "chat"
  <2>1. PICK s \in AgentSteps : StepsOf[r] = {s}
        BY <1>2, StoreConstants
  <2>2. task[h][r][s].out \in OutcomesOf(h, r)
        BY <1>2, <2>1 DEF EngineReturns, OutcomesOf
  <2> QED
      BY <1>1, <1>2, <2>2 DEF EngineOutcome
<1>3. CASE KindOf[r] # "chat"
      BY <1>3, ConstantRecords DEF EngineOutcome
<1> QED
    BY <1>2, <1>3

LEMMA EngineReturnsType ==
  ASSUME TypeInv, NEW h \in Hosts, NEW r \in Runs, EngineReturns(h, r)
  PROVE  TypeInv'
<1>1. exec[h][r] \in Executor
      BY DEF TypeInv, TypeOK, ExecTable
<1>2. [exec[h][r] EXCEPT !.result = EngineOutcome(h, r)] \in Executor
      BY <1>1, EngineOutcomeType DEF Executor
<1>3. exec' = [exec EXCEPT ![h][r] = [exec[h][r] EXCEPT !.result = EngineOutcome(h, r)]]
      BY DEF EngineReturns, TypeInv, TypeOK, ExecTable
<1>4. exec' \in ExecTable
      BY <1>2, <1>3, TableUpdates DEF TypeInv
<1>5. TaskHasExecutor'
      BY <1>1, <1>3 DEF EngineReturns, TypeInv, TypeOK, ExecTable, Executor, TaskHasExecutor
<1> QED
    BY <1>4, <1>5 DEF EngineReturns, TypeInv, TypeOK, StoreTypeOK, store

LEMMA AckSteeringType ==
  ASSUME TypeInv, NEW h \in Hosts, NEW r \in Runs, NEW read \in SUBSET Notes,
         AckSteering(h, r, read)
  PROVE  TypeInv'
BY DEF AckSteering, TypeInv, TypeOK, StoreTypeOK, local, TaskHasExecutor

\* What a settled run's record says is a run state.
LEMMA FinalStateType ==
  ASSUME NEW r \in Runs, NEW out \in Outcomes, out # NoOutcome
  PROVE  FinalState(r, out) \in RunStates /\ Flag(out.known) \in {"yes", "no"}
BY DEF FinalState, Flag, Outcomes, StepStatus, RunStates, ActiveStates

LEMMA SettleRunType ==
  ASSUME TypeInv, NEW h \in Hosts, NEW r \in Runs, SettleRun(h, r)
  PROVE  TypeInv'
<1>1. run[r] \in RunRecords
      BY DEF TypeInv, TypeOK, StoreTypeOK
<1>2. exec[h][r].result \in Outcomes /\ exec[h][r].result # NoOutcome
  <2>1. exec[h][r] \in Executor
        BY DEF TypeInv, TypeOK, ExecTable
  <2> QED
      BY <2>1 DEF Executor, SettleRun
<1>3. [run EXCEPT ![r].state = "queued", ![r].owner = NoHost] \in [Runs -> RunRecords]
  <2>1. [run[r] EXCEPT !.state = "queued", !.owner = NoHost] \in RunRecords
        BY <1>1, RecordUpdates DEF RunStates, ActiveStates
  <2> QED
      BY <2>1, TableUpdates DEF TypeInv, TypeOK, StoreTypeOK
<1>4. [run EXCEPT ![r].state = FinalState(r, exec[h][r].result),
                  ![r].known = Flag(exec[h][r].result.known)] \in [Runs -> RunRecords]
  <2>1. [run[r] EXCEPT !.state = FinalState(r, exec[h][r].result),
                       !.known = Flag(exec[h][r].result.known)] \in RunRecords
        BY <1>1, <1>2, FinalStateType, RecordUpdates
  <2> QED
      BY <2>1, TableUpdates DEF TypeInv, TypeOK, StoreTypeOK
<1>5. run' \in [Runs -> RunRecords]
      BY <1>3, <1>4 DEF SettleRun, TypeInv, TypeOK, StoreTypeOK
<1>6. asked' \in AskTable
      BY ExpireType DEF SettleRun, TypeInv, TypeOK, StoreTypeOK
<1>7. exec' \in ExecTable /\ task' \in TaskTable /\ TaskHasExecutor'
      BY EndExecType DEF SettleRun
<1>8. active' \subseteq Runs
      BY DEF SettleRun, TypeInv, TypeOK, StoreTypeOK
<1>9. UNCHANGED <<lease, results, turns, steering, host, tick, calls, woken, expiries>>
      BY DEF SettleRun
<1> QED
    BY <1>5, <1>6, <1>7, <1>8, <1>9 DEF TypeInv, TypeOK, StoreTypeOK

LEMMA FailRunType ==
  ASSUME TypeInv, NEW h \in Hosts, NEW r \in Runs, FailRun(h, r)
  PROVE  TypeInv'
<1>1. GiveUp(r) \in [Runs -> RunRecords]
  <2>1. run[r] \in RunRecords
        BY DEF TypeInv, TypeOK, StoreTypeOK
  <2>2. [run[r] EXCEPT !.state = "interrupted", !.known = "no"] \in RunRecords
        BY <2>1, RecordUpdates DEF RunStates, ActiveStates
  <2> QED
      BY <2>2, TableUpdates DEF GiveUp, TypeInv, TypeOK, StoreTypeOK
<1>2. run' \in [Runs -> RunRecords] /\ active' \subseteq Runs
      BY <1>1 DEF FailRun, TypeInv, TypeOK, StoreTypeOK
<1>3. asked' \in AskTable
      BY ExpireType DEF FailRun, TypeInv, TypeOK, StoreTypeOK
<1>4. exec' \in ExecTable /\ task' \in TaskTable /\ TaskHasExecutor'
      BY EndExecType DEF FailRun
<1>5. UNCHANGED <<lease, results, turns, steering, host, tick, calls, woken, expiries>>
      BY DEF FailRun
<1> QED
    BY <1>2, <1>3, <1>4, <1>5 DEF TypeInv, TypeOK, StoreTypeOK

(***************************************************************************)
(* Steps.                                                                  *)
(***************************************************************************)
\* A step that goes on within its executor.
LEMMA EndType ==
  ASSUME TypeInv, NEW h \in Hosts, NEW r \in Runs, NEW s \in Steps,
         NEW pc \in TaskPcs, NEW out \in Outcomes,
         End(h, r, s, pc, out), UNCHANGED exec, pc # "idle" => Executes(h, r)
  PROVE  task' \in TaskTable /\ TaskHasExecutor'
<1>1. [pc |-> pc, out |-> out] \in TaskState
      BY DEF TaskState
<1>2. task' \in TaskTable
      BY <1>1, TableUpdates DEF End, TypeInv
<1>3. ASSUME NEW k \in Hosts, NEW q \in Runs, NEW t \in Steps, task'[k][q][t].pc # "idle"
      PROVE  exec'[k][q].attempt # 0
  <2>1. CASE k = h /\ q = r /\ t = s
        BY <1>3, <2>1 DEF End, Executes, TypeInv, TypeOK, TaskTable
  <2>2. CASE ~(k = h /\ q = r /\ t = s)
    <3>1. task'[k][q][t] = task[k][q][t]
          BY <2>2 DEF End, TypeInv, TypeOK, TaskTable
    <3> QED
        BY <1>3, <3>1 DEF TypeInv, TaskHasExecutor
  <2> QED
      BY <2>1, <2>2
<1> QED
    BY <1>2, <1>3 DEF TaskHasExecutor

LEMMA GotoType ==
  ASSUME TypeInv, NEW h \in Hosts, NEW r \in Runs, NEW s \in Steps,
         NEW pc \in TaskPcs, Goto(h, r, s, pc), UNCHANGED exec, Executes(h, r)
  PROVE  task' \in TaskTable /\ TaskHasExecutor'
<1>1. task[h][r][s] \in TaskState
      BY DEF TypeInv, TypeOK, TaskTable
<1>2. [task[h][r][s] EXCEPT !.pc = pc] = [pc |-> pc, out |-> task[h][r][s].out]
      BY <1>1 DEF TaskState
<1>3. End(h, r, s, pc, task[h][r][s].out)
      BY <1>2 DEF Goto, End, TypeInv, TypeOK, TaskTable
<1>4. task[h][r][s].out \in Outcomes
      BY <1>1 DEF TaskState
<1> QED
    BY <1>3, <1>4, EndType

\* A started step has an executor, whose attempt is one.
LEMMA StartedExecutes ==
  ASSUME TypeInv, NEW h \in Hosts, NEW r \in Runs, NEW s \in Steps,
         task[h][r][s].pc # "idle" \/ Executes(h, r)
  PROVE  Executes(h, r) /\ exec[h][r].attempt \in Attempts
<1>1. exec[h][r] \in Executor
      BY DEF TypeInv, TypeOK, ExecTable
<1>2. exec[h][r].attempt # 0
      BY DEF TypeInv, TaskHasExecutor, Executes
<1> QED
    BY <1>1, <1>2, StoreConstants DEF Executor, Executes, Attempts

LEMMA StoredOutcomes ==
  ASSUME TypeInv, NEW h \in Hosts, NEW r \in Runs, NEW s \in Steps
  PROVE  results[r][s] \in Outcomes /\ task[h][r][s].out \in Outcomes
<1>1. task[h][r][s] \in TaskState
      BY DEF TypeInv, TypeOK, TaskTable
<1> QED
    BY <1>1 DEF TaskState, TypeInv, TypeOK, StoreTypeOK, ResultTable

LEMMA NotCalledType ==
  ASSUME NEW h, NEW r PROVE NotCalled(h, r) \in Outcomes
BY ConstantRecords DEF NotCalled

\* The steps that write nothing but their own task.
LEMMA LocalStepType ==
  ASSUME TypeInv, NEW h \in Hosts, NEW r \in Runs, NEW s \in Steps,
         \/ BeginStep(h, r, s) \/ AcquireRefused(h, r, s) \/ Acquired(h, r, s)
         \/ PrepareFails(h, r, s) \/ DispatchRefused(h, r, s)
         \/ \E out \in KernelOutcomes : CallEnds(h, r, s, out)
  PROVE  TypeInv'
<1> USE DEF TaskPcs
<1>1. Executes(h, r)
      BY StartedExecutes
      DEF BeginStep, MayStart, AcquireRefused, Acquired, PrepareFails, DispatchRefused,
          CallEnds, At
<1>2. UNCHANGED <<store, host, tick, exec, calls, woken, expiries>>
      BY DEF BeginStep, AcquireRefused, Acquired, PrepareFails, DispatchRefused, CallEnds
<1>3. task' \in TaskTable /\ TaskHasExecutor'
  <2>1. CASE BeginStep(h, r, s)
    <3>1. \/ End(h, r, s, "done", Unknown)
          \/ End(h, r, s, "done", results[r][s])
          \/ Goto(h, r, s, "acquire")
          BY <2>1 DEF BeginStep
    <3> QED
        BY <1>1, <1>2, <3>1, EndType, GotoType, StoredOutcomes, ConstantRecords
  <2>2. CASE AcquireRefused(h, r, s)
        BY <1>1, <1>2, <2>2, EndType, ConstantRecords DEF AcquireRefused
  <2>3. CASE Acquired(h, r, s)
    <3>1. \/ End(h, r, s, "ended", NotCalled(h, r))
          \/ End(h, r, s, "idle", NoOutcome)
          \/ End(h, r, s, "done", results[r][s])
          \/ Goto(h, r, s, "prepare")
          BY <2>3 DEF Acquired
    <3> QED
        BY <1>1, <1>2, <3>1, EndType, GotoType, NotCalledType, StoredOutcomes, ConstantRecords
  <2>4. CASE PrepareFails(h, r, s) \/ DispatchRefused(h, r, s)
        BY <1>1, <1>2, <2>4, EndType, NotCalledType DEF PrepareFails, DispatchRefused
  <2>5. ASSUME NEW out \in KernelOutcomes, CallEnds(h, r, s, out)
        PROVE  task' \in TaskTable /\ TaskHasExecutor'
    <3>1. out \in Outcomes
          BY HostConstants DEF Outcomes
    <3> QED
        BY <1>1, <1>2, <2>5, <3>1, EndType DEF CallEnds
  <2> QED
      BY <2>1, <2>2, <2>3, <2>4, <2>5
<1> QED
    BY <1>2, <1>3 DEF TypeInv, TypeOK, StoreTypeOK, store

LEMMA DispatchType ==
  ASSUME TypeInv, NEW h \in Hosts, NEW r \in Runs, NEW s \in Steps, Dispatch(h, r, s)
  PROVE  TypeInv'
<1>1. Executes(h, r) /\ exec[h][r].attempt \in Attempts
      BY StartedExecutes DEF Dispatch, At
<1>2. task' \in TaskTable /\ TaskHasExecutor'
      BY <1>1, GotoType DEF Dispatch, TaskPcs
<1>3. turns' \subseteq Hosts \X Runs \X Steps \X Attempts
      BY <1>1 DEF Dispatch, TypeInv, TypeOK, StoreTypeOK
<1>4. calls' \in [Runs -> [Steps -> Nat]]
      BY DEF Dispatch, TypeInv, TypeOK
<1> QED
    BY <1>2, <1>3, <1>4 DEF Dispatch, TypeInv, TypeOK, StoreTypeOK

LEMMA SettleStepType ==
  ASSUME TypeInv, NEW h \in Hosts, NEW r \in Runs, NEW s \in Steps, SettleStep(h, r, s)
  PROVE  TypeInv'
<1>1. task' \in TaskTable /\ TaskHasExecutor'
  <2>1. Executes(h, r)
        BY StartedExecutes DEF SettleStep, At
  <2> QED
      BY <2>1, GotoType DEF SettleStep, TaskPcs
<1>2. results' \in ResultTable
      BY StoredOutcomes, TableUpdates DEF SettleStep, TypeInv, TypeOK, StoreTypeOK
<1>3. turns' \subseteq turns
      BY DEF SettleStep
<1> QED
    BY <1>1, <1>2, <1>3 DEF SettleStep, TypeInv, TypeOK, StoreTypeOK

LEMMA SaveConfirmType ==
  ASSUME TypeInv, NEW h \in Hosts, NEW r \in Runs, NEW s \in Steps, SaveConfirm(h, r, s)
  PROVE  TypeInv'
<1>1. task' \in TaskTable /\ TaskHasExecutor'
  <2>1. Executes(h, r)
        BY StartedExecutes DEF SaveConfirm, At
  <2> QED
      BY <2>1, EndType, StoredOutcomes, ConstantRecords DEF SaveConfirm, TaskPcs
<1>2. results' \in ResultTable
      BY StoredOutcomes, TableUpdates DEF SaveConfirm, TypeInv, TypeOK, StoreTypeOK
<1> QED
    BY <1>1, <1>2 DEF SaveConfirm, TypeInv, TypeOK, StoreTypeOK

\* Opening and closing a question change one entry of the table and the run's state.
LEMMA OpenQuestionType ==
  ASSUME TypeInv, NEW h \in Hosts, NEW r \in Runs, NEW s \in Steps, NEW pc \in TaskPcs,
         OpenQuestion(h, r, s, pc), UNCHANGED exec, Executes(h, r)
  PROVE  /\ run' \in [Runs -> RunRecords] /\ asked' \in AskTable
         /\ task' \in TaskTable /\ TaskHasExecutor'
<1>1. [run[r] EXCEPT !.state = "waiting"] \in RunRecords
      BY RecordUpdates DEF TypeInv, TypeOK, StoreTypeOK, RunStates, ActiveStates
<1>2. run' \in [Runs -> RunRecords]
      BY <1>1, TableUpdates DEF OpenQuestion, TypeInv, TypeOK, StoreTypeOK
<1>3. asked' \in AskTable
      BY TableUpdates DEF OpenQuestion, AskStates, TypeInv
<1> QED
    BY <1>2, <1>3, GotoType DEF OpenQuestion

LEMMA CloseQuestionType ==
  ASSUME TypeInv, NEW h \in Hosts, NEW r \in Runs, NEW s \in Steps, CloseQuestion(h, r, s)
  PROVE  run' \in [Runs -> RunRecords] /\ asked' \in AskTable
<1>1. [run[r] EXCEPT !.state = "running"] \in RunRecords
      BY RecordUpdates DEF TypeInv, TypeOK, StoreTypeOK, RunStates, ActiveStates
<1>2. run' \in [Runs -> RunRecords]
      BY <1>1, TableUpdates DEF CloseQuestion, TypeInv, TypeOK, StoreTypeOK
<1>3. asked' \in AskTable
      BY TableUpdates DEF CloseQuestion, AskStates, TypeInv, TypeOK, StoreTypeOK
<1> QED
    BY <1>2, <1>3

LEMMA DecidedType == ASSUME NEW answer PROVE Decided(answer) \in Outcomes
BY ConstantRecords DEF Decided

LEMMA AskType ==
  ASSUME TypeInv, NEW h \in Hosts, NEW r \in Runs, NEW s \in Steps,
         Ask(h, r, s) \/ AskEnds(h, r, s)
  PROVE  TypeInv'
<1>1. Executes(h, r)
      BY StartedExecutes DEF Ask, AskEnds, At
<1>2. UNCHANGED <<active, lease, results, turns, steering, host, tick, exec, calls, woken, expiries>>
      BY DEF Ask, AskEnds
<1>3. /\ run' \in [Runs -> RunRecords] /\ asked' \in AskTable
      /\ task' \in TaskTable /\ TaskHasExecutor'
      BY <1>1, OpenQuestionType, CloseQuestionType, GotoType DEF Ask, AskEnds, TaskPcs
<1> QED
    BY <1>2, <1>3 DEF TypeInv, TypeOK, StoreTypeOK

LEMMA BeginConfirmType ==
  ASSUME TypeInv, NEW h \in Hosts, NEW r \in Runs, NEW s \in Steps, BeginConfirm(h, r, s)
  PROVE  TypeInv'
<1> USE DEF TaskPcs
<1>1. Executes(h, r)
      BY DEF BeginConfirm, MayStart
<1>2. UNCHANGED <<active, lease, results, turns, steering, host, tick, exec, calls, woken, expiries>>
      BY DEF BeginConfirm
<1>3. /\ run' \in [Runs -> RunRecords] /\ asked' \in AskTable
      /\ task' \in TaskTable /\ TaskHasExecutor'
  <2>1. CASE MustAsk(h, r, s)
        BY <1>1, <1>2, <2>1, OpenQuestionType DEF BeginConfirm
  <2>2. CASE ~MustAsk(h, r, s)
    <3>1. UNCHANGED <<asked, run>>
          BY <2>2 DEF BeginConfirm
    <3>2. \/ End(h, r, s, "done", results[r][s])
          \/ End(h, r, s, "done", Unknown)
          \/ End(h, r, s, "done", Stopped)
          \/ End(h, r, s, "ended", Decided(asked[r][s][exec[h][r].attempt]))
          BY <2>2 DEF BeginConfirm
    <3>3. task' \in TaskTable /\ TaskHasExecutor'
          BY <1>1, <1>2, <3>2, EndType, StoredOutcomes, DecidedType, ConstantRecords
    <3> QED
        BY <3>1, <3>3 DEF TypeInv, TypeOK, StoreTypeOK
  <2> QED
      BY <2>1, <2>2
<1> QED
    BY <1>2, <1>3 DEF TypeInv, TypeOK, StoreTypeOK

LEMMA ConfirmEndsType ==
  ASSUME TypeInv, NEW h \in Hosts, NEW r \in Runs, NEW s \in Steps, ConfirmEnds(h, r, s)
  PROVE  TypeInv'
<1>1. Executes(h, r)
      BY StartedExecutes DEF ConfirmEnds, At
<1>2. ConfirmOutcome(h, r, s) \in Outcomes
      BY ConstantRecords, DecidedType DEF ConfirmOutcome
<1>3. task' \in TaskTable /\ TaskHasExecutor'
      BY <1>1, <1>2, EndType DEF ConfirmEnds, TaskPcs
<1>4. run' \in [Runs -> RunRecords] /\ asked' \in AskTable
      BY CloseQuestionType DEF ConfirmEnds
<1> QED
    BY <1>3, <1>4 DEF ConfirmEnds, TypeInv, TypeOK, StoreTypeOK

LEMMA ExecuteType ==
  ASSUME TypeInv, NEW h \in Hosts, NEW r \in Runs, Execute(h, r)
  PROVE  TypeInv'
<1>1. ASSUME NEW s \in Steps, Step(h, r, s) PROVE TypeInv'
      BY <1>1, LocalStepType, DispatchType, SettleStepType, AskType, BeginConfirmType,
         ConfirmEndsType, SaveConfirmType
      DEF Step
<1> QED
    BY <1>1, AckSteeringType, EngineReturnsType, SettleRunType, FailRunType DEF Execute

(***************************************************************************)
(* Processes, shutdown, time.                                              *)
(***************************************************************************)
LEMMA StartStopType ==
  ASSUME TypeInv, NEW h \in Hosts, Start(h) \/ Stop(h)
  PROVE  TypeInv'
<1>1. UNCHANGED <<store, tick, exec, task, calls, woken, expiries>>
      BY DEF Start, Stop
<1>2. host' \in [Hosts -> {"new", "open", "stopping", "draining", "gone"}]
      BY DEF Start, Stop, TypeInv, TypeOK
<1> QED
    BY <1>1, <1>2 DEF TypeInv, TypeOK, StoreTypeOK, store, TaskHasExecutor

LEMMA CrashType ==
  ASSUME TypeInv, NEW h \in Hosts, Crash(h)
  PROVE  TypeInv'
<1>1. exec' \in ExecTable /\ task' \in TaskTable
      BY ConstantRecords DEF Crash, TypeInv, TypeOK, ExecTable, TaskTable
<1>2. tick' \in [Hosts -> TickState]
      BY NoTickType, TableUpdates DEF Crash, TypeInv, TypeOK
<1>3. TaskHasExecutor'
  <2>1. ASSUME NEW k \in Hosts, NEW q \in Runs, NEW s \in Steps, task'[k][q][s].pc # "idle"
        PROVE  exec'[k][q].attempt # 0
    <3>1. k # h
          BY <2>1 DEF Crash, NoTask, TypeInv, TypeOK, TaskTable
    <3>2. task'[k] = task[k] /\ exec'[k] = exec[k]
          BY <3>1 DEF Crash, TypeInv, TypeOK, TaskTable, ExecTable
    <3> QED
        BY <2>1, <3>2 DEF TypeInv, TaskHasExecutor
  <2> QED
      BY <2>1 DEF TaskHasExecutor
<1> QED
    BY <1>1, <1>2, <1>3 DEF Crash, TypeInv, TypeOK, StoreTypeOK, store

LEMMA InterruptType ==
  ASSUME TypeInv, NEW h \in Hosts, Interrupt(h)
  PROVE  TypeInv'
<1>1. run' \in [Runs -> RunRecords]
  <2>1. ASSUME NEW r \in Runs
        PROVE  /\ run[r] \in RunRecords
               /\ [run[r] EXCEPT !.state = "interrupted", !.known = "no"] \in RunRecords
    <3>1. run[r] \in RunRecords
          BY DEF TypeInv, TypeOK, StoreTypeOK
    <3> QED
        BY <3>1, RecordUpdates DEF RunStates, ActiveStates
  <2> QED
      BY <2>1 DEF Interrupt
<1>2. active' \subseteq Runs
      BY DEF Interrupt, TypeInv, TypeOK, StoreTypeOK
<1>3. asked' \in AskTable
      BY ExpireType DEF Interrupt, TypeInv, TypeOK, StoreTypeOK
<1>4. exec' \in ExecTable /\ TaskHasExecutor'
      BY AbortKeepsExecutors DEF Interrupt
<1>5. host' \in [Hosts -> {"new", "open", "stopping", "draining", "gone"}]
      BY DEF Interrupt, TypeInv, TypeOK
<1>6. UNCHANGED <<lease, results, turns, steering, tick, task, calls, woken, expiries>>
      BY DEF Interrupt
<1> QED
    BY <1>1, <1>2, <1>3, <1>4, <1>5, <1>6 DEF TypeInv, TypeOK, StoreTypeOK

LEMMA CloseType ==
  ASSUME TypeInv, NEW h \in Hosts, Close(h)
  PROVE  TypeInv'
BY DEF Close, TypeInv, TypeOK, StoreTypeOK, TaskHasExecutor

LEMMA LeaseExpiresType ==
  ASSUME TypeInv, LeaseExpires
  PROVE  TypeInv'
<1>1. expiries' \in 0..MaxExpiries
      BY HostConstants DEF LeaseExpires, TypeInv, TypeOK
<1>2. lease' \in [owner : Hosts \cup {NoHost}, live : BOOLEAN]
      BY DEF LeaseExpires, TypeInv, TypeOK, StoreTypeOK
<1> QED
    BY <1>1, <1>2 DEF LeaseExpires, TypeInv, TypeOK, StoreTypeOK, local, TaskHasExecutor

LEMMA NextType == TypeInv /\ [Next]_vars => TypeInv'
<1> SUFFICES ASSUME TypeInv, [Next]_vars PROVE TypeInv'
    OBVIOUS
<1>1. CASE Next
      BY <1>1, UserCommandType, TickType, ExecuteType, StartStopType, CrashType,
         InterruptType, CloseType, LeaseExpiresType
      DEF Next
<1>2. CASE UNCHANGED vars
      BY <1>2 DEF vars, store, local, TypeInv, TypeOK, StoreTypeOK, TaskHasExecutor
<1> QED
    BY <1>1, <1>2

LEMMA TypeInvAlways == Spec => []TypeInv
BY InitType, NextType, PTL DEF Spec

\* Every variable of the runtime keeps its type: in particular every turn record belongs
\* to an attempt of its run and every settled run is in one of the seven run states.
THEOREM TypeCorrect == Spec => []TypeOK
<1>1. TypeInv => TypeOK
      BY DEF TypeInv
<1> QED
    BY <1>1, TypeInvAlways, PTL

(***************************************************************************)
(* Answers and consent, for any number of Hosts, runs and steps.           *)
(*                                                                         *)
(* AnswerKept follows from the guards under which a question is opened,    *)
(* closed, expired and answered.  ConsentGiven needs more: the outcome     *)
(* that the engine is about to save is already covered by an answer        *)
(* (ConsentHeld), and a confirmation never goes through the states of a    *)
(* native call, whose outcome the kernel chooses (ConfirmKinds).           *)
(***************************************************************************)

(***************************************************************************)
(* Answers.                                                                *)
(***************************************************************************)
Kept == \A r \in Runs, s \in Steps, a \in Attempts :
          asked[r][s][a] \in Answers => asked'[r][s][a] = asked[r][s][a]

LEMMA ExpireKeeps ==
  ASSUME NEW S, asked' = Expire(S)
  PROVE  Kept
BY DEF Kept, Expire, Answers

LEMMA CommandKeeps ==
  ASSUME TypeInv, UserCommand
  PROVE  Kept
<1>1. CASE UNCHANGED asked
      BY <1>1 DEF Kept
<1>2. ASSUME NEW r \in Runs, NEW s \in Steps, NEW a \in Attempts, NEW d \in Answers,
             Answer(r, s, a, d)
      PROVE  Kept
      BY <1>2 DEF Answer, Kept, Answers, TypeInv, TypeOK, StoreTypeOK, AskTable
<1> QED
    BY <1>1, <1>2 DEF UserCommand, Command, Send, Cancel, Resume, Steer

LEMMA OpenQuestionKeeps ==
  ASSUME TypeInv, NEW h \in Hosts, NEW r \in Runs, NEW s \in Steps, NEW pc \in TaskPcs,
         OpenQuestion(h, r, s, pc), asked[r][s][exec[h][r].attempt] \notin Answers
  PROVE  Kept
BY DEF OpenQuestion, Kept, TypeInv, TypeOK, StoreTypeOK, AskTable

LEMMA CloseQuestionKeeps ==
  ASSUME TypeInv, NEW h \in Hosts, NEW r \in Runs, NEW s \in Steps, CloseQuestion(h, r, s)
  PROVE  Kept
<1>1. CASE UNCHANGED asked
      BY <1>1 DEF Kept
<1>2. CASE /\ asked' = [asked EXCEPT ![r][s][exec[h][r].attempt] = "expired"]
           /\ asked[r][s][exec[h][r].attempt] = "pending"
      BY <1>2 DEF Kept, Answers, TypeInv, TypeOK, StoreTypeOK, AskTable
<1> QED
    BY <1>1, <1>2 DEF CloseQuestion

LEMMA StepKeeps ==
  ASSUME TypeInv, NEW h \in Hosts, NEW r \in Runs, NEW s \in Steps, Step(h, r, s)
  PROVE  Kept
<1>1. CASE UNCHANGED asked
      BY <1>1 DEF Kept
<1>2. CASE Ask(h, r, s)
      BY <1>2, OpenQuestionKeeps DEF Ask, Answers, TaskPcs
<1>3. CASE BeginConfirm(h, r, s) /\ MustAsk(h, r, s)
      BY <1>3, OpenQuestionKeeps DEF BeginConfirm, MustAsk, TaskPcs
<1>4. CASE AskEnds(h, r, s) \/ ConfirmEnds(h, r, s)
      BY <1>4, CloseQuestionKeeps DEF AskEnds, ConfirmEnds
<1>5. CASE BeginConfirm(h, r, s) /\ ~MustAsk(h, r, s)
      BY <1>5 DEF BeginConfirm, Kept
<1>6. CASE \/ BeginStep(h, r, s) \/ AcquireRefused(h, r, s) \/ Acquired(h, r, s)
           \/ PrepareFails(h, r, s) \/ Dispatch(h, r, s) \/ DispatchRefused(h, r, s)
           \/ \E out \in KernelOutcomes : CallEnds(h, r, s, out)
           \/ SettleStep(h, r, s) \/ SaveConfirm(h, r, s)
      BY <1>1, <1>6
      DEF BeginStep, AcquireRefused, Acquired, PrepareFails, Dispatch, DispatchRefused,
          CallEnds, SettleStep, SaveConfirm, store
<1> QED
    BY <1>2, <1>3, <1>4, <1>5, <1>6 DEF Step

LEMMA ExecuteKeeps ==
  ASSUME TypeInv, NEW h \in Hosts, NEW r \in Runs, Execute(h, r)
  PROVE  Kept
<1>1. CASE UNCHANGED asked
      BY <1>1 DEF Kept
<1>2. CASE SettleRun(h, r) \/ FailRun(h, r)
      BY <1>1, <1>2, ExpireKeeps DEF SettleRun, FailRun
<1>3. CASE EngineReturns(h, r) \/ \E read \in SUBSET Notes : AckSteering(h, r, read)
      BY <1>1, <1>3 DEF EngineReturns, AckSteering, store
<1> QED
    BY <1>2, <1>3, StepKeeps DEF Execute

LEMMA NextKeeps ==
  ASSUME TypeInv, [Next]_vars
  PROVE  Kept
<1>1. CASE UNCHANGED asked
      BY <1>1 DEF Kept
<1>2. ASSUME NEW h \in Hosts, Tick(h) PROVE Kept
      BY <1>1, <1>2, ExpireKeeps
      DEF Tick, TickClaim, Recover, TickScan, TickStart, TickSkip, TickThrows, store
<1>3. ASSUME NEW h \in Hosts, Start(h) \/ Crash(h) \/ Stop(h) \/ Interrupt(h) \/ Close(h)
      PROVE  Kept
      BY <1>1, <1>3, ExpireKeeps DEF Start, Crash, Stop, Interrupt, Close, store
<1>4. CASE LeaseExpires \/ UNCHANGED vars
      BY <1>1, <1>4 DEF LeaseExpires, vars, store
<1> QED
    BY <1>2, <1>3, <1>4, CommandKeeps, ExecuteKeeps DEF Next

\* runtimeInteractions.ts and commandAdmission.ts (answer): once given, an answer stays
\* what it is in its attempt, through recoveries, repeated confirmations and stops.
THEOREM AnswerKeptAlways == Spec => AnswerKept
<1>1. TypeInv /\ [Next]_vars =>
        [\A r \in Runs, s \in Steps, a \in Attempts :
           asked[r][s][a] \in Answers => asked'[r][s][a] = asked[r][s][a]]_vars
      BY NextKeeps DEF Kept
<1> QED
    BY <1>1, TypeInvAlways, PTL DEF Spec, AnswerKept

(***************************************************************************)
(* Consent.                                                                *)
(***************************************************************************)
Allowed(r, s) == \E a \in Attempts : asked[r][s][a] = "allowed"

ConfirmKinds ==
  \A h \in Hosts, r \in Runs, s \in ConfirmSteps :
    task[h][r][s].pc \in {"idle", "confirm", "ended", "done"}

ConsentHeld ==
  \A h \in Hosts, r \in Runs, s \in ConfirmSteps :
    task[h][r][s].out.status = "succeeded" => Allowed(r, s)

ConsentInv == ConsentGiven /\ ConsentHeld /\ ConfirmKinds

LEMMA InitConsent == Init => ConsentInv
BY StoreConstants
DEF Init, StoreInit, ConsentInv, ConsentGiven, ConsentHeld, ConfirmKinds, NoOutcome, NoTask,
    Outcome, Steps

LEMMA AllowedStays ==
  ASSUME Kept, NEW r \in Runs, NEW s \in Steps, Allowed(r, s)
  PROVE  Allowed(r, s)'
BY DEF Kept, Allowed, Answers

\* Steps that leave confirmations alone, or forget them, preserve the invariant.
LEMMA ConsentFrame ==
  ASSUME ConsentInv, Kept,
         \A h \in Hosts, r \in Runs, s \in ConfirmSteps :
           task'[h][r][s] \in {task[h][r][s], NoTask},
         \A r \in Runs, s \in ConfirmSteps : results'[r][s] \in {results[r][s], NoOutcome}
  PROVE  ConsentInv'
<1>1. NoTask.pc = "idle" /\ NoTask.out.status = "none" /\ NoOutcome.status = "none"
      BY DEF NoTask, NoOutcome, Outcome
<1>2. \A r \in Runs, s \in ConfirmSteps : Allowed(r, s) => Allowed(r, s)'
      BY AllowedStays DEF Steps
<1>3. ConsentGiven'
      BY <1>1, <1>2 DEF ConsentInv, ConsentGiven, Allowed
<1>4. ConsentHeld'
      BY <1>1, <1>2 DEF ConsentInv, ConsentHeld
<1>5. ConfirmKinds'
      BY <1>1 DEF ConsentInv, ConfirmKinds
<1> QED
    BY <1>3, <1>4, <1>5 DEF ConsentInv

\* A step that changes one task, of an agent step, changes no confirmation.
LEMMA AgentTaskFrame ==
  ASSUME TypeInv, NEW h \in Hosts, NEW r \in Runs, NEW s \in AgentSteps,
         NEW pc, NEW out, End(h, r, s, pc, out) \/ Goto(h, r, s, pc)
  PROVE  \A k \in Hosts, q \in Runs, t \in ConfirmSteps : task'[k][q][t] = task[k][q][t]
<1>1. \A t \in ConfirmSteps : t # s /\ t \in Steps
      BY StoreConstants DEF Steps
<1>2. ASSUME NEW x, task' = [task EXCEPT ![h][r][s] = x]
      PROVE  \A k \in Hosts, q \in Runs, t \in ConfirmSteps : task'[k][q][t] = task[k][q][t]
      BY <1>1, <1>2 DEF TypeInv, TypeOK, TaskTable
<1>3. CASE End(h, r, s, pc, out)
      BY <1>2, <1>3 DEF End
<1>4. CASE Goto(h, r, s, pc)
      BY <1>2, <1>4 DEF Goto
<1> QED
    BY <1>3, <1>4

LEMMA AgentStepConsent ==
  ASSUME TypeInv, ConsentInv, Kept, NEW h \in Hosts, NEW r \in Runs, NEW s \in Steps,
         \/ BeginStep(h, r, s) \/ AcquireRefused(h, r, s) \/ Acquired(h, r, s)
         \/ PrepareFails(h, r, s) \/ Dispatch(h, r, s) \/ DispatchRefused(h, r, s)
         \/ \E out \in KernelOutcomes : CallEnds(h, r, s, out)
         \/ SettleStep(h, r, s) \/ Ask(h, r, s) \/ AskEnds(h, r, s)
  PROVE  ConsentInv'
<1>1. s \in AgentSteps
  <2>1. CASE s \in ConfirmSteps
    <3>1. task[h][r][s].pc \in {"idle", "confirm", "ended", "done"}
          BY <2>1 DEF ConsentInv, ConfirmKinds
    <3>2. s \notin AgentSteps
          BY <2>1, StoreConstants
    <3> QED
        BY <3>1, <3>2, HostConstants
        DEF BeginStep, AcquireRefused, Acquired, PrepareFails, Dispatch, DispatchRefused,
            CallEnds, SettleStep, Ask, AskEnds, At
  <2> QED
      BY <2>1 DEF Steps
<1>2. \E pc, out : End(h, r, s, pc, out) \/ Goto(h, r, s, pc)
  <2>1. CASE BeginStep(h, r, s)
        BY <2>1 DEF BeginStep
  <2>2. CASE Acquired(h, r, s)
        BY <2>2 DEF Acquired
  <2>3. CASE \/ AcquireRefused(h, r, s) \/ PrepareFails(h, r, s) \/ DispatchRefused(h, r, s)
             \/ \E out \in KernelOutcomes : CallEnds(h, r, s, out)
        BY <2>3 DEF AcquireRefused, PrepareFails, DispatchRefused, CallEnds
  <2>4. CASE Dispatch(h, r, s) \/ SettleStep(h, r, s) \/ Ask(h, r, s) \/ AskEnds(h, r, s)
        BY <2>4 DEF Dispatch, SettleStep, Ask, AskEnds, OpenQuestion
  <2> QED
      BY <2>1, <2>2, <2>3, <2>4
<1>3. \A q \in Runs, t \in ConfirmSteps : results'[q][t] = results[q][t]
  <2>1. CASE UNCHANGED results
        BY <2>1
  <2>2. CASE SettleStep(h, r, s)
        BY <1>1, <2>2, StoreConstants
        DEF SettleStep, Steps, TypeInv, TypeOK, StoreTypeOK, ResultTable
  <2> QED
      BY <2>1, <2>2
      DEF BeginStep, AcquireRefused, Acquired, PrepareFails, Dispatch, DispatchRefused,
          CallEnds, Ask, AskEnds, store
<1>4. \A k \in Hosts, q \in Runs, t \in ConfirmSteps : task'[k][q][t] = task[k][q][t]
      BY <1>1, <1>2, AgentTaskFrame
<1> QED
    BY <1>3, <1>4, ConsentFrame

\* A confirmation ends as passed only with an answer that allowed it.
LEMMA DecidedAllowed ==
  ASSUME TypeInv, NEW h \in Hosts, NEW r \in Runs, NEW s \in Steps, Executes(h, r),
         Decided(asked[r][s][exec[h][r].attempt]).status = "succeeded"
  PROVE  Allowed(r, s)
<1>1. asked[r][s][exec[h][r].attempt] = "allowed"
      BY DEF Decided, Outcome
<1> QED
    BY <1>1, StartedExecutes DEF Allowed

LEMMA ConfirmTaskConsent ==
  ASSUME TypeInv, ConsentInv, Kept, NEW h \in Hosts, NEW r \in Runs, NEW s \in ConfirmSteps,
         NEW pc \in {"idle", "confirm", "ended", "done"}, NEW out,
         End(h, r, s, pc, out), out.status = "succeeded" => Allowed(r, s)
  PROVE  ConsentHeld' /\ ConfirmKinds'
<1>1. \A k \in Hosts, q \in Runs, t \in ConfirmSteps :
        task'[k][q][t] = IF k = h /\ q = r /\ t = s THEN [pc |-> pc, out |-> out]
                         ELSE task[k][q][t]
      BY StoreConstants DEF End, Steps, TypeInv, TypeOK, TaskTable
<1>2. \A q \in Runs, t \in ConfirmSteps : Allowed(q, t) => Allowed(q, t)'
      BY AllowedStays DEF Steps
<1>3. ConsentHeld'
      BY <1>1, <1>2 DEF ConsentInv, ConsentHeld
<1>4. ConfirmKinds'
      BY <1>1 DEF ConsentInv, ConfirmKinds
<1> QED
    BY <1>3, <1>4

LEMMA StoredConsent ==
  ASSUME ConsentInv, Kept, UNCHANGED results
  PROVE  ConsentGiven'
<1>1. \A q \in Runs, t \in ConfirmSteps : Allowed(q, t) => Allowed(q, t)'
      BY AllowedStays DEF Steps
<1> QED
    BY <1>1 DEF ConsentInv, ConsentGiven, Allowed

LEMMA BeginConfirmConsent ==
  ASSUME TypeInv, ConsentInv, Kept, NEW h \in Hosts, NEW r \in Runs, NEW s \in Steps,
         BeginConfirm(h, r, s)
  PROVE  ConsentInv'
<1>1. s \in ConfirmSteps /\ Executes(h, r) /\ UNCHANGED results
      BY DEF BeginConfirm, MayStart
<1>2. CASE MustAsk(h, r, s)
  <2>1. Goto(h, r, s, "confirm")
        BY <1>2 DEF BeginConfirm, OpenQuestion
  <2>2. End(h, r, s, "confirm", task[h][r][s].out)
    <3>1. task[h][r][s] \in TaskState
          BY DEF TypeInv, TypeOK, TaskTable
    <3>2. [task[h][r][s] EXCEPT !.pc = "confirm"]
            = [pc |-> "confirm", out |-> task[h][r][s].out]
          BY <3>1 DEF TaskState
    <3> QED
        BY <2>1, <3>2 DEF Goto, End, TypeInv, TypeOK, TaskTable
  <2>3. task[h][r][s].out.status = "succeeded" => Allowed(r, s)
        BY <1>1 DEF ConsentInv, ConsentHeld
  <2> QED
      BY <1>1, <2>2, <2>3, ConfirmTaskConsent, StoredConsent DEF ConsentInv
<1>3. CASE ~MustAsk(h, r, s)
  <2>1. results[r][s].status = "succeeded" => Allowed(r, s)
        BY <1>1 DEF ConsentInv, ConsentGiven, Allowed
  <2>2. Unknown.status # "succeeded" /\ Stopped.status # "succeeded"
        BY DEF Unknown, Stopped, Outcome
  <2>3. \/ End(h, r, s, "done", results[r][s])
        \/ End(h, r, s, "done", Unknown)
        \/ End(h, r, s, "done", Stopped)
        \/ End(h, r, s, "ended", Decided(asked[r][s][exec[h][r].attempt]))
        BY <1>3 DEF BeginConfirm
  <2>4. ConsentHeld' /\ ConfirmKinds'
        BY <1>1, <2>1, <2>2, <2>3, DecidedAllowed, ConfirmTaskConsent
  <2> QED
      BY <1>1, <2>4, StoredConsent DEF ConsentInv
<1> QED
    BY <1>2, <1>3

LEMMA ConfirmEndsConsent ==
  ASSUME TypeInv, ConsentInv, Kept, NEW h \in Hosts, NEW r \in Runs, NEW s \in Steps,
         ConfirmEnds(h, r, s)
  PROVE  ConsentInv'
<1>1. Executes(h, r) /\ UNCHANGED results
      BY StartedExecutes DEF ConfirmEnds, At
<1>2. ConfirmOutcome(h, r, s).status = "succeeded" => Allowed(r, s)
  <2>1. Unknown.status # "succeeded" /\ Stopped.status # "succeeded"
        BY DEF Unknown, Stopped, Outcome
  <2> QED
      BY <1>1, <2>1, DecidedAllowed DEF ConfirmOutcome
<1>3. End(h, r, s, "ended", ConfirmOutcome(h, r, s))
      BY DEF ConfirmEnds
<1>4. CASE s \in ConfirmSteps
      BY <1>1, <1>2, <1>3, <1>4, ConfirmTaskConsent, StoredConsent DEF ConsentInv
<1>5. CASE s \in AgentSteps
      BY <1>1, <1>3, <1>5, AgentTaskFrame, ConsentFrame
<1> QED
    BY <1>4, <1>5 DEF Steps

LEMMA SaveConfirmConsent ==
  ASSUME TypeInv, ConsentInv, Kept, NEW h \in Hosts, NEW r \in Runs, NEW s \in Steps,
         SaveConfirm(h, r, s)
  PROVE  ConsentInv'
<1>1. s \in ConfirmSteps /\ UNCHANGED asked
      BY DEF SaveConfirm
<1>2. task[h][r][s].out.status = "succeeded" => Allowed(r, s)
      BY <1>1 DEF ConsentInv, ConsentHeld
<1>3. Unknown.status # "succeeded"
      BY DEF Unknown, Outcome
<1>4. End(h, r, s, "done", task[h][r][s].out) \/ End(h, r, s, "done", Unknown)
      BY DEF SaveConfirm
<1>5. ConsentHeld' /\ ConfirmKinds'
      BY <1>1, <1>2, <1>3, <1>4, ConfirmTaskConsent
<1>6. ConsentGiven'
  <2>1. CASE UNCHANGED results
        BY <2>1, StoredConsent
  <2>2. CASE results' = [results EXCEPT ![r][s] = task[h][r][s].out]
    <3>1. \A q \in Runs, t \in ConfirmSteps :
            results'[q][t] = IF q = r /\ t = s THEN task[h][r][s].out ELSE results[q][t]
          BY <2>2, StoreConstants DEF Steps, TypeInv, TypeOK, StoreTypeOK, ResultTable
    <3>2. \A q \in Runs, t \in ConfirmSteps : Allowed(q, t) => Allowed(q, t)'
          BY <1>1 DEF Allowed
    <3> QED
        BY <1>2, <3>1, <3>2 DEF ConsentInv, ConsentGiven, Allowed
  <2> QED
      BY <2>1, <2>2 DEF SaveConfirm
<1> QED
    BY <1>5, <1>6 DEF ConsentInv

\* Whatever resets executors forgets their tasks.
LEMMA EndExecConsent ==
  ASSUME TypeInv, ConsentInv, Kept, NEW h \in Hosts, NEW r \in Runs,
         EndExec(h, r), UNCHANGED results
  PROVE  ConsentInv'
<1>1. \A k \in Hosts, q \in Runs, t \in ConfirmSteps :
        task'[k][q][t] \in {task[k][q][t], NoTask}
      BY DEF EndExec, Steps, TypeInv, TypeOK, TaskTable
<1> QED
    BY <1>1, ConsentFrame

LEMMA ExecuteConsent ==
  ASSUME TypeInv, ConsentInv, Kept, NEW h \in Hosts, NEW r \in Runs, Execute(h, r)
  PROVE  ConsentInv'
<1>1. ASSUME NEW s \in Steps, Step(h, r, s) PROVE ConsentInv'
      BY <1>1, AgentStepConsent, BeginConfirmConsent, ConfirmEndsConsent, SaveConfirmConsent
      DEF Step
<1>2. CASE SettleRun(h, r) \/ FailRun(h, r)
      BY <1>2, EndExecConsent DEF SettleRun, FailRun
<1>3. CASE EngineReturns(h, r) \/ \E read \in SUBSET Notes : AckSteering(h, r, read)
  <2>1. UNCHANGED <<results, task>>
        BY <1>3 DEF EngineReturns, AckSteering, store, local
  <2> QED
      BY <2>1, ConsentFrame
<1> QED
    BY <1>1, <1>2, <1>3 DEF Execute

LEMMA CommandConsent ==
  ASSUME TypeInv, ConsentInv, Kept, UserCommand
  PROVE  ConsentInv'
<1>1. UNCHANGED task
      BY DEF UserCommand, local
<1>2. \A r \in Runs, s \in ConfirmSteps : results'[r][s] \in {results[r][s], NoOutcome}
  <2>1. CASE UNCHANGED results
        BY <2>1
  <2>2. ASSUME NEW q \in Runs, NEW confirmed \in BOOLEAN, Resume(q, confirmed)
        PROVE  \A r \in Runs, s \in ConfirmSteps : results'[r][s] \in {results[r][s], NoOutcome}
        BY <2>2 DEF Resume, Steps, TypeInv, TypeOK, StoreTypeOK, ResultTable
  <2> QED
      BY <2>1, <2>2 DEF UserCommand, Command, Send, Cancel, Steer, Answer
<1> QED
    BY <1>1, <1>2, ConsentFrame

LEMMA TickConsent ==
  ASSUME TypeInv, ConsentInv, Kept, NEW h \in Hosts, Tick(h)
  PROVE  ConsentInv'
<1>1. UNCHANGED results
      BY DEF Tick, TickClaim, Recover, TickScan, TickStart, TickSkip, TickThrows, store
<1>2. \A k \in Hosts, q \in Runs, t \in ConfirmSteps :
        task'[k][q][t] \in {task[k][q][t], NoTask}
  <2>1. CASE UNCHANGED task
        BY <2>1
  <2>2. ASSUME NEW r \in Runs, TickStart(h, r)
        PROVE  \A k \in Hosts, q \in Runs, t \in ConfirmSteps :
                 task'[k][q][t] \in {task[k][q][t], NoTask}
        BY <2>2 DEF TickStart, Steps, TypeInv, TypeOK, TaskTable
  <2> QED
      BY <2>1, <2>2 DEF Tick, TickClaim, Recover, TickScan, TickSkip, TickThrows
<1> QED
    BY <1>1, <1>2, ConsentFrame

LEMMA ProcessConsent ==
  ASSUME TypeInv, ConsentInv, Kept,
         \/ \E h \in Hosts : Start(h) \/ Crash(h) \/ Stop(h) \/ Interrupt(h) \/ Close(h)
         \/ LeaseExpires
         \/ UNCHANGED vars
  PROVE  ConsentInv'
<1>1. UNCHANGED results
      BY DEF Start, Crash, Stop, Interrupt, Close, LeaseExpires, vars, store
<1>2. \A k \in Hosts, q \in Runs, t \in ConfirmSteps :
        task'[k][q][t] \in {task[k][q][t], NoTask}
  <2>1. CASE UNCHANGED task
        BY <2>1
  <2>2. ASSUME NEW h \in Hosts, Crash(h)
        PROVE  \A k \in Hosts, q \in Runs, t \in ConfirmSteps :
                 task'[k][q][t] \in {task[k][q][t], NoTask}
        BY <2>2 DEF Crash, Steps, TypeInv, TypeOK, TaskTable
  <2> QED
      BY <2>1, <2>2 DEF Start, Stop, Interrupt, Close, LeaseExpires, vars, local
<1> QED
    BY <1>1, <1>2, ConsentFrame

LEMMA NextConsent == TypeInv /\ ConsentInv /\ [Next]_vars => ConsentInv'
<1> SUFFICES ASSUME TypeInv, ConsentInv, [Next]_vars PROVE ConsentInv'
    OBVIOUS
<1>1. Kept
      BY NextKeeps
<1> QED
    BY <1>1, CommandConsent, TickConsent, ExecuteConsent, ProcessConsent DEF Next

\* runExecutor.ts (confirm) and runtimeInteractions.ts: a confirmation step is stored as
\* passed only if the user allowed it; no stop, expiry or change of owner passes it.
THEOREM ConsentGivenAlways == Spec => []ConsentGiven
<1>1. Init => ConsentInv
      BY InitConsent
<1>2. TypeInv /\ ConsentInv /\ [Next]_vars => ConsentInv'
      BY NextConsent
<1>3. ConsentInv => ConsentGiven
      BY DEF ConsentInv
<1> QED
    BY <1>1, <1>2, <1>3, TypeInvAlways, PTL DEF Spec

=============================================================================
