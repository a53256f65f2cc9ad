--------------------------- MODULE StudioCalls_proofs ---------------------------
(***************************************************************************)
(* Calls, questions and steering messages of the runtime, for any number   *)
(* of Hosts, runs and steps, and whether or not commands are committed     *)
(* while another Host scans the queue.                                     *)
(*                                                                         *)
(* QuestionsSettled is inductive by itself.  SteeringRead needs to know    *)
(* that an engine of a task never ends as "skipped".  AtMostOneCall is far *)
(* from inductive: that a step which is about to call its kernel was not   *)
(* called before rests on how executors, turn records and results hang     *)
(* together through takeovers, late results and retries (CallInv).         *)
(***************************************************************************)
EXTENDS StudioHost_proofs

(***************************************************************************)
(* What each step does to the stored records.                              *)
(***************************************************************************)
\* The runs a recovery finds executing, and those it cannot requeue.
Orphans == {r \in active : run[r].state \in Executing}
LostRuns == {r \in Orphans : Uncertain(r)}

LEMMA CancelRecords ==
  ASSUME TypeInv, NEW r \in Runs, Cancel(r), NEW q \in Runs
  PROVE  \/ /\ run[q].state = "queued" /\ run'[q].state = "cancelled" /\ run'[q].known = "yes"
            /\ run'[q].attempt = run[q].attempt /\ run'[q].owner = run[q].owner
            /\ q \notin active'
         \/ /\ run'[q].state = run[q].state /\ run'[q].attempt = run[q].attempt
            /\ run'[q].owner = run[q].owner /\ run'[q].known = run[q].known
            /\ run'[q] # run[q] => q = r
            /\ q \in active' <=> q \in active
<1>1. run[q] \in RunRecords
      BY DEF TypeInv, TypeOK, StoreTypeOK
<1>2. CASE q \in Withdrawn(r)
  <2>1. run'[q] = [run[q] EXCEPT !.state = "cancelled", !.known = "yes", !.cancel = TRUE]
        BY <1>2 DEF Cancel
  <2>2. run[q].state = "queued" /\ q \notin active'
        BY <1>2 DEF Cancel, Withdrawn
  <2> QED
      BY <1>1, <2>1, <2>2 DEF RunRecords
<1>3. CASE q \notin Withdrawn(r)
  <2>1. run'[q] = IF q = r THEN [run[q] EXCEPT !.cancel = TRUE] ELSE run[q]
        BY <1>3 DEF Cancel
  <2>2. q \in active' <=> q \in active
        BY <1>3 DEF Cancel
  <2> QED
      BY <1>1, <2>1, <2>2 DEF RunRecords
<1> QED
    BY <1>2, <1>3

LEMMA RecoverRecords ==
  ASSUME TypeInv, NEW h \in Hosts, Recover(h), NEW r \in Runs
  PROVE  /\ run'[r].attempt = run[r].attempt /\ run'[r].cancel = run[r].cancel
         /\ r \notin Orphans => run'[r] = run[r]
         /\ r \in Orphans => run'[r].owner = NoHost
         /\ r \in Orphans \ LostRuns => run'[r].state = "queued" /\ run'[r].known = run[r].known
         /\ r \in LostRuns => run'[r].state = "interrupted" /\ run'[r].known = "no"
<1>1. run[r] \in RunRecords
      BY DEF TypeInv, TypeOK, StoreTypeOK
<1>2. run'[r] =
        CASE r \in LostRuns ->
               [run[r] EXCEPT !.state = "interrupted", !.owner = NoHost, !.known = "no"]
          [] r \in Orphans \ LostRuns -> [run[r] EXCEPT !.state = "queued", !.owner = NoHost]
          [] OTHER -> run[r]
      BY DEF Recover, LostRuns, Orphans
<1>3. r \in LostRuns => r \in Orphans
      BY DEF LostRuns
<1> QED
    BY <1>1, <1>2, <1>3 DEF RunRecords

LEMMA StartRecords ==
  ASSUME TypeInv, NEW h \in Hosts, NEW r \in Runs, TickStart(h, r)
  PROVE  /\ run'[r].state = "running" /\ run'[r].owner = h
         /\ run'[r].attempt = tick[h].seen[r].attempt
         /\ \A q \in Runs : q # r => run'[q] = run[q]
<1>1. tick[h].seen[r] \in RunRecords
      BY DEF TypeInv, TypeOK, TickState
<1> QED
    BY <1>1 DEF TickStart, RunRecords, TypeInv, TypeOK, StoreTypeOK

\* What the settling transaction of h finds: the run is still its own, and has to go on
\* for late steering messages.
Settles(h, r) == Current(h, r, exec[h][r].attempt)
Requeues(h, r) == Settles(h, r) /\ LateSteering(r, exec[h][r].result)

LEMMA SettleRecords ==
  ASSUME TypeInv, NEW h \in Hosts, NEW r \in Runs, SettleRun(h, r)
  PROVE  /\ \A q \in Runs : q # r => run'[q] = run[q]
         /\ run'[r].attempt = run[r].attempt
         /\ ~Settles(h, r) => run'[r] = run[r] /\ UNCHANGED <<active, asked>>
         /\ Requeues(h, r) =>
              /\ run'[r].state = "queued" /\ run'[r].owner = NoHost
              /\ run'[r].known = run[r].known /\ UNCHANGED <<active, asked>>
         /\ Settles(h, r) /\ ~Requeues(h, r) =>
              /\ run'[r].state = FinalState(r, exec[h][r].result)
              /\ run'[r].owner = run[r].owner
              /\ run'[r].known = Flag(exec[h][r].result.known)
              /\ active' = active \ {r} /\ asked' = Expire({r})
<1>1. run[r] \in RunRecords /\ run \in [Runs -> RunRecords]
      BY DEF TypeInv, TypeOK, StoreTypeOK
<1>2. CASE ~Settles(h, r)
  <2>1. run' = run /\ UNCHANGED <<active, asked>>
        BY <1>2 DEF SettleRun, Settles
  <2> QED
      BY <1>2, <2>1 DEF Requeues
<1>3. CASE Requeues(h, r)
  <2>1. run' = [run EXCEPT ![r].state = "queued", ![r].owner = NoHost]
        /\ UNCHANGED <<active, asked>>
        BY <1>3 DEF SettleRun, Requeues, Settles
  <2>2. Settles(h, r)
        BY <1>3 DEF Requeues
  <2> QED
      BY <1>1, <1>3, <2>1, <2>2 DEF RunRecords
<1>4. CASE Settles(h, r) /\ ~Requeues(h, r)
  <2>1. /\ run' = [run EXCEPT ![r].state = FinalState(r, exec[h][r].result),
                              ![r].known = Flag(exec[h][r].result.known)]
        /\ active' = active \ {r} /\ asked' = Expire({r})
        BY <1>4 DEF SettleRun, Requeues, Settles
  <2> QED
      BY <1>1, <1>4, <2>1 DEF RunRecords
<1> QED
    BY <1>2, <1>3, <1>4

\* FailRun gives up on the run of h, or changes nothing that is stored.
LEMMA FailRecords ==
  ASSUME TypeInv, NEW h \in Hosts, NEW r \in Runs, FailRun(h, r)
  PROVE  /\ \A q \in Runs : q # r => run'[q] = run[q]
         /\ run'[r].attempt = run[r].attempt /\ run'[r].owner = run[r].owner
         /\ \/ run'[r] = run[r] /\ UNCHANGED <<active, asked>>
               /\ ~(/\ host[h] = "open" /\ Owns(h) /\ run[r].owner = h
                    /\ run[r].attempt = exec[h][r].attempt /\ run[r].state \in ActiveStates)
            \/ /\ run'[r].state = "interrupted" /\ run'[r].known = "no"
               /\ active' = active \ {r} /\ asked' = Expire({r})
               /\ host[h] = "open" /\ Owns(h) /\ run[r].owner = h
               /\ run[r].attempt = exec[h][r].attempt /\ run[r].state \in ActiveStates
<1> DEFINE fails == /\ host[h] = "open"
                    /\ Owns(h)
                    /\ run[r].owner = h
                    /\ run[r].attempt = exec[h][r].attempt
                    /\ run[r].state \in ActiveStates
<1>1. run[r] \in RunRecords /\ run \in [Runs -> RunRecords]
      BY DEF TypeInv, TypeOK, StoreTypeOK
<1>2. CASE ~fails
  <2>1. run' = run /\ UNCHANGED <<active, asked>>
        BY <1>2 DEF FailRun
  <2> QED
      BY <1>2, <2>1
<1>3. CASE fails
  <2>1. run' = [run EXCEPT ![r].state = "interrupted", ![r].known = "no"]
        /\ active' = active \ {r} /\ asked' = Expire({r})
        BY <1>3 DEF FailRun, GiveUp
  <2> QED
      BY <1>1, <1>3, <2>1 DEF RunRecords
<1> QED
    BY <1>2, <1>3

\* The runs that a shutdown of h cuts off.
Cut(h) == IF Owns(h) THEN {r \in LocalRuns(h) : run[r].state \in ActiveStates} ELSE {}

LEMMA InterruptRecords ==
  ASSUME TypeInv, NEW h \in Hosts, Interrupt(h), NEW r \in Runs
  PROVE  /\ run'[r].attempt = run[r].attempt /\ run'[r].owner = run[r].owner
         /\ r \in Cut(h) => run'[r].state = "interrupted" /\ run'[r].known = "no"
         /\ r \notin Cut(h) => run'[r] = run[r]
         /\ active' = active \ Cut(h)
<1>1. run[r] \in RunRecords
      BY DEF TypeInv, TypeOK, StoreTypeOK
<1>2. /\ run'[r] = IF r \in Cut(h)
                   THEN [run[r] EXCEPT !.state = "interrupted", !.known = "no"] ELSE run[r]
      /\ active' = active \ Cut(h)
      BY DEF Interrupt, Cut
<1> QED
    BY <1>1, <1>2 DEF RunRecords

\* Opening or closing a question moves the run between "running" and "waiting".
LEMMA QuestionRecords ==
  ASSUME TypeInv, NEW h \in Hosts, NEW r \in Runs, NEW s \in Steps,
         CloseQuestion(h, r, s) \/ \E pc : OpenQuestion(h, r, s, pc) /\ OwnedBy(h, r, FALSE)
  PROVE  /\ \A q \in Runs : q # r => run'[q] = run[q]
         /\ run'[r].attempt = run[r].attempt /\ run'[r].owner = run[r].owner
         /\ run'[r].cancel = run[r].cancel /\ run'[r].known = run[r].known
         /\ \/ run'[r] = run[r]
            \/ run[r].state \in Executing /\ run'[r].state \in Executing
<1>1. run[r] \in RunRecords /\ run \in [Runs -> RunRecords]
      BY DEF TypeInv, TypeOK, StoreTypeOK
<1>2. CASE UNCHANGED run
      BY <1>2
<1>3. CASE run' = [run EXCEPT ![r].state = "running"] /\ run[r].state = "waiting"
      BY <1>1, <1>3 DEF RunRecords, Executing
<1>4. CASE /\ run' = [run EXCEPT ![r].state = "waiting"]
           /\ run[r].state \in Executing
      BY <1>1, <1>4 DEF RunRecords, Executing
<1> QED
    BY <1>2, <1>3, <1>4 DEF CloseQuestion, OpenQuestion, OwnedBy, Owned

(***************************************************************************)
(* Questions.                                                              *)
(***************************************************************************)
\* A run whose state changes to an end other than "cancelled" is among those whose
\* questions expire; a question is opened only by a run that waits from then on.
LEMMA SettledFrame ==
  ASSUME QuestionsSettled,
         \A r \in Runs : PendingOf(r)' # {} =>
           \/ run'[r].state \in ActiveStates \cup {"cancelled"}
           \/ run'[r].state = run[r].state /\ PendingOf(r) # {}
  PROVE  QuestionsSettled'
BY DEF QuestionsSettled

\* Nothing of an expired run is pending, and expiring opens no question.
LEMMA ExpirePending ==
  ASSUME TypeInv, NEW S, asked' = Expire(S), NEW r \in Runs
  PROVE  PendingOf(r)' = IF r \in S THEN {} ELSE PendingOf(r)
BY DEF PendingOf, Expire, TypeInv, TypeOK, StoreTypeOK, AskTable

LEMMA SamePending ==
  ASSUME UNCHANGED asked, NEW r \in Runs
  PROVE  PendingOf(r)' = PendingOf(r)
BY DEF PendingOf

\* A step of one run that may open one of its questions leaves the others' alone.
LEMMA OthersPending ==
  ASSUME TypeInv, NEW r \in Runs, NEW s \in Steps, NEW a, NEW x,
         asked' = [asked EXCEPT ![r][s][a] = x], NEW q \in Runs, q # r
  PROVE  PendingOf(q)' = PendingOf(q)
BY DEF PendingOf, TypeInv, TypeOK, StoreTypeOK, AskTable

LEMMA CommandSettled ==
  ASSUME TypeInv, QuestionsSettled, UserCommand
  PROVE  QuestionsSettled'
<1> USE DEF ActiveStates
<1>1. ASSUME NEW r \in Runs, Send(r) PROVE QuestionsSettled'
  <2>1. run' = [run EXCEPT ![r] = Queued(1)] /\ UNCHANGED asked
        BY <1>1 DEF Send
  <2> QED
      BY <2>1, SamePending, SettledFrame DEF Queued, TypeInv, TypeOK, StoreTypeOK
<1>2. ASSUME NEW r \in Runs, Cancel(r) PROVE QuestionsSettled'
  <2>1. \A q \in Runs : run'[q].state \in {run[q].state, "cancelled"}
    <3>1. \A q \in Runs : run[q] \in RunRecords
          BY DEF TypeInv, TypeOK, StoreTypeOK
    <3> QED
        BY <1>2, <3>1 DEF Cancel, RunRecords
  <2>2. UNCHANGED asked
        BY <1>2 DEF Cancel
  <2> QED
      BY <2>1, <2>2, SamePending, SettledFrame
<1>3. ASSUME NEW r \in Runs, NEW confirmed \in BOOLEAN, Resume(r, confirmed)
      PROVE  QuestionsSettled'
  <2>1. run' = [run EXCEPT ![r] = Queued(run[r].attempt + 1)] /\ UNCHANGED asked
        BY <1>3 DEF Resume
  <2> QED
      BY <2>1, SamePending, SettledFrame DEF Queued, TypeInv, TypeOK, StoreTypeOK
<1>4. ASSUME NEW r \in Runs, NEW s \in Steps, NEW a \in Attempts, NEW d \in Answers,
             Answer(r, s, a, d)
      PROVE  QuestionsSettled'
  <2>1. run[r].state \in ActiveStates /\ UNCHANGED run
        BY <1>4 DEF Answer
  <2>2. \A q \in Runs : q # r => PendingOf(q)' = PendingOf(q)
        BY <1>4, OthersPending DEF Answer
  <2> QED
      BY <2>1, <2>2, SettledFrame
<1>5. ASSUME NEW r \in Runs, NEW n \in Notes, Steer(r, n) PROVE QuestionsSettled'
      BY <1>5, SamePending, SettledFrame DEF Steer
<1> QED
    BY <1>1, <1>2, <1>3, <1>4, <1>5 DEF UserCommand, Command

LEMMA TickSettled ==
  ASSUME TypeInv, QuestionsSettled, NEW h \in Hosts, Tick(h)
  PROVE  QuestionsSettled'
<1>1. CASE Recover(h)
  <2> DEFINE orphans == {r \in active : run[r].state \in Executing}
             lost == {r \in orphans : Uncertain(r)}
  <2>1. asked' = Expire(lost)
        BY <1>1 DEF Recover
  <2>2. \A r \in Runs : r \notin lost =>
          run'[r].state = run[r].state \/ run'[r].state = "queued"
    <3>1. \A r \in Runs : run[r] \in RunRecords
          BY DEF TypeInv, TypeOK, StoreTypeOK
    <3>2. run' = [r \in Runs |->
            CASE r \in lost ->
                   [run[r] EXCEPT !.state = "interrupted", !.owner = NoHost, !.known = "no"]
              [] r \in orphans \ lost -> [run[r] EXCEPT !.state = "queued", !.owner = NoHost]
              [] OTHER -> run[r]]
          BY <1>1 DEF Recover
    <3> HIDE DEF orphans, lost
    <3> QED
        BY <3>1, <3>2 DEF RunRecords
  <2> HIDE DEF orphans, lost
  <2> QED
      BY <2>1, <2>2, ExpirePending, SettledFrame DEF ActiveStates
<1>2. ASSUME NEW r \in Runs, TickStart(h, r) PROVE QuestionsSettled'
  <2>1. tick[h].seen[r] \in RunRecords
        BY DEF TypeInv, TypeOK, TickState
  <2>2. run'[r].state = "running" /\ \A q \in Runs : q # r => run'[q] = run[q]
        BY <1>2, <2>1 DEF TickStart, RunRecords, TypeInv, TypeOK, StoreTypeOK
  <2>3. UNCHANGED asked
        BY <1>2 DEF TickStart
  <2> QED
      BY <2>2, <2>3, SamePending, SettledFrame DEF ActiveStates
<1>3. CASE \/ TickClaim(h) \/ TickScan(h)
           \/ \E r \in Runs : TickSkip(h, r) \/ TickThrows(h, r)
  <2>1. UNCHANGED <<run, asked>>
        BY <1>3 DEF TickClaim, TickScan, TickSkip, TickThrows, store
  <2> QED
      BY <2>1, SamePending, SettledFrame
<1> QED
    BY <1>1, <1>2, <1>3 DEF Tick

LEMMA ExecuteSettled ==
  ASSUME TypeInv, QuestionsSettled, NEW h \in Hosts, NEW r \in Runs, Execute(h, r)
  PROVE  QuestionsSettled'
<1>1. CASE SettleRun(h, r)
  <2> DEFINE ends == Current(h, r, exec[h][r].attempt) /\ ~LateSteering(r, exec[h][r].result)
  <2>1. CASE ends
    <3>1. asked' = Expire({r}) /\ \A q \in Runs : q # r => run'[q] = run[q]
          BY <1>1, <2>1 DEF SettleRun, TypeInv, TypeOK, StoreTypeOK
    <3> QED
        BY <3>1, ExpirePending, SettledFrame
  <2>2. CASE ~ends
    <3>1. /\ UNCHANGED asked
          /\ \A q \in Runs : run'[q].state = run[q].state \/ run'[q].state = "queued"
      <4>1. \A q \in Runs : run[q] \in RunRecords
            BY DEF TypeInv, TypeOK, StoreTypeOK
      <4> QED
          BY <1>1, <2>2, <4>1 DEF SettleRun, RunRecords, TypeInv, TypeOK, StoreTypeOK
    <3> QED
        BY <3>1, SamePending, SettledFrame DEF ActiveStates
  <2> QED
      BY <2>1, <2>2
<1>2. CASE FailRun(h, r)
  <2>1. CASE asked' = Expire({r}) /\ run' = GiveUp(r)
    <3>1. \A q \in Runs : q # r => run'[q] = run[q]
          BY <2>1 DEF GiveUp, TypeInv, TypeOK, StoreTypeOK
    <3> QED
        BY <2>1, <3>1, ExpirePending, SettledFrame
  <2>2. CASE UNCHANGED <<run, asked>>
        BY <2>2, SamePending, SettledFrame
  <2> QED
      BY <1>2, <2>1, <2>2 DEF FailRun
<1>3. ASSUME NEW s \in Steps, NEW pc, OpenQuestion(h, r, s, pc) PROVE QuestionsSettled'
  <2>1. run[r] \in RunRecords
        BY DEF TypeInv, TypeOK, StoreTypeOK
  <2>2. run'[r].state = "waiting" /\ \A q \in Runs : q # r => run'[q] = run[q]
        BY <1>3, <2>1 DEF OpenQuestion, RunRecords, TypeInv, TypeOK, StoreTypeOK
  <2>3. \A q \in Runs : q # r => PendingOf(q)' = PendingOf(q)
        BY <1>3, OthersPending DEF OpenQuestion
  <2> QED
      BY <2>2, <2>3, SettledFrame DEF ActiveStates
<1>4. ASSUME NEW s \in Steps, CloseQuestion(h, r, s) PROVE QuestionsSettled'
  <2>1. \A q \in Runs : run'[q].state = run[q].state \/ run'[q].state = "running"
    <3>1. \A q \in Runs : run[q] \in RunRecords
          BY DEF TypeInv, TypeOK, StoreTypeOK
    <3> QED
        BY <1>4, <3>1 DEF CloseQuestion, RunRecords, TypeInv, TypeOK, StoreTypeOK
  <2>2. \A q \in Runs : PendingOf(q)' \subseteq PendingOf(q)
        BY <1>4 DEF CloseQuestion, PendingOf, TypeInv, TypeOK, StoreTypeOK, AskTable
  <2> QED
      BY <2>1, <2>2, SettledFrame DEF ActiveStates
<1>5. CASE UNCHANGED <<run, asked>>
      BY <1>5, SamePending, SettledFrame
<1>6. ASSUME NEW s \in Steps, Step(h, r, s) PROVE QuestionsSettled'
  <2>1. CASE Ask(h, r, s) \/ (BeginConfirm(h, r, s) /\ MustAsk(h, r, s))
        BY <1>3, <2>1 DEF Ask, BeginConfirm
  <2>2. CASE AskEnds(h, r, s) \/ ConfirmEnds(h, r, s)
        BY <1>4, <2>2 DEF AskEnds, ConfirmEnds
  <2>3. CASE \/ BeginStep(h, r, s) \/ AcquireRefused(h, r, s) \/ Acquired(h, r, s)
             \/ PrepareFails(h, r, s) \/ Dispatch(h, r, s) \/ DispatchRefused(h, r, s)
             \/ \E out \in KernelOutcomes : CallEnds(h, r, s, out)
             \/ SettleStep(h, r, s) \/ SaveConfirm(h, r, s)
             \/ (BeginConfirm(h, r, s) /\ ~MustAsk(h, r, s))
        BY <1>5, <2>3
        DEF BeginStep, AcquireRefused, Acquired, PrepareFails, Dispatch, DispatchRefused,
            CallEnds, SettleStep, SaveConfirm, BeginConfirm, store
  <2> QED
      BY <1>6, <2>1, <2>2, <2>3 DEF Step
<1>7. CASE EngineReturns(h, r) \/ \E read \in SUBSET Notes : AckSteering(h, r, read)
      BY <1>5, <1>7 DEF EngineReturns, AckSteering, store
<1> QED
    BY <1>1, <1>2, <1>6, <1>7 DEF Execute

LEMMA ProcessSettled ==
  ASSUME TypeInv, QuestionsSettled,
         \/ \E h \in Hosts : Start(h) \/ Crash(h) \/ Stop(h) \/ Interrupt(h) \/ Close(h)
         \/ LeaseExpires \/ UNCHANGED vars
  PROVE  QuestionsSettled'
<1>1. ASSUME NEW h \in Hosts, Interrupt(h) PROVE QuestionsSettled'
  <2> DEFINE cut == IF Owns(h) THEN {r \in LocalRuns(h) : run[r].state \in ActiveStates} ELSE {}
  <2>1. asked' = Expire(cut)
        BY <1>1 DEF Interrupt
  <2>2. \A r \in Runs : r \notin cut => run'[r] = run[r]
        BY <1>1 DEF Interrupt
  <2> HIDE DEF cut
  <2> QED
      BY <2>1, <2>2, ExpirePending, SettledFrame
<1>2. CASE UNCHANGED <<run, asked>>
      BY <1>2, SamePending, SettledFrame
<1> QED
    BY <1>1, <1>2 DEF Start, Crash, Stop, Close, LeaseExpires, vars, store

\* runtimeInteractions.ts (expireRunInteractions) and its callers: a run that has ended
\* asks nothing any more, unless it was withdrawn from the queue.
THEOREM QuestionsSettledAlways == Spec => []QuestionsSettled
<1>1. Init => QuestionsSettled
      BY DEF Init, StoreInit, QuestionsSettled, PendingOf
<1>2. TypeInv /\ QuestionsSettled /\ [Next]_vars => QuestionsSettled'
      BY CommandSettled, TickSettled, ExecuteSettled, ProcessSettled DEF Next
<1> QED
    BY <1>1, <1>2, TypeInvAlways, PTL DEF Spec

(***************************************************************************)
(* Steering messages.                                                      *)
(***************************************************************************)
\* The engine of a task combines the outcomes of its steps; it never says "skipped".
EngineEnds == \A h \in Hosts, r \in TaskRuns : exec[h][r].result.status # "skipped"

SteeringInv == SteeringRead /\ EngineEnds

LEMMA TaskEngineOutcome ==
  ASSUME NEW h \in Hosts, NEW r \in TaskRuns
  PROVE  EngineOutcome(h, r).status # "skipped"
<1>1. KindOf[r] # "chat"
      BY StoreConstants
<1>2. EngineOutcome(h, r) \in
        {Unknown, Stopped, Outcome("failed", TRUE), Outcome("succeeded", TRUE)}
      BY <1>1 DEF EngineOutcome
<1> QED
    BY <1>2 DEF Unknown, Stopped, Outcome

LEMMA SucceedsWhole ==
  ASSUME NEW r \in Runs, NEW out \in Outcomes, FinalState(r, out) = "succeeded"
  PROVE  ~run[r].cancel /\ out.status \in {"succeeded", "skipped"}
BY DEF FinalState, Outcomes, NoOutcome, Outcome, StepStatus

\* Executors keep their results, forget them, or get one from the engine.
LEMMA EngineEndsFrame ==
  ASSUME EngineEnds,
         \A h \in Hosts, r \in Runs :
           exec'[h][r].result \in {exec[h][r].result, NoOutcome, EngineOutcome(h, r)}
  PROVE  EngineEnds'
<1>1. NoOutcome.status # "skipped"
      BY DEF NoOutcome, Outcome
<1>2. TaskRuns \subseteq Runs
      BY StoreConstants
<1> QED
    BY <1>1, <1>2, TaskEngineOutcome DEF EngineEnds

LEMMA AbortKeepsResults ==
  ASSUME TypeInv, NEW h \in Hosts, NEW S, exec' = Abort(h, S), NEW k \in Hosts, NEW r \in Runs
  PROVE  exec'[k][r].result = exec[k][r].result /\ exec'[k][r].attempt = exec[k][r].attempt
<1>1. exec[k][r] \in Executor /\ exec[h][r] \in Executor
      BY DEF TypeInv, TypeOK, ExecTable
<1>2. [exec[h][r] EXCEPT !.aborted = TRUE].result = exec[h][r].result
      /\ [exec[h][r] EXCEPT !.aborted = TRUE].attempt = exec[h][r].attempt
      BY <1>1 DEF Executor
<1> QED
    BY <1>2 DEF Abort, TypeInv, TypeOK, ExecTable

LEMMA NextEngineEnds ==
  ASSUME TypeInv, EngineEnds, [Next]_vars
  PROVE  EngineEnds'
<1> DEFINE Results == \A k \in Hosts, q \in Runs :
             exec'[k][q].result \in {exec[k][q].result, NoOutcome, EngineOutcome(k, q)}
<1>1. CASE UNCHANGED exec
      BY <1>1, EngineEndsFrame
<1>2. ASSUME NEW h \in Hosts, NEW S, exec' = Abort(h, S) PROVE EngineEnds'
      BY <1>2, AbortKeepsResults, EngineEndsFrame
<1>3. ASSUME NEW h \in Hosts, NEW r \in Runs, NEW a,
             exec' = [exec EXCEPT ![h][r] = [NoExec EXCEPT !.attempt = a]]
      PROVE  EngineEnds'
  <2>1. [NoExec EXCEPT !.attempt = a].result = NoOutcome
        BY DEF NoExec
  <2>2. Results
        BY <1>3, <2>1 DEF TypeInv, TypeOK, ExecTable
  <2> QED
      BY <2>2, EngineEndsFrame
<1>4. ASSUME NEW h \in Hosts, NEW r \in Runs, EndExec(h, r) PROVE EngineEnds'
  <2>1. Results
        BY <1>4 DEF EndExec, NoExec, TypeInv, TypeOK, ExecTable
  <2> QED
      BY <2>1, EngineEndsFrame
<1>5. ASSUME NEW h \in Hosts, NEW r \in Runs, EngineReturns(h, r) PROVE EngineEnds'
  <2>1. exec[h][r] \in Executor
        BY DEF TypeInv, TypeOK, ExecTable
  <2>2. [exec[h][r] EXCEPT !.result = EngineOutcome(h, r)].result = EngineOutcome(h, r)
        BY <2>1 DEF Executor
  <2>3. Results
        BY <1>5, <2>2 DEF EngineReturns, TypeInv, TypeOK, ExecTable
  <2> QED
      BY <2>3, EngineEndsFrame
<1>6. ASSUME NEW h \in Hosts, Crash(h) PROVE EngineEnds'
  <2>1. Results
        BY <1>6 DEF Crash, NoExec, TypeInv, TypeOK, ExecTable
  <2> QED
      BY <2>1, EngineEndsFrame
<1>7. ASSUME NEW h \in Hosts, Tick(h) PROVE EngineEnds'
  <2>1. CASE TickClaim(h) \/ TickScan(h)
    <3>1. exec' = exec \/ \E S : exec' = Abort(h, S)
          BY <2>1 DEF TickClaim, TickScan, Scan, Claim
    <3> QED
        BY <1>1, <1>2, <3>1
  <2>2. ASSUME NEW r \in Runs, TickStart(h, r) PROVE EngineEnds'
        BY <1>3, <2>2 DEF TickStart
  <2>3. CASE Recover(h)
        BY <1>2, <2>3 DEF Recover
  <2>4. CASE \E r \in Runs : TickSkip(h, r) \/ TickThrows(h, r)
        BY <1>1, <2>4 DEF TickSkip, TickThrows
  <2> QED
      BY <1>7, <2>1, <2>2, <2>3, <2>4 DEF Tick
<1>8. ASSUME NEW h \in Hosts, NEW r \in Runs, Execute(h, r) PROVE EngineEnds'
  <2>1. ASSUME NEW s \in Steps, Step(h, r, s) PROVE UNCHANGED exec
        BY <2>1
        DEF Step, BeginStep, AcquireRefused, Acquired, PrepareFails, Dispatch, DispatchRefused,
            CallEnds, SettleStep, Ask, AskEnds, BeginConfirm, ConfirmEnds, SaveConfirm
  <2> QED
      BY <1>1, <1>4, <1>5, <1>8, <2>1 DEF Execute, SettleRun, FailRun, AckSteering, local
<1> QED
    BY <1>1, <1>2, <1>6, <1>7, <1>8
    DEF Next, UserCommand, Start, Stop, Interrupt, Close, LeaseExpires, vars, local

LEMMA ReadFrame ==
  ASSUME SteeringRead,
         \A r \in TaskRuns : run'[r].state = "succeeded" =>
           steering'[r] = {} \/ (run[r].state = "succeeded" /\ steering'[r] \subseteq steering[r])
  PROVE  SteeringRead'
BY DEF SteeringRead

LEMMA CommandRead ==
  ASSUME TypeInv, SteeringRead, UserCommand
  PROVE  SteeringRead'
<1>0. TaskRuns \subseteq Runs
      BY StoreConstants
<1>1. ASSUME NEW r \in Runs, Cancel(r) PROVE SteeringRead'
      BY <1>0, <1>1, CancelRecords, ReadFrame DEF Cancel
<1>2. ASSUME NEW r \in Runs, NEW a, run' = [run EXCEPT ![r] = Queued(a)], UNCHANGED steering
      PROVE  SteeringRead'
      BY <1>0, <1>2, ReadFrame DEF Queued, TypeInv, TypeOK, StoreTypeOK
<1>3. ASSUME NEW r \in Runs, NEW n \in Notes, Steer(r, n) PROVE SteeringRead'
      BY <1>0, <1>3, ReadFrame DEF Steer, ActiveStates, TypeInv, TypeOK, StoreTypeOK
<1>4. CASE UNCHANGED <<run, steering>>
      BY <1>4, ReadFrame
<1> QED
    BY <1>1, <1>2, <1>3, <1>4 DEF UserCommand, Command, Send, Resume, Answer

LEMMA ExecuteRead ==
  ASSUME TypeInv, SteeringInv, NEW h \in Hosts, NEW r \in Runs, Execute(h, r)
  PROVE  SteeringRead'
<1>0. TaskRuns \subseteq Runs /\ SteeringRead /\ EngineEnds
      BY StoreConstants DEF SteeringInv
<1>1. CASE SettleRun(h, r)
  <2> DEFINE out == exec[h][r].result
             ends == Settles(h, r) /\ ~Requeues(h, r)
  <2>1. UNCHANGED steering
        BY <1>1 DEF SettleRun
  <2>2. CASE r \in TaskRuns /\ ends /\ FinalState(r, out) = "succeeded"
    <3>1. out \in Outcomes
          BY DEF TypeInv, TypeOK, ExecTable, Executor
    <3>2. out.status = "succeeded" /\ ~run[r].cancel
          BY <1>0, <2>2, <3>1, SucceedsWhole DEF EngineEnds
    <3>3. steering[r] = {}
          BY <2>2, <3>2 DEF LateSteering, Requeues
    <3> QED
        BY <1>0, <1>1, <2>1, <3>3, SettleRecords, ReadFrame
  <2>3. CASE ~(r \in TaskRuns /\ ends /\ FinalState(r, out) = "succeeded")
        BY <1>0, <1>1, <2>1, <2>3, SettleRecords, ReadFrame
  <2> QED
      BY <2>2, <2>3
<1>2. CASE FailRun(h, r)
      BY <1>0, <1>2, FailRecords, ReadFrame DEF FailRun
<1>3. ASSUME NEW read \in SUBSET Notes, AckSteering(h, r, read) PROVE SteeringRead'
      BY <1>0, <1>3, ReadFrame DEF AckSteering, TypeInv, TypeOK, StoreTypeOK
<1>4. CASE UNCHANGED <<run, steering>>
      BY <1>0, <1>4, ReadFrame
<1>5. ASSUME NEW s \in Steps, Step(h, r, s) PROVE SteeringRead'
  <2>1. CASE \/ Ask(h, r, s) \/ (BeginConfirm(h, r, s) /\ MustAsk(h, r, s))
             \/ AskEnds(h, r, s) \/ ConfirmEnds(h, r, s)
    <3>1. CloseQuestion(h, r, s) \/ \E pc : OpenQuestion(h, r, s, pc) /\ OwnedBy(h, r, FALSE)
          BY <2>1 DEF Ask, BeginConfirm, MustAsk, AskEnds, ConfirmEnds
    <3>2. \A q \in Runs : run'[q].state = "succeeded" => run[q].state = "succeeded"
          BY <3>1, QuestionRecords DEF Executing
    <3>3. UNCHANGED steering
          BY <2>1 DEF Ask, BeginConfirm, AskEnds, ConfirmEnds
    <3> QED
        BY <1>0, <3>2, <3>3, ReadFrame
  <2>2. CASE \/ BeginStep(h, r, s) \/ AcquireRefused(h, r, s) \/ Acquired(h, r, s)
             \/ PrepareFails(h, r, s) \/ Dispatch(h, r, s) \/ DispatchRefused(h, r, s)
             \/ \E out \in KernelOutcomes : CallEnds(h, r, s, out)
             \/ SettleStep(h, r, s) \/ SaveConfirm(h, r, s)
             \/ (BeginConfirm(h, r, s) /\ ~MustAsk(h, r, s))
        BY <1>4, <2>2
        DEF BeginStep, AcquireRefused, Acquired, PrepareFails, Dispatch, DispatchRefused,
            CallEnds, SettleStep, SaveConfirm, BeginConfirm, store
  <2> QED
      BY <1>5, <2>1, <2>2 DEF Step
<1>6. CASE EngineReturns(h, r)
      BY <1>4, <1>6 DEF EngineReturns, store
<1> QED
    BY <1>1, <1>2, <1>3, <1>5, <1>6 DEF Execute

LEMMA NextRead ==
  ASSUME TypeInv, SteeringInv, [Next]_vars
  PROVE  SteeringInv'
<1>0. TaskRuns \subseteq Runs /\ SteeringRead /\ EngineEnds
      BY StoreConstants DEF SteeringInv
<1>1. ASSUME NEW h \in Hosts, Tick(h) PROVE SteeringRead'
  <2>1. UNCHANGED steering
        BY <1>1 DEF Tick, TickClaim, Recover, TickScan, TickStart, TickSkip, TickThrows, store
  <2>2. CASE Recover(h)
        BY <1>0, <2>1, <2>2, RecoverRecords, ReadFrame
  <2>3. ASSUME NEW r \in Runs, TickStart(h, r) PROVE SteeringRead'
        BY <1>0, <2>1, <2>3, StartRecords, ReadFrame
  <2>4. CASE UNCHANGED run
        BY <1>0, <2>1, <2>4, ReadFrame
  <2> QED
      BY <1>1, <2>2, <2>3, <2>4 DEF Tick, TickClaim, TickScan, TickSkip, TickThrows, store
<1>2. ASSUME NEW h \in Hosts, Interrupt(h) PROVE SteeringRead'
      BY <1>0, <1>2, InterruptRecords, ReadFrame DEF Interrupt
<1>3. ASSUME UNCHANGED <<run, steering>> PROVE SteeringRead'
      BY <1>0, <1>3, ReadFrame
<1>4. ASSUME NEW h \in Hosts, Start(h) \/ Crash(h) \/ Stop(h) \/ Close(h)
      PROVE  SteeringRead'
      BY <1>3, <1>4 DEF Start, Crash, Stop, Close, store
<1>5. ASSUME LeaseExpires \/ UNCHANGED vars PROVE SteeringRead'
      BY <1>3, <1>5 DEF LeaseExpires, vars, store
<1>6. SteeringRead'
      BY <1>0, <1>1, <1>2, <1>4, <1>5, CommandRead, ExecuteRead DEF Next
<1> QED
    BY <1>0, <1>6, NextEngineEnds DEF SteeringInv

\* groupSteering.ts and runExecutor.ts (settle): a task run does not succeed while a message
\* that was accepted for it is unread.
THEOREM SteeringReadAlways == Spec => []SteeringRead
<1>1. Init => SteeringInv
  <2>1. TaskRuns \subseteq Runs
        BY StoreConstants
  <2> QED
      BY <2>1 DEF Init, StoreInit, SteeringInv, SteeringRead, EngineEnds, Absent, NoExec, NoOutcome, Outcome
<1>2. TypeInv /\ SteeringInv /\ [Next]_vars => SteeringInv'
      BY NextRead
<1>3. SteeringInv => SteeringRead
      BY DEF SteeringInv
<1> QED
    BY <1>1, <1>2, <1>3, TypeInvAlways, PTL DEF Spec
(***************************************************************************)
(* Native calls: the invariant.                                            *)
(***************************************************************************)
\* h executes r and is its recorded owner: nobody else dispatched r since h did.
Holds(h, r) == Executes(h, r) /\ run[r].owner = h

\* Where a task may be once its call was made.
Made == {"call", "ask", "ended", "done"}

\* A turn belongs to an agent step and to an attempt that its run has reached.
TurnsKnown ==
  \A h \in Hosts, r \in Runs, s \in Steps, a \in Attempts :
    <<h, r, s, a>> \in turns => s \in AgentSteps /\ a <= run[r].attempt

HeldAttempt ==
  \A h \in Hosts, r \in Runs : Holds(h, r) => exec[h][r].attempt = run[r].attempt

\* What an owner that scans has read is still true, but for a stop of a queued run.
QueueKept ==
  \A h \in Hosts : Owns(h) /\ tick[h].pc = "dispatch" =>
    \A r \in tick[h].queue :
      /\ run[r].attempt = tick[h].seen[r].attempt
      /\ run[r].state \in {"queued", "cancelled"}
      /\ OpenSteps(r) = {}

\* Only an open Host has a tick in progress.
TickOpen == \A h \in Hosts : tick[h].pc # "idle" => host[h] = "open"

\* Nobody queues a run with an open call.
QueuedSettled == \A r \in active : run[r].state = "queued" => OpenSteps(r) = {}

BusyTargets ==
  \A h \in Hosts, r \in Runs :
    tick[h].pc = "dispatch" /\ Executes(h, r) => TargetOf[r] \in tick[h].busy

\* The open calls of a run that is held are its holder's, made by the step's own task.
HeldTurns ==
  \A h, k \in Hosts, r \in Runs, s \in Steps :
    Holds(h, r) /\ <<k, r, s, run[r].attempt>> \in turns =>
      k = h /\ task[h][r][s].pc \in Made

\* A task that is done has left its turn open only if its Host had lost the lease.
DoneSettled ==
  \A h \in Hosts, r \in active, s \in Steps :
    /\ Holds(h, r) /\ run[r].state \in Executing
    /\ task[h][r][s].pc = "done" /\ s \in OpenSteps(r)
    => ~Owns(h) \/ tick[h].pc = "recover"

ResultLast ==
  \A h \in Hosts, r \in Runs :
    exec[h][r].result # NoOutcome =>
      Executes(h, r) /\ \A s \in Steps : task[h][r][s].pc \in {"idle", "done"}

\* A call of this attempt is still open, or has left a result.
CallsRecorded ==
  \A r \in Runs, s \in Steps :
    calls[r][s] # 0 => calls[r][s] = 1 /\ (s \in OpenSteps(r) \/ results[r][s] # NoOutcome)

\* A holder about to call has seen that there is no result, and there is still none.
PreparedFresh ==
  \A h \in Hosts, r \in Runs, s \in Steps :
    Holds(h, r) /\ task[h][r][s].pc = "prepare" => results[r][s] = NoOutcome

EndedOutcome ==
  \A h \in Hosts, r \in Runs, s \in Steps :
    task[h][r][s].pc = "ended" => task[h][r][s].out # NoOutcome

CallInv ==
  /\ TickOpen /\ TurnsKnown /\ HeldAttempt /\ QueueKept /\ QueuedSettled /\ BusyTargets
  /\ HeldTurns /\ DoneSettled /\ ResultLast /\ CallsRecorded /\ PreparedFresh /\ EndedOutcome

LEMMA InitCalls == Init => CallInv
<1> SUFFICES ASSUME Init PROVE CallInv
    OBVIOUS
<1>1. /\ turns = {} /\ active = {}
      /\ \A h \in Hosts : tick[h].pc = "idle"
      /\ \A h \in Hosts, r \in Runs : exec[h][r].attempt = 0 /\ exec[h][r].result = NoOutcome
      /\ \A h \in Hosts, r \in Runs, s \in Steps : task[h][r][s].pc = "idle"
      /\ \A r \in Runs, s \in Steps : calls[r][s] = 0
      BY DEF Init, StoreInit, NoTick, NoExec, NoTask
<1> QED
    BY <1>1
    DEF CallInv, TickOpen, TurnsKnown, HeldAttempt, QueueKept, QueuedSettled, BusyTargets,
        HeldTurns, DoneSettled, ResultLast, CallsRecorded, PreparedFresh, EndedOutcome, Holds, Executes

LEMMA CallsAtMostOnce ==
  ASSUME TypeInv, CallInv
  PROVE  AtMostOneCall
BY DEF TypeInv, TypeOK, CallInv, CallsRecorded, AtMostOneCall

(***************************************************************************)
(* Frames: what may change without disturbing the invariant.               *)
(***************************************************************************)
\* The open calls depend on the turns and on the run's attempt only.
LEMMA SameOpen ==
  ASSUME NEW r \in Runs, UNCHANGED turns, run'[r].attempt = run[r].attempt
  PROVE  OpenSteps(r)' = OpenSteps(r)
BY DEF OpenSteps

\* Executors and their tasks stay or go, runs keep their attempt and their owner or lose
\* the owner: what is held afterwards was held before, with the same tasks.
RowsKept ==
  \A k \in Hosts, q \in Runs :
    \/ /\ exec'[k][q].attempt = exec[k][q].attempt /\ exec'[k][q].result = exec[k][q].result
       /\ task'[k][q] = task[k][q]
    \/ exec'[k][q] = NoExec /\ task'[k][q] = [s \in Steps |-> NoTask]

RunsKept ==
  \A q \in Runs :
    run'[q].attempt = run[q].attempt /\ run'[q].owner \in {run[q].owner, NoHost}

LEMMA RowsFrame ==
  ASSUME TypeInv, CallInv, UNCHANGED <<turns, results, calls>>, RowsKept, RunsKept
  PROVE  /\ TurnsKnown' /\ HeldAttempt' /\ HeldTurns' /\ ResultLast' /\ CallsRecorded'
         /\ PreparedFresh' /\ EndedOutcome'
         /\ \A k \in Hosts, q \in Runs : Executes(k, q)' => Executes(k, q)
         /\ \A k \in Hosts, q \in Runs : Holds(k, q)' => Holds(k, q) /\ task'[k][q] = task[k][q]
<1>1. NoExec.attempt = 0 /\ NoExec.result = NoOutcome
      /\ \A s \in Steps : [t \in Steps |-> NoTask][s].pc = "idle"
      BY DEF NoExec, NoTask
<1>2. \A k \in Hosts, q \in Runs : Executes(k, q)' => Executes(k, q)
      BY <1>1 DEF RowsKept, Executes
<1>3. \A k \in Hosts, q \in Runs :
        Holds(k, q)' => /\ Holds(k, q) /\ task'[k][q] = task[k][q]
                        /\ exec'[k][q].attempt = exec[k][q].attempt
  <2>1. ASSUME NEW k \in Hosts, NEW q \in Runs, exec'[k][q].attempt # 0, run'[q].owner = k
        PROVE  /\ exec'[k][q].attempt = exec[k][q].attempt /\ task'[k][q] = task[k][q]
               /\ run[q].owner = k
    <3>1. exec'[k][q].attempt = exec[k][q].attempt /\ task'[k][q] = task[k][q]
          BY <1>1, <2>1 DEF RowsKept
    <3>2. run[q].owner = k
          BY <2>1, StoreConstants DEF RunsKept
    <3> QED
        BY <3>1, <3>2
  <2> QED
      BY <2>1 DEF Holds, Executes
<1>4. \A q \in Runs : OpenSteps(q)' = OpenSteps(q)
      BY SameOpen DEF RunsKept
<1>5. TurnsKnown'
      BY DEF TurnsKnown, CallInv, RunsKept
<1>6. HeldAttempt'
      BY <1>3 DEF HeldAttempt, CallInv, RunsKept
<1>7. HeldTurns'
      BY <1>3 DEF HeldTurns, CallInv, RunsKept
<1>8. ResultLast'
      BY <1>1 DEF ResultLast, CallInv, RowsKept, Executes
<1>9. CallsRecorded'
      BY <1>4 DEF CallsRecorded, CallInv
<1>10. PreparedFresh'
      BY <1>3 DEF PreparedFresh, CallInv
<1>11. EndedOutcome'
      BY <1>1 DEF EndedOutcome, CallInv, RowsKept
<1> QED
    BY <1>2, <1>3, <1>5, <1>6, <1>7, <1>8, <1>9, <1>10, <1>11

\* Ticks begin in an open Host, and a Host that stops or dies has none.
LEMMA NextTickOpen ==
  ASSUME TypeInv, TickOpen, [Next]_vars
  PROVE  TickOpen'
<1>1. CASE UNCHANGED <<tick, host>>
      BY <1>1 DEF TickOpen
<1>2. ASSUME NEW h \in Hosts, Tick(h) PROVE TickOpen'
  <2>1. NoTick.pc = "idle"
        BY DEF NoTick
  <2>2. \A k \in Hosts : k # h => tick'[k] = tick[k]
        BY <1>2
        DEF Tick, TickClaim, Recover, TickScan, Scan, TickStart, TickSkip, TickThrows, Advance,
            Claim, TypeInv, TypeOK
  <2>3. UNCHANGED host /\ (tick'[h].pc # "idle" => host[h] = "open")
    <3>1. CASE TickClaim(h)
          BY <3>1 DEF TickClaim
    <3>2. CASE tick[h].pc # "idle" /\ UNCHANGED host
          BY <3>2 DEF TickOpen
    <3> QED
        BY <1>2, <3>1, <3>2
        DEF Tick, Recover, TickScan, TickStart, TickSkip, TickThrows, InTurn
  <2> QED
      BY <2>2, <2>3 DEF TickOpen
<1>3. ASSUME NEW h \in Hosts, Start(h) \/ Crash(h) \/ Stop(h) \/ Interrupt(h) \/ Close(h)
      PROVE  TickOpen'
  <2>1. CASE Crash(h)
    <3>1. \A k \in Hosts : k # h => tick'[k] = tick[k] /\ host'[k] = host[k]
          BY <2>1 DEF Crash, TypeInv, TypeOK
    <3>2. tick'[h].pc = "idle"
          BY <2>1 DEF Crash, NoTick, TypeInv, TypeOK
    <3> QED
        BY <3>1, <3>2 DEF TickOpen
  <2>2. CASE Start(h) \/ Stop(h) \/ Interrupt(h) \/ Close(h)
    <3>1. UNCHANGED tick /\ \A k \in Hosts : k # h => host'[k] = host[k]
          BY <2>2 DEF Start, Stop, Interrupt, Close, TypeInv, TypeOK
    <3>2. tick[h].pc = "idle"
          BY <2>2 DEF Start, Stop, Interrupt, Close, TickOpen
    <3> QED
        BY <3>1, <3>2 DEF TickOpen
  <2> QED
      BY <1>3, <2>1, <2>2
<1>4. ASSUME NEW h \in Hosts, NEW r \in Runs, Execute(h, r) PROVE TickOpen'
      BY <1>1, <1>4
      DEF Execute, Step, BeginStep, AcquireRefused, Acquired, PrepareFails, Dispatch,
          DispatchRefused, CallEnds, SettleStep, Ask, AskEnds, BeginConfirm, ConfirmEnds,
          SaveConfirm, AckSteering, EngineReturns, SettleRun, FailRun, local
<1> QED
    BY <1>1, <1>2, <1>3, <1>4 DEF Next, UserCommand, LeaseExpires, vars, local

\* Runs that are not dispatched: none begins to execute, what is queued is settled, and
\* while the owner scans a queued run stays queued or is cancelled.
StatesKept ==
  \A q \in Runs :
    /\ run'[q].state \in Executing => run[q].state \in Executing
    /\ run'[q].state \in Executing /\ q \in active' => q \in active
    /\ \A k \in Hosts :
         Owns(k)' /\ tick'[k].pc = "dispatch" /\ run[q].state \in {"queued", "cancelled"} =>
           run'[q].state \in {"queued", "cancelled"}
    /\ run'[q].state = "queued" /\ q \in active' => OpenSteps(q) = {}

\* No loop begins, and the queue of one gets no longer.
LoopsKept ==
  \A k \in Hosts : tick'[k].pc = "dispatch" =>
    /\ tick[k].pc = "dispatch" /\ tick'[k].queue \subseteq tick[k].queue
    /\ tick'[k].seen = tick[k].seen /\ tick[k].busy \subseteq tick'[k].busy
    /\ Owns(k)' => Owns(k)

\* Nobody becomes the owner, except to recover or to execute nothing.
OwnersKept ==
  \A k \in Hosts : Owns(k)' /\ tick'[k].pc # "recover" =>
    \/ Owns(k) /\ tick[k].pc # "recover"
    \/ \A q \in Runs : ~Executes(k, q)'

LEMMA QueueFrame ==
  ASSUME TypeInv, TypeInv', CallInv, UNCHANGED <<turns, results, calls>>, RowsKept, RunsKept,
         StatesKept, LoopsKept
  PROVE  QueueKept' /\ QueuedSettled' /\ BusyTargets'
<1>1. \A q \in Runs : OpenSteps(q)' = OpenSteps(q)
      BY SameOpen DEF RunsKept
<1>2. QueueKept'
  <2>1. \A k \in Hosts : tick[k].queue \subseteq Runs
        BY DEF TypeInv, TypeOK, TickState
  <2>2. ASSUME NEW k \in Hosts, Owns(k)', tick'[k].pc = "dispatch", NEW r \in tick'[k].queue
        PROVE  /\ run'[r].attempt = tick'[k].seen[r].attempt
               /\ run'[r].state \in {"queued", "cancelled"} /\ OpenSteps(r)' = {}
    <3>1. /\ Owns(k) /\ tick[k].pc = "dispatch" /\ r \in tick[k].queue
          /\ tick'[k].seen = tick[k].seen
          BY <2>2 DEF LoopsKept
    <3>2. /\ run[r].attempt = tick[k].seen[r].attempt
          /\ run[r].state \in {"queued", "cancelled"} /\ OpenSteps(r) = {}
          BY <3>1 DEF CallInv, QueueKept
    <3> QED
        BY <1>1, <2>1, <2>2, <3>1, <3>2 DEF RunsKept, StatesKept
  <2> QED
      BY <2>2 DEF QueueKept
<1>3. active' \subseteq Runs
      BY DEF TypeInv, TypeOK, StoreTypeOK
<1>4. QueuedSettled'
      BY <1>1, <1>3 DEF QueuedSettled, StatesKept
<1>5. \A k \in Hosts, q \in Runs : Executes(k, q)' => Executes(k, q)
      BY RowsFrame
<1>6. BusyTargets'
      BY <1>5 DEF BusyTargets, CallInv, LoopsKept
<1> QED
    BY <1>2, <1>4, <1>6

LEMMA DoneFrame ==
  ASSUME TypeInv, TypeInv', CallInv, UNCHANGED <<turns, results, calls>>, RowsKept, RunsKept,
         StatesKept, OwnersKept
  PROVE  DoneSettled'
<1>1. \A q \in Runs : OpenSteps(q)' = OpenSteps(q)
      BY SameOpen DEF RunsKept
<1>2. \A k \in Hosts, q \in Runs : Holds(k, q)' => Holds(k, q) /\ task'[k][q] = task[k][q]
      BY RowsFrame
<1>3. ASSUME NEW h \in Hosts, NEW r \in active', NEW s \in Steps,
             Holds(h, r)', run'[r].state \in Executing, task'[h][r][s].pc = "done",
             s \in OpenSteps(r)', Owns(h)', tick'[h].pc # "recover"
      PROVE  FALSE
  <2>1. r \in Runs /\ r \in active /\ run[r].state \in Executing
        BY <1>3 DEF StatesKept, TypeInv, TypeOK, StoreTypeOK
  <2>2. Holds(h, r) /\ task[h][r][s].pc = "done" /\ s \in OpenSteps(r)
        BY <1>1, <1>2, <1>3, <2>1
  <2>3. Owns(h) /\ tick[h].pc # "recover"
        BY <1>3, <2>1 DEF OwnersKept, Holds
  <2> QED
      BY <2>1, <2>2, <2>3 DEF CallInv, DoneSettled
<1> QED
    BY <1>3 DEF DoneSettled

LEMMA StatesFrame ==
  ASSUME TypeInv, TypeInv', CallInv, TickOpen', UNCHANGED <<turns, results, calls>>,
         RowsKept, RunsKept, StatesKept, LoopsKept, OwnersKept
  PROVE  CallInv'
BY RowsFrame, QueueFrame, DoneFrame DEF CallInv

(***************************************************************************)
(* Steps that make or settle no call.                                      *)
(***************************************************************************)
\* What stays when only the lease, the loops and the executors' signals change.
LEMMA SameRows ==
  ASSUME UNCHANGED <<exec, task>>
  PROVE  RowsKept
BY DEF RowsKept

LEMMA AbortRows ==
  ASSUME TypeInv, NEW h \in Hosts, NEW S, exec' = Abort(h, S), UNCHANGED task
  PROVE  RowsKept
BY AbortKeepsResults DEF RowsKept

LEMMA EndRows ==
  ASSUME TypeInv, NEW h \in Hosts, NEW r \in Runs, EndExec(h, r)
  PROVE  RowsKept
BY DEF EndExec, RowsKept, TypeInv, TypeOK, ExecTable, TaskTable

LEMMA CrashRows ==
  ASSUME TypeInv, NEW h \in Hosts, Crash(h)
  PROVE  RowsKept
BY DEF Crash, RowsKept, TypeInv, TypeOK, ExecTable, TaskTable

LEMMA SameRuns ==
  ASSUME CallInv, UNCHANGED <<run, active>>
  PROVE  RunsKept /\ StatesKept
BY DEF RunsKept, StatesKept, CallInv, QueuedSettled

LEMMA SameTicks ==
  ASSUME UNCHANGED <<tick, lease>>
  PROVE  LoopsKept /\ OwnersKept
BY DEF LoopsKept, OwnersKept, Owns

LEMMA CommandCalls ==
  ASSUME TypeInv, TypeInv', CallInv, TickOpen',
         UNCHANGED <<exec, task, tick, calls>>,
         \/ \E r \in Runs : Cancel(r)
         \/ \E r \in Runs, s \in Steps, a \in Attempts, d \in Answers : Answer(r, s, a, d)
         \/ \E r \in Runs, n \in Notes : Steer(r, n)
  PROVE  CallInv'
<1>1. UNCHANGED <<turns, results, lease>>
      BY DEF Cancel, Answer, Steer
<1>2. RunsKept /\ StatesKept
  <2>1. CASE UNCHANGED <<run, active>>
        BY <2>1, SameRuns
  <2>2. ASSUME NEW r \in Runs, Cancel(r) PROVE RunsKept /\ StatesKept
    <3>1. RunsKept
          BY <2>2, CancelRecords DEF RunsKept
    <3>2. StatesKept
          BY <2>2, CancelRecords DEF StatesKept, Executing, CallInv, QueuedSettled
    <3> QED
        BY <3>1, <3>2
  <2> QED
      BY <2>1, <2>2 DEF Answer, Steer
<1> QED
    BY <1>1, <1>2, SameRows, SameTicks, StatesFrame

LEMMA ProcessCalls ==
  ASSUME TypeInv, TypeInv', CallInv, TickOpen',
         \/ \E h \in Hosts : Start(h) \/ Crash(h) \/ Stop(h) \/ Interrupt(h) \/ Close(h)
         \/ LeaseExpires \/ UNCHANGED vars
  PROVE  CallInv'
<1>1. CASE UNCHANGED <<run, active, lease, results, turns, tick, exec, task, calls>>
      BY <1>1, SameRows, SameRuns, SameTicks, StatesFrame
<1>2. ASSUME NEW h \in Hosts, Crash(h) PROVE CallInv'
  <2>1. UNCHANGED <<run, active, lease, results, turns, calls>>
        BY <1>2 DEF Crash, store
  <2>2. LoopsKept
    <3>1. \A k \in Hosts : k # h => tick'[k] = tick[k]
          BY <1>2 DEF Crash, TypeInv, TypeOK
    <3>2. tick'[h].pc = "idle"
          BY <1>2 DEF Crash, NoTick, TypeInv, TypeOK
    <3> QED
        BY <2>1, <3>1, <3>2 DEF LoopsKept, Owns
  <2>3. OwnersKept
    <3>1. \A k \in Hosts : k # h => tick'[k] = tick[k]
          BY <1>2 DEF Crash, TypeInv, TypeOK
    <3>2. \A q \in Runs : exec'[h][q].attempt = 0
          BY <1>2 DEF Crash, NoExec, TypeInv, TypeOK, ExecTable
    <3> QED
        BY <2>1, <3>1, <3>2 DEF OwnersKept, Owns, Executes
  <2> QED
      BY <1>2, <2>1, <2>2, <2>3, CrashRows, SameRuns, StatesFrame
<1>3. ASSUME NEW h \in Hosts, Interrupt(h) PROVE CallInv'
  <2>1. UNCHANGED <<lease, results, turns, tick, task, calls>> /\ exec' = Abort(h, Runs)
        BY <1>3 DEF Interrupt
  <2>2. tick[h].pc = "idle"
        BY <1>3 DEF Interrupt, CallInv, TickOpen
  <2>3. RunsKept
        BY <1>3, InterruptRecords DEF RunsKept
  <2>4. StatesKept
    <3>1. \A k \in Hosts : Owns(k)' /\ tick'[k].pc = "dispatch" => Cut(h) = {}
          BY <2>1, <2>2 DEF Owns, Cut
    <3> QED
        BY <1>3, <3>1, InterruptRecords DEF StatesKept, Executing, CallInv, QueuedSettled
  <2> QED
      BY <2>1, <2>3, <2>4, AbortRows, SameTicks, StatesFrame
<1>4. ASSUME UNCHANGED <<run, active, results, turns, tick, exec, task, calls>>,
             \A k \in Hosts : Owns(k)' => Owns(k)
      PROVE  CallInv'
  <2>1. LoopsKept /\ OwnersKept
        BY <1>4 DEF LoopsKept, OwnersKept
  <2> QED
      BY <1>4, <2>1, SameRows, SameRuns, StatesFrame
<1>5. ASSUME NEW h \in Hosts, Close(h) PROVE CallInv'
      BY <1>4, <1>5, StoreConstants DEF Close, Owns
<1>6. CASE LeaseExpires
  <2>1. \A k \in Hosts : Owns(k)' => Owns(k)
        BY <1>6 DEF LeaseExpires, Owns, TypeInv, TypeOK, StoreTypeOK
  <2> QED
      BY <1>4, <1>6, <2>1 DEF LeaseExpires, local
<1>7. CASE \/ UNCHANGED vars \/ \E h \in Hosts : Start(h) \/ Stop(h)
      BY <1>1, <1>7 DEF Start, Stop, vars, store, local
<1> QED
    BY <1>2, <1>3, <1>5, <1>6, <1>7

(***************************************************************************)
(* Ticks.                                                                  *)
(***************************************************************************)
\* Reading the queue: what is queued has no open call, what is executed is busy.
LEMMA ScanCalls ==
  ASSUME TypeInv, TypeInv', CallInv, TickOpen', NEW h \in Hosts, Scan(h),
         UNCHANGED <<run, active, results, turns, task, calls>>,
         \A k \in Hosts : Owns(k)' => Owns(k), tick[h].pc # "recover"
  PROVE  CallInv'
<1>1. RowsKept /\ RunsKept /\ StatesKept
      BY AbortRows, SameRuns DEF Scan
<1>2. \A k \in Hosts : k # h => tick'[k] = tick[k]
      BY DEF Scan, TypeInv, TypeOK
<1>3. \/ tick'[h].pc = "idle"
      \/ /\ tick'[h].pc = "dispatch" /\ tick'[h].queue = QueuedRuns
         /\ \A r \in QueuedRuns : tick'[h].seen[r] = run[r]
         /\ tick'[h].busy = {TargetOf[r] : r \in LocalRuns(h)}
  <2>1. QueuedRuns \subseteq Runs
        BY DEF QueuedRuns, TypeInv, TypeOK, StoreTypeOK
  <2> QED
      BY <2>1 DEF Scan, NoTick, TypeInv, TypeOK
<1>4. OwnersKept
      BY <1>2 DEF OwnersKept
<1>5. \A k \in Hosts, q \in Runs : Executes(k, q)' => Executes(k, q)
      BY <1>1, RowsFrame
<1>6. \A q \in Runs : OpenSteps(q)' = OpenSteps(q)
      BY SameOpen
<1>7. QueueKept'
  <2>1. ASSUME Owns(h)', tick'[h].pc = "dispatch", NEW r \in tick'[h].queue
        PROVE  /\ run'[r].attempt = tick'[h].seen[r].attempt
               /\ run'[r].state \in {"queued", "cancelled"} /\ OpenSteps(r)' = {}
    <3>1. r \in Runs /\ r \in active /\ run[r].state = "queued" /\ tick'[h].seen[r] = run[r]
          BY <1>3, <2>1 DEF QueuedRuns, TypeInv, TypeOK, StoreTypeOK
    <3> QED
        BY <1>6, <3>1 DEF CallInv, QueuedSettled
  <2>2. ASSUME NEW k \in Hosts, k # h, Owns(k)', tick'[k].pc = "dispatch", NEW r \in tick'[k].queue
        PROVE  /\ run'[r].attempt = tick'[k].seen[r].attempt
               /\ run'[r].state \in {"queued", "cancelled"} /\ OpenSteps(r)' = {}
    <3>1. r \in Runs
          BY <1>2, <2>2 DEF TypeInv, TypeOK, TickState
    <3> QED
        BY <1>2, <1>6, <2>2, <3>1 DEF CallInv, QueueKept
  <2> QED
      BY <2>1, <2>2 DEF QueueKept
<1>8. QueuedSettled'
  <2>1. active \subseteq Runs
        BY DEF TypeInv, TypeOK, StoreTypeOK
  <2> QED
      BY <1>6, <2>1 DEF QueuedSettled, CallInv
<1>9. BusyTargets'
      BY <1>2, <1>3, <1>5 DEF BusyTargets, CallInv, LocalRuns
<1> QED
    BY <1>1, <1>4, <1>7, <1>8, <1>9, RowsFrame, DoneFrame DEF CallInv, Scan

LEMMA ClaimCalls ==
  ASSUME TypeInv, TypeInv', CallInv, TickOpen', NEW h \in Hosts, TickClaim(h)
  PROVE  CallInv'
<1>1. UNCHANGED <<run, active, results, turns, task, calls>> /\ tick[h].pc = "idle"
      BY DEF TickClaim
<1>2. Claim(h) \in {"busy", "owner", "acquired"}
      BY DEF Claim
<1>3. CASE Claim(h) = "busy"
  <2>1. exec' = Abort(h, Runs) /\ UNCHANGED <<lease, tick>>
        BY <1>3 DEF TickClaim
  <2> QED
      BY <1>1, <2>1, AbortRows, SameRuns, SameTicks, StatesFrame
<1>4. CASE Claim(h) = "owner"
  <2>1. lease' = [owner |-> h, live |-> TRUE] /\ Scan(h) /\ Owns(h)
        BY <1>4 DEF TickClaim, Claim
  <2>2. \A k \in Hosts : Owns(k)' => Owns(k)
        BY <2>1 DEF Owns
  <2> QED
      BY <1>1, <2>1, <2>2, ScanCalls
<1>5. CASE Claim(h) = "acquired"
  <2>1. /\ lease' = [owner |-> h, live |-> TRUE]
        /\ tick' = [tick EXCEPT ![h].pc = "recover"] /\ UNCHANGED exec
        BY <1>5 DEF TickClaim
  <2>2. \A k \in Hosts : k # h => tick'[k] = tick[k] /\ ~Owns(k)'
        BY <2>1 DEF Owns, TypeInv, TypeOK
  <2>3. tick'[h].pc = "recover"
        BY <2>1 DEF TypeInv, TypeOK, TickState
  <2>4. LoopsKept /\ OwnersKept
        BY <2>2, <2>3 DEF LoopsKept, OwnersKept
  <2> QED
      BY <1>1, <2>1, <2>4, SameRows, SameRuns, StatesFrame
<1> QED
    BY <1>2, <1>3, <1>4, <1>5

\* A recovery leaves no run of the index executing, and requeues only settled runs.
LEMMA RecoverCalls ==
  ASSUME TypeInv, TypeInv', CallInv, TickOpen', NEW h \in Hosts, Recover(h)
  PROVE  CallInv'
<1>1. /\ UNCHANGED <<lease, results, turns, task, calls>> /\ exec' = Abort(h, Runs)
      /\ active' = active \ LostRuns /\ tick' = [tick EXCEPT ![h].pc = "scan"]
      BY DEF Recover, LostRuns, Orphans
<1>2. Orphans \subseteq Runs /\ LostRuns \subseteq Orphans
      BY DEF Orphans, LostRuns, TypeInv, TypeOK, StoreTypeOK
<1>3. RowsKept
      BY <1>1, AbortRows
<1>4. RunsKept
      BY <1>2, RecoverRecords DEF RunsKept
<1>5. ASSUME NEW q \in Runs, q \in active'
      PROVE  run'[q].state \notin Executing /\ (run'[q].state = "queued" => OpenSteps(q) = {})
  <2>1. CASE q \in Orphans
    <3>1. q \notin LostRuns /\ OpenSteps(q) = {}
          BY <1>1, <1>5, <2>1 DEF LostRuns, Uncertain
    <3> QED
        BY <2>1, <3>1, RecoverRecords DEF Executing
  <2>2. CASE q \notin Orphans
    <3>1. run'[q] = run[q] /\ q \in active
          BY <1>1, <1>5, <2>2, RecoverRecords
    <3> QED
        BY <2>2, <3>1 DEF Orphans, CallInv, QueuedSettled
  <2> QED
      BY <2>1, <2>2
<1>6. StatesKept
  <2>1. \A q \in Runs : q \in Orphans => run[q].state \in Executing
        BY DEF Orphans
  <2> QED
      BY <1>2, <1>5, <2>1, RecoverRecords DEF StatesKept, Executing
<1>7. LoopsKept
  <2>1. \A k \in Hosts : k # h => tick'[k] = tick[k]
        BY <1>1 DEF TypeInv, TypeOK
  <2>2. tick'[h].pc = "scan"
        BY <1>1 DEF TypeInv, TypeOK, TickState
  <2> QED
      BY <1>1, <2>1, <2>2 DEF LoopsKept, Owns
<1>8. DoneSettled'
  <2>1. active' \subseteq Runs
        BY DEF TypeInv, TypeOK, StoreTypeOK
  <2> QED
      BY <1>5, <2>1 DEF DoneSettled
<1> QED
    BY <1>1, <1>3, <1>4, <1>6, <1>7, <1>8, RowsFrame, QueueFrame DEF CallInv

\* Moving on: the loop of h ends, or goes on with a shorter queue.
LEMMA AdvanceTick ==
  ASSUME TypeInv, NEW h \in Hosts, NEW r \in Runs, NEW busy, Advance(h, r, busy),
         tick[h].pc = "dispatch"
  PROVE  /\ \A k \in Hosts : k # h => tick'[k] = tick[k]
         /\ \/ tick'[h].pc = "idle"
            \/ /\ tick'[h].pc = "dispatch" /\ tick'[h].queue = tick[h].queue \ {r}
               /\ tick'[h].seen = tick[h].seen /\ tick'[h].busy = tick[h].busy \cup busy
<1>1. tick[h] \in TickState
      BY DEF TypeInv, TypeOK
<1>2. CASE tick[h].queue \ {r} = {}
      BY <1>2 DEF Advance, NoTick, TypeInv, TypeOK
<1>3. CASE tick[h].queue \ {r} # {}
  <2>1. tick' = [tick EXCEPT ![h] = [tick[h] EXCEPT !.queue = tick[h].queue \ {r},
                                                    !.busy = tick[h].busy \cup busy]]
        BY <1>3 DEF Advance
  <2> QED
      BY <1>1, <2>1 DEF TickState, TypeInv, TypeOK
<1> QED
    BY <1>2, <1>3

\* A dispatch makes its Host the holder of a run whose attempt has no open call.
LEMMA TickStartCalls ==
  ASSUME TypeInv, TypeInv', CallInv, TickOpen', NEW h \in Hosts, NEW r \in Runs, TickStart(h, r)
  PROVE  CallInv'
<1>1. /\ UNCHANGED <<active, lease, results, turns, calls>>
      /\ Owns(h) /\ tick[h].pc = "dispatch" /\ r \in tick[h].queue
      /\ Advance(h, r, {TargetOf[r]})
      BY DEF TickStart, InTurn
<1>2. /\ run[r].attempt = tick[h].seen[r].attempt /\ OpenSteps(r) = {}
      BY <1>1 DEF CallInv, QueueKept
<1>3. /\ run'[r].state = "running" /\ run'[r].owner = h /\ run'[r].attempt = run[r].attempt
      /\ \A q \in Runs : q # r => run'[q] = run[q]
      BY <1>2, StartRecords
<1>4. /\ exec'[h][r].attempt = run[r].attempt /\ exec'[h][r].result = NoOutcome
      /\ \A s \in Steps : task'[h][r][s].pc = "idle"
      /\ \A k \in Hosts, q \in Runs :
           <<k, q>> # <<h, r>> => exec'[k][q] = exec[k][q] /\ task'[k][q] = task[k][q]
      BY <1>2 DEF TickStart, NoExec, NoTask, TypeInv, TypeOK, ExecTable, TaskTable
<1>5. \A q \in Runs : run'[q].attempt = run[q].attempt /\ OpenSteps(q)' = OpenSteps(q)
      BY <1>1, <1>3, SameOpen
<1>6. /\ \A k \in Hosts : k # h => tick'[k] = tick[k] /\ ~Owns(k) /\ ~Owns(k)'
      /\ \/ tick'[h].pc = "idle"
         \/ /\ tick'[h].pc = "dispatch" /\ tick'[h].queue = tick[h].queue \ {r}
            /\ tick'[h].seen = tick[h].seen /\ tick'[h].busy = tick[h].busy \cup {TargetOf[r]}
      /\ Owns(h)' <=> Owns(h)
      BY <1>1, AdvanceTick DEF Owns
\* Nobody but h holds r, and the rest is held as before.
<1>7. \A k \in Hosts, q \in Runs : Holds(k, q)' /\ <<k, q>> # <<h, r>> => Holds(k, q) /\ q # r
      BY <1>3, <1>4 DEF Holds, Executes
<1>8. TurnsKnown' /\ HeldAttempt'
      BY <1>1, <1>3, <1>4, <1>5, <1>7 DEF TurnsKnown, HeldAttempt, CallInv
<1>9. QueueKept'
  <2>1. tick[h].queue \subseteq Runs
        BY DEF TypeInv, TypeOK, TickState
  <2> QED
      BY <1>1, <1>3, <1>5, <1>6, <2>1 DEF QueueKept, CallInv
<1>10. QueuedSettled'
  <2>1. active \subseteq Runs
        BY DEF TypeInv, TypeOK, StoreTypeOK
  <2> QED
      BY <1>1, <1>3, <1>5, <2>1 DEF QueuedSettled, CallInv
<1>11. BusyTargets'
  <2>1. ASSUME NEW k \in Hosts, NEW q \in Runs, tick'[k].pc = "dispatch", Executes(k, q)'
        PROVE  TargetOf[q] \in tick'[k].busy
    <3>1. CASE k = h /\ q = r
          BY <1>6, <2>1, <3>1
    <3>2. CASE <<k, q>> # <<h, r>>
      <4>1. Executes(k, q) /\ tick[k].pc = "dispatch" /\ tick[k].busy \subseteq tick'[k].busy
            BY <1>1, <1>4, <1>6, <2>1, <3>2 DEF Executes
      <4> QED
          BY <4>1 DEF BusyTargets, CallInv
    <3> QED
        BY <3>1, <3>2
  <2> QED
      BY <2>1 DEF BusyTargets
<1>12. HeldTurns'
  <2>1. ASSUME NEW k \in Hosts, NEW j \in Hosts, NEW q \in Runs, NEW s \in Steps,
               Holds(k, q)', <<j, q, s, run'[q].attempt>> \in turns
        PROVE  j = k /\ task'[k][q][s].pc \in Made
    <3>1. q # r
      <4>1. s \in OpenSteps(q)
            BY <1>5, <2>1 DEF OpenSteps
      <4> QED
          BY <1>2, <4>1
    <3>2. Holds(k, q) /\ task'[k][q] = task[k][q] /\ run'[q].attempt = run[q].attempt
          BY <1>4, <1>5, <1>7, <2>1, <3>1
    <3> QED
        BY <2>1, <3>2 DEF HeldTurns, CallInv
  <2> QED
      BY <1>1, <2>1 DEF HeldTurns
<1>13. DoneSettled'
  <2>1. ASSUME NEW k \in Hosts, NEW q \in active, NEW s \in Steps, Holds(k, q)',
               run'[q].state \in Executing, task'[k][q][s].pc = "done", s \in OpenSteps(q)',
               Owns(k)', tick'[k].pc # "recover"
        PROVE  FALSE
    <3>1. q \in Runs /\ q # r
          BY <1>2, <1>5, <2>1 DEF TypeInv, TypeOK, StoreTypeOK
    <3>2. Holds(k, q) /\ task'[k][q] = task[k][q] /\ run'[q] = run[q] /\ s \in OpenSteps(q)
          BY <1>3, <1>4, <1>5, <1>7, <2>1, <3>1
    <3>3. Owns(k) /\ tick[k].pc # "recover"
          BY <1>1, <1>6, <2>1
    <3> QED
        BY <2>1, <3>2, <3>3 DEF DoneSettled, CallInv
  <2> QED
      BY <1>1, <2>1 DEF DoneSettled
<1>14. ResultLast' /\ EndedOutcome'
      BY <1>4 DEF ResultLast, EndedOutcome, CallInv, Executes
<1>15. CallsRecorded'
      BY <1>1, <1>5 DEF CallsRecorded, CallInv
<1>16. PreparedFresh'
      BY <1>1, <1>4, <1>7 DEF PreparedFresh, CallInv
<1> QED
    BY <1>8, <1>9, <1>10, <1>11, <1>12, <1>13, <1>14, <1>15, <1>16 DEF CallInv

LEMMA TickCalls ==
  ASSUME TypeInv, TypeInv', CallInv, TickOpen', NEW h \in Hosts, Tick(h)
  PROVE  CallInv'
<1>1. CASE TickScan(h)
  <2>1. UNCHANGED <<run, active, lease, results, turns, task, calls>>
        /\ tick[h].pc = "scan" /\ Scan(h)
        BY <1>1 DEF TickScan, store
  <2> QED
      BY <2>1, ScanCalls DEF Owns
<1>2. ASSUME NEW r \in Runs, TickSkip(h, r) \/ TickThrows(h, r) PROVE CallInv'
  <2>1. UNCHANGED <<run, active, lease, results, turns, exec, task, calls>>
        /\ tick[h].pc = "dispatch"
        BY <1>2 DEF TickSkip, TickThrows, InTurn, store
  <2>2. /\ \A k \in Hosts : k # h => tick'[k] = tick[k]
        /\ \/ tick'[h].pc = "idle"
           \/ /\ tick'[h].pc = "dispatch" /\ tick'[h].queue \subseteq tick[h].queue
              /\ tick'[h].seen = tick[h].seen /\ tick[h].busy \subseteq tick'[h].busy
    <3>1. CASE TickSkip(h, r)
          BY <2>1, <3>1, AdvanceTick DEF TickSkip
    <3>2. CASE TickThrows(h, r)
          BY <3>2 DEF TickThrows, NoTick, TypeInv, TypeOK
    <3> QED
        BY <1>2, <3>1, <3>2
  <2>3. LoopsKept /\ OwnersKept
        BY <2>1, <2>2 DEF LoopsKept, OwnersKept, Owns
  <2> QED
      BY <2>1, <2>3, SameRows, SameRuns, StatesFrame
<1> QED
    BY <1>1, <1>2, ClaimCalls, RecoverCalls, TickStartCalls DEF Tick

(***************************************************************************)
(* Commands that open an attempt.                                          *)
(***************************************************************************)
\* A new attempt has no owner, no turn and no call yet.
CallsFollow ==
  calls' = [r \in Runs |-> IF run'[r].attempt = run[r].attempt THEN calls[r]
                           ELSE [s \in Steps |-> 0]]

LEMMA NewAttemptCalls ==
  ASSUME TypeInv, TypeInv', CallInv, TickOpen', NEW r \in Runs, NEW a \in Nat,
         run[r].attempt < a, run[r].state \notin {"queued", "cancelled"},
         run' = [run EXCEPT ![r] = Queued(a)], active' = active \cup {r},
         \A q \in Runs, s \in Steps : q # r => results'[q][s] = results[q][s],
         UNCHANGED <<lease, turns, tick, exec, task>>, CallsFollow
  PROVE  CallInv'
<1>1. /\ run'[r].attempt = a /\ run'[r].owner = NoHost /\ run'[r].state = "queued"
      /\ \A q \in Runs : q # r => run'[q] = run[q]
      BY DEF Queued, TypeInv, TypeOK, StoreTypeOK
<1>2. run[r].attempt \in Nat
  <2>1. run[r] \in RunRecords
        BY DEF TypeInv, TypeOK, StoreTypeOK
  <2> QED
      BY <2>1, StoreConstants DEF RunRecords
<1>3. \A k \in Hosts, s \in Steps : <<k, r, s, a>> \notin turns
  <2>1. ASSUME NEW k \in Hosts, NEW s \in Steps, <<k, r, s, a>> \in turns PROVE FALSE
    <3>1. a \in Attempts
          BY <2>1 DEF TypeInv, TypeOK, StoreTypeOK
    <3> QED
        BY <1>2, <2>1, <3>1 DEF TurnsKnown, CallInv
  <2> QED
      BY <2>1
<1>4. OpenSteps(r)' = {}
  <2>1. OpenSteps(r)' = {s \in Steps : \E k \in Hosts : <<k, r, s, a>> \in turns}
        BY <1>1 DEF OpenSteps
  <2> QED
      BY <1>3, <2>1
<1>5. \A q \in Runs : q # r => OpenSteps(q)' = OpenSteps(q)
      BY <1>1, SameOpen
<1>6. \A k \in Hosts, q \in Runs : Holds(k, q)' => Holds(k, q) /\ q # r
      BY <1>1, StoreConstants DEF Holds, Executes
<1>7. active \subseteq Runs /\ \A k \in Hosts : tick[k].queue \subseteq Runs
      BY DEF TypeInv, TypeOK, StoreTypeOK, TickState
<1>8. TurnsKnown'
  <2>1. ASSUME NEW k \in Hosts, NEW q \in Runs, NEW s \in Steps, NEW b \in Attempts,
               <<k, q, s, b>> \in turns
        PROVE  s \in AgentSteps /\ b <= run'[q].attempt
    <3>1. s \in AgentSteps /\ b <= run[q].attempt
          BY <2>1 DEF TurnsKnown, CallInv
    <3> QED
        BY <1>1, <1>2, <3>1 DEF Attempts
  <2> QED
      BY <2>1 DEF TurnsKnown
<1>9. HeldAttempt' /\ PreparedFresh'
      BY <1>1, <1>6 DEF HeldAttempt, PreparedFresh, CallInv
<1>10. QueueKept'
      BY <1>1, <1>5, <1>7 DEF QueueKept, CallInv, Owns
<1>11. QueuedSettled'
      BY <1>1, <1>4, <1>5, <1>7 DEF QueuedSettled, CallInv
<1>12. BusyTargets' /\ ResultLast' /\ EndedOutcome'
      BY DEF BusyTargets, ResultLast, EndedOutcome, CallInv, Executes
<1>13. HeldTurns'
      BY <1>1, <1>6 DEF HeldTurns, CallInv
<1>14. DoneSettled'
      BY <1>1, <1>4, <1>5, <1>6, <1>7 DEF DoneSettled, CallInv, Owns, Executing
<1>15. CallsRecorded'
  <2>1. \A s \in Steps : calls'[r][s] = 0
        BY <1>1, <1>2 DEF CallsFollow
  <2>2. \A q \in Runs, s \in Steps : q # r => calls'[q][s] = calls[q][s]
        BY <1>1 DEF CallsFollow
  <2> QED
      BY <1>5, <2>1, <2>2 DEF CallsRecorded, CallInv
<1> QED
    BY <1>8, <1>9, <1>10, <1>11, <1>12, <1>13, <1>14, <1>15 DEF CallInv

LEMMA UserCommandCalls ==
  ASSUME TypeInv, TypeInv', CallInv, TickOpen', UserCommand
  PROVE  CallInv'
<1>1. UNCHANGED <<exec, task, tick>> /\ CallsFollow
      BY DEF UserCommand, CallsFollow, local
<1>2. \A r \in Runs : run[r] \in RunRecords
      BY DEF TypeInv, TypeOK, StoreTypeOK
<1>3. ASSUME NEW r \in Runs, Send(r) PROVE CallInv'
  <2>1. /\ run[r].attempt = 0 /\ run[r].state = "absent"
        /\ run' = [run EXCEPT ![r] = Queued(1)] /\ active' = active \cup {r}
        /\ UNCHANGED <<lease, turns, results>>
        BY <1>3 DEF Send, Absent
  <2>2. 1 \in Nat /\ run[r].attempt < 1 /\ run[r].state \notin {"queued", "cancelled"}
        BY <2>1
  <2>3. \A q \in Runs, s \in Steps : q # r => results'[q][s] = results[q][s]
        BY <2>1
  <2>4. UNCHANGED <<lease, turns, tick, exec, task>>
        BY <1>1, <2>1
  <2> QED
      BY <1>1, <2>1, <2>2, <2>3, <2>4, NewAttemptCalls, Zenon
<1>4. ASSUME NEW r \in Runs, NEW confirmed \in BOOLEAN, Resume(r, confirmed) PROVE CallInv'
  <2>1. /\ run[r].state \in {"failed", "interrupted"}
        /\ run' = [run EXCEPT ![r] = Queued(run[r].attempt + 1)]
        /\ active' = active \cup {r} /\ UNCHANGED <<lease, turns>>
        BY <1>4 DEF Resume
  <2>2. \A q \in Runs, s \in Steps : q # r => results'[q][s] = results[q][s]
        BY <1>4 DEF Resume, TypeInv, TypeOK, StoreTypeOK, ResultTable
  <2>3. /\ run[r].attempt + 1 \in Nat /\ run[r].attempt < run[r].attempt + 1
        /\ run[r].state \notin {"queued", "cancelled"}
    <3>1. run[r].attempt \in Nat
          BY <1>2, StoreConstants DEF RunRecords
    <3> QED
        BY <2>1, <3>1
  <2>4. UNCHANGED <<lease, turns, tick, exec, task>>
        BY <1>1, <2>1
  <2> QED
      BY <1>1, <2>1, <2>2, <2>3, <2>4, NewAttemptCalls, Zenon
<1>5. CASE \/ \E r \in Runs : Cancel(r)
           \/ \E r \in Runs, s \in Steps, a \in Attempts, d \in Answers : Answer(r, s, a, d)
           \/ \E r \in Runs, n \in Notes : Steer(r, n)
  <2>1. \A r \in Runs : run'[r].attempt = run[r].attempt
        BY <1>5, CancelRecords DEF Answer, Steer
  <2>2. UNCHANGED calls
        BY <1>1, <2>1 DEF CallsFollow, TypeInv, TypeOK
  <2> QED
      BY <1>1, <1>5, <2>2, CommandCalls
<1> QED
    BY <1>3, <1>4, <1>5 DEF UserCommand, Command

(***************************************************************************)
(* Executors.                                                              *)
(***************************************************************************)
\* The task of step s in the executor of r changes, and no other.
OneTask(h, r, s, pc, out) ==
  /\ task'[h][r][s].pc = pc
  /\ task'[h][r][s].out = out
  /\ \A k \in Hosts, q \in Runs, t \in Steps :
       <<k, q, t>> # <<h, r, s>> => task'[k][q][t] = task[k][q][t]

LEMMA OneTaskChanges ==
  ASSUME TypeInv, NEW h \in Hosts, NEW r \in Runs, NEW s \in Steps, NEW pc, NEW out
  PROVE  /\ End(h, r, s, pc, out) => OneTask(h, r, s, pc, out)
         /\ Goto(h, r, s, pc) => OneTask(h, r, s, pc, task[h][r][s].out)
<1>1. task[h][r][s] \in TaskState
      BY DEF TypeInv, TypeOK, TaskTable
<1>2. ASSUME NEW x, task' = [task EXCEPT ![h][r][s] = x]
      PROVE  /\ task'[h][r][s] = x
             /\ \A k \in Hosts, q \in Runs, t \in Steps :
                  <<k, q, t>> # <<h, r, s>> => task'[k][q][t] = task[k][q][t]
      BY <1>2 DEF TypeInv, TypeOK, TaskTable
<1>3. CASE End(h, r, s, pc, out)
  <2>1. task' = [task EXCEPT ![h][r][s] = [pc |-> pc, out |-> out]]
        BY <1>3 DEF End
  <2>2. OneTask(h, r, s, pc, out)
    <3>1. task'[h][r][s] = [pc |-> pc, out |-> out]
          BY <1>2, <2>1
    <3>2. task'[h][r][s].pc = pc /\ task'[h][r][s].out = out
          BY <3>1
    <3> QED
        BY <1>2, <2>1, <3>2 DEF OneTask
  <2>3. Goto(h, r, s, pc) => out = task[h][r][s].out
    <3>1. ASSUME Goto(h, r, s, pc) PROVE out = task[h][r][s].out
      <4>1. task' = [task EXCEPT ![h][r][s] = [task[h][r][s] EXCEPT !.pc = pc]]
            BY <3>1 DEF Goto, TypeInv, TypeOK, TaskTable
      <4>2. task'[h][r][s] = [task[h][r][s] EXCEPT !.pc = pc]
            BY <1>2, <4>1
      <4> QED
          BY <1>1, <2>2, <4>2 DEF OneTask, TaskState
    <3> QED
        BY <3>1
  <2> QED
      BY <2>2, <2>3
<1>4. ASSUME Goto(h, r, s, pc) PROVE OneTask(h, r, s, pc, task[h][r][s].out)
  <2>1. task' = [task EXCEPT ![h][r][s] = [task[h][r][s] EXCEPT !.pc = pc]]
        BY <1>4 DEF Goto, TypeInv, TypeOK, TaskTable
  <2>2. task'[h][r][s] = [task[h][r][s] EXCEPT !.pc = pc]
        BY <1>2, <2>1
  <2>3. task'[h][r][s].pc = pc /\ task'[h][r][s].out = task[h][r][s].out
        BY <1>1, <2>2 DEF TaskState
  <2> QED
      BY <1>2, <2>1, <2>3 DEF OneTask
<1> QED
    BY <1>3, <1>4

\* Only Executing states change into each other.
StatesMove ==
  \A q \in Runs :
    /\ run'[q].attempt = run[q].attempt /\ run'[q].owner = run[q].owner
    /\ run'[q] = run[q] \/ (run[q].state \in Executing /\ run'[q].state \in Executing)

LEMMA TaskFrame ==
  ASSUME TypeInv, TypeInv', CallInv, TickOpen', NEW h \in Hosts, NEW r \in Runs,
         NEW s \in Steps, NEW pc, NEW out, OneTask(h, r, s, pc, out), StatesMove,
         UNCHANGED <<turns, results, calls, exec, tick, lease, active>>,
         task[h][r][s].pc \in Made => pc \in Made,
         pc = "done" => task[h][r][s].pc \notin Made,
         exec[h][r].result = NoOutcome,
         pc = "prepare" => results[r][s] = NoOutcome,
         pc = "ended" => out # NoOutcome
  PROVE  CallInv'
<1>1. \A q \in Runs : OpenSteps(q)' = OpenSteps(q)
      BY SameOpen DEF StatesMove
<1>2. \A k \in Hosts, q \in Runs : Holds(k, q)' <=> Holds(k, q)
      BY DEF Holds, Executes, StatesMove
<1>3. active \subseteq Runs /\ \A k \in Hosts : tick[k].queue \subseteq Runs
      BY DEF TypeInv, TypeOK, StoreTypeOK, TickState
<1>4. TurnsKnown' /\ HeldAttempt' /\ CallsRecorded'
      BY <1>1, <1>2 DEF TurnsKnown, HeldAttempt, CallsRecorded, CallInv, StatesMove
<1>5. QueueKept'
      BY <1>1, <1>3 DEF QueueKept, CallInv, StatesMove, Owns, Executing
<1>6. QueuedSettled' /\ BusyTargets'
      BY <1>1, <1>3 DEF QueuedSettled, BusyTargets, CallInv, StatesMove, Executes, Executing
<1>7. HeldTurns'
      BY <1>2 DEF HeldTurns, CallInv, StatesMove, OneTask
<1>8. DoneSettled'
  <2>1. ASSUME NEW k \in Hosts, NEW q \in active, NEW t \in Steps, Holds(k, q),
               run'[q].state \in Executing, task'[k][q][t].pc = "done", t \in OpenSteps(q)
        PROVE  ~Owns(k) \/ tick[k].pc = "recover"
    <3>1. q \in Runs /\ run[q].state \in Executing
          BY <1>3, <2>1 DEF StatesMove
    <3>2. task[k][q][t].pc \in Made
          BY <2>1, <3>1 DEF OpenSteps, HeldTurns, CallInv
    <3>3. task[k][q][t].pc = "done"
          BY <2>1, <3>1, <3>2 DEF OneTask
    <3> QED
        BY <2>1, <3>1, <3>3 DEF DoneSettled, CallInv
  <2> QED
      BY <1>1, <1>2, <1>3, <2>1 DEF DoneSettled, Owns
<1>9. ResultLast'
      BY DEF ResultLast, CallInv, OneTask, Executes
<1>10. PreparedFresh' /\ EndedOutcome'
      BY <1>2 DEF PreparedFresh, EndedOutcome, CallInv, OneTask
<1> QED
    BY <1>4, <1>5, <1>6, <1>7, <1>8, <1>9, <1>10 DEF CallInv

\* A task that is under way belongs to an executor without a result.
LEMMA UnderWay ==
  ASSUME TypeInv, CallInv, NEW h \in Hosts, NEW r \in Runs, NEW s \in Steps,
         task[h][r][s].pc \notin {"idle", "done"}
  PROVE  exec[h][r].result = NoOutcome /\ Executes(h, r)
<1>1. exec[h][r].result = NoOutcome
      BY DEF CallInv, ResultLast
<1> QED
    BY <1>1, StartedExecutes

LEMMA SomeOutcome ==
  /\ Unknown # NoOutcome /\ Stopped # NoOutcome
  /\ \A h, r : NotCalled(h, r) # NoOutcome
  /\ \A answer : Decided(answer) # NoOutcome
  /\ \A out \in KernelOutcomes : out # NoOutcome
BY HostConstants
DEF Unknown, Stopped, NotCalled, Decided, NoOutcome, Outcome, StepStatus

\* The steps of a task that make and settle no call.
LEMMA LocalStepCalls ==
  ASSUME TypeInv, TypeInv', CallInv, TickOpen', NEW h \in Hosts, NEW r \in Runs, NEW s \in Steps,
         \/ BeginStep(h, r, s) \/ AcquireRefused(h, r, s) \/ Acquired(h, r, s)
         \/ PrepareFails(h, r, s) \/ DispatchRefused(h, r, s)
         \/ \E out \in KernelOutcomes : CallEnds(h, r, s, out)
  PROVE  CallInv'
<1>1. /\ UNCHANGED <<turns, results, calls, exec, tick, lease, active>> /\ UNCHANGED run
      BY DEF BeginStep, AcquireRefused, Acquired, PrepareFails, DispatchRefused, CallEnds, store
<1>2. StatesMove
      BY <1>1 DEF StatesMove
<1>3. exec[h][r].result = NoOutcome
      BY UnderWay
      DEF BeginStep, MayStart, AcquireRefused, Acquired, PrepareFails, DispatchRefused, CallEnds, At
<1> DEFINE old == task[h][r][s].pc
<1>4. CASE BeginStep(h, r, s)
  <2>1. \/ End(h, r, s, "done", Unknown)
        \/ End(h, r, s, "done", results[r][s])
        \/ Goto(h, r, s, "acquire")
        BY <1>4 DEF BeginStep
  <2>2. old = "idle"
        BY <1>4 DEF BeginStep, MayStart
  <2>3. \E pc \in {"done", "acquire"} : \E out : OneTask(h, r, s, pc, out)
        BY <2>1, OneTaskChanges
  <2> QED
      BY <1>1, <1>2, <1>3, <2>2, <2>3, TaskFrame DEF Made
<1>5. CASE AcquireRefused(h, r, s)
  <2>1. End(h, r, s, "done", Unknown) /\ old = "acquire"
        BY <1>5 DEF AcquireRefused, At
  <2> QED
      BY <1>1, <1>2, <1>3, <2>1, OneTaskChanges, TaskFrame DEF Made
<1>6. CASE Acquired(h, r, s)
  <2>1. \/ End(h, r, s, "ended", NotCalled(h, r))
        \/ End(h, r, s, "idle", NoOutcome)
        \/ End(h, r, s, "done", results[r][s])
        \/ Goto(h, r, s, "prepare") /\ results[r][s] = NoOutcome
        BY <1>6 DEF Acquired
  <2>2. old = "acquire"
        BY <1>6 DEF Acquired, At
  <2>3. \E pc, out : /\ OneTask(h, r, s, pc, out)
                     /\ pc \in {"ended", "idle", "done", "prepare"}
                     /\ pc = "ended" => out # NoOutcome
                     /\ pc = "prepare" => results[r][s] = NoOutcome
        BY <2>1, OneTaskChanges, SomeOutcome
  <2> QED
      BY <1>1, <1>2, <1>3, <2>2, <2>3, TaskFrame DEF Made
<1>7. CASE PrepareFails(h, r, s) \/ DispatchRefused(h, r, s)
  <2>1. End(h, r, s, "ended", NotCalled(h, r)) /\ old = "prepare"
        BY <1>7 DEF PrepareFails, DispatchRefused, At
  <2> QED
      BY <1>1, <1>2, <1>3, <2>1, OneTaskChanges, TaskFrame, SomeOutcome DEF Made
<1>8. ASSUME NEW out \in KernelOutcomes, CallEnds(h, r, s, out) PROVE CallInv'
  <2>1. End(h, r, s, "ended", out) /\ old = "call"
        BY <1>8 DEF CallEnds, At
  <2> QED
      BY <1>1, <1>2, <1>3, <2>1, OneTaskChanges, TaskFrame, SomeOutcome DEF Made
<1> QED
    BY <1>4, <1>5, <1>6, <1>7, <1>8

LEMMA QuestionCalls ==
  ASSUME TypeInv, TypeInv', CallInv, TickOpen', NEW h \in Hosts, NEW r \in Runs, NEW s \in Steps,
         Ask(h, r, s) \/ AskEnds(h, r, s) \/ BeginConfirm(h, r, s) \/ ConfirmEnds(h, r, s)
  PROVE  CallInv'
<1>1. UNCHANGED <<turns, results, calls, exec, tick, lease, active>>
      BY DEF Ask, AskEnds, BeginConfirm, ConfirmEnds
<1>2. StatesMove
  <2>1. \/ CloseQuestion(h, r, s) \/ \E pc : OpenQuestion(h, r, s, pc) /\ OwnedBy(h, r, FALSE)
        \/ UNCHANGED run
        BY DEF Ask, AskEnds, BeginConfirm, ConfirmEnds, MustAsk
  <2> QED
      BY <2>1, QuestionRecords DEF StatesMove
<1>3. exec[h][r].result = NoOutcome
      BY UnderWay DEF Ask, AskEnds, BeginConfirm, ConfirmEnds, MayStart, At
<1> DEFINE old == task[h][r][s].pc
<1>4. CASE Ask(h, r, s) \/ AskEnds(h, r, s)
  <2>1. (Goto(h, r, s, "ask") \/ Goto(h, r, s, "call")) /\ old \in {"call", "ask"}
        BY <1>4 DEF Ask, AskEnds, OpenQuestion, At
  <2>2. \E pc \in {"ask", "call"} : \E out : OneTask(h, r, s, pc, out)
        BY <2>1, OneTaskChanges
  <2> QED
      BY <1>1, <1>2, <1>3, <2>1, <2>2, TaskFrame DEF Made
<1>5. CASE BeginConfirm(h, r, s)
  <2>1. \/ Goto(h, r, s, "confirm")
        \/ End(h, r, s, "done", results[r][s])
        \/ End(h, r, s, "done", Unknown)
        \/ End(h, r, s, "done", Stopped)
        \/ End(h, r, s, "ended", Decided(asked[r][s][exec[h][r].attempt]))
        BY <1>5 DEF BeginConfirm, OpenQuestion
  <2>2. old = "idle"
        BY <1>5 DEF BeginConfirm, MayStart
  <2>3. \E pc, out : /\ OneTask(h, r, s, pc, out)
                     /\ pc \in {"confirm", "done", "ended"}
                     /\ pc = "ended" => out # NoOutcome
    <3>1. Decided(asked[r][s][exec[h][r].attempt]) # NoOutcome
          BY SomeOutcome
    <3>2. CASE Goto(h, r, s, "confirm")
      <4>1. OneTask(h, r, s, "confirm", task[h][r][s].out)
            BY <3>2, OneTaskChanges
      <4> QED
          BY <4>1
    <3>3. CASE ~Goto(h, r, s, "confirm")
          BY <2>1, <3>1, <3>3, OneTaskChanges
    <3> QED
        BY <3>2, <3>3
  <2> QED
      BY <1>1, <1>2, <1>3, <2>2, <2>3, TaskFrame DEF Made
<1>6. CASE ConfirmEnds(h, r, s)
  <2>1. End(h, r, s, "ended", ConfirmOutcome(h, r, s)) /\ old = "confirm"
        BY <1>6 DEF ConfirmEnds, At
  <2>2. ConfirmOutcome(h, r, s) # NoOutcome
        BY SomeOutcome DEF ConfirmOutcome
  <2> QED
      BY <1>1, <1>2, <1>3, <2>1, <2>2, OneTaskChanges, TaskFrame DEF Made
<1> QED
    BY <1>4, <1>5, <1>6

\* The call is made by a step that has no turn and no result in its run's attempt.
LEMMA DispatchCalls ==
  ASSUME TypeInv, TypeInv', ConsentInv, CallInv, TickOpen',
         NEW h \in Hosts, NEW r \in Runs, NEW s \in Steps, Dispatch(h, r, s)
  PROVE  CallInv' /\ calls[r][s] = 0
<1>1. /\ task[h][r][s].pc = "prepare" /\ Owns(h) /\ run[r].owner = h /\ run[r].state \in Executing
      /\ turns' = turns \cup {<<h, r, s, exec[h][r].attempt>>}
      /\ calls' = [calls EXCEPT ![r][s] = @ + 1]
      /\ Goto(h, r, s, "call")
      /\ UNCHANGED <<run, active, lease, results, tick, exec>>
      BY DEF Dispatch, At, Owned
<1>2. Executes(h, r) /\ exec[h][r].result = NoOutcome /\ Holds(h, r)
      BY <1>1, UnderWay DEF Holds
<1>3. exec[h][r].attempt = run[r].attempt
      BY <1>2 DEF HeldAttempt, CallInv
<1>4. s \in AgentSteps
      BY <1>1 DEF ConsentInv, ConfirmKinds, Steps
<1>5. s \notin OpenSteps(r) /\ results[r][s] = NoOutcome
  <2>1. task[h][r][s].pc \notin Made
        BY <1>1 DEF Made
  <2> QED
      BY <1>1, <1>2, <2>1 DEF OpenSteps, HeldTurns, PreparedFresh, CallInv
<1>6. calls[r][s] = 0
      BY <1>5 DEF CallsRecorded, CallInv
<1>7. OneTask(h, r, s, "call", task[h][r][s].out)
      BY <1>1, OneTaskChanges
<1>8. \A q \in Runs, t \in Steps :
        <<q, t>> # <<r, s>> => (t \in OpenSteps(q)' <=> t \in OpenSteps(q))
  <2>1. ASSUME NEW q \in Runs, NEW t \in Steps, NEW k \in Hosts, <<q, t>> # <<r, s>>
        PROVE  <<k, q, t, run[q].attempt>> \in turns' <=> <<k, q, t, run[q].attempt>> \in turns
        BY <1>1, <2>1
  <2> QED
      BY <1>1, <2>1 DEF OpenSteps
<1>9. s \in OpenSteps(r)'
      BY <1>1, <1>3 DEF OpenSteps
<1>10. \A k \in Hosts, q \in Runs : Holds(k, q)' <=> Holds(k, q)
      BY <1>1 DEF Holds, Executes
<1>11. active \subseteq Runs /\ \A k \in Hosts : tick[k].queue \subseteq Runs
      BY DEF TypeInv, TypeOK, StoreTypeOK, TickState
<1>12. TurnsKnown'
  <2>1. run[r].attempt <= run[r].attempt
    <3>1. run[r] \in RunRecords
          BY DEF TypeInv, TypeOK, StoreTypeOK
    <3> QED
        BY <3>1, StoreConstants DEF RunRecords
  <2> QED
      BY <1>1, <1>3, <1>4, <2>1 DEF TurnsKnown, CallInv
<1>13. HeldAttempt' /\ BusyTargets'
      BY <1>1, <1>10 DEF HeldAttempt, BusyTargets, CallInv, Executes
<1>14. QueueKept'
  <2>1. ASSUME NEW k \in Hosts, Owns(k), tick[k].pc = "dispatch", NEW q \in tick[k].queue
        PROVE  /\ run[q].attempt = tick[k].seen[q].attempt
               /\ run[q].state \in {"queued", "cancelled"} /\ OpenSteps(q)' = {}
    <3>1. /\ run[q].attempt = tick[k].seen[q].attempt
          /\ run[q].state \in {"queued", "cancelled"} /\ OpenSteps(q) = {}
          BY <2>1 DEF QueueKept, CallInv
    <3>2. q \in Runs /\ q # r
          BY <1>1, <1>11, <2>1, <3>1 DEF Executing
    <3> QED
        BY <1>8, <3>1, <3>2 DEF OpenSteps
  <2> QED
      BY <1>1, <2>1 DEF QueueKept, Owns
<1>15. QueuedSettled'
  <2>1. ASSUME NEW q \in active, run[q].state = "queued" PROVE OpenSteps(q)' = {}
    <3>1. q \in Runs /\ q # r /\ OpenSteps(q) = {}
          BY <1>1, <1>11, <2>1 DEF Executing, QueuedSettled, CallInv
    <3> QED
        BY <1>8, <3>1 DEF OpenSteps
  <2> QED
      BY <1>1, <2>1 DEF QueuedSettled
<1>16. HeldTurns'
  <2>1. ASSUME NEW k \in Hosts, NEW j \in Hosts, NEW q \in Runs, NEW t \in Steps,
               Holds(k, q), <<j, q, t, run[q].attempt>> \in turns'
        PROVE  j = k /\ task'[k][q][t].pc \in Made
    <3>1. CASE <<j, q, t, run[q].attempt>> \in turns
          BY <1>7, <2>1, <3>1 DEF HeldTurns, CallInv, OneTask, Made
    <3>2. CASE <<j, q, t, run[q].attempt>> = <<h, r, s, exec[h][r].attempt>>
          BY <1>1, <1>7, <2>1, <3>2 DEF Holds, OneTask, Made
    <3> QED
        BY <1>1, <2>1, <3>1, <3>2
  <2> QED
      BY <1>1, <1>10, <2>1 DEF HeldTurns
<1>17. DoneSettled'
  <2>1. ASSUME NEW k \in Hosts, NEW q \in active, NEW t \in Steps, Holds(k, q),
               run[q].state \in Executing, task'[k][q][t].pc = "done", t \in OpenSteps(q)'
        PROVE  ~Owns(k) \/ tick[k].pc = "recover"
    <3>1. q \in Runs
          BY <1>11
    <3>2. CASE <<q, t>> # <<r, s>>
          BY <1>7, <1>8, <2>1, <3>1, <3>2 DEF OneTask, DoneSettled, CallInv
    <3>3. CASE q = r /\ t = s
          BY <1>1, <1>7, <2>1, <3>3 DEF OneTask, Holds
    <3> QED
        BY <3>2, <3>3
  <2> QED
      BY <1>1, <1>10, <1>11, <2>1 DEF DoneSettled, Owns
<1>18. ResultLast'
      BY <1>1, <1>2, <1>7 DEF ResultLast, CallInv, OneTask, Executes
<1>19. CallsRecorded'
  <2>1. calls'[r][s] = 1 /\ \A q \in Runs, t \in Steps :
          <<q, t>> # <<r, s>> => calls'[q][t] = calls[q][t]
        BY <1>1, <1>6 DEF TypeInv, TypeOK
  <2> QED
      BY <1>1, <1>8, <1>9, <2>1 DEF CallsRecorded, CallInv
<1>20. PreparedFresh' /\ EndedOutcome'
      BY <1>1, <1>7, <1>10 DEF PreparedFresh, EndedOutcome, CallInv, OneTask
<1> QED
    BY <1>6, <1>12, <1>13, <1>14, <1>15, <1>16, <1>17, <1>18, <1>19, <1>20 DEF CallInv

\* A step that finishes closes its own turn or stores a result, if its Host still may.
LEMMA FinishFrame ==
  ASSUME TypeInv, TypeInv', CallInv, TickOpen', NEW h \in Hosts, NEW r \in Runs, NEW s \in Steps,
         NEW out, OneTask(h, r, s, "done", out), task[h][r][s].pc = "ended",
         UNCHANGED <<run, active, lease, calls, tick, exec>>,
         turns' \subseteq turns, turns \ turns' \subseteq {<<h, r, s, exec[h][r].attempt>>},
         \A q \in Runs, t \in Steps :
           results'[q][t] # results[q][t] =>
             q = r /\ t = s /\ results'[q][t] # NoOutcome /\ run[r].owner = h,
         turns' # turns => results'[r][s] # NoOutcome,
         Holds(h, r) /\ run[r].state \in Executing /\ Owns(h) => s \notin OpenSteps(r)'
  PROVE  CallInv'
<1>1. exec[h][r].result = NoOutcome
      BY UnderWay
<1>2. \A q \in Runs : OpenSteps(q)' \subseteq OpenSteps(q)
      BY DEF OpenSteps
<1>3. \A q \in Runs, t \in Steps :
        t \in OpenSteps(q) => t \in OpenSteps(q)' \/ (q = r /\ t = s /\ turns' # turns)
      BY DEF OpenSteps
<1>4. \A k \in Hosts, q \in Runs : Holds(k, q)' <=> Holds(k, q)
      BY DEF Holds, Executes
<1>5. active \subseteq Runs /\ \A k \in Hosts : tick[k].queue \subseteq Runs
      BY DEF TypeInv, TypeOK, StoreTypeOK, TickState
<1>6. TurnsKnown' /\ HeldAttempt' /\ BusyTargets'
      BY <1>4 DEF TurnsKnown, HeldAttempt, BusyTargets, CallInv, Executes
<1>7. QueueKept'
      BY <1>2, <1>5 DEF QueueKept, CallInv, Owns
<1>8. QueuedSettled'
      BY <1>2, <1>5 DEF QueuedSettled, CallInv
<1>9. HeldTurns'
      BY <1>4 DEF HeldTurns, CallInv, OneTask, Made
<1>10. DoneSettled'
  <2>1. ASSUME NEW k \in Hosts, NEW q \in active, NEW t \in Steps, Holds(k, q),
               run[q].state \in Executing, task'[k][q][t].pc = "done", t \in OpenSteps(q)'
        PROVE  ~Owns(k) \/ tick[k].pc = "recover"
    <3>1. q \in Runs /\ t \in OpenSteps(q)
          BY <1>2, <1>5, <2>1
    <3>2. CASE <<k, q, t>> # <<h, r, s>>
          BY <2>1, <3>1, <3>2 DEF OneTask, DoneSettled, CallInv
    <3>3. CASE k = h /\ q = r /\ t = s
          BY <2>1, <3>3
    <3> QED
        BY <3>2, <3>3
  <2> QED
      BY <1>4, <1>5, <2>1 DEF DoneSettled, Owns
<1>11. ResultLast'
      BY <1>1 DEF ResultLast, CallInv, OneTask, Executes
<1>12. CallsRecorded'
      BY <1>3 DEF CallsRecorded, CallInv
<1>13. PreparedFresh'
  <2>1. ASSUME NEW k \in Hosts, NEW q \in Runs, NEW t \in Steps, Holds(k, q),
               task'[k][q][t].pc = "prepare"
        PROVE  results'[q][t] = NoOutcome
    <3>1. <<k, q, t>> # <<h, r, s>>
          BY <2>1 DEF OneTask
    <3>2. results[q][t] = NoOutcome
          BY <2>1, <3>1 DEF OneTask, PreparedFresh, CallInv
    <3> QED
        BY <2>1, <3>1, <3>2 DEF Holds
  <2> QED
      BY <1>4, <2>1 DEF PreparedFresh
<1>14. EndedOutcome'
      BY DEF EndedOutcome, CallInv, OneTask
<1> QED
    BY <1>6, <1>7, <1>8, <1>9, <1>10, <1>11, <1>12, <1>13, <1>14 DEF CallInv

LEMMA SettleStepCalls ==
  ASSUME TypeInv, TypeInv', CallInv, TickOpen', NEW h \in Hosts, NEW r \in Runs, NEW s \in Steps,
         SettleStep(h, r, s)
  PROVE  CallInv'
<1> DEFINE attempt == exec[h][r].attempt
           settles == Current(h, r, attempt)
<1>1. /\ task[h][r][s].pc = "ended" /\ Goto(h, r, s, "done")
      /\ turns' = IF settles THEN turns \ {<<h, r, s, attempt>>} ELSE turns
      /\ results' = IF settles THEN [results EXCEPT ![r][s] = task[h][r][s].out] ELSE results
      /\ UNCHANGED <<run, active, lease, calls, tick, exec>>
      BY DEF SettleStep, At
<1>2. task[h][r][s].out # NoOutcome
      BY <1>1 DEF EndedOutcome, CallInv
<1>3. settles => run[r].owner = h
      BY DEF Current, Owned
<1>4. /\ turns' \subseteq turns /\ turns \ turns' \subseteq {<<h, r, s, attempt>>}
      /\ turns' # turns => results'[r][s] # NoOutcome
      /\ \A q \in Runs, t \in Steps :
           results'[q][t] # results[q][t] =>
             q = r /\ t = s /\ results'[q][t] # NoOutcome /\ run[r].owner = h
      BY <1>1, <1>2, <1>3 DEF TypeInv, TypeOK, StoreTypeOK, ResultTable
<1>5. ASSUME Holds(h, r), run[r].state \in Executing, Owns(h) PROVE s \notin OpenSteps(r)'
  <2>1. attempt = run[r].attempt
        BY <1>5 DEF HeldAttempt, CallInv
  <2>2. settles
        BY <1>5, <2>1 DEF Current, Owned, Holds
  <2>3. \A k \in Hosts : <<k, r, s, run[r].attempt>> \in turns => k = h
        BY <1>5 DEF HeldTurns, CallInv
  <2> QED
      BY <1>1, <2>1, <2>2, <2>3 DEF OpenSteps
<1>6. OneTask(h, r, s, "done", task[h][r][s].out)
      BY <1>1, OneTaskChanges
<1> HIDE DEF settles
<1> QED
    BY <1>1, <1>4, <1>5, <1>6, FinishFrame

LEMMA SaveConfirmCalls ==
  ASSUME TypeInv, TypeInv', CallInv, TickOpen', NEW h \in Hosts, NEW r \in Runs, NEW s \in Steps,
         SaveConfirm(h, r, s)
  PROVE  CallInv'
<1> DEFINE out == task[h][r][s].out
           saves == OwnedBy(h, r, TRUE)
<1>1. /\ task[h][r][s].pc = "ended" /\ s \in ConfirmSteps
      /\ End(h, r, s, "done", IF saves THEN out ELSE Unknown)
      /\ results' = IF saves /\ Reusable(out) THEN [results EXCEPT ![r][s] = out] ELSE results
      /\ UNCHANGED <<run, active, lease, calls, tick, exec, turns>>
      BY DEF SaveConfirm, At
<1>2. Reusable(out) => out # NoOutcome
      BY DEF Reusable, NoOutcome, Outcome
<1>3. saves => run[r].owner = h
      BY DEF OwnedBy, Owned
<1>4. \A q \in Runs, t \in Steps :
        results'[q][t] # results[q][t] =>
          q = r /\ t = s /\ results'[q][t] # NoOutcome /\ run[r].owner = h
      BY <1>1, <1>2, <1>3 DEF TypeInv, TypeOK, StoreTypeOK, ResultTable
<1>5. s \notin OpenSteps(r)'
  <2>1. ASSUME NEW k \in Hosts, <<k, r, s, run[r].attempt>> \in turns PROVE FALSE
    <3>1. run[r].attempt \in Attempts
          BY <2>1 DEF TypeInv, TypeOK, StoreTypeOK
    <3>2. s \in AgentSteps
          BY <2>1, <3>1 DEF TurnsKnown, CallInv
    <3> QED
        BY <1>1, <3>2, StoreConstants
  <2> QED
      BY <1>1, <2>1 DEF OpenSteps
<1>6. OneTask(h, r, s, "done", IF saves THEN out ELSE Unknown)
      BY <1>1, OneTaskChanges
<1> HIDE DEF saves, out
<1> QED
    BY <1>1, <1>4, <1>5, <1>6, FinishFrame

\* The outcome of an engine is never an unfinished state.
LEMMA FinalEnds ==
  ASSUME NEW r, NEW out \in Outcomes, out # NoOutcome
  PROVE  FinalState(r, out) \in RunStates \ ActiveStates
BY DEF FinalState, Outcomes, StepStatus, RunStates, ActiveStates

\* What an owner settles has no open call left.
LEMMA SettledCalls ==
  ASSUME TypeInv, CallInv, NEW h \in Hosts, NEW r \in Runs, Free(h),
         exec[h][r].result # NoOutcome, r \in active, Settles(h, r)
  PROVE  OpenSteps(r) = {}
<1>1. Holds(h, r) /\ Owns(h) /\ run[r].state \in Executing /\ tick[h].pc # "recover"
      BY DEF Settles, Current, Owned, Holds, Free, CallInv, ResultLast
<1>2. ASSUME NEW s \in OpenSteps(r) PROVE FALSE
  <2>1. s \in Steps /\ task[h][r][s].pc \in Made
        BY <1>1, <1>2 DEF OpenSteps, HeldTurns, CallInv
  <2>2. task[h][r][s].pc = "done"
        BY <2>1 DEF ResultLast, CallInv, Made
  <2> QED
      BY <1>1, <1>2, <2>1, <2>2 DEF DoneSettled, CallInv
<1> QED
    BY <1>2

LEMMA SettleRunCalls ==
  ASSUME TypeInv, TypeInv', CallInv, TickOpen', NEW h \in Hosts, NEW r \in Runs,
         SettleRun(h, r) \/ FailRun(h, r)
  PROVE  CallInv'
<1>1. /\ UNCHANGED <<turns, results, calls, tick, lease>> /\ EndExec(h, r)
      /\ Free(h) /\ exec[h][r].result # NoOutcome
      BY DEF SettleRun, FailRun
<1>2. RowsKept
      BY <1>1, EndRows
<1>3. CASE SettleRun(h, r)
  <2>1. RunsKept
        BY <1>3, SettleRecords DEF RunsKept
  <2>2. /\ ~Settles(h, r) => run' = run /\ active' = active
        /\ Settles(h, r) => run[r].state \in Executing
    <3>1. ~Settles(h, r) => run' = run /\ active' = active
          BY <1>3 DEF SettleRun, Settles
    <3> QED
        BY <3>1 DEF Settles, Current, Owned
  <2>3. FinalState(r, exec[h][r].result) \in RunStates \ ActiveStates
    <3>1. exec[h][r].result \in Outcomes
          BY DEF TypeInv, TypeOK, ExecTable, Executor
    <3> QED
        BY <1>1, <3>1, FinalEnds
  <2>4. CASE ~Settles(h, r)
        BY <1>1, <1>2, <2>2, <2>4, SameRuns, SameTicks, StatesFrame
  <2>5. CASE Settles(h, r)
    <3>1. StatesKept
      <4>1. /\ run'[r].state \notin Executing /\ active' \subseteq active
            /\ run'[r].state = "queued" => OpenSteps(r) = {} \/ r \notin active
            /\ \A q \in Runs : q # r => run'[q] = run[q]
            BY <1>1, <1>3, <2>3, <2>5, SettleRecords, SettledCalls
            DEF Executing, ActiveStates, Requeues
      <4> QED
          BY <2>2, <2>5, <4>1 DEF StatesKept, Executing, CallInv, QueuedSettled
    <3> QED
        BY <1>1, <1>2, <2>1, <3>1, SameTicks, StatesFrame
  <2> QED
      BY <2>4, <2>5
<1>4. CASE FailRun(h, r)
  <2>1. RunsKept
        BY <1>4, FailRecords DEF RunsKept
  <2>2. StatesKept
    <3>0. \A q \in Runs : q # r => run'[q] = run[q]
          BY <1>4 DEF FailRun, GiveUp, TypeInv, TypeOK, StoreTypeOK
    <3>1. CASE run'[r] = run[r] /\ active' = active
      <4>1. UNCHANGED <<run, active>>
            BY <3>0, <3>1 DEF TypeInv, TypeOK, StoreTypeOK
      <4> QED
          BY <4>1, SameRuns
    <3>2. CASE run'[r].state = "interrupted" /\ active' = active \ {r} /\ Owns(h)
      <4>1. \A k \in Hosts : ~(Owns(k)' /\ tick'[k].pc = "dispatch")
            BY <1>1, <3>2 DEF Owns, Free
      <4> QED
          BY <3>0, <3>2, <4>1 DEF StatesKept, Executing, CallInv, QueuedSettled
    <3> QED
        BY <1>4, <3>1, <3>2, FailRecords
  <2> QED
      BY <1>1, <1>2, <2>1, <2>2, SameTicks, StatesFrame
<1> QED
    BY <1>3, <1>4

\* An engine returns when no task of its executor is under way.
LEMMA EngineReturnsCalls ==
  ASSUME TypeInv, TypeInv', CallInv, TickOpen', NEW h \in Hosts, NEW r \in Runs,
         EngineReturns(h, r)
  PROVE  CallInv'
<1>1. /\ UNCHANGED <<run, active, lease, turns, results, calls, tick, task>>
      /\ Executes(h, r) /\ InFlight(h, r) = {}
      /\ exec' = [exec EXCEPT ![h][r].result = EngineOutcome(h, r)]
      BY DEF EngineReturns, store
<1>2. \A k \in Hosts, q \in Runs :
        /\ exec'[k][q].attempt = exec[k][q].attempt
        /\ <<k, q>> # <<h, r>> => exec'[k][q] = exec[k][q]
  <2>1. exec[h][r] \in Executor
        BY DEF TypeInv, TypeOK, ExecTable
  <2> QED
      BY <1>1, <2>1 DEF Executor, TypeInv, TypeOK, ExecTable
<1>3. \A k \in Hosts, q \in Runs :
        (Holds(k, q)' <=> Holds(k, q)) /\ (Executes(k, q)' <=> Executes(k, q))
      BY <1>1, <1>2 DEF Holds, Executes
<1>4. \A q \in Runs : OpenSteps(q)' = OpenSteps(q)
      BY <1>1, SameOpen
<1>5. active \subseteq Runs /\ \A k \in Hosts : tick[k].queue \subseteq Runs
      BY DEF TypeInv, TypeOK, StoreTypeOK, TickState
<1>6. TurnsKnown' /\ HeldAttempt' /\ BusyTargets' /\ HeldTurns' /\ PreparedFresh' /\ EndedOutcome'
      BY <1>1, <1>2, <1>3
      DEF TurnsKnown, HeldAttempt, BusyTargets, HeldTurns, PreparedFresh, EndedOutcome, CallInv
<1>7. QueueKept' /\ QueuedSettled' /\ CallsRecorded'
      BY <1>1, <1>4, <1>5 DEF QueueKept, QueuedSettled, CallsRecorded, CallInv, Owns
<1>8. DoneSettled'
      BY <1>1, <1>3, <1>4, <1>5 DEF DoneSettled, CallInv, Owns
<1>9. ResultLast'
      BY <1>1, <1>2, <1>3 DEF ResultLast, CallInv, InFlight
<1> QED
    BY <1>6, <1>7, <1>8, <1>9 DEF CallInv

LEMMA ExecuteCalls ==
  ASSUME TypeInv, TypeInv', ConsentInv, CallInv, TickOpen', NEW h \in Hosts, NEW r \in Runs,
         Execute(h, r)
  PROVE  CallInv'
<1>1. ASSUME NEW read \in SUBSET Notes, AckSteering(h, r, read) PROVE CallInv'
      BY <1>1, SameRows, SameRuns, SameTicks, StatesFrame DEF AckSteering, local
<1>2. ASSUME NEW s \in Steps, Step(h, r, s) PROVE CallInv'
      BY <1>2, LocalStepCalls, QuestionCalls, DispatchCalls, SettleStepCalls, SaveConfirmCalls
      DEF Step
<1> QED
    BY <1>1, <1>2, SettleRunCalls, EngineReturnsCalls DEF Execute

LEMMA NextCalls ==
  ASSUME TypeInv, TypeInv', ConsentInv, CallInv, [Next]_vars
  PROVE  CallInv'
<1>1. TickOpen'
      BY NextTickOpen DEF CallInv
<1> QED
    BY <1>1, UserCommandCalls, TickCalls, ExecuteCalls, ProcessCalls DEF Next

LEMMA CallInvAlways == Spec => []CallInv
<1>1. ConsentInv /\ TypeInv /\ TypeInv' /\ CallInv /\ [Next]_vars => CallInv'
      BY NextCalls
<1>2. TypeInv /\ ConsentInv /\ [Next]_vars => ConsentInv'
      BY NextConsent
<1> QED
    BY <1>1, <1>2, InitCalls, InitConsent, TypeInvAlways, PTL DEF Spec

\* turnExecutor.ts: a step is handed to its native kernel at most once per attempt,
\* whatever Hosts crash, lose their lease or take over, and however late results come.
THEOREM AtMostOneCallAlways == Spec => []AtMostOneCall
<1>1. TypeInv /\ CallInv => AtMostOneCall
      BY CallsAtMostOnce
<1> QED
    BY <1>1, CallInvAlways, TypeInvAlways, PTL
=============================================================================
