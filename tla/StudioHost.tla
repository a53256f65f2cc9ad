------------------------------ MODULE StudioHost ------------------------------
(***************************************************************************)
(* The Host processes of the studio runtime over one store.  Each Host     *)
(* runs the scheduler loop (studioRuntimeService.ts, tick), one executor   *)
(* per run it dispatched (runExecutor.ts), one task per agent or           *)
(* confirmation step (turnExecutor.ts, runtimeInteractions.ts), and the    *)
(* orderly shutdown.  A Host is one JavaScript thread: a tick is a         *)
(* sequence of transactions that its own tasks never interleave with, but  *)
(* other processes do.  Between two awaits a task is one atomic step.      *)
(*                                                                         *)
(* External parts: the native kernel, which ends a call with any outcome,  *)
(* and the engines that order the steps of a run, of which only the rules  *)
(* for starting steps and for combining their outcomes are kept.           *)
(***************************************************************************)
EXTENDS StudioCommands

CONSTANTS
  CommandsDuringScan, \* bound: <<run, attempt>> which commands may change during a scan
  KernelOutcomes,     \* how a native call may end
  AskingSteps,        \* agent steps whose call may ask the user (once per attempt)
  MaxExpiries         \* bound: how often a living owner renews its lease too late

ASSUME HostConstants ==
  /\ CommandsDuringScan \subseteq Runs \X (0..MaxAttempt)
  /\ KernelOutcomes \subseteq [status : StepStatus, known : BOOLEAN]
  /\ Unknown \in KernelOutcomes  \* a call may always be lost
  /\ AskingSteps \subseteq AgentSteps
  /\ MaxExpiries \in Nat

VARIABLES
  host,     \* process state
  tick,     \* the tick in progress: where it is and what it has read
  exec,     \* the Host's `active` map: run -> its executor
  task,     \* run -> step -> the step's task in that executor
  calls,    \* history: native calls made in the current attempt of a run
  woken,    \* history: runs started in this attempt after they had been withdrawn
  expiries  \* how often the lease of a living owner has run out

local == <<host, tick, exec, task>>
vars == <<store, local, calls, woken, expiries>>

\* `queue` holds the ids queuedRuns() returned that the loop has not reached, `seen`
\* the records it returned for them, `busy` the loop's activeTargets.
NoTick == [pc |-> "idle", queue |-> {}, seen |-> [r \in Runs |-> Absent], busy |-> {}]
NoExec == [attempt |-> 0, aborted |-> FALSE, result |-> NoOutcome]
NoTask == [pc |-> "idle", out |-> NoOutcome]
TaskPcs == {"idle", "acquire", "prepare", "call", "ask", "confirm", "ended", "done"}

TickState == [pc : {"idle", "recover", "scan", "dispatch"}, queue : SUBSET Runs,
              seen : [Runs -> RunRecords], busy : SUBSET Targets]
Executor == [attempt : 0..MaxAttempt, aborted : BOOLEAN, result : Outcomes]
TaskState == [pc : TaskPcs, out : Outcomes]
ExecTable == [Hosts -> [Runs -> Executor]]
TaskTable == [Hosts -> [Runs -> [Steps -> TaskState]]]

TypeOK ==
  /\ StoreTypeOK
  /\ host \in [Hosts -> {"new", "open", "stopping", "draining", "gone"}]
  /\ tick \in [Hosts -> TickState]
  /\ exec \in ExecTable
  /\ task \in TaskTable
  /\ calls \in [Runs -> [Steps -> Nat]]
  /\ woken \subseteq Runs
  /\ expiries \in 0..MaxExpiries

Init ==
  /\ StoreInit
  /\ host = [h \in Hosts |-> "new"]
  /\ tick = [h \in Hosts |-> NoTick]
  /\ exec = [h \in Hosts |-> [r \in Runs |-> NoExec]]
  /\ task = [h \in Hosts |-> [r \in Runs |-> [s \in Steps |-> NoTask]]]
  /\ calls = [r \in Runs |-> [s \in Steps |-> 0]]
  /\ woken = {}
  /\ expiries = 0

Live(h) == host[h] \in {"open", "stopping", "draining"}
\* The Host's thread is free: its tasks and its RPC handlers may run.
Free(h) == Live(h) /\ tick[h].pc = "idle"
Executes(h, r) == exec[h][r].attempt # 0
LocalRuns(h) == {r \in Runs : Executes(h, r)}


(***************************************************************************)
(* The scheduler loop.                                                     *)
(***************************************************************************)
\* controller.abort() on the executors of h for the runs of S
Abort(h, S) ==
  [exec EXCEPT ![h] = [r \in Runs |->
     IF r \in S /\ Executes(h, r) THEN [@[r] EXCEPT !.aborted = TRUE] ELSE @[r]]]

\* Mutant: only runs that have already ended are aborted.
CondemnedEnded == {r \in Runs : run[r].state \notin ActiveStates}

\* The runs whose executors a tick aborts.
Condemned == {r \in Runs : run[r].cancel \/ run[r].state \notin ActiveStates}

\* Deliver stop requests to the local executors, then read the queue once.  A tick that
\* finds nothing queued is over.
Scan(h) ==
  /\ exec' = Abort(h, Condemned)
  /\ tick' = [tick EXCEPT ![h] = IF QueuedRuns = {} THEN NoTick ELSE
       [pc |-> "dispatch",
        queue |-> QueuedRuns,
        seen |-> [r \in Runs |-> IF r \in QueuedRuns THEN run[r] ELSE Absent],
        busy |-> {TargetOf[r] : r \in LocalRuns(h)}]]

TickClaim(h) ==
  /\ host[h] = "open"
  /\ tick[h].pc = "idle"
  /\ CASE Claim(h) = "busy" ->
            exec' = Abort(h, Runs) /\ UNCHANGED <<lease, tick>>
       [] Claim(h) = "owner" ->
            lease' = [owner |-> h, live |-> TRUE] /\ Scan(h)
       [] Claim(h) = "acquired" ->
            /\ lease' = [owner |-> h, live |-> TRUE]
            /\ tick' = [tick EXCEPT ![h].pc = "recover"]
            /\ UNCHANGED exec
  /\ UNCHANGED <<run, active, results, turns, asked, steering, host, task, calls, woken, expiries>>

\* recover(): its transaction does not check the lease again.
Recover(h) ==
  LET orphans == {r \in active : run[r].state \in Executing}
      lost == {r \in orphans : Uncertain(r)}
  IN
  /\ tick[h].pc = "recover"
  /\ run' = [r \in Runs |->
       CASE r \in lost ->
              [run[r] EXCEPT !.state = "interrupted", !.owner = NoHost, !.known = "no"]
         [] r \in orphans \ lost -> [run[r] EXCEPT !.state = "queued", !.owner = NoHost]
         [] OTHER -> run[r]]
  /\ active' = active \ lost
  /\ asked' = Expire(lost)
  /\ exec' = Abort(h, Runs)
  /\ tick' = [tick EXCEPT ![h].pc = "scan"]
  /\ UNCHANGED <<lease, results, turns, steering, host, task, calls, woken, expiries>>

TickScan(h) ==
  /\ tick[h].pc = "scan"
  /\ Scan(h)
  /\ UNCHANGED <<store, host, task, calls, woken, expiries>>

InTurn(h, r) == /\ tick[h].pc = "dispatch"
                /\ r \in tick[h].queue
                /\ \A q \in tick[h].queue : r <= q

\* Mutant: dispatch relies on the check made when the run was accepted.
DispatchableOnceAccepted(h, r) == /\ Cardinality(LocalRuns(h)) < MaxActive
                                  /\ TargetOf[r] \notin tick[h].busy

Dispatchable(h, r) == /\ ~HasUnknown(TargetOf[r], {})
                      /\ Cardinality(LocalRuns(h)) < MaxActive
                      /\ TargetOf[r] \notin tick[h].busy

\* Mutant: the dispatched target is not remembered for the rest of the loop.
AdvanceNotBusy(h, r, busy) ==
  LET rest == tick[h].queue \ {r} IN
  tick' = [tick EXCEPT ![h] = IF rest = {} THEN NoTick ELSE [tick[h] EXCEPT !.queue = rest]]

\* The loop moves past r, to its end after the last queued run.
Advance(h, r, busy) ==
  LET rest == tick[h].queue \ {r}
      seenBusy == tick[h].busy \cup busy
  IN tick' = [tick EXCEPT ![h] = IF rest = {} THEN NoTick ELSE
                [tick[h] EXCEPT !.queue = rest, !.busy = seenBusy]]

\* Mutant: every dispatch counts as an attempt.
TickStartCounts(h, r) ==
  LET counted == tick[h].seen[r].attempt + 1 IN
  /\ InTurn(h, r)
  /\ Dispatchable(h, r)
  /\ Owns(h)
  /\ run' = [run EXCEPT ![r] = [tick[h].seen[r] EXCEPT !.owner = h, !.state = "running",
                                                     !.attempt = counted]]
  /\ exec' = [exec EXCEPT ![h][r] = [NoExec EXCEPT !.attempt = counted]]
  /\ task' = [task EXCEPT ![h][r] = [s \in Steps |-> NoTask]]
  /\ Advance(h, r, {TargetOf[r]})
  /\ woken' = IF run[r].state = "queued" THEN woken ELSE woken \cup {r}
  /\ UNCHANGED <<active, lease, results, turns, asked, steering, host, calls, expiries>>

\* The record written is the one the scan read, with the owner and the state set, even if
\* the run was withdrawn meanwhile.
TickStart(h, r) ==
  /\ InTurn(h, r)
  /\ Dispatchable(h, r)
  /\ Owns(h)
  /\ run' = [run EXCEPT ![r] = [tick[h].seen[r] EXCEPT !.owner = h, !.state = "running"]]
  /\ exec' = [exec EXCEPT ![h][r] = [NoExec EXCEPT !.attempt = tick[h].seen[r].attempt]]
  /\ task' = [task EXCEPT ![h][r] = [s \in Steps |-> NoTask]]
  /\ Advance(h, r, {TargetOf[r]})
  /\ woken' = IF run[r].state = "queued" THEN woken ELSE woken \cup {r}
  /\ UNCHANGED <<active, lease, results, turns, asked, steering, host, calls, expiries>>

TickSkip(h, r) ==
  /\ InTurn(h, r)
  /\ ~Dispatchable(h, r)
  /\ Advance(h, r, {})
  /\ UNCHANGED <<store, host, exec, task, calls, woken, expiries>>

\* The dispatch transaction finds the lease gone and throws out of the tick.
TickThrows(h, r) ==
  /\ InTurn(h, r)
  /\ Dispatchable(h, r)
  /\ ~Owns(h)
  /\ tick' = [tick EXCEPT ![h] = NoTick]
  /\ UNCHANGED <<store, host, exec, task, calls, woken, expiries>>

Tick(h) ==
  \/ TickClaim(h)
  \/ Recover(h)
  \/ TickScan(h)
  \/ \E r \in Runs : TickStart(h, r) \/ TickSkip(h, r) \/ TickThrows(h, r)

(***************************************************************************)
(* The executor of a run: starting its steps, combining their outcomes.    *)
(***************************************************************************)
InFlight(h, r) == {s \in Steps : task[h][r][s].pc \notin {"idle", "done"}}
OutcomesOf(h, r) == {task[h][r][s].out : s \in {q \in StepsOf[r] : task[h][r][q].pc = "done"}}
Lost(out) == ~out.known \/ out.status = "interrupted"

\* The abort signal a step sees: the run's, or that of the engine's scope, which an
\* unknown or cancelled sibling aborts.
Aborted(h, r) ==
  \/ exec[h][r].aborted
  \/ \E out \in OutcomesOf(h, r) : Lost(out) \/ out.status = "cancelled"

OwnedBy(h, r, settling) == Owned(h, r, settling, exec[h][r].attempt)

\* A chat calls its one step without looking at the signal; the other engines look first.
MayStart(h, r, s) ==
  /\ Free(h)
  /\ Executes(h, r)
  /\ exec[h][r].result = NoOutcome
  /\ s \in StepsOf[r]
  /\ task[h][r][s].pc = "idle"
  /\ KindOf[r] = "chat" \/ ~Aborted(h, r)

At(h, r, s, pc) == Free(h) /\ task[h][r][s].pc = pc
Goto(h, r, s, pc) == task' = [task EXCEPT ![h][r][s].pc = pc]
End(h, r, s, pc, out) == task' = [task EXCEPT ![h][r][s] = [pc |-> pc, out |-> out]]

\* How executeStudioTurn() ends a step that made no native call.
NotCalled(h, r) == Outcome(IF Aborted(h, r) THEN "cancelled" ELSE "failed", TRUE)

EngineOutcome(h, r) ==
  LET outs == OutcomesOf(h, r)
      lost == {out \in outs : Lost(out)}
  IN
  CASE KindOf[r] = "chat" -> CHOOSE out \in outs : TRUE
    [] KindOf[r] # "chat" /\ lost # {} -> Unknown
    [] KindOf[r] # "chat" /\ lost = {} /\ Aborted(h, r) -> Stopped
    [] OTHER -> IF \E out \in outs : out.status = "failed"
                THEN Outcome("failed", TRUE) ELSE Outcome("succeeded", TRUE)

\* The engine returns.  A task-mode group reads its steering inbox once more first.
EngineReturns(h, r) ==
  /\ Free(h)
  /\ Executes(h, r)
  /\ exec[h][r].result = NoOutcome
  /\ InFlight(h, r) = {}
  /\ \/ \A s \in StepsOf[r] : task[h][r][s].pc = "done"
     \/ KindOf[r] # "chat" /\ (Aborted(h, r) \/ \E out \in OutcomesOf(h, r) : out.status = "failed")
  /\ r \in TaskRuns /\ EngineOutcome(h, r).status = "succeeded" => steering[r] = {}
  /\ exec' = [exec EXCEPT ![h][r].result = EngineOutcome(h, r)]
  /\ UNCHANGED <<store, host, tick, task, calls, woken, expiries>>

\* ackSteering(), after the plan that took the messages in was saved.
AckSteering(h, r, read) ==
  /\ Free(h)
  /\ Executes(h, r)
  /\ r \in TaskRuns
  /\ exec[h][r].result = NoOutcome
  /\ ~exec[h][r].aborted
  /\ OwnedBy(h, r, FALSE)
  /\ read # {}
  /\ read \subseteq steering[r]
  /\ steering' = [steering EXCEPT ![r] = @ \ read]
  /\ UNCHANGED <<run, active, lease, results, turns, asked, local, calls, woken, expiries>>

FinalState(r, out) ==
  CASE ~out.known /\ out.status # "succeeded" -> "interrupted"
    [] (out.known \/ out.status = "succeeded") /\ run[r].cancel -> "cancelled"
    [] OTHER -> IF out.status = "skipped" THEN "succeeded" ELSE out.status

\* Mutant: completion does not look at the steering inbox.
LateSteeringIgnored(r, out) == FALSE

\* Steering accepted after the engine's last look puts the run back into the queue.
LateSteering(r, out) ==
  /\ r \in TaskRuns
  /\ ~run[r].cancel
  /\ out.status = "succeeded"
  /\ steering[r] # {}

\* Mutant: the executor stays in the Host's map.
EndExecKept(h, r) ==
  /\ UNCHANGED exec
  /\ task' = [task EXCEPT ![h][r] = [s \in Steps |-> NoTask]]

EndExec(h, r) ==
  /\ exec' = [exec EXCEPT ![h][r] = NoExec]
  /\ task' = [task EXCEPT ![h][r] = [s \in Steps |-> NoTask]]

\* The record of a run whose result the Host gives up on.
GiveUp(r) == [run EXCEPT ![r].state = "interrupted", ![r].known = "no"]

SettleRun(h, r) ==
  LET out == exec[h][r].result
      settles == Current(h, r, exec[h][r].attempt)
      again == settles /\ LateSteering(r, out)
      ends == settles /\ ~again
  IN
  /\ Free(h)
  /\ out # NoOutcome
  /\ run' = CASE again -> [run EXCEPT ![r].state = "queued", ![r].owner = NoHost]
              [] ends -> [run EXCEPT ![r].state = FinalState(r, out),
                                     ![r].known = Flag(out.known)]
              [] ~settles -> run
  /\ active' = IF ends THEN active \ {r} ELSE active
  /\ asked' = IF ends THEN Expire({r}) ELSE asked
  /\ EndExec(h, r)
  /\ UNCHANGED <<lease, results, turns, steering, host, tick, calls, woken, expiries>>

\* The settling transaction fails (a full disk, an oversized record): failRun().
FailRun(h, r) ==
  LET fails == /\ host[h] = "open"
               /\ Owns(h)
               /\ run[r].owner = h
               /\ run[r].attempt = exec[h][r].attempt
               /\ run[r].state \in ActiveStates
  IN
  /\ Free(h)
  /\ exec[h][r].result # NoOutcome
  /\ run' = IF fails THEN GiveUp(r) ELSE run
  /\ active' = IF fails THEN active \ {r} ELSE active
  /\ asked' = IF fails THEN Expire({r}) ELSE asked
  /\ EndExec(h, r)
  /\ UNCHANGED <<lease, results, turns, steering, host, tick, calls, woken, expiries>>

(***************************************************************************)
(* Agent steps: executeStudioTurn().                                       *)
(***************************************************************************)
BeginStep(h, r, s) ==
  /\ MayStart(h, r, s)
  /\ s \in AgentSteps
  /\ CASE exec[h][r].aborted \/ ~OwnedBy(h, r, FALSE) -> End(h, r, s, "done", Unknown)
       [] OTHER -> IF results[r][s] # NoOutcome THEN End(h, r, s, "done", results[r][s])
                   ELSE Goto(h, r, s, "acquire")
  /\ UNCHANGED <<store, host, tick, exec, calls, woken, expiries>>

\* An abort rejects a request for an execution permit; that exception leaves the step.
AcquireRefused(h, r, s) ==
  /\ At(h, r, s, "acquire")
  /\ Aborted(h, r)
  /\ End(h, r, s, "done", Unknown)
  /\ UNCHANGED <<store, host, tick, exec, calls, woken, expiries>>

\* With a permit the step looks again: at its ownership, at new steering messages
\* (a frozen step is planned anew), and at a result a sibling may have stored.
Acquired(h, r, s) ==
  /\ At(h, r, s, "acquire")
  /\ CASE Aborted(h, r) \/ ~OwnedBy(h, r, FALSE) -> End(h, r, s, "ended", NotCalled(h, r))
       [] OTHER -> IF r \in TaskRuns /\ steering[r] # {} THEN End(h, r, s, "idle", NoOutcome)
                   ELSE IF results[r][s] # NoOutcome THEN End(h, r, s, "done", results[r][s])
                   ELSE Goto(h, r, s, "prepare")
  /\ UNCHANGED <<store, host, tick, exec, calls, woken, expiries>>

PrepareFails(h, r, s) ==
  /\ At(h, r, s, "prepare")
  /\ End(h, r, s, "ended", NotCalled(h, r))
  /\ UNCHANGED <<store, host, tick, exec, calls, woken, expiries>>

\* The workspace is ready: write the turn record and make the native call.
Dispatch(h, r, s) ==
  /\ At(h, r, s, "prepare")
  /\ Owned(h, r, FALSE, 0)
  /\ turns' = turns \cup {<<h, r, s, exec[h][r].attempt>>}
  /\ calls' = [calls EXCEPT ![r][s] = @ + 1]
  /\ Goto(h, r, s, "call")
  /\ UNCHANGED <<run, active, lease, results, asked, steering, host, tick, exec, woken, expiries>>

DispatchRefused(h, r, s) ==
  /\ At(h, r, s, "prepare")
  /\ ~Owned(h, r, FALSE, 0)
  /\ End(h, r, s, "ended", NotCalled(h, r))
  /\ UNCHANGED <<store, host, tick, exec, calls, woken, expiries>>

\* The kernel ends the call, with a result or by losing it.
CallEnds(h, r, s, out) ==
  /\ At(h, r, s, "call")
  /\ End(h, r, s, "ended", out)
  /\ UNCHANGED <<store, host, tick, exec, calls, woken, expiries>>

\* Only the current owner's current attempt closes the turn and stores the result.
SettleStep(h, r, s) ==
  LET attempt == exec[h][r].attempt
      settles == Current(h, r, attempt)
  IN
  /\ s \in AgentSteps
  /\ At(h, r, s, "ended")
  /\ turns' = IF settles THEN turns \ {<<h, r, s, attempt>>} ELSE turns
  /\ results' = IF settles THEN [results EXCEPT ![r][s] = task[h][r][s].out] ELSE results
  /\ Goto(h, r, s, "done")
  /\ UNCHANGED <<run, active, lease, asked, steering, host, tick, exec, calls, woken, expiries>>

(***************************************************************************)
(* Questions to the user: waitStudioInteraction(), from a native call and  *)
(* from a confirmation step.                                               *)
(***************************************************************************)
OpenQuestion(h, r, s, pc) ==
  /\ asked' = [asked EXCEPT ![r][s][exec[h][r].attempt] = "pending"]
  /\ run' = [run EXCEPT ![r].state = "waiting"]
  /\ Goto(h, r, s, pc)

\* The `finally` of the wait: expire what is still pending, leave "waiting" when no
\* question of the run is pending any more.
CloseQuestion(h, r, s) ==
  LET attempt == exec[h][r].attempt
      mine == Owns(h) /\ run[r].owner = h /\ run[r].attempt = attempt
      open == asked[r][s][attempt] = "pending"
      more == PendingOf(r) \ (IF open THEN {s} ELSE {}) # {}
  IN
  /\ asked' = IF mine /\ open THEN [asked EXCEPT ![r][s][attempt] = "expired"] ELSE asked
  /\ run' = IF mine /\ run[r].state = "waiting" /\ ~more
            THEN [run EXCEPT ![r].state = "running"] ELSE run

Ask(h, r, s) ==
  /\ s \in AskingSteps
  /\ At(h, r, s, "call")
  /\ ~Aborted(h, r)
  /\ OwnedBy(h, r, FALSE)
  /\ asked[r][s][exec[h][r].attempt] = "none"
  /\ OpenQuestion(h, r, s, "ask")
  /\ UNCHANGED <<active, lease, results, turns, steering, host, tick, exec, calls, woken, expiries>>

AskEnds(h, r, s) ==
  /\ At(h, r, s, "ask")
  /\ \/ Aborted(h, r)
     \/ ~OwnedBy(h, r, FALSE)
     \/ asked[r][s][exec[h][r].attempt] # "pending"
  /\ CloseQuestion(h, r, s)
  /\ Goto(h, r, s, "call")
  /\ UNCHANGED <<active, lease, results, turns, steering, host, tick, exec, calls, woken, expiries>>

\* Mutant: having an answer is enough.
DecidedAnyhow(answer) == Outcome("succeeded", TRUE)

Decided(answer) == IF answer = "allowed" THEN Outcome("succeeded", TRUE)
                   ELSE Outcome("failed", TRUE)

\* Mutant: a repeated confirmation asks again.
MustAskAgain(h, r, s) ==
  OwnedBy(h, r, FALSE) /\ results[r][s] = NoOutcome

\* A confirmation asked again in the same attempt finds the answer it already has.
MustAsk(h, r, s) ==
  /\ OwnedBy(h, r, FALSE)
  /\ results[r][s] = NoOutcome
  /\ asked[r][s][exec[h][r].attempt] \notin Answers

BeginConfirm(h, r, s) ==
  /\ MayStart(h, r, s)
  /\ s \in ConfirmSteps
  /\ IF MustAsk(h, r, s) THEN OpenQuestion(h, r, s, "confirm")
     ELSE /\ UNCHANGED <<asked, run>>
          /\ CASE results[r][s] # NoOutcome -> End(h, r, s, "done", results[r][s])
               [] results[r][s] = NoOutcome /\ ~OwnedBy(h, r, TRUE) ->
                    End(h, r, s, "done", Unknown)
               [] results[r][s] = NoOutcome /\ OwnedBy(h, r, TRUE) /\ run[r].cancel ->
                    End(h, r, s, "done", Stopped)
               [] OTHER -> End(h, r, s, "ended", Decided(asked[r][s][exec[h][r].attempt]))
  /\ UNCHANGED <<active, lease, results, turns, steering, host, tick, exec, calls, woken, expiries>>

ConfirmOutcome(h, r, s) ==
  LET answer == asked[r][s][exec[h][r].attempt] IN
  CASE Aborted(h, r) -> Stopped
    [] ~Aborted(h, r) /\ ~OwnedBy(h, r, TRUE) -> Unknown
    [] ~Aborted(h, r) /\ OwnedBy(h, r, TRUE) /\ run[r].cancel -> Stopped
    [] OTHER -> IF answer \in Answers THEN Decided(answer) ELSE Unknown

ConfirmEnds(h, r, s) ==
  /\ At(h, r, s, "confirm")
  /\ \/ Aborted(h, r)
     \/ ~OwnedBy(h, r, FALSE)
     \/ asked[r][s][exec[h][r].attempt] # "pending"
  /\ CloseQuestion(h, r, s)
  /\ End(h, r, s, "ended", ConfirmOutcome(h, r, s))
  /\ UNCHANGED <<active, lease, results, turns, steering, host, tick, exec, calls, woken, expiries>>

\* The engine saves the node's outcome; only a finished node is read back.  A Host that
\* may no longer write ends the run as unknown.
SaveConfirm(h, r, s) ==
  LET out == task[h][r][s].out
      saves == OwnedBy(h, r, TRUE)
  IN
  /\ s \in ConfirmSteps
  /\ At(h, r, s, "ended")
  /\ results' = IF saves /\ Reusable(out) THEN [results EXCEPT ![r][s] = out] ELSE results
  /\ End(h, r, s, "done", IF saves THEN out ELSE Unknown)
  /\ UNCHANGED <<run, active, lease, turns, asked, steering, host, tick, exec, calls, woken, expiries>>

Step(h, r, s) ==
  \/ BeginStep(h, r, s)
  \/ AcquireRefused(h, r, s)
  \/ Acquired(h, r, s)
  \/ PrepareFails(h, r, s)
  \/ Dispatch(h, r, s)
  \/ DispatchRefused(h, r, s)
  \/ \E out \in KernelOutcomes : CallEnds(h, r, s, out)
  \/ SettleStep(h, r, s)
  \/ Ask(h, r, s)
  \/ AskEnds(h, r, s)
  \/ BeginConfirm(h, r, s)
  \/ ConfirmEnds(h, r, s)
  \/ SaveConfirm(h, r, s)

Execute(h, r) ==
  \/ \E s \in Steps : Step(h, r, s)
  \/ \E read \in SUBSET Notes : AckSteering(h, r, read)
  \/ EngineReturns(h, r)
  \/ SettleRun(h, r)
  \/ FailRun(h, r)

(***************************************************************************)
(* Processes, shutdown, time.                                              *)
(***************************************************************************)
Start(h) ==
  /\ host[h] = "new"
  /\ host' = [host EXCEPT ![h] = "open"]
  /\ UNCHANGED <<store, tick, exec, task, calls, woken, expiries>>

Crash(h) ==
  /\ Live(h)
  /\ host' = [host EXCEPT ![h] = "gone"]
  /\ tick' = [tick EXCEPT ![h] = NoTick]
  /\ exec' = [exec EXCEPT ![h] = [r \in Runs |-> NoExec]]
  /\ task' = [task EXCEPT ![h] = [r \in Runs |-> [s \in Steps |-> NoTask]]]
  /\ UNCHANGED <<store, calls, woken, expiries>>

\* disposeAllAndWait(): stop admission, then record what is cut off, then wait for the
\* executors, release the lease and close the database.
Stop(h) ==
  /\ host[h] = "open"
  /\ tick[h].pc = "idle"
  /\ host' = [host EXCEPT ![h] = "stopping"]
  /\ UNCHANGED <<store, tick, exec, task, calls, woken, expiries>>

Interrupt(h) ==
  LET cut == IF Owns(h) THEN {r \in LocalRuns(h) : run[r].state \in ActiveStates} ELSE {} IN
  /\ host[h] = "stopping"
  /\ host' = [host EXCEPT ![h] = "draining"]
  /\ run' = [r \in Runs |-> IF r \in cut
       THEN [run[r] EXCEPT !.state = "interrupted", !.known = "no"] ELSE run[r]]
  /\ active' = active \ cut
  /\ asked' = Expire(cut)
  /\ exec' = Abort(h, Runs)
  /\ UNCHANGED <<lease, results, turns, steering, tick, task, calls, woken, expiries>>

Close(h) ==
  /\ host[h] = "draining"
  /\ LocalRuns(h) = {}
  /\ host' = [host EXCEPT ![h] = "gone"]
  /\ lease' = IF lease.owner = h THEN [owner |-> NoHost, live |-> FALSE] ELSE lease
  /\ UNCHANGED <<run, active, results, turns, asked, steering, tick, exec, task, calls, woken, expiries>>

\* Eight seconds without a claim: the owner is late, or gone.
LeaseExpires ==
  /\ lease.live
  /\ lease' = [lease EXCEPT !.live = FALSE]
  /\ \/ host[lease.owner] = "gone" /\ UNCHANGED expiries
     \/ host[lease.owner] # "gone" /\ expiries < MaxExpiries /\ expiries' = expiries + 1
  /\ UNCHANGED <<run, active, results, turns, asked, steering, local, calls, woken>>

\* Bounds which commands come in between the read of a queue and the end of its loop.
ScanBounded ==
  \/ \A h \in Hosts : tick[h].pc # "dispatch"
  \/ \A r \in Runs : <<r, run[r].attempt>> \notin CommandsDuringScan =>
       run'[r] = run[r] /\ steering'[r] = steering[r] /\ asked'[r] = asked[r]

\* A command comes in at some open Host; the histories begin anew with an attempt.
UserCommand ==
  /\ \E h \in Hosts : host[h] = "open" /\ Free(h)
  /\ Command
  /\ ScanBounded
  /\ calls' = [r \in Runs |-> IF run'[r].attempt = run[r].attempt THEN calls[r]
                              ELSE [s \in Steps |-> 0]]
  /\ woken' = {r \in woken : run'[r].attempt = run[r].attempt}
  /\ UNCHANGED <<local, expiries>>

Next ==
  \/ UserCommand
  \/ \E h \in Hosts : Tick(h)
  \/ \E h \in Hosts, r \in Runs : Execute(h, r)
  \/ \E h \in Hosts : Start(h) \/ Crash(h) \/ Stop(h) \/ Interrupt(h) \/ Close(h)
  \/ LeaseExpires

Spec == Init /\ [][Next]_vars

(***************************************************************************)
(* Fairness.  The tick runs on an interval timer.  The continuations of a  *)
(* Host's promises run whenever its thread comes back to the event loop,   *)
(* between two ticks: strong fairness, since a tick disables them for its  *)
(* duration.  An adapter ends a call once it is aborted; a call that is    *)
(* left alone may go on for ever.  A lease that nobody renews runs out.    *)
(* Nothing is assumed of users, crashes or quitting.                       *)
(***************************************************************************)
Fairness ==
  /\ \A h \in Hosts :
       /\ WF_vars(Tick(h))
       /\ WF_vars(Interrupt(h))
       /\ WF_vars(Close(h))
  /\ \A h \in Hosts, r \in Runs :
       /\ SF_vars(EngineReturns(h, r) \/ SettleRun(h, r))
       /\ \A s \in Steps :
            SF_vars(Step(h, r, s) /\ (task[h][r][s].pc = "call" => Aborted(h, r)))
  /\ WF_vars(LeaseExpires /\ host[lease.owner] = "gone")

FairSpec == Spec /\ Fairness
=============================================================================
