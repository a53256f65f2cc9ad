--------------------------- MODULE StudioProperties ---------------------------
(***************************************************************************)
(* What the studio runtime has to guarantee, whatever the Hosts, the user  *)
(* and the native kernels do.                                              *)
(*                                                                         *)
(* A dispatch writes back the record that its loop has read, so it may     *)
(* start a run that was withdrawn in between.  Such a run executes outside *)
(* the `active` index until it ends; `woken` remembers which runs do, and  *)
(* the properties below say what holds of the others, beside them.         *)
(***************************************************************************)
EXTENDS StudioHost

\* A native call has effects outside the database, so a step is handed to its kernel at
\* most once per attempt: neither a recovery after a crash nor an executor that lost its
\* lease repeats it (turnExecutor.ts: dispatchId is run:step:attempt).
AtMostOneCall == \A r \in Runs, s \in Steps : calls[r][s] <= 1

\* The `active` index holds exactly the unfinished runs, but for those that were woken:
\* recovery, admission limits and queue scans see the runs only through it.
ActiveIndex == active = {r \in Runs : run[r].state \in ActiveStates} \ woken

\* A run that the lease holder is recorded to execute has an executor there.  Without one
\* nobody would ever finish it, because recovery only happens on a new claim (and does not
\* find a woken run).
NoOrphan ==
  \A r \in Runs \ woken, h \in Hosts :
    /\ run[r].state \in Executing /\ run[r].owner = h
    /\ Owns(h) /\ host[h] = "open" /\ tick[h].pc # "recover"
    => Executes(h, r)

\* One conversation, group or workflow executes one run at a time, over all Hosts, of the
\* runs that are in the index.
OneExecutingPerTarget ==
  \A q, r \in Runs \ woken :
    /\ TargetOf[q] = TargetOf[r]
    /\ run[q].state \in Executing /\ run[r].state \in Executing
    => q = r

\* While the effects of an earlier run of the target are unresolved no native call is
\* made for it, not even for a run that was queued before they became so: also if the
\* unresolved run was woken, and only a woken run itself may call.
UnknownBarrier ==
  [][\A r \in Runs \ woken, s \in Steps :
       calls'[r][s] > calls[r][s] => ~HasUnknown(TargetOf[r], {})]_vars

\* A finished run changes only by an explicit retry, which opens a new attempt, or when a
\* loop that has read it before its withdrawal starts it, at most once: results of an
\* executor that is late, aborted or without its lease never reach the record.
FinalUntilRetry ==
  [][\A r \in Runs :
       run[r].state \in RunStates \ ActiveStates /\ run'[r] # run[r] =>
         \/ run[r].state \in {"failed", "interrupted"} /\ run'[r].attempt > run[r].attempt
         \/ run[r].state = "cancelled" /\ r \in woken' \ woken]_vars

\* A task run does not succeed while a steering message that was accepted for it is
\* unread: acceptance and completion are ordered by their transactions.
SteeringRead ==
  \A r \in TaskRuns : run[r].state = "succeeded" => steering[r] = {}

\* An answer is given once: neither a recovery nor a repeated confirmation in the same
\* attempt reopens, expires or replaces it.
AnswerKept ==
  [][\A r \in Runs, s \in Steps, a \in Attempts :
       asked[r][s][a] \in Answers => asked'[r][s][a] = asked[r][s][a]]_vars

\* A confirmation step is stored as passed only if the user allowed it in some attempt:
\* no expiry, stop or takeover counts as consent.
ConsentGiven ==
  \A r \in Runs, s \in ConfirmSteps :
    results[r][s].status = "succeeded" => \E a \in Attempts : asked[r][s][a] = "allowed"

\* A finished run asks nothing any more, unless it was withdrawn from the queue.
QuestionsSettled ==
  \A r \in Runs : PendingOf(r) # {} => run[r].state \in ActiveStates \cup {"cancelled"}

NoHostOpen == \A h \in Hosts : host[h] # "open"

\* A requested stop ends the run, whatever it was doing, even if the Host that executed
\* it dies: while some Host is open the run leaves the unfinished states.  (A woken run
\* whose Host dies is found by nobody.)
StopEnds ==
  \A r \in Runs :
    r \notin woken /\ run[r].cancel /\ run[r].state \in ActiveStates ~>
      run[r].state \notin ActiveStates \/ NoHostOpen

\* A queued run is dispatched or withdrawn, unless it waits for the user (an unresolved
\* run of its target, an unanswered question) or for a native call that goes on.  (A woken
\* run that late steering puts back into the queue is not in the index.)
QueueMoves ==
  \A r \in Runs :
    r \notin woken /\ run[r].state = "queued" ~>
      \/ run[r].state # "queued"
      \/ HasUnknown(TargetOf[r], {})
      \/ \E q \in Runs : PendingOf(q) # {} \/ Uncertain(q)
      \/ NoHostOpen

(***************************************************************************)
(* The lifecycle of runs as RunLifecycle states it.                        *)
(***************************************************************************)
Phase(r) ==
  CASE run[r].state \in Executing -> "executing"
    [] IsUnknown(r) -> "unknown"
    [] OTHER -> run[r].state

Lifecycle == INSTANCE RunLifecycle WITH
  phase <- [r \in Runs |-> Phase(r)],
  made <- [r \in Runs |-> {s \in Steps : calls[r][s] > 0}],
  open <- [r \in Runs |-> OpenSteps(r)],
  woken <- woken

\* Hosts, leases, ticks and executors implement that lifecycle.
RefinesLifecycle == Lifecycle!Spec

(***************************************************************************)
(* Stated by the project's documentation and broken by the code.           *)
(***************************************************************************)
\* A cancelled run is final: an old queue entry does not wake it up again.
CancelledIsFinal ==
  [][\A r \in Runs : run[r].state = "cancelled" => run'[r].state = "cancelled"]_vars

\* Cancelling a run invalidates its unanswered questions.
CancelExpiresQuestions ==
  \A r \in Runs : run[r].state = "cancelled" => PendingOf(r) = {}
=============================================================================
