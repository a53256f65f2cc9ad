---------------------------- MODULE StudioCommands ----------------------------
(***************************************************************************)
(* Command admission (commandAdmission.ts): every user command is one      *)
(* IMMEDIATE transaction on the store and may come from any Host process.  *)
(* A command that the code rejects with an exception rolls back and is no  *)
(* step.  Saving definitions, attention receipts and configuration do not  *)
(* touch the state of this module; receipts of repeated commands return    *)
(* the stored result and are no step either.                               *)
(***************************************************************************)
EXTENDS StudioStore

\* The run record queueRun() writes.
Queued(attempt) == [state |-> "queued", owner |-> NoHost, attempt |-> attempt,
                    known |-> "unset", cancel |-> FALSE]

Send(r) ==
  /\ run[r] = Absent
  /\ \A q \in Runs : q < r => run[q] # Absent
  /\ ~HasUnknown(TargetOf[r], {})
  /\ Cardinality(active) < MaxQueued
  /\ Cardinality(ActiveOn(TargetOf[r])) < MaxPerTarget
  /\ run' = [run EXCEPT ![r] = Queued(1)]
  /\ active' = active \cup {r}
  /\ UNCHANGED <<lease, results, turns, asked, steering>>

Steer(r, n) ==
  /\ r \in TaskRuns
  /\ run[r].state \in ActiveStates
  /\ ~run[r].cancel
  /\ steering' = [steering EXCEPT ![r] = @ \cup {n}]
  /\ UNCHANGED <<run, active, lease, results, turns, asked>>

\* The runs a stop takes out of the queue: stopping a group also withdraws the
\* other inputs of that group that have not been dispatched.
Withdrawn(r) ==
  {q \in Runs : /\ run[q].state = "queued"
                /\ \/ q = r
                   \/ KindOf[r] = "group" /\ q \in active /\ TargetOf[q] = TargetOf[r]}

\* Mutant: the other withdrawn inputs of the group stay in the index.
CancelKeepsIndex(r) ==
  /\ run[r].state \in ActiveStates
  /\ run' = [q \in Runs |->
       CASE q \in Withdrawn(r) ->
              [run[q] EXCEPT !.state = "cancelled", !.known = "yes", !.cancel = TRUE]
         [] q = r /\ q \notin Withdrawn(r) -> [run[q] EXCEPT !.cancel = TRUE]
         [] OTHER -> run[q]]
  /\ active' = active \ (Withdrawn(r) \cap {r})
  /\ UNCHANGED <<lease, results, turns, asked, steering>>

Cancel(r) ==
  /\ run[r].state \in ActiveStates
  /\ run' = [q \in Runs |->
       CASE q \in Withdrawn(r) ->
              [run[q] EXCEPT !.state = "cancelled", !.known = "yes", !.cancel = TRUE]
         [] q = r /\ q \notin Withdrawn(r) -> [run[q] EXCEPT !.cancel = TRUE]
         [] OTHER -> run[q]]
  /\ active' = active \ Withdrawn(r)
  /\ UNCHANGED <<lease, results, turns, asked, steering>>

\* Results that a retry keeps: readStudioStep() no longer returns the others.
Reusable(out) == out.status \in {"succeeded", "skipped"}

\* `confirmed` is the command's retryUncertain flag.
Resume(r, confirmed) ==
  /\ run[r].state \in {"failed", "interrupted"}
  /\ run[r].attempt < MaxAttempt
  /\ IF IsUnknown(r) THEN confirmed ELSE ~HasUnknown(TargetOf[r], {r})
  /\ results' = [results EXCEPT ![r] = [s \in Steps |->
       IF Reusable(@[s]) THEN @[s] ELSE NoOutcome]]
  /\ run' = [run EXCEPT ![r] = Queued(@.attempt + 1)]
  /\ active' = active \cup {r}
  /\ UNCHANGED <<lease, turns, asked, steering>>

Answer(r, s, a, decision) ==
  /\ asked[r][s][a] = "pending"
  /\ run[r].state \in ActiveStates
  /\ ~run[r].cancel
  /\ asked' = [asked EXCEPT ![r][s][a] = decision]
  /\ UNCHANGED <<run, active, lease, results, turns, steering>>

Command ==
  \/ \E r \in Runs : Send(r)
  \/ \E r \in Runs : Cancel(r)
  \/ \E r \in Runs, confirmed \in BOOLEAN : Resume(r, confirmed)
  \/ \E r \in Runs, s \in Steps, a \in Attempts, d \in Answers : Answer(r, s, a, d)
  \/ \E r \in Runs, n \in Notes : Steer(r, n)
=============================================================================
