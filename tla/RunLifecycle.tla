----------------------------- MODULE RunLifecycle -----------------------------
(***************************************************************************)
(* What the studio runtime promises about runs, without Hosts, leases,     *)
(* ticks or questions: a run is executed at most once at a time and next   *)
(* to no other run of its target; each of its steps is handed to a kernel  *)
(* at most once per attempt; a run whose calls did not all come back ends  *)
(* as "unknown", bars its target, and goes on only by a retry.  A run that  *)
(* was withdrawn may be started all the same (`woken`): it then executes    *)
(* once, under the same rules for its calls, but others do not wait for it. *)
(***************************************************************************)
EXTENDS Naturals

CONSTANTS
  Runs,
  Steps,
  TargetOf   \* run -> what it was sent to

VARIABLES
  phase,  \* run -> where it is in its life
  made,   \* run -> steps whose call was made in this attempt
  open,   \* run -> calls of this attempt that have not come back
  woken   \* runs that were started in this attempt after they had been withdrawn

vars == <<phase, made, open, woken>>

Ended == {"succeeded", "failed", "cancelled", "interrupted", "unknown"}
Phases == Ended \cup {"absent", "queued", "executing"}

Init ==
  /\ phase = [r \in Runs |-> "absent"]
  /\ made = [r \in Runs |-> {}]
  /\ open = [r \in Runs |-> {}]
  /\ woken = {}

In(p) == {r \in Runs : phase[r] = p}
Peers(r) == {q \in Runs \ {r} : TargetOf[q] = TargetOf[r]}
Alone(r) == \A q \in Peers(r) \ woken : phase[q] # "executing"
Barred(r) == \E q \in Peers(r) : phase[q] = "unknown"

Set(S, p) == phase' = [r \in Runs |-> IF r \in S THEN p ELSE phase[r]]

Accept(r) ==
  /\ phase[r] = "absent"
  /\ ~Barred(r)
  /\ Set({r}, "queued")
  /\ UNCHANGED <<made, open, woken>>

Withdraw(S) ==
  /\ Set(S, "cancelled")
  /\ UNCHANGED <<made, open, woken>>

Start(r) ==
  /\ phase[r] = "queued"
  /\ ~Barred(r)
  /\ Alone(r)
  /\ Set({r}, "executing")
  /\ UNCHANGED <<made, open, woken>>

\* A withdrawn run starts: somebody has not yet seen that it was.
Wake(r) ==
  /\ phase[r] = "cancelled"
  /\ r \notin woken
  /\ ~Barred(r)
  /\ Alone(r)
  /\ Set({r}, "executing")
  /\ woken' = woken \cup {r}
  /\ UNCHANGED <<made, open>>

Call(r, s) ==
  /\ phase[r] = "executing"
  /\ s \notin made[r]
  /\ made' = [made EXCEPT ![r] = @ \cup {s}]
  /\ open' = [open EXCEPT ![r] = @ \cup {s}]
  /\ UNCHANGED <<phase, woken>>

Return(r, s) ==
  /\ phase[r] = "executing"
  /\ s \in open[r]
  /\ open' = [open EXCEPT ![r] = @ \ {s}]
  /\ UNCHANGED <<phase, made, woken>>

\* A run gets a definite end, or its executor goes on later, only when all its calls
\* came back: unless it was woken, and nobody has recovered it meanwhile.
End(r, p) ==
  /\ phase[r] = "executing"
  /\ open[r] = {} \/ r \in woken
  /\ Set({r}, p)
  /\ UNCHANGED <<made, open, woken>>

\* Nobody executes the runs of S any more: those with open calls are lost.
Recover(S) ==
  /\ phase' = [r \in Runs |-> IF r \notin S THEN phase[r]
                              ELSE IF open[r] = {} THEN "queued" ELSE "unknown"]
  /\ UNCHANGED <<made, open, woken>>

\* Their executors go away.  A run of S may be back in the queue by then: a takeover
\* recovered it while its old executor was still there.
Abandon(S) ==
  /\ Set(S, "unknown")
  /\ UNCHANGED <<made, open, woken>>

Retry(r) ==
  /\ phase[r] \in {"failed", "interrupted", "unknown"}
  /\ phase[r] # "unknown" => ~Barred(r)
  /\ Set({r}, "queued")
  /\ made' = [made EXCEPT ![r] = {}]
  /\ open' = [open EXCEPT ![r] = {}]
  /\ woken' = woken \ {r}

\* Most steps of the runtime are none of a run's life.
Next ==
  \/ UNCHANGED vars
  \/ \E r \in Runs : Accept(r) \/ Start(r) \/ Wake(r) \/ Retry(r)
  \/ \E r \in Runs, s \in Steps : Call(r, s) \/ Return(r, s)
  \/ \E r \in Runs, p \in Ended \cup {"queued"} : End(r, p)
  \/ \E S \in SUBSET In("queued") : Withdraw(S)
  \/ \E S \in SUBSET In("executing") : Recover(S)
  \/ \E S \in SUBSET (In("executing") \cup In("queued")) : Abandon(S)

Spec == Init /\ [][Next]_vars
=============================================================================
