--------------------------- MODULE ExecutionLimiter ---------------------------
(***************************************************************************)
(* StudioExecutionLimiter (executionLimiter.ts): the permits that the      *)
(* agent steps of one Host share.  At most MaxPermits are out, and at most *)
(* one per conversation key.  A request that finds none sleeps on a        *)
(* promise; every release wakes all sleepers, and each looks again when    *)
(* its continuation runs.  One JavaScript thread: what runs between two    *)
(* awaits is one step.  A request is made once and its holder releases     *)
(* once (turnExecutor.ts, finally).                                        *)
(***************************************************************************)
EXTENDS Naturals, FiniteSets

CONSTANTS
  Requests,   \* calls of acquire()
  Keys,       \* conversation keys
  KeyOf,      \* request -> its key
  MaxPermits  \* 4 in the code

ASSUME LimiterConstants ==
  /\ IsFiniteSet(Requests)
  /\ KeyOf \in [Requests -> Keys]
  /\ MaxPermits \in Nat \ {0}

VARIABLES
  total,    \* permits out
  keys,     \* keys of the permits that are out
  waiters,  \* requests registered to be notified
  pc,       \* request -> where its call is
  aborted   \* requests whose signal is aborted

vars == <<total, keys, waiters, pc, aborted>>

Init ==
  /\ total = 0
  /\ keys = {}
  /\ waiters = {}
  /\ pc = [q \in Requests |-> "new"]
  /\ aborted = {}

Blocked(q) == total >= MaxPermits \/ KeyOf[q] \in keys

\* One turn of the loop in acquire(): refuse, sleep or take a permit.
Refuse(q) ==
  /\ q \in aborted
  /\ pc' = [pc EXCEPT ![q] = "refused"]
  /\ UNCHANGED <<total, keys, waiters, aborted>>

Sleep(q) ==
  /\ q \notin aborted
  /\ Blocked(q)
  /\ waiters' = waiters \cup {q}
  /\ pc' = [pc EXCEPT ![q] = "asleep"]
  /\ UNCHANGED <<total, keys, aborted>>

Take(q) ==
  /\ q \notin aborted
  /\ ~Blocked(q)
  /\ total' = total + 1
  /\ keys' = keys \cup {KeyOf[q]}
  /\ pc' = [pc EXCEPT ![q] = "holding"]
  /\ UNCHANGED <<waiters, aborted>>

\* Mutant: a request that was woken takes its permit without looking again.
TryUnchecked(q) ==
  \/ Refuse(q)
  \/ pc[q] = "new" /\ Sleep(q)
  \/ /\ q \notin aborted /\ (pc[q] = "new" => ~Blocked(q))
     /\ total' = total + 1
     /\ keys' = keys \cup {KeyOf[q]}
     /\ pc' = [pc EXCEPT ![q] = "holding"]
     /\ UNCHANGED <<waiters, aborted>>

Try(q) == Refuse(q) \/ Sleep(q) \/ Take(q)

Acquire(q) == pc[q] = "new" /\ Try(q)

Continue(q) == pc[q] = "woken" /\ Try(q)

\* Mutant: a release wakes one sleeper.
WokenOne == IF waiters = {} THEN {} ELSE {CHOOSE q \in waiters : TRUE}

\* The sleepers that a release notifies.
Woken == waiters

\* Mutant: the function acquire() returned does not remember that it was called.
ReleaseTwice(q) ==
  /\ pc[q] \in {"holding", "released"}
  /\ total' = total - 1
  /\ keys' = keys \ {KeyOf[q]}
  /\ waiters' = waiters \ Woken
  /\ pc' = [c \in Requests |-> IF c = q THEN "released"
                               ELSE IF c \in Woken THEN "woken" ELSE pc[c]]
  /\ UNCHANGED aborted

Release(q) ==
  /\ pc[q] = "holding"
  /\ total' = total - 1
  /\ keys' = keys \ {KeyOf[q]}
  /\ waiters' = waiters \ Woken
  /\ pc' = [c \in Requests |-> IF c = q THEN "released"
                               ELSE IF c \in Woken THEN "woken" ELSE pc[c]]
  /\ UNCHANGED aborted

\* The signal fires.  It rejects a sleeping request at once.
Abort(q) ==
  /\ q \notin aborted
  /\ aborted' = aborted \cup {q}
  /\ waiters' = waiters \ {q}
  /\ pc' = IF q \in waiters THEN [pc EXCEPT ![q] = "refused"] ELSE pc
  /\ UNCHANGED <<total, keys>>

Next == \E q \in Requests : Acquire(q) \/ Continue(q) \/ Release(q) \/ Abort(q)

Spec == Init /\ [][Next]_vars

\* Continuations run, and a holder releases in its `finally` (every step ends).
FairSpec == Spec /\ \A q \in Requests : WF_vars(Continue(q)) /\ WF_vars(Release(q))

(***************************************************************************)
(* Properties.                                                             *)
(***************************************************************************)
Holders == {q \in Requests : pc[q] = "holding"}

TypeOK ==
  /\ total \in Nat
  /\ keys \subseteq Keys
  /\ waiters \subseteq Requests
  /\ pc \in [Requests -> {"new", "asleep", "woken", "holding", "released", "refused"}]
  /\ aborted \subseteq Requests

\* The counter and the key set describe the permits that are out, which are never more
\* than the limit and never two of one conversation.
PermitsCounted ==
  /\ total = Cardinality(Holders)
  /\ total <= MaxPermits
  /\ keys = {KeyOf[q] : q \in Holders}

OnePerKey == \A p, q \in Holders : KeyOf[p] = KeyOf[q] => p = q

\* No wakeup is lost: whoever sleeps is registered, and could not take a permit now.
NoLostWakeup ==
  /\ waiters = {q \in Requests : pc[q] = "asleep"}
  /\ \A q \in waiters : Blocked(q)

\* Every sleeping request gets its permit or is refused.
SleepersServed == \A q \in Requests : pc[q] = "asleep" ~> pc[q] \in {"holding", "refused"}
=============================================================================
