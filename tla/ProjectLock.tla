----------------------------- MODULE ProjectLock -----------------------------
(***************************************************************************)
(* What a project lock promises: at most one session works on a project,   *)
(* and a session gets in only when nobody is inside.  Nothing is said of   *)
(* how the sessions agree, and a session that dies is simply outside.      *)
(* WorkspaceLocks implements it with claim files.                          *)
(***************************************************************************)
CONSTANT Sessions

VARIABLE holders    \* the sessions that are inside

Init == holders = {}

Acquire(s) ==
    /\ holders = {}
    /\ holders' = {s}

Release(s) ==
    /\ s \in holders
    /\ holders' = holders \ {s}

Next == \E s \in Sessions : Acquire(s) \/ Release(s)

Spec == Init /\ [][Next]_holders
=============================================================================
