------------------------ MODULE ExecutionLimiter_proofs ------------------------
(***************************************************************************)
(* The permits of a Host, for every number of requests, keys and permits.  *)
(* PermitsCounted needs OnePerKey (a release takes the key away, which     *)
(* must not belong to another holder), and both need that a request takes  *)
(* a permit only when it is not blocked.                                   *)
(***************************************************************************)
EXTENDS ExecutionLimiter, FiniteSetTheorems, TLAPS

Inv == TypeOK /\ PermitsCounted /\ OnePerKey /\ NoLostWakeup

\* There are finitely many holders.
LEMMA HoldersFinite == IsFiniteSet(Holders)
BY LimiterConstants, FS_Subset DEF Holders

\* Nothing is out at the start, and nobody sleeps.
LEMMA InitInv == Init => Inv
<1> SUFFICES ASSUME Init PROVE Inv
    OBVIOUS
<1> USE DEF Init
<1>1. Holders = {}
      BY DEF Holders
<1>2. TypeOK
      BY DEF TypeOK
<1>3. PermitsCounted
      BY <1>1, FS_EmptySet, LimiterConstants DEF PermitsCounted
<1>4. OnePerKey /\ NoLostWakeup
      BY <1>1 DEF OnePerKey, NoLostWakeup
<1> QED
    BY <1>2, <1>3, <1>4 DEF Inv

\* A request that is refused or goes to sleep changes no permit.
LEMMA RefuseInv ==
  ASSUME Inv, NEW q \in Requests, pc[q] \in {"new", "woken"}, Refuse(q)
  PROVE  Inv'
<1> USE DEF Refuse, Inv
<1>1. TypeOK'
      BY DEF TypeOK
<1>2. Holders' = Holders
      BY DEF Holders, TypeOK
<1>3. PermitsCounted' /\ OnePerKey'
      BY <1>2 DEF PermitsCounted, OnePerKey
<1>4. NoLostWakeup'
      BY DEF NoLostWakeup, TypeOK, Blocked
<1> QED
    BY <1>1, <1>3, <1>4

LEMMA SleepInv ==
  ASSUME Inv, NEW q \in Requests, pc[q] \in {"new", "woken"}, Sleep(q)
  PROVE  Inv'
<1> USE DEF Sleep, Inv
<1>1. TypeOK'
      BY DEF TypeOK
<1>2. Holders' = Holders
      BY DEF Holders, TypeOK
<1>3. PermitsCounted' /\ OnePerKey'
      BY <1>2 DEF PermitsCounted, OnePerKey
<1>4. NoLostWakeup'
      BY DEF NoLostWakeup, TypeOK, Blocked
<1> QED
    BY <1>1, <1>3, <1>4

\* A permit is taken only below the limit and for a key that no holder has.
LEMMA TakeInv ==
  ASSUME Inv, NEW q \in Requests, pc[q] \in {"new", "woken"}, Take(q)
  PROVE  Inv'
<1> USE DEF Take, Inv
<1>1. TypeOK'
  <2>1. KeyOf[q] \in Keys
        BY LimiterConstants
  <2>2. total' \in Nat /\ keys' \subseteq Keys
        BY <2>1 DEF TypeOK
  <2> QED
      BY <2>2 DEF TypeOK
<1>2. Holders' = Holders \cup {q} /\ q \notin Holders
      BY DEF Holders, TypeOK
<1>3. Cardinality(Holders') = Cardinality(Holders) + 1
      BY <1>2, HoldersFinite, FS_AddElement
<1>4. KeyOf[q] \notin {KeyOf[p] : p \in Holders}
      BY DEF Blocked, PermitsCounted
<1>5. PermitsCounted'
  <2>1. total' = Cardinality(Holders')
        BY <1>3 DEF PermitsCounted
  <2>2. total' <= MaxPermits
        BY LimiterConstants DEF Blocked, TypeOK
  <2>3. keys' = {KeyOf[p] : p \in Holders'}
        BY <1>2 DEF PermitsCounted
  <2> QED
      BY <2>1, <2>2, <2>3 DEF PermitsCounted
<1>6. OnePerKey'
      BY <1>2, <1>4 DEF OnePerKey
<1>7. NoLostWakeup'
      BY LimiterConstants DEF NoLostWakeup, TypeOK, Blocked
<1> QED
    BY <1>1, <1>5, <1>6, <1>7

\* The released key belonged to the releasing holder only; afterwards nobody sleeps.
LEMMA ReleaseInv ==
  ASSUME Inv, NEW q \in Requests, Release(q)
  PROVE  Inv'
<1> USE DEF Release, Inv, Woken
<1>1. q \in Holders
      BY DEF Holders
<1>2. Holders' = Holders \ {q}
      BY DEF Holders, TypeOK, NoLostWakeup
<1>3. /\ Cardinality(Holders') = Cardinality(Holders) - 1
      /\ Cardinality(Holders) \in Nat /\ Cardinality(Holders') \in Nat
  <2>1. IsFiniteSet(Holders') /\ q \notin Holders'
        BY <1>2, HoldersFinite, FS_Subset
  <2> QED
      BY <1>1, <1>2, <2>1, HoldersFinite, FS_RemoveElement, FS_CardinalityType
<1>4. TypeOK'
      BY <1>3 DEF TypeOK, PermitsCounted
<1>5. PermitsCounted'
  <2>1. total' = Cardinality(Holders') /\ total' <= MaxPermits
        BY <1>3, LimiterConstants DEF PermitsCounted
  <2>2. keys' = {KeyOf[p] : p \in Holders'}
        BY <1>1, <1>2 DEF PermitsCounted, OnePerKey
  <2> QED
      BY <2>1, <2>2 DEF PermitsCounted
<1>6. OnePerKey'
      BY <1>2 DEF OnePerKey
<1>7. NoLostWakeup'
      BY DEF NoLostWakeup, TypeOK
<1> QED
    BY <1>4, <1>5, <1>6, <1>7

LEMMA AbortInv ==
  ASSUME Inv, NEW q \in Requests, Abort(q)
  PROVE  Inv'
<1> USE DEF Abort, Inv
<1>1. TypeOK'
      BY DEF TypeOK
<1>2. Holders' = Holders
      BY DEF Holders, TypeOK, NoLostWakeup
<1>3. PermitsCounted' /\ OnePerKey'
      BY <1>2 DEF PermitsCounted, OnePerKey
<1>4. NoLostWakeup'
      BY DEF NoLostWakeup, TypeOK, Blocked
<1> QED
    BY <1>1, <1>3, <1>4

LEMMA NextInv == Inv /\ [Next]_vars => Inv'
<1> SUFFICES ASSUME Inv, [Next]_vars PROVE Inv'
    OBVIOUS
<1>1. ASSUME NEW q \in Requests, Acquire(q) PROVE Inv'
      BY <1>1, RefuseInv, SleepInv, TakeInv DEF Acquire, Try
<1>2. ASSUME NEW q \in Requests, Continue(q) PROVE Inv'
      BY <1>2, RefuseInv, SleepInv, TakeInv DEF Continue, Try
<1>3. ASSUME NEW q \in Requests, Release(q) PROVE Inv'
      BY <1>3, ReleaseInv
<1>4. ASSUME NEW q \in Requests, Abort(q) PROVE Inv'
      BY <1>4, AbortInv
<1>5. CASE UNCHANGED vars
      BY <1>5 DEF vars, Inv, TypeOK, PermitsCounted, OnePerKey, NoLostWakeup, Holders, Blocked
<1> QED
    BY <1>1, <1>2, <1>3, <1>4, <1>5 DEF Next

\* The invariant holds in every state.
LEMMA InvAlways == Spec => []Inv
BY InitInv, NextInv, PTL DEF Spec

\* The variables of executionLimiter.ts keep their types.
THEOREM LimiterTyped == Spec => []TypeOK
<1>1. Inv => TypeOK
      BY DEF Inv
<1> QED
    BY <1>1, InvAlways, PTL

\* executionLimiter.ts counts its permits right: never more than the limit, and the key
\* set is that of the holders.
THEOREM PermitsCountedAlways == Spec => []PermitsCounted
<1>1. Inv => PermitsCounted
      BY DEF Inv
<1> QED
    BY <1>1, InvAlways, PTL

\* Two native calls of one conversation never hold permits together.
THEOREM OnePerKeyAlways == Spec => []OnePerKey
<1>1. Inv => OnePerKey
      BY DEF Inv
<1> QED
    BY <1>1, InvAlways, PTL

\* No sleeping request could take a permit: the release that made it possible woke it.
THEOREM NoLostWakeupAlways == Spec => []NoLostWakeup
<1>1. Inv => NoLostWakeup
      BY DEF Inv
<1> QED
    BY <1>1, InvAlways, PTL
=============================================================================
