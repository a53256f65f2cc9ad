------------------------- MODULE WorkspaceLocks_proofs -------------------------
(***************************************************************************)
(* The project lock excludes, for every set of processes, and implements   *)
(* the abstract lock.                                                      *)
(***************************************************************************)
EXTENDS WorkspaceLocks, TLAPS

\* Sessions that have listed the directory after publishing their claim.
Listed == {s \in Sessions : at[s] \in {"scanning", "inside"}}

\* Of two living sessions that have both listed, one still has to look at the
\* claim of the other: the one that listed last saw both claims.
OneStillLooks ==
    \A s, t \in Listed : s # t => s \in toScan[t] \/ t \in toScan[s]

InsideHasLooked == \A s \in Sessions : at[s] = "inside" => toScan[s] = {}

IInv == LockTypeOK /\ ClaimsAreKept /\ OneStillLooks /\ InsideHasLooked

LEMMA InitIInv == LockInit => IInv
  BY DEF LockInit, IInv, LockTypeOK, LockPlaces, ClaimsAreKept, OneStillLooks, Listed,
         InsideHasLooked

\* The inductive step: a session leaves the listed ones when it withdraws, a
\* claim is only removed by its owner or after its death, and whoever enters
\* the listed ones has every living listed session still to look at.
LEMMA NextIInv == IInv /\ [LockNext]_lockVars => IInv'
  <1> SUFFICES ASSUME IInv, [LockNext]_lockVars PROVE IInv'
    OBVIOUS
  <1> USE DEF IInv, LockTypeOK, LockPlaces, ClaimsAreKept, OneStillLooks, Listed,
              InsideHasLooked
  <1>1. ASSUME NEW s \in Sessions, Claim(s) PROVE IInv'
    BY <1>1 DEF Claim
  <1>2. ASSUME NEW s \in Sessions, List(s) PROVE IInv'
    BY <1>2 DEF List
  <1>3. ASSUME NEW s \in Sessions, NEW t \in Sessions, ScanAbsent(s, t) PROVE IInv'
    BY <1>3 DEF ScanAbsent
  <1>4. ASSUME NEW s \in Sessions, NEW t \in Sessions, ScanDead(s, t) PROVE IInv'
    BY <1>4 DEF ScanDead
  <1>5. ASSUME NEW s \in Sessions, NEW t \in Sessions, ScanBusy(s, t) PROVE IInv'
    BY <1>5 DEF ScanBusy
  <1>6. ASSUME NEW s \in Sessions, Enter(s) PROVE IInv'
    BY <1>6 DEF Enter
  <1>7. ASSUME NEW s \in Sessions, Leave(s) PROVE IInv'
    BY <1>7 DEF Leave
  <1>8. ASSUME NEW s \in Sessions, Release(s) PROVE IInv'
    BY <1>8 DEF Release
  <1>9. ASSUME NEW s \in Sessions, Die(s) PROVE IInv'
    BY <1>9 DEF Die
  <1>10. ASSUME NEW s \in Sessions, Replace(s) PROVE IInv'
    BY <1>10 DEF Replace
  <1>11. CASE UNCHANGED lockVars
    BY <1>11 DEF lockVars
  <1> QED
    BY <1>1, <1>2, <1>3, <1>4, <1>5, <1>6, <1>7, <1>8, <1>9, <1>10, <1>11
       DEF LockNext, Contend

\* Claims, places and what is left to look at agree in every reachable state.
THEOREM Invariance == LockSpec => []IInv
  BY InitIInv, NextIInv, PTL DEF LockSpec

LEMMA IInvExcludes == IInv => MutualExclusion
  BY DEF IInv, OneStillLooks, Listed, InsideHasLooked, MutualExclusion, Holders

\* At most one session works on the project (withWorkspaceLock), for every
\* set of processes and every interleaving of claims, listings and deaths.
THEOREM LockExcludes == LockSpec => []MutualExclusion
  BY Invariance, IInvExcludes, PTL

\* The claim of a living session is in the directory until it removes it.
THEOREM LockKeepsClaims == LockSpec => []ClaimsAreKept
  <1>1. IInv => ClaimsAreKept
    BY DEF IInv
  <1> QED
    BY Invariance, <1>1, PTL

\* The claim files implement the abstract lock: entering is acquiring, and
\* leaving or dying inside is releasing.
THEOREM LockImplements == LockSpec => Lock!Spec
  <1>1. LockInit => Lock!Init
    BY DEF LockInit, Lock!Init, Holders
  <1>2. IInv /\ IInv' /\ [LockNext]_lockVars => [Lock!Next]_Holders
    <2> SUFFICES ASSUME IInv, IInv', [LockNext]_lockVars PROVE [Lock!Next]_Holders
      OBVIOUS
    <2> USE DEF IInv, LockTypeOK, Holders
    <2>1. ASSUME NEW s \in Sessions, Enter(s) PROVE Lock!Acquire(s)
      <3>1. Holders' = Holders \cup {s}
        BY <2>1 DEF Enter
      <3>2. MutualExclusion'
        BY IInvExcludes, PTL
      <3>3. s \notin Holders
        BY <2>1 DEF Enter
      <3>4. Holders = {}
        BY <3>1, <3>2, <3>3 DEF MutualExclusion
      <3> QED
        BY <3>1, <3>4 DEF Lock!Acquire
    <2>2. ASSUME NEW s \in Sessions, Leave(s) PROVE Lock!Release(s)
      BY <2>2 DEF Leave, Lock!Release
    <2>3. ASSUME NEW s \in Sessions, Die(s) PROVE Lock!Release(s) \/ UNCHANGED Holders
      BY <2>3 DEF Die, Lock!Release
    <2>4. ASSUME NEW s \in Sessions, Contend(s) \/ Replace(s) PROVE UNCHANGED Holders
      BY <2>4 DEF Contend, Replace, Claim, List, ScanAbsent, ScanDead, ScanBusy, Release
    <2>5. CASE UNCHANGED lockVars
      BY <2>5 DEF lockVars
    <2> QED
      BY <2>1, <2>2, <2>3, <2>4, <2>5 DEF LockNext, Lock!Next
  <1> QED
    BY <1>1, <1>2, Invariance, PTL DEF LockSpec, Lock!Spec
=============================================================================
