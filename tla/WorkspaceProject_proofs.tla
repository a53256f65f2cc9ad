------------------------ MODULE WorkspaceProject_proofs ------------------------
(***************************************************************************)
(* Applying a snapshot to a project, whatever the user writes meanwhile    *)
(* and wherever processes die or file operations fail.                     *)
(*                                                                         *)
(* First the composition keeps the lock's protocol, so what is proved of   *)
(* the lock holds of the project: one call at most works on it.  Then the  *)
(* invariant says what the files look like at every place of that call,    *)
(* and what is left of it when the call is gone.                           *)
(***************************************************************************)
EXTENDS WorkspaceProject, WorkspaceLocks_proofs, FiniteSetTheorems, WellFoundedInduction

LEMMA StepIsLockStep == [Next]_vars => [LockNext]_lockVars
  <1> SUFFICES ASSUME [Next]_vars PROVE [LockNext]_lockVars
    OBVIOUS
  <1>1. CASE User
    BY <1>1 DEF User, Delete, Overwrite, Recreate, UserActs
  <1>2. ASSUME NEW s \in Sessions, Fail(s) \/ FailStaging(s) PROVE UNCHANGED lockVars
    BY <1>2 DEF Fail, FailStaging
  <1>3. ASSUME NEW s \in Sessions, Crash(s) PROVE LockNext
    BY <1>3 DEF Crash, LockNext
  <1>4. ASSUME NEW s \in Sessions, RecoveryStep(s) PROVE UNCHANGED lockVars
    BY <1>4 DEF RecoveryStep, others, ReadJournal, Inspect, ProveCommit, StartRollback, Tidy,
                Roll, NameCapture, Capture, Captured, Restore, Restored, Clean, FinishRollback,
                Recovered
  <1>5. ASSUME NEW s \in Sessions, ApplyStep(s) PROVE UNCHANGED lockVars
    BY <1>5 DEF ApplyStep, others, Plan, Stage, Mark, Check, MoveOriginal, VerifyOriginal,
                Publish, Unstage, Commit, Discard
  <1>6. ASSUME NEW s \in Sessions, NEW w \in {"review", "apply"}, Open(s, w) PROVE LockNext
    BY <1>6 DEF Open, LockNext
  <1>7. ASSUME NEW s \in Sessions, Close(s) PROVE LockNext
    BY <1>7 DEF Close, LockNext
  <1>8. ASSUME NEW s \in Sessions, Contend(s) \/ Replace(s) PROVE LockNext
    BY <1>8 DEF LockNext
  <1>9. CASE UNCHANGED vars
    BY <1>9 DEF vars
  <1> QED
    BY <1>1, <1>2, <1>3, <1>4, <1>5, <1>6, <1>7, <1>8, <1>9 DEF Next, Faults, SessionStep

\* The project's processes follow the lock's protocol.
THEOREM ProjectFollowsLock == Spec => LockSpec
  <1>1. Init => LockInit
    BY DEF Init
  <1> QED
    BY <1>1, StepIsLockStep, PTL DEF Spec, LockSpec

\* No two processes apply to or recover one project at the same time
\* (workspaceManager.ts locked, withWorkspaceLock).
THEOREM ProjectExcludes == Spec => []MutualExclusion
  BY ProjectFollowsLock, LockExcludes, PTL

(***************************************************************************)
(* The loops: the first and the last of some paths.                        *)
(***************************************************************************)
LEMMA SmallestNat ==
  ASSUME NEW S \in SUBSET Nat, S # {}
  PROVE  \E p \in S : \A q \in S : p <= q
  <1>1. \E p \in S : \A q \in S : <<q, p>> \notin OpToRel(<, Nat)
    BY NatLessThanWellFounded, WFMin
  <1>2. \A p, q \in Nat : <<q, p>> \notin OpToRel(<, Nat) => p <= q
    BY DEF OpToRel
  <1> QED
    BY <1>1, <1>2

\* A finite set of numbers is bounded: else there is a least number of elements
\* that an unbounded one may have.
LEMMA Bounded ==
  ASSUME NEW S \in SUBSET Nat, IsFiniteSet(S)
  PROVE  \E m \in Nat : \A q \in S : q <= m
  <1> DEFINE Unbounded(T) == \A m \in Nat : \E q \in T : ~(q <= m)
             Sizes == {n \in Nat : \E T \in SUBSET S : Cardinality(T) = n /\ Unbounded(T)}
  <1>1. SUFFICES ASSUME Unbounded(S) PROVE FALSE
    OBVIOUS
  <1>2. Cardinality(S) \in Sizes
    BY <1>1, FS_CardinalityType
  <1>3. PICK n \in Sizes : \A k \in Sizes : n <= k
    <2> HIDE DEF Sizes
    <2>1. Sizes \subseteq Nat
      BY DEF Sizes
    <2> QED
      BY <1>2, <2>1, SmallestNat
  <1>4. PICK T \in SUBSET S : Cardinality(T) = n /\ Unbounded(T)
    BY <1>3
  <1>5. PICK x \in T : TRUE
    BY <1>4
  <1>6. IsFiniteSet(T) /\ x \in Nat
    BY <1>4, <1>5, FS_Subset
  <1>7. Cardinality(T \ {x}) = n - 1
    BY <1>4, <1>5, <1>6, FS_RemoveElement
  <1>8. Unbounded(T \ {x})
    <2> SUFFICES ASSUME NEW m \in Nat PROVE \E q \in T \ {x} : ~(q <= m)
      OBVIOUS
    <2>1. \A b \in Nat : \E q \in T : ~(q <= b)
      BY <1>4
    <2>2. m + x \in Nat
      BY <1>6
    <2>3. PICK q \in T : ~(q <= m + x)
      BY <2>1, <2>2, Zenon
    <2>4. q \in Nat
      BY <2>3
    <2> QED
      BY <1>6, <2>3, <2>4
  <1>9. n - 1 \in Nat
    <2>1. IsFiniteSet(T \ {x})
      BY <1>6, FS_Subset
    <2> QED
      BY <1>7, <2>1, FS_CardinalityType
  <1>10. n - 1 \in Sizes
    BY <1>7, <1>8, <1>9
  <1> QED
    BY <1>3, <1>9, <1>10

LEMMA LargestNat ==
  ASSUME NEW S \in SUBSET Nat, IsFiniteSet(S), S # {}
  PROVE  \E p \in S : \A q \in S : p >= q
  <1> DEFINE Bounds == {m \in Nat : \A q \in S : q <= m}
  <1>1. PICK m \in Bounds : \A k \in Bounds : m <= k
    <2>1. Bounds # {} /\ Bounds \subseteq Nat
      BY Bounded
    <2> QED
      BY <2>1, SmallestNat
  <1>2. m \in S
    <2> SUFFICES ASSUME m \notin S PROVE FALSE
      OBVIOUS
    <2>1. \A q \in S : q \in Nat /\ q < m
      BY <1>1
    <2>2. PICK x \in S : x \in Nat /\ x < m
      BY <2>1
    <2>3. m \in Nat /\ m - 1 \in Nat
      BY <1>1, <2>2
    <2>4. \A q \in S : q <= m - 1
      BY <2>1, <2>3
    <2> QED
      BY <1>1, <2>3, <2>4
  <1> QED
    BY <1>1, <1>2

LEMMA FirstIn ==
  ASSUME NEW S \in SUBSET Nat, S # {}
  PROVE  First(S) \in S
  BY SmallestNat DEF First
LEMMA LastIn ==
  ASSUME NEW S \in SUBSET Nat, IsFiniteSet(S), S # {}
  PROVE  Last(S) \in S
  BY LargestNat DEF Last

(***************************************************************************)
(* Types.                                                                  *)
(***************************************************************************)
NamesLeft == {<<"staging", "backup", "rollback">>, <<"backup", "rollback">>, <<"rollback">>}
Places == {"outside", "read", "inspect", "tidy", "finish", "recovered", "plan", "returned",
           "failed"} \cup ApplyPlaces \cup RollPlaces
JournalStates == Final \cup {"preparing", "applying", "rolling-back", "rollback-incomplete"}

Calls == [pc : Places, phase : {"recover", "apply", "undo"}, wants : {"review", "apply"},
          todo : SUBSET Paths, names : NamesLeft \cup {<<>>}, installed : BOOLEAN,
          conflicts : BOOLEAN, sound : BOOLEAN]

Inodes == 0..(1 + MaxEdits)

FilesOK ==
    /\ DOMAIN files = Paths
    /\ \A p \in Paths : DOMAIN files[p] = Names
    /\ \A p \in Paths, n \in Names : files[p][n] # Absent =>
          files[p][n].data # Absent /\ files[p][n].ino \in Inodes

TypeInv ==
    /\ TypeOK
    /\ FilesOK
    /\ journal \in [state : JournalStates, changes : SUBSET Paths]
    /\ journal.state = "none" <=> journal.changes = {}
    /\ session \in [Sessions -> Calls]
    /\ \A s \in Sessions : at[s] = "inside" => session[s].pc # "outside"
    /\ DOMAIN edited = Paths
    /\ budget \in [edits : 0..MaxEdits, faults : 0..MaxFaults]

LEMMA SubsetLoops ==
  ASSUME NEW S \in SUBSET Paths, S # {}
  PROVE  First(S) \in S /\ Last(S) \in S
  <1>1. S \in SUBSET Nat /\ IsFiniteSet(S)
    BY FS_Subset, ProjectConstants
  <1> QED
    BY <1>1, FirstIn, LastIn

\* The recovery files that cleanup has removed, by the names it has left.
Gone(names) == CASE Len(names) = 3 -> {}
                 [] Len(names) = 2 -> {"staging"}
                 [] OTHER -> {"staging", "backup"}

LEMMA NamesSteps ==
  ASSUME NEW names \in NamesLeft
  PROVE  /\ Head(names) \in Names \ {"dest"}
         /\ Len(names) > 1 => /\ Tail(names) \in NamesLeft
                              /\ Gone(Tail(names)) = Gone(names) \cup {Head(names)}
         /\ ~(Len(names) > 1) => Gone(names) \cup {Head(names)} = Names \ {"dest"}
  <1>1. CASE names = <<"staging", "backup", "rollback">>
    <2>1. /\ Head(names) = "staging" /\ Len(names) = 3
          /\ Tail(names) = <<"backup", "rollback">> /\ Len(Tail(names)) = 2
      BY <1>1
    <2> QED
      BY <2>1 DEF NamesLeft, Gone, Names
  <1>2. CASE names = <<"backup", "rollback">>
    <2>1. /\ Head(names) = "backup" /\ Len(names) = 2
          /\ Tail(names) = <<"rollback">> /\ Len(Tail(names)) = 1
      BY <1>2
    <2> QED
      BY <2>1 DEF NamesLeft, Gone, Names
  <1>3. CASE names = <<"rollback">>
    <2>1. Head(names) = "rollback" /\ Len(names) = 1
      BY <1>3
    <2> QED
      BY <2>1 DEF Gone, Names
  <1> QED
    BY <1>1, <1>2, <1>3 DEF NamesLeft

LEMMA AllNamesLeft ==
  Recoverables \in NamesLeft /\ Gone(Recoverables) = {}
  <1>1. Len(Recoverables) = 3
    BY DEF Recoverables
  <1> QED
    BY <1>1 DEF Recoverables, NamesLeft, Gone

(***************************************************************************)
(* Calls keep their type.                                                  *)
(***************************************************************************)
\* A call inside the lock, with paths of C left to do.
Going(x, C) == x \in Calls /\ x.pc # "outside" /\ x.todo \subseteq C

LEMMA InsideGoing ==
  ASSUME TypeInv, NEW s \in Sessions, at[s] = "inside"
  PROVE  Going(session[s], journal.changes)
  BY DEF TypeInv, TypeOK, Going

LEMMA RollNextFacts ==
  ASSUME NEW C \in SUBSET Paths, NEW x, Going(x, C), NEW conflict \in BOOLEAN
  PROVE  /\ Going(RollNext(x, conflict), C)
         /\ RollNext(x, conflict).pc \in {"roll", "finish"}
         /\ RollNext(x, conflict).pc = "finish" <=> x.todo \ {Last(x.todo)} = {}
         /\ RollNext(x, conflict).todo = x.todo \ {Last(x.todo)}
         /\ RollNext(x, conflict).conflicts = (x.conflicts \/ conflict)
         /\ RollNext(x, conflict).sound = x.sound
         /\ RollNext(x, conflict).phase = x.phase
  BY DEF RollNext, Going, Calls, Places, RollPlaces

LEMMA ThrewFacts ==
  ASSUME NEW C \in SUBSET Paths, NEW x, Going(x, C)
  PROVE  /\ Going(Threw(x), C)
         /\ Threw(x).sound = x.sound
         /\ x.pc \in ApplyPlaces => Threw(x).pc = "read" /\ Threw(x).phase = "undo"
         /\ x.pc \in RollPlaces => Threw(x) = RollNext(x, TRUE)
         /\ x.pc = "inspect" /\ x.todo # {} =>
              Threw(x).pc = "inspect" /\ ~Threw(x).installed /\ Threw(x).phase = x.phase
         /\ x.pc \notin ApplyPlaces \cup RollPlaces /\ ~(x.pc = "inspect" /\ x.todo # {}) =>
              Threw(x).pc = "failed"
  <1>1. CASE x.pc \in ApplyPlaces
    <2>1. Threw(x) = [x EXCEPT !.pc = "read", !.phase = "undo"] /\ x.pc \notin RollPlaces
      BY <1>1 DEF Threw, ApplyPlaces, RollPlaces
    <2>2. x.pc # "inspect"
      BY <1>1 DEF ApplyPlaces
    <2> QED
      BY <1>1, <2>1, <2>2 DEF Going, Calls, Places
  <1>2. CASE x.pc \in RollPlaces
    <2>1. Threw(x) = RollNext(x, TRUE) /\ x.pc \notin ApplyPlaces /\ x.pc # "inspect"
      BY <1>2 DEF Threw, ApplyPlaces, RollPlaces
    <2>2. TRUE \in BOOLEAN
      OBVIOUS
    <2>3. Going(RollNext(x, TRUE), C) /\ RollNext(x, TRUE).sound = x.sound
      BY <2>2, RollNextFacts
    <2> QED
      BY <1>2, <2>1, <2>3
  <1>3. CASE x.pc = "inspect" /\ x.todo # {}
    <2>1. Threw(x) = [x EXCEPT !.installed = FALSE, !.todo = @ \ {First(@)}]
      BY <1>3 DEF Threw, ApplyPlaces, RollPlaces
    <2>2. x.pc \notin ApplyPlaces \cup RollPlaces
      BY <1>3 DEF ApplyPlaces, RollPlaces
    <2> QED
      BY <1>3, <2>1, <2>2 DEF Going, Calls, Places
  <1>4. CASE x.pc \notin ApplyPlaces \cup RollPlaces /\ ~(x.pc = "inspect" /\ x.todo # {})
    <2>1. Threw(x) = [x EXCEPT !.pc = "failed"]
      BY <1>4 DEF Threw
    <2> QED
      BY <1>4, <2>1 DEF Going, Calls, Places
  <1> QED
    BY <1>1, <1>2, <1>3, <1>4

\* What a step of the call of s makes of that call.
LEMMA SetCall ==
  ASSUME TypeInv, NEW s \in Sessions, NEW new, Set(s, new)
  PROVE  session'[s] = new /\ \A t \in Sessions : t # s => session'[t] = session[t]
  BY DEF Set, TypeInv

(***************************************************************************)
(* The invariant: what is left of earlier calls.                           *)
(***************************************************************************)
\* No recovery file of p exists, or none that cleanup has already removed.
Bare(p) == \A n \in Names \ {"dest"} : Data(p, n) = Absent
Tidied(p, names) == \A n \in Gone(names) : Data(p, n) = Absent

\* Only the changes of the newest journal have recovery files.
OthersBare == \A p \in Paths \ journal.changes : Bare(p)

\* What the user has deleted cannot be put back: the original is not there, or nothing
\* says that the apply had removed the file itself.
DeletedForGood ==
    \A p \in removed :
        /\ Absent \notin {Before[p], After[p]}
        /\ Data(p, "dest") = Absent
        /\ Data(p, "backup") = Absent \/ (Data(p, "staging") = Absent /\ Data(p, "rollback") = Absent)

\* What the user has written is neither content of the change.
EditsKept ==
    \A p \in Paths : edited[p] # Absent =>
        edited[p] \notin {Before[p], After[p]} /\ \E n \in Names : Data(p, n) = edited[p]

Untouched == journal.changes \ touched

\* Where the files of an untouched change can be: the original stays until the commit,
\* and a file that apply has moved away is announced by its staged or captured successor.
Legal(p) ==
    /\ Data(p, "staging") \in {Absent, After[p], "torn"}
    /\ Data(p, "backup") \in {Absent, Before[p]}
    /\ Data(p, "rollback") \in {Absent, After[p]}
    /\ Data(p, "dest") \in {Absent, Before[p], After[p]}
    /\ journal.state # "complete" =>
         /\ Before[p] # Absent => Before[p] \in {Data(p, "dest"), Data(p, "backup")}
         /\ Absent \notin {Before[p], After[p]} /\ Data(p, "dest") = Absent =>
               After[p] \in {Data(p, "staging"), Data(p, "rollback")}
    /\ journal.state = "complete" => Data(p, "dest") = After[p]
    /\ journal.state = "rolled-back" => Data(p, "dest") = Before[p]

AllLegal == \A p \in Untouched : Legal(p)

ToldTruly == told = "receipt" => journal.state = "complete"

FilesInv == OthersBare /\ DeletedForGood /\ EditsKept /\ AllLegal /\ ToldTruly

(***************************************************************************)
(* The invariant: where the call is.                                       *)
(***************************************************************************)
\* Nothing has disturbed the call x.
Calm(x) == x.sound /\ touched = {} /\ \A p \in Paths : Data(p, "staging") # "torn"

Recovering(x) == x.phase # "apply"

Inspecting(x) ==
    /\ Recovering(x)
    /\ journal.state \notin Final
    /\ x.names = Recoverables
    /\ x.installed => \A p \in Untouched \ x.todo : Data(p, "dest") = After[p]

Tidying(x) ==
    /\ Recovering(x)
    /\ journal.state \in Final
    /\ \A p \in journal.changes \ x.todo : Bare(p)
    /\ x.names \in NamesLeft
    /\ x.todo # {} => Tidied(First(x.todo), x.names)

\* The rollback loop: what is undone is as before, unless there was a conflict.
Undoing(x) ==
    /\ Recovering(x)
    /\ journal.state = "rolling-back"
    /\ Calm(x) => ~x.conflicts
    /\ ~x.conflicts => \A p \in journal.changes \ x.todo :
          Bare(p) /\ (p \notin touched => Data(p, "dest") = Before[p])

\* The change p that the loop undoes, which has left `place`.
UndoneAt(x, p) ==
    /\ x.pc \in {"name", "capture", "captured", "restore"} /\ Before[p] # Absent =>
          Data(p, "backup") # Absent
    /\ x.pc = "capture" => Data(p, "rollback") = Absent
    /\ x.pc = "captured" => Data(p, "rollback") # Absent
    /\ x.pc = "restore" /\ Absent \notin {Before[p], After[p]} =>
          Data(p, "staging") # Absent \/ Data(p, "rollback") # Absent
    /\ x.pc = "clean" => x.names \in NamesLeft /\ Tidied(p, x.names)
    /\ p \notin touched =>
         /\ x.pc \in {"name", "capture"} => Data(p, "dest") = After[p] /\ After[p] # Absent
         /\ x.pc = "captured" => Data(p, "dest") = Absent /\ Data(p, "rollback") = After[p]
         /\ x.pc = "restore" => Data(p, "dest") = Absent
         /\ x.pc \in {"restored", "clean"} => Data(p, "dest") = Before[p]

Planning(x) ==
    /\ x.phase = "recover"
    /\ journal.state \in Final
    /\ \A p \in journal.changes : Bare(p)

\* A change that waits for its turn in the apply loop.
Staged(p) == After[p] # Absent => Data(p, "staging") # Absent
Waiting(p) ==
    /\ Staged(p)
    /\ Data(p, "backup") = Absent /\ Data(p, "rollback") = Absent
    /\ p \notin touched =>
         /\ Data(p, "dest") = Before[p]
         /\ After[p] # Absent => Data(p, "staging") = After[p]

Staging(x) ==
    /\ journal.state = "preparing"
    /\ x.todo # {}
    /\ \A p \in x.todo : Bare(p) /\ (p \notin touched => Data(p, "dest") = Before[p])
    /\ \A p \in journal.changes \ x.todo : Waiting(p)

Marking(x) ==
    /\ journal.state = "preparing"
    /\ x.todo = journal.changes /\ x.todo # {}
    /\ \A p \in x.todo : Waiting(p)

Applying(x) ==
    /\ journal.state = "applying"
    /\ x.todo # {}
    /\ \A p \in x.todo \ {First(x.todo)} : Waiting(p)
    /\ \A p \in Untouched \ x.todo : Data(p, "dest") = After[p]

\* The change p that the apply loop works on.
AppliedAt(x, p) ==
    /\ x.pc \in {"check", "original"} => Waiting(p)
    /\ x.pc \in {"verify", "publish"} => Staged(p) /\ (Before[p] # Absent => Data(p, "backup") # Absent)
    /\ x.pc \in {"original", "verify"} => Before[p] # Absent
    /\ x.pc \in {"verify", "publish", "unstage"} => Data(p, "rollback") = Absent
    /\ x.pc \in {"publish", "unstage"} => After[p] # Absent
    /\ p \notin touched =>
         /\ x.pc \in {"verify", "publish"} =>
              /\ Data(p, "dest") = Absent
              /\ After[p] # Absent => Data(p, "staging") = After[p]
         /\ x.pc = "unstage" => Data(p, "dest") = After[p]

Committing(x) ==
    /\ journal.state = "applying"
    /\ \A p \in Untouched : Data(p, "dest") = After[p]

CallInv(x) ==
    /\ x.pc = "read" => Recovering(x)
    /\ x.pc = "inspect" => Inspecting(x)
    /\ x.pc = "tidy" => Tidying(x)
    /\ x.pc \in RollPlaces => Undoing(x) /\ x.todo # {} /\ UndoneAt(x, Last(x.todo))
    /\ x.pc = "finish" => Undoing(x) /\ x.todo = {}
    /\ x.pc = "recovered" => /\ Recovering(x) /\ journal.state = "rolled-back"
                             /\ \A p \in journal.changes : Bare(p)
    /\ x.pc = "plan" => Planning(x)
    /\ x.pc = "stage" => Staging(x)
    /\ x.pc = "mark" => Marking(x)
    /\ x.pc \in {"check", "original", "verify", "publish", "unstage"} =>
          Applying(x) /\ AppliedAt(x, First(x.todo))
    /\ x.pc = "commit" => Committing(x)
    /\ x.pc = "discard" => journal.state = "complete" /\ x.todo # {}
    /\ x.pc = "returned" => /\ journal.state \in Final
                            /\ x.phase # "recover" => journal.state = "complete"
    /\ x.pc = "failed" /\ Calm(x) => journal.state \in Final

ProjectInv == FilesInv /\ \A s \in Sessions : at[s] = "inside" => CallInv(session[s])

(***************************************************************************)
(* What the file operations do to the contents.                            *)
(***************************************************************************)
LEMMA HasData ==
  ASSUME TypeInv, NEW p \in Paths, NEW n \in Names
  PROVE  files[p][n] = Absent <=> Data(p, n) = Absent
  BY DEF TypeInv, FilesOK, Data

SameData == \A q \in Paths, m \in Names : Data(q, m)' = Data(q, m)

Puts(p, n, d) ==
    \A q \in Paths, m \in Names : Data(q, m)' = IF q = p /\ m = n THEN d ELSE Data(q, m)

Moves(p, from, to) ==
    \A q \in Paths, m \in Names :
        Data(q, m)' = CASE q = p /\ m = to -> Data(p, from)
                        [] q = p /\ m = from -> Absent
                        [] OTHER -> Data(q, m)

LEMMA FilesSame ==
  ASSUME TypeInv, UNCHANGED files
  PROVE  FilesOK' /\ SameData
  BY DEF TypeInv, FilesOK, SameData, Data

LEMMA FilesPut ==
  ASSUME TypeInv, NEW p \in Paths, NEW n \in Names, NEW f,
         files' = [files EXCEPT ![p][n] = f],
         f = Absent \/ (f.data # Absent /\ f.ino \in Inodes)
  PROVE  FilesOK' /\ Puts(p, n, IF f = Absent THEN Absent ELSE f.data)
  <1>1. \A q \in Paths, m \in Names : files'[q][m] = IF q = p /\ m = n THEN f ELSE files[q][m]
    BY DEF TypeInv, FilesOK
  <1>2. DOMAIN files' = Paths /\ \A q \in Paths : DOMAIN files'[q] = Names
    BY DEF TypeInv, FilesOK
  <1> QED
    BY <1>1, <1>2 DEF TypeInv, FilesOK, Puts, Data

LEMMA FilesLinked ==
  ASSUME TypeInv, NEW p \in Paths, NEW from \in Names, NEW to \in Names, Link(p, from, to)
  PROVE  FilesOK' /\ Puts(p, to, Data(p, from))
  <1>1. files' = [files EXCEPT ![p][to] = files[p][from]]
    BY DEF Link
  <1>2. files[p][from] = Absent \/
          (files[p][from].data # Absent /\ files[p][from].ino \in Inodes)
    BY DEF TypeInv, FilesOK
  <1>3. FilesOK' /\ Puts(p, to, IF files[p][from] = Absent THEN Absent ELSE files[p][from].data)
    BY <1>1, <1>2, FilesPut
  <1> QED
    BY <1>3 DEF Data

LEMMA FilesUnlinked ==
  ASSUME TypeInv, NEW p \in Paths, NEW n \in Names, Unlink(p, n)
  PROVE  FilesOK' /\ Puts(p, n, Absent)
  <1>1. files' = [files EXCEPT ![p][n] = Absent]
    BY DEF Unlink
  <1>2. FilesOK' /\ Puts(p, n, IF Absent = Absent THEN Absent ELSE Absent.data)
    BY <1>1, FilesPut
  <1> QED
    BY <1>2

LEMMA FilesWritten ==
  ASSUME TypeInv, NEW p \in Paths, NEW n \in Names, NEW ino \in Inodes,
         NEW data \in Edits \cup {"torn"} \cup {After[q] : q \in Paths}, data # Absent,
         files' = [files EXCEPT ![p][n] = File(ino, data)]
  PROVE  FilesOK' /\ Puts(p, n, data)
  <1>1. File(ino, data).data = data /\ File(ino, data).ino = ino /\ File(ino, data) # Absent
    BY ProjectConstants DEF File, Inodes
  <1>2. FilesOK' /\ Puts(p, n, IF File(ino, data) = Absent THEN Absent ELSE File(ino, data).data)
    BY <1>1, FilesPut
  <1> QED
    BY <1>1, <1>2

LEMMA FilesMoved ==
  ASSUME TypeInv, NEW p \in Paths, NEW from \in Names, NEW to \in Names, from # to,
         Rename(p, from, to)
  PROVE  FilesOK' /\ Moves(p, from, to)
  <1>1. \A q \in Paths, m \in Names :
          files'[q][m] = IF q = p /\ m = from THEN Absent
                         ELSE IF q = p /\ m = to THEN files[p][from] ELSE files[q][m]
    BY DEF Rename, TypeInv, FilesOK
  <1>2. DOMAIN files' = Paths /\ \A q \in Paths : DOMAIN files'[q] = Names
    BY DEF Rename, TypeInv, FilesOK
  <1>3. FilesOK'
    BY <1>1, <1>2 DEF TypeInv, FilesOK
  <1>4. Moves(p, from, to)
    BY <1>1 DEF Moves, Data
  <1> QED
    BY <1>3, <1>4

(***************************************************************************)
(* What keeps the files as the invariant describes them.                   *)
(***************************************************************************)
Kept == UNCHANGED <<touched, edited, removed, told>> /\ journal'.changes = journal.changes

\* One content changes: it was not the user's, it does not bring back what the user has
\* deleted, and it is where the invariant expects it.
LEMMA PutKeeps ==
  ASSUME TypeInv, FilesInv, Kept, journal'.state = journal.state,
         NEW p \in journal.changes, NEW n \in Names, NEW d, Puts(p, n, d),
         edited[p] # Absent => Data(p, n) # edited[p],
         p \in removed => \/ d = Absent
                          \/ n = "staging" /\ Data(p, "backup") = Absent,
         p \notin touched => Legal(p)'
  PROVE  FilesInv'
  <1>0. p \in Paths /\ journal.changes \subseteq Paths /\ removed \subseteq Paths
    BY DEF TypeInv, TypeOK
  <1>1. OthersBare'
    BY <1>0 DEF FilesInv, OthersBare, Bare, Kept, Puts, Names
  <1>2. DeletedForGood'
    BY <1>0 DEF FilesInv, DeletedForGood, Kept, Puts, Names
  <1>3. EditsKept'
    BY <1>0 DEF FilesInv, EditsKept, Kept, Puts
  <1>4. AllLegal'
    <2>1. ASSUME NEW q \in Untouched, q # p PROVE Legal(q)'
      BY <1>0, <2>1 DEF FilesInv, AllLegal, Untouched, Legal, Kept, Puts, Names
    <2> QED
      BY <2>1 DEF AllLegal, Untouched, Kept
  <1>5. ToldTruly'
    BY DEF FilesInv, ToldTruly, Kept
  <1> QED
    BY <1>1, <1>2, <1>3, <1>4, <1>5 DEF FilesInv

\* The project file is moved to a free recovery name.
LEMMA MoveKeeps ==
  ASSUME TypeInv, FilesInv, Kept, journal'.state = journal.state,
         NEW p \in journal.changes, NEW n \in {"backup", "rollback"}, Moves(p, "dest", n),
         Data(p, n) = Absent, Data(p, "dest") # Absent,
         p \notin touched => Legal(p)'
  PROVE  FilesInv'
  <1>0. p \in Paths /\ journal.changes \subseteq Paths /\ removed \subseteq Paths
    BY DEF TypeInv, TypeOK
  <1>1. OthersBare'
    BY <1>0 DEF FilesInv, OthersBare, Bare, Kept, Moves, Names
  <1>2. DeletedForGood'
    <2>1. p \notin removed
      BY DEF FilesInv, DeletedForGood
    <2> QED
      BY <1>0, <2>1 DEF FilesInv, DeletedForGood, Kept, Moves, Names
  <1>3. EditsKept'
    <2>1. ASSUME edited[p] # Absent PROVE \E m \in Names : Data(p, m)' = edited[p]
      <3>1. PICK m \in Names : Data(p, m) = edited[p]
        BY <1>0, <2>1 DEF FilesInv, EditsKept
      <3>2. CASE m = "dest"
        <4>1. Data(p, n)' = edited[p] /\ n \in Names
          BY <1>0, <3>1, <3>2 DEF Moves, Names
        <4> QED
          BY <4>1
      <3>3. CASE m # "dest"
        <4>1. Data(p, m)' = edited[p]
          BY <1>0, <2>1, <3>1, <3>3 DEF Moves
        <4> QED
          BY <4>1
      <3> QED
        BY <3>2, <3>3
    <2>2. \A q \in Paths, m \in Names : q # p => Data(q, m)' = Data(q, m)
      BY DEF Moves
    <2> QED
      BY <2>1, <2>2 DEF FilesInv, EditsKept, Kept
  <1>4. AllLegal'
    <2>1. ASSUME NEW q \in Untouched, q # p PROVE Legal(q)'
      BY <1>0, <2>1 DEF FilesInv, AllLegal, Untouched, Legal, Kept, Moves, Names
    <2> QED
      BY <2>1 DEF AllLegal, Untouched, Kept
  <1>5. ToldTruly'
    BY DEF FilesInv, ToldTruly, Kept
  <1> QED
    BY <1>1, <1>2, <1>3, <1>4, <1>5 DEF FilesInv

\* The journal gets another state, the files stay.
LEMMA StateKeeps ==
  ASSUME TypeInv, FilesInv, Kept, SameData,
         told = "receipt" => journal'.state = "complete",
         journal.state = "complete" => journal'.state = "complete",
         journal'.state = "complete" => \A p \in Untouched : Data(p, "dest") = After[p],
         journal'.state = "rolled-back" => \A p \in Untouched : Data(p, "dest") = Before[p]
  PROVE  FilesInv'
  <1>0. journal.changes \subseteq Paths /\ removed \subseteq Paths
    BY DEF TypeInv, TypeOK
  <1>1. OthersBare' /\ DeletedForGood'
    BY <1>0 DEF FilesInv, OthersBare, Bare, DeletedForGood, Kept, SameData, Names
  <1>2. EditsKept'
    BY DEF FilesInv, EditsKept, Kept, SameData
  <1>3. AllLegal'
    BY <1>0 DEF FilesInv, AllLegal, Untouched, Legal, Kept, SameData, Names
  <1>4. ToldTruly'
    BY DEF FilesInv, ToldTruly, Kept
  <1> QED
    BY <1>1, <1>2, <1>3, <1>4 DEF FilesInv

\* Nothing happens to the files and the journal.
LEMMA SameKeeps ==
  ASSUME TypeInv, FilesInv, UNCHANGED <<journal, touched, edited, removed, told>>, SameData
  PROVE  FilesInv'
  <1>0. journal.changes \subseteq Paths /\ removed \subseteq Paths
    BY DEF TypeInv, TypeOK
  <1>1. OthersBare' /\ DeletedForGood'
    BY <1>0 DEF FilesInv, OthersBare, Bare, DeletedForGood, SameData, Names
  <1>2. EditsKept' /\ ToldTruly'
    BY DEF FilesInv, EditsKept, SameData, ToldTruly
  <1>3. AllLegal'
    BY <1>0 DEF FilesInv, AllLegal, Untouched, Legal, SameData, Names
  <1> QED
    BY <1>1, <1>2, <1>3 DEF FilesInv

(***************************************************************************)
(* The first state.                                                        *)
(***************************************************************************)
LEMMA InitProject == Init => TypeInv /\ ProjectInv
  <1> SUFFICES ASSUME Init PROVE TypeInv /\ ProjectInv
    OBVIOUS
  <1> USE DEF Init, ApplyInit, LockInit
  <1>1. \A s \in Sessions : at[s] # "inside" /\ session[s] = Outside
    OBVIOUS
  <1>2. Outside \in Calls
    BY DEF Outside, Calls, Places
  <1>3. \A p \in Paths, n \in Names : files[p][n] =
          IF n = "dest" /\ Before[p] # Absent THEN File(0, Before[p]) ELSE Absent
    OBVIOUS
  <1>4. 0 \in Inodes /\ \A p \in Paths : Before[p] # Absent => Before[p] \in Edits
    BY ProjectConstants DEF Inodes
  <1>5. \A p \in Paths : Before[p] # Absent => File(0, Before[p]) # Absent
    BY <1>4, ProjectConstants DEF Inodes
  <1>6. FilesOK
    BY <1>3, <1>4 DEF FilesOK, File
  <1>7. LockTypeOK
    BY DEF LockTypeOK, LockPlaces
  <1>8. TypeOK
    BY <1>1, <1>6, <1>7 DEF TypeOK, FilesOK, Final, Outside
  <1>9. TypeInv
    BY <1>1, <1>2, <1>6, <1>8, ProjectConstants DEF TypeInv, JournalStates, Final
  <1>10. \A p \in Paths, n \in Names :
           Data(p, n) = IF n = "dest" THEN Before[p] ELSE Absent
    BY <1>3, <1>5 DEF Data, File
  <1>11. FilesInv
    BY <1>10 DEF FilesInv, OthersBare, Bare, DeletedForGood, EditsKept, AllLegal, Untouched,
                 ToldTruly, Names
  <1> QED
    BY <1>1, <1>9, <1>11 DEF ProjectInv

(***************************************************************************)
(* An exception, thrown by the code or by a file operation that fails.     *)
(***************************************************************************)
LEMMA ThrewKeeps ==
  ASSUME TypeInv, ProjectInv, NEW s \in Sessions, at[s] = "inside",
         session'[s] \in {Threw(session[s]), [Threw(session[s]) EXCEPT !.sound = FALSE]},
         UNCHANGED journal,
         \/ ~Calm(session[s])'
         \/ /\ session[s].pc \notin RollPlaces
            /\ \/ session[s].pc \in ApplyPlaces
               \/ journal.state \in Final
  PROVE  Going(session'[s], journal.changes) /\ CallInv(session[s])'
  <1> DEFINE x == session[s]
             y == session'[s]
  <1>1. Going(x, journal.changes) /\ CallInv(x) /\ journal.changes \subseteq Paths
    BY InsideGoing DEF ProjectInv, TypeInv, TypeOK
  <1>2. /\ Going(Threw(x), journal.changes)
        /\ x.pc \in ApplyPlaces => Threw(x).pc = "read" /\ Threw(x).phase = "undo"
        /\ x.pc \in RollPlaces => Threw(x) = RollNext(x, TRUE)
        /\ x.pc = "inspect" /\ x.todo # {} =>
             Threw(x).pc = "inspect" /\ ~Threw(x).installed /\ Threw(x).phase = x.phase
        /\ x.pc \notin ApplyPlaces \cup RollPlaces /\ ~(x.pc = "inspect" /\ x.todo # {}) =>
             Threw(x).pc = "failed"
    BY <1>1, ThrewFacts
  <1>3. Going(y, journal.changes)
    BY <1>2 DEF Going, Calls
  <1>4. /\ y.pc = Threw(x).pc /\ y.phase = Threw(x).phase /\ y.todo = Threw(x).todo
        /\ y.conflicts = Threw(x).conflicts /\ y.installed = Threw(x).installed
        /\ y.names = Threw(x).names
    BY <1>2 DEF Going, Calls
  <1>5. CASE x.pc \in ApplyPlaces
    BY <1>2, <1>3, <1>4, <1>5 DEF CallInv, Recovering, RollPlaces
  <1>6. CASE x.pc \in RollPlaces
    <2>1. Undoing(x) /\ x.todo # {}
      BY <1>1, <1>6 DEF CallInv
    <2>2. /\ y.pc \in {"roll", "finish"}
          /\ y.pc = "finish" <=> y.todo = {}
          /\ y.conflicts /\ y.phase = x.phase
      <3>1. TRUE \in BOOLEAN
        OBVIOUS
      <3>2. /\ RollNext(x, TRUE).pc \in {"roll", "finish"}
            /\ RollNext(x, TRUE).pc = "finish" <=> x.todo \ {Last(x.todo)} = {}
            /\ RollNext(x, TRUE).todo = x.todo \ {Last(x.todo)}
            /\ RollNext(x, TRUE).conflicts = (x.conflicts \/ TRUE)
            /\ RollNext(x, TRUE).phase = x.phase
        BY <1>1, <3>1, RollNextFacts
      <3> QED
        BY <1>2, <1>4, <1>6, <3>2
    <2>3. ~Calm(session[s])'
      BY <1>6
    <2>4. Undoing(session[s])'
      BY <2>1, <2>2, <2>3 DEF Undoing, Recovering
    <2>5. y.pc = "roll" => UndoneAt(session[s], Last(session[s].todo))'
      BY DEF UndoneAt
    <2> QED
      BY <1>3, <2>2, <2>4, <2>5 DEF CallInv, RollPlaces
  <1>7. CASE x.pc = "inspect" /\ x.todo # {}
    <2>1. Inspecting(x)
      BY <1>1, <1>7 DEF CallInv
    <2>2. Threw(x).names = x.names
      BY <1>1, <1>7 DEF Threw, ApplyPlaces, RollPlaces, Going, Calls
    <2>3. Inspecting(session[s])'
      BY <1>2, <1>4, <1>7, <2>1, <2>2 DEF Inspecting, Recovering
    <2> QED
      BY <1>2, <1>3, <1>4, <1>7, <2>3 DEF CallInv, RollPlaces
  <1>8. CASE x.pc \notin ApplyPlaces \cup RollPlaces /\ ~(x.pc = "inspect" /\ x.todo # {})
    <2>1. y.pc = "failed"
      BY <1>2, <1>4, <1>8
    <2>2. ~Calm(session[s])' \/ journal'.state \in Final
      BY <1>8
    <2> QED
      BY <1>3, <2>1, <2>2 DEF CallInv, RollPlaces
  <1> QED
    BY <1>3, <1>5, <1>6, <1>7, <1>8

(***************************************************************************)
(* The steps of the recovery.                                              *)
(***************************************************************************)
\* What a step of the call of s has to establish.
StepGood(s) == Going(session'[s], journal'.changes) /\ CallInv(session[s])' /\ FilesOK' /\ FilesInv'

LEMMA CallFacts ==
  ASSUME TypeInv, ProjectInv, NEW s \in Sessions, at[s] = "inside"
  PROVE  /\ Going(session[s], journal.changes) /\ CallInv(session[s])
         /\ session[s].todo \subseteq Paths /\ journal.changes \subseteq Paths
         /\ journal.changes \in SUBSET Paths
         /\ FilesInv
         /\ session[s].todo # {} =>
              /\ First(session[s].todo) \in session[s].todo
              /\ Last(session[s].todo) \in session[s].todo
  <1>1. Going(session[s], journal.changes) /\ journal.changes \subseteq Paths
    BY InsideGoing DEF TypeInv, TypeOK
  <1>2. session[s].todo \in SUBSET Paths
    BY <1>1 DEF Going
  <1> QED
    BY <1>1, <1>2, SubsetLoops DEF ProjectInv

\* A step that touches neither the files nor the journal.
LEMMA QuietFiles ==
  ASSUME TypeInv, ProjectInv, UNCHANGED <<files, journal, touched, edited, removed, told>>
  PROVE  FilesOK' /\ FilesInv' /\ SameData
  BY FilesSame, SameKeeps DEF ProjectInv

LEMMA ReadJournalGood ==
  ASSUME TypeInv, ProjectInv, NEW s \in Sessions, ReadJournal(s)
  PROVE  StepGood(s)
  <1> DEFINE x == session[s]
             y == session'[s]
  <1>1. at[s] = "inside" /\ x.pc = "read" /\ UNCHANGED <<journal, touched>>
    BY DEF ReadJournal, At, others
  <1>2. Going(x, journal.changes) /\ CallInv(x) /\ journal.changes \in SUBSET Paths
    BY <1>1, CallFacts
  <1>3. FilesOK' /\ FilesInv' /\ SameData
    BY QuietFiles DEF ReadJournal, others
  <1>4. y = [x EXCEPT !.pc = IF journal.state \in Final THEN "tidy" ELSE "inspect",
                      !.todo = journal.changes, !.names = Recoverables,
                      !.installed = journal.state \notin {"rolling-back", "rollback-incomplete"}]
    BY SetCall DEF ReadJournal
  <1>5. /\ y.pc = IF journal.state \in Final THEN "tidy" ELSE "inspect"
        /\ y.todo = journal.changes /\ y.names = Recoverables /\ y.phase = x.phase
        /\ Going(y, journal.changes)
    BY <1>2, <1>4, AllNamesLeft DEF Going, Calls, Places
  <1>6. Recovering(x)
    BY <1>1, <1>2 DEF CallInv
  <1>7. CASE journal.state \in Final
    <2>1. Tidying(session[s])'
      BY <1>1, <1>5, <1>6, <1>7, AllNamesLeft DEF Tidying, Recovering, Tidied
    <2> QED
      BY <1>1, <1>3, <1>5, <1>7, <2>1 DEF StepGood, CallInv, RollPlaces
  <1>8. CASE journal.state \notin Final
    <2>1. Inspecting(session[s])'
      BY <1>1, <1>5, <1>6, <1>8 DEF Inspecting, Recovering, Untouched
    <2> QED
      BY <1>1, <1>3, <1>5, <1>8, <2>1 DEF StepGood, CallInv, RollPlaces
  <1> QED
    BY <1>7, <1>8

LEMMA InspectGood ==
  ASSUME TypeInv, ProjectInv, NEW s \in Sessions, Inspect(s)
  PROVE  StepGood(s)
  <1> DEFINE x == session[s]
             y == session'[s]
             p == First(x.todo)
  <1>1. at[s] = "inside" /\ x.pc = "inspect" /\ x.todo # {} /\ UNCHANGED <<journal, touched>>
    BY DEF Inspect, At, others
  <1>2. /\ Going(x, journal.changes) /\ CallInv(x) /\ journal.changes \in SUBSET Paths
        /\ p \in x.todo
    BY <1>1, CallFacts
  <1>3. FilesOK' /\ FilesInv' /\ SameData
    BY QuietFiles DEF Inspect, others
  <1>4. y = [x EXCEPT !.todo = @ \ {p},
                      !.installed = @ /\ Recognised(p) /\ Data(p, "dest") = After[p]]
    BY SetCall DEF Inspect, Applied
  <1>5. /\ y.pc = "inspect" /\ y.todo = x.todo \ {p} /\ y.names = x.names /\ y.phase = x.phase
        /\ y.installed = (x.installed /\ Recognised(p) /\ Data(p, "dest") = After[p])
    BY <1>1, <1>2, <1>4 DEF Going, Calls
  <1>6. Going(y, journal.changes)
    <2> DEFINE found == x.installed /\ Recognised(p) /\ Data(p, "dest") = After[p]
    <2>1. found \in BOOLEAN
      BY <1>2 DEF Going, Calls
    <2>2. y = [x EXCEPT !.todo = x.todo \ {p}, !.installed = found]
      BY <1>2, <1>4 DEF Going, Calls
    <2> HIDE DEF found
    <2> QED
      BY <1>1, <1>2, <2>1, <2>2 DEF Going, Calls
  <1>7. Inspecting(x)
    BY <1>1, <1>2 DEF CallInv
  <1>8. Inspecting(session[s])'
    <2>1. ASSUME y.installed, NEW q \in Untouched \ y.todo PROVE Data(q, "dest")' = After[q]
      <3>1. q \in Paths /\ Data(q, "dest")' = Data(q, "dest")
        BY <1>2, <1>3 DEF Untouched, SameData, Names
      <3> QED
        BY <1>5, <1>7, <2>1, <3>1 DEF Inspecting
    <2> QED
      BY <1>1, <1>5, <1>7, <2>1 DEF Inspecting, Recovering, Untouched
  <1> QED
    BY <1>1, <1>3, <1>5, <1>6, <1>8 DEF StepGood, CallInv, RollPlaces

LEMMA ProveCommitGood ==
  ASSUME TypeInv, ProjectInv, NEW s \in Sessions, ProveCommit(s)
  PROVE  StepGood(s)
  <1> DEFINE x == session[s]
             y == session'[s]
  <1>1. /\ at[s] = "inside" /\ x.pc = "inspect" /\ x.todo = {} /\ x.installed
        /\ Kept /\ UNCHANGED files
        /\ journal' = [journal EXCEPT !.state = "complete"]
    BY DEF ProveCommit, At, others, WriteState, Kept, TypeInv
  <1>2. Going(x, journal.changes) /\ CallInv(x) /\ journal.changes \in SUBSET Paths /\ FilesInv
    BY <1>1, CallFacts
  <1>3. Inspecting(x) /\ journal'.state = "complete"
    BY <1>1, <1>2 DEF CallInv, TypeInv
  <1>4. FilesOK' /\ SameData
    BY <1>1, FilesSame
  <1>5. FilesInv'
    BY <1>1, <1>2, <1>3, <1>4, StateKeeps DEF Inspecting
  <1>6. y = [x EXCEPT !.pc = "tidy", !.todo = journal.changes]
    BY SetCall DEF ProveCommit
  <1>7. /\ y.pc = "tidy" /\ y.todo = journal.changes /\ y.names = Recoverables /\ y.phase = x.phase
        /\ Going(y, journal'.changes)
    BY <1>1, <1>2, <1>3, <1>6 DEF Going, Calls, Places, Inspecting, Kept
  <1>8. Tidying(session[s])'
    BY <1>1, <1>3, <1>7, AllNamesLeft DEF Tidying, Inspecting, Recovering, Tidied, Final, Kept
  <1> QED
    BY <1>4, <1>5, <1>7, <1>8 DEF StepGood, CallInv, RollPlaces

LEMMA StartRollbackGood ==
  ASSUME TypeInv, ProjectInv, NEW s \in Sessions, StartRollback(s)
  PROVE  StepGood(s)
  <1> DEFINE x == session[s]
             y == session'[s]
  <1>1. /\ at[s] = "inside" /\ x.pc = "inspect" /\ x.todo = {}
        /\ Kept /\ UNCHANGED files
        /\ journal' = [journal EXCEPT !.state = "rolling-back"]
    BY DEF StartRollback, At, others, WriteState, Kept, TypeInv
  <1>2. Going(x, journal.changes) /\ CallInv(x) /\ journal.changes \in SUBSET Paths /\ FilesInv
    BY <1>1, CallFacts
  <1>3. Inspecting(x) /\ journal'.state = "rolling-back"
    BY <1>1, <1>2 DEF CallInv, TypeInv
  <1>4. FilesOK' /\ SameData
    BY <1>1, FilesSame
  <1>5. FilesInv'
    <2>1. journal.state \notin Final
      BY <1>3 DEF Inspecting
    <2>2. told # "receipt"
      BY <1>2, <2>1 DEF FilesInv, ToldTruly, Final
    <2> QED
      BY <1>1, <1>2, <1>3, <1>4, <2>1, <2>2, StateKeeps DEF Final
  <1>6. y = [x EXCEPT !.pc = "roll", !.todo = journal.changes, !.conflicts = FALSE]
    BY SetCall DEF StartRollback
  <1>7. /\ y.pc = "roll" /\ y.todo = journal.changes /\ y.phase = x.phase /\ ~y.conflicts
        /\ Going(y, journal'.changes)
    BY <1>1, <1>2, <1>6 DEF Going, Calls, Places, RollPlaces, Kept
  <1>8. journal'.changes # {}
    BY <1>1, <1>3 DEF TypeInv, Inspecting, Final, Kept
  <1>9. Undoing(session[s])'
    BY <1>1, <1>3, <1>7 DEF Undoing, Inspecting, Recovering, Kept
  <1>10. UndoneAt(session[s], Last(session[s].todo))'
    BY <1>7 DEF UndoneAt
  <1> QED
    BY <1>1, <1>4, <1>5, <1>7, <1>8, <1>9, <1>10 DEF StepGood, CallInv, RollPlaces, Kept

\* An exception in an undisturbed rollback would end in a conflict: it needs a reason.
LEMMA ThrowGood ==
  ASSUME TypeInv, ProjectInv, NEW s \in Sessions, at[s] = "inside", Throw(s),
         UNCHANGED <<files, journal, touched, edited, removed, told>>,
         \/ ~Calm(session[s])
         \/ /\ session[s].pc \notin RollPlaces
            /\ \/ session[s].pc \in ApplyPlaces
               \/ journal.state \in Final
  PROVE  StepGood(s)
  <1>1. session'[s] = Threw(session[s])
    BY SetCall DEF Throw
  <1>2. FilesOK' /\ FilesInv' /\ SameData
    BY QuietFiles
  <1>3. Threw(session[s]).sound = session[s].sound
    BY CallFacts, ThrewFacts
  <1>4. Calm(session[s])' => Calm(session[s])
    BY <1>1, <1>2, <1>3 DEF Calm, SameData, Names
  <1>5. Going(session'[s], journal.changes) /\ CallInv(session[s])'
    BY <1>1, <1>4, ThrewKeeps
  <1> QED
    BY <1>2, <1>5 DEF StepGood

\* A recovery file with the expected content is removed.
LEMMA UnlinkKeeps ==
  ASSUME TypeInv, FilesInv, UNCHANGED <<journal, touched, edited, removed, told>>,
         NEW p \in journal.changes, NEW n \in Names \ {"dest"}, Unlink(p, n),
         Data(p, n) \in {Absent, Expected(p, n)},
         p \notin touched => Legal(p)'
  PROVE  FilesOK' /\ FilesInv' /\ Puts(p, n, Absent)
  <1>1. p \in Paths /\ Kept
    BY DEF TypeInv, TypeOK, Kept
  <1>2. FilesOK' /\ Puts(p, n, Absent)
    BY <1>1, FilesUnlinked
  <1>3. edited[p] # Absent => Data(p, n) # edited[p]
    BY <1>1 DEF FilesInv, EditsKept, Expected
  <1> QED
    BY <1>1, <1>2, <1>3, PutKeeps

LEMMA TidyGood ==
  ASSUME TypeInv, ProjectInv, NEW s \in Sessions, Tidy(s)
  PROVE  StepGood(s)
  <1> DEFINE x == session[s]
             y == session'[s]
  <1>1. /\ at[s] = "inside" /\ x.pc = "tidy" /\ x.todo # {}
        /\ UNCHANGED <<journal, touched, edited, removed, told>>
    BY DEF Tidy, At, others
  <1>2. /\ Going(x, journal.changes) /\ CallInv(x) /\ journal.changes \in SUBSET Paths
        /\ First(x.todo) \in x.todo /\ FilesInv
    BY <1>1, CallFacts
  <1>3. Tidying(x) /\ x.pc \notin RollPlaces
    BY <1>1, <1>2 DEF CallInv, RollPlaces
  <1>p. PICK p \in Paths : p = First(x.todo) /\ p \in x.todo /\ p \in journal.changes
    BY <1>2 DEF Going
  <1>n. PICK n : n = Head(x.names)
    OBVIOUS
  <1>4. /\ n \in Names \ {"dest"}
        /\ Len(x.names) > 1 => /\ Tail(x.names) \in NamesLeft
                               /\ Gone(Tail(x.names)) = Gone(x.names) \cup {n}
        /\ ~(Len(x.names) > 1) => Gone(x.names) \cup {n} = Names \ {"dest"}
    BY <1>3, <1>n, NamesSteps DEF Tidying
  <1>5. CASE Data(p, n) \notin {Absent, Expected(p, n)}
    <2>1. Throw(s) /\ UNCHANGED files
      BY <1>5, <1>p, <1>n DEF Tidy, RemoveKnown, Applied
    <2> QED
      BY <1>1, <1>3, <2>1, ThrowGood DEF Tidying
  <1>6. CASE Data(p, n) \in {Absent, Expected(p, n)}
    <2>1. /\ Unlink(p, n)
          /\ Set(s, IF Len(x.names) > 1 THEN [x EXCEPT !.names = Tail(@)]
                    ELSE [x EXCEPT !.names = Recoverables, !.todo = @ \ {p}])
      BY <1>6, <1>p, <1>n DEF Tidy, RemoveKnown, Applied
    <2>2. y = IF Len(x.names) > 1 THEN [x EXCEPT !.names = Tail(@)]
              ELSE [x EXCEPT !.names = Recoverables, !.todo = @ \ {p}]
      BY <2>1, SetCall
    <2>3. /\ y.pc = "tidy" /\ y.phase = x.phase /\ Going(y, journal'.changes)
          /\ y.names = IF Len(x.names) > 1 THEN Tail(x.names) ELSE Recoverables
          /\ y.todo = IF Len(x.names) > 1 THEN x.todo ELSE x.todo \ {p}
      <3>1. CASE Len(x.names) > 1
        <4>1. y = [x EXCEPT !.names = Tail(x.names)]
          BY <1>2, <2>2, <3>1 DEF Going, Calls
        <4> QED
          BY <1>1, <1>2, <1>4, <3>1, <4>1 DEF Going, Calls
      <3>2. CASE ~(Len(x.names) > 1)
        <4>1. y = [x EXCEPT !.names = Recoverables, !.todo = x.todo \ {p}]
          BY <1>2, <2>2, <3>2 DEF Going, Calls
        <4> QED
          BY <1>1, <1>2, <3>2, <4>1, AllNamesLeft DEF Going, Calls
      <3> QED
        BY <3>1, <3>2
    <2>4. FilesOK' /\ FilesInv' /\ Puts(p, n, Absent)
      <3>1. FilesOK' /\ Puts(p, n, Absent)
        BY <1>4, <2>1, FilesUnlinked
      <3>2. ASSUME p \notin touched PROVE Legal(p)'
        <4>1. Legal(p) /\ journal.state \in {"complete", "rolled-back"}
          BY <1>2, <1>3, <1>p, <3>2 DEF FilesInv, AllLegal, Untouched, Tidying, TypeInv, Final
        <4>2. \A m \in Names : Data(p, m)' = IF m = n THEN Absent ELSE Data(p, m)
          BY <3>1 DEF Puts
        <4> QED
          BY <1>1, <1>4, <4>1, <4>2 DEF Legal, Names
      <3> QED
        BY <1>1, <1>2, <1>4, <1>6, <1>p, <2>1, <3>2, UnlinkKeeps
    <2>5. Tidying(session[s])'
      <3>1. \A q \in Paths, m \in Names : Data(q, m) = Absent => Data(q, m)' = Absent
        BY <2>4 DEF Puts
      <3>2. \A q \in journal.changes \ x.todo : Bare(q)'
        BY <1>2, <1>3, <3>1 DEF Tidying, Bare
      <3>3. Data(p, n)' = Absent /\ \A m \in Gone(x.names) : Data(p, m)' = Absent
        <4>1. Gone(x.names) \subseteq Names
          BY DEF Gone, Names
        <4> QED
          BY <1>1, <1>3, <1>4, <1>p, <2>4, <3>1, <4>1 DEF Puts, Tidying, Tidied
      <3>4. CASE Len(x.names) > 1
        BY <1>1, <1>3, <1>4, <1>p, <2>3, <3>2, <3>3, <3>4 DEF Tidying, Tidied, Recovering
      <3>5. CASE ~(Len(x.names) > 1)
        <4>1. Bare(p)'
          BY <1>4, <3>3, <3>5 DEF Bare
        <4> QED
          BY <1>1, <1>3, <2>3, <3>2, <3>5, <4>1, AllNamesLeft DEF Tidying, Tidied, Recovering
      <3> QED
        BY <3>4, <3>5
    <2> QED
      BY <2>3, <2>4, <2>5 DEF StepGood, CallInv, RollPlaces
  <1> QED
    BY <1>5, <1>6

LEMMA RecoveredGood ==
  ASSUME TypeInv, ProjectInv, NEW s \in Sessions, Recovered(s)
  PROVE  StepGood(s)
  <1> DEFINE x == session[s]
             y == session'[s]
             ended == IF x.phase = "undo" /\ journal.state # "complete" THEN "failed"
                      ELSE "returned"
  <1>1. /\ at[s] = "inside" /\ UNCHANGED <<journal, touched>>
        /\ x.pc = "recovered" \/ (x.pc = "tidy" /\ x.todo = {})
    BY DEF Recovered, At, others
  <1>2. Going(x, journal.changes) /\ CallInv(x) /\ journal.changes \in SUBSET Paths
    BY <1>1, CallFacts
  <1>3. FilesOK' /\ FilesInv' /\ SameData
    BY QuietFiles DEF Recovered, others
  <1>4. y = [x EXCEPT !.pc = IF x.phase = "recover" /\ x.wants = "apply" THEN "plan" ELSE ended]
    BY SetCall DEF Recovered, Goto
  <1>5. /\ y.pc = IF x.phase = "recover" /\ x.wants = "apply" THEN "plan" ELSE ended
        /\ y.phase = x.phase
        /\ Going(y, journal.changes)
    BY <1>2, <1>4 DEF Going, Calls, Places
  <1>6. Recovering(x) /\ journal.state \in Final /\ \A p \in journal.changes : Bare(p)
    BY <1>1, <1>2 DEF CallInv, Tidying, Final
  <1>7. \A p \in journal'.changes : Bare(p)'
    BY <1>1, <1>2, <1>3, <1>6 DEF Bare, SameData
  <1>8. x.phase \in {"recover", "undo"}
    BY <1>2, <1>6 DEF Going, Calls, Recovering
  <1> HIDE DEF x, y
  <1>9. CASE y.pc = "plan"
    <2>1. Planning(session[s])'
      BY <1>1, <1>5, <1>6, <1>7, <1>9 DEF Planning, x, y
    <2> QED
      BY <1>1, <1>3, <1>5, <1>9, <2>1 DEF StepGood, CallInv, RollPlaces, y
  <1>10. CASE y.pc = "returned"
    BY <1>1, <1>3, <1>5, <1>6, <1>8, <1>10 DEF StepGood, CallInv, RollPlaces, y
  <1>11. CASE y.pc = "failed"
    BY <1>1, <1>3, <1>5, <1>6, <1>11 DEF StepGood, CallInv, RollPlaces, y
  <1> QED
    BY <1>5, <1>9, <1>10, <1>11

(***************************************************************************)
(* The steps of the rollback loop.                                         *)
(***************************************************************************)
LEMMA GotoFacts ==
  ASSUME NEW C, NEW x, Going(x, C), NEW place \in Places \ {"outside"}
  PROVE  /\ Going([x EXCEPT !.pc = place], C)
         /\ [x EXCEPT !.pc = place].pc = place
         /\ [x EXCEPT !.pc = place].todo = x.todo
         /\ [x EXCEPT !.pc = place].names = x.names
         /\ [x EXCEPT !.pc = place].phase = x.phase
         /\ [x EXCEPT !.pc = place].sound = x.sound
         /\ [x EXCEPT !.pc = place].conflicts = x.conflicts
  BY DEF Going, Calls

LEMMA RollFacts ==
  ASSUME TypeInv, ProjectInv, NEW s \in Sessions, at[s] = "inside", session[s].pc \in RollPlaces
  PROVE  \E p \in journal.changes :
            /\ p \in Paths /\ p = Last(session[s].todo) /\ p \in session[s].todo
            /\ Going(session[s], journal.changes)
            /\ Undoing(session[s]) /\ UndoneAt(session[s], p)
            /\ journal.changes \in SUBSET Paths /\ FilesInv
            /\ Before[p] # After[p]
            /\ p \notin touched => Legal(p)
            /\ Calm(session[s]) => p \notin touched /\ Legal(p) /\ Data(p, "staging") # "torn"
  <1> DEFINE x == session[s]
  <1>1. /\ Going(x, journal.changes) /\ CallInv(x)
        /\ journal.changes \in SUBSET Paths /\ FilesInv
        /\ x.todo # {} => Last(x.todo) \in x.todo
    BY CallFacts
  <1>2. Undoing(x) /\ x.todo # {} /\ UndoneAt(x, Last(x.todo))
    BY <1>1 DEF CallInv
  <1>3. PICK p \in Paths : p = Last(x.todo) /\ p \in x.todo /\ p \in journal.changes
    BY <1>1, <1>2 DEF Going
  <1>4. Before[p] # After[p]
    BY ProjectConstants
  <1>5. p \notin touched => Legal(p)
    BY <1>1, <1>3 DEF FilesInv, AllLegal, Untouched
  <1>6. Calm(x) => p \notin touched /\ Data(p, "staging") # "torn"
    BY DEF Calm
  <1> QED
    BY <1>1, <1>2, <1>3, <1>4, <1>5, <1>6

\* The loop goes on with the same change, or with what is left once this one is as before.
LEMMA UndoingKeeps ==
  ASSUME TypeInv, NEW s \in Sessions, Undoing(session[s]), UNCHANGED <<journal, touched>>,
         session'[s].phase = session[s].phase, session'[s].sound = session[s].sound,
         session'[s].conflicts = session[s].conflicts,
         \A q \in Paths : Data(q, "staging") = "torn" => Data(q, "staging")' = "torn",
         \A q \in journal.changes \ session'[s].todo :
            \/ q \notin session[s].todo /\ \A m \in Names : Data(q, m)' = Data(q, m)
            \/ Bare(q)' /\ (q \notin touched => Data(q, "dest")' = Before[q])
  PROVE  Undoing(session[s])'
  <1>1. Calm(session[s])' => Calm(session[s])
    BY DEF Calm
  <1>2. \A q \in journal.changes \ session'[s].todo : ~session[s].conflicts =>
           Bare(q)' /\ (q \notin touched => Data(q, "dest")' = Before[q])
    BY DEF Undoing, Bare, Names
  <1> QED
    BY <1>1, <1>2 DEF Undoing, Recovering

LEMMA UndoGood ==
  ASSUME TypeInv, ProjectInv, NEW s \in Sessions, at[s] = "inside",
         session[s].pc \in RollPlaces, UNCHANGED <<journal, touched>>,
         Going(session'[s], journal.changes), session'[s].pc \in RollPlaces,
         session'[s].todo = session[s].todo, session'[s].phase = session[s].phase,
         session'[s].sound = session[s].sound, session'[s].conflicts = session[s].conflicts,
         FilesOK', FilesInv', NEW p, p = Last(session[s].todo),
         \A q \in Paths \ {p}, m \in Names : Data(q, m)' = Data(q, m),
         Data(p, "staging")' = Data(p, "staging") \/ Data(p, "staging") # "torn",
         UndoneAt(session[s], p)'
  PROVE  StepGood(s)
  <1>1. /\ Undoing(session[s]) /\ journal.changes \in SUBSET Paths
        /\ p \in session[s].todo
    BY RollFacts
  <1>2. Undoing(session[s])'
    <2>1. \A q \in Paths : Data(q, "staging") = "torn" => Data(q, "staging")' = "torn"
      BY DEF Names
    <2>2. \A q \in journal.changes \ session'[s].todo :
            q \notin session[s].todo /\ \A m \in Names : Data(q, m)' = Data(q, m)
      BY <1>1
    <2> QED
      BY <1>1, <2>1, <2>2, UndoingKeeps
  <1>3. UndoneAt(session[s], Last(session[s].todo))'
    <2>1. Last(session'[s].todo) = p
      OBVIOUS
    <2> QED
      BY <2>1 DEF UndoneAt
  <1>4. CallInv(session[s])'
    BY <1>1, <1>2, <1>3 DEF CallInv, RollPlaces
  <1> QED
    BY <1>4 DEF StepGood

LEMMA RollGood ==
  ASSUME TypeInv, ProjectInv, NEW s \in Sessions, Roll(s)
  PROVE  StepGood(s)
  <1> DEFINE x == session[s]
             y == session'[s]
  <1>1. /\ at[s] = "inside" /\ x.pc = "roll" /\ x.pc \in RollPlaces
        /\ UNCHANGED <<files, journal, touched, edited, removed, told>>
    BY DEF Roll, At, others, RollPlaces
  <1>2. PICK p \in journal.changes :
            /\ p \in Paths /\ p = Last(x.todo) /\ p \in x.todo
            /\ Going(x, journal.changes)
            /\ Undoing(x) /\ UndoneAt(x, p)
            /\ journal.changes \in SUBSET Paths /\ FilesInv
            /\ Before[p] # After[p]
            /\ p \notin touched => Legal(p)
            /\ Calm(x) => p \notin touched /\ Legal(p) /\ Data(p, "staging") # "torn"
    BY <1>1, RollFacts
  <1>3. FilesOK' /\ FilesInv' /\ SameData
    BY <1>1, QuietFiles
  <1>4. \A q \in Paths, m \in Names : Data(q, m)' = Data(q, m)
    BY <1>3 DEF SameData
  <1>5. CASE Recognised(p) /\ Data(p, "dest") = Before[p]
    <2>1. y = [x EXCEPT !.pc = "clean", !.names = Recoverables]
      BY <1>2, <1>5, SetCall DEF Roll, Undone
    <2>2. /\ Going(y, journal.changes) /\ y.pc = "clean" /\ y.todo = x.todo
          /\ y.names = Recoverables /\ y.phase = x.phase /\ y.sound = x.sound
          /\ y.conflicts = x.conflicts
      BY <1>2, <2>1, AllNamesLeft DEF Going, Calls, Places, RollPlaces
    <2>3. UndoneAt(session[s], p)'
      BY <1>2, <1>4, <1>5, <2>2, AllNamesLeft DEF UndoneAt, Tidied, Names
    <2>4. y.pc \in RollPlaces
      BY <2>2 DEF RollPlaces
    <2> QED
      BY <1>1, <1>2, <1>3, <1>4, <2>2, <2>3, <2>4, UndoGood DEF Names
  <1>6. CASE ~(Recognised(p) /\ Data(p, "dest") = Before[p]) /\ Conflicting(p)
    <2>1. Throw(s)
      BY <1>2, <1>6 DEF Roll, Undone, Throw
    <2>2. ~Calm(x)
      <3>1. SUFFICES ASSUME Calm(x) PROVE FALSE
        OBVIOUS
      <3>2. /\ Legal(p) /\ Data(p, "staging") # "torn"
            /\ journal.state = "rolling-back"
        BY <1>2, <3>1 DEF Undoing
      <3>3. Recognised(p)
        BY <3>2 DEF Recognised, Legal, Expected, Names
      <3> QED
        BY <1>2, <1>6, <3>2, <3>3 DEF Conflicting, Legal
    <2> QED
      BY <1>1, <2>1, <2>2, ThrowGood
  <1>7. CASE ~(Recognised(p) /\ Data(p, "dest") = Before[p]) /\ ~Conflicting(p)
    <2> DEFINE place == IF Data(p, "dest") # Absent THEN "name" ELSE "restore"
    <2>1. y = [x EXCEPT !.pc = place]
      BY <1>2, <1>7, SetCall DEF Roll, Undone
    <2>2. place \in Places \ {"outside"} /\ place \in RollPlaces
      BY DEF Places, RollPlaces
    <2>3. /\ Going(y, journal.changes) /\ y.pc = place /\ y.todo = x.todo
          /\ y.phase = x.phase /\ y.sound = x.sound /\ y.conflicts = x.conflicts
      <3> HIDE DEF place
      <3> QED
        BY <1>2, <2>1, <2>2, GotoFacts
    <2>4. UndoneAt(session[s], p)'
      BY <1>2, <1>4, <1>7, <2>3 DEF UndoneAt, Conflicting, Names
    <2> QED
      BY <1>1, <1>2, <1>3, <1>4, <2>2, <2>3, <2>4, UndoGood DEF Names
  <1> QED
    BY <1>5, <1>6, <1>7

LEMMA NameCaptureGood ==
  ASSUME TypeInv, ProjectInv, NEW s \in Sessions, NameCapture(s)
  PROVE  StepGood(s)
  <1> DEFINE x == session[s]
             y == session'[s]
  <1>1. /\ at[s] = "inside" /\ x.pc = "name" /\ x.pc \in RollPlaces
        /\ UNCHANGED <<journal, touched, edited, removed, told>>
    BY DEF NameCapture, At, others, RollPlaces
  <1>2. PICK p \in journal.changes :
            /\ p \in Paths /\ p = Last(x.todo) /\ p \in x.todo
            /\ Going(x, journal.changes)
            /\ Undoing(x) /\ UndoneAt(x, p)
            /\ journal.changes \in SUBSET Paths /\ FilesInv
            /\ Before[p] # After[p]
            /\ p \notin touched => Legal(p)
            /\ Calm(x) => p \notin touched /\ Legal(p) /\ Data(p, "staging") # "torn"
    BY <1>1, RollFacts
  <1>3. CASE Data(p, "rollback") \notin {Absent, Expected(p, "rollback")}
    <2>1. Throw(s) /\ UNCHANGED files
      BY <1>2, <1>3 DEF NameCapture, RemoveKnown, Undone
    <2>2. ~Calm(x)
      BY <1>2, <1>3 DEF Legal, Expected
    <2> QED
      BY <1>1, <2>1, <2>2, ThrowGood
  <1>4. CASE Data(p, "rollback") \in {Absent, Expected(p, "rollback")}
    <2>1. Unlink(p, "rollback") /\ Set(s, [x EXCEPT !.pc = "capture"])
      BY <1>2, <1>4 DEF NameCapture, RemoveKnown, Undone
    <2>2. y = [x EXCEPT !.pc = "capture"]
      BY <2>1, SetCall
    <2>3. "capture" \in Places \ {"outside"} /\ "capture" \in RollPlaces
      BY DEF Places, RollPlaces
    <2>4. /\ Going(y, journal.changes) /\ y.pc = "capture" /\ y.todo = x.todo
          /\ y.phase = x.phase /\ y.sound = x.sound /\ y.conflicts = x.conflicts
      BY <1>2, <2>2, <2>3, GotoFacts
    <2>5. FilesOK' /\ FilesInv' /\ Puts(p, "rollback", Absent)
      <3>1. "rollback" \in Names /\ "rollback" \in Names \ {"dest"}
        BY DEF Names
      <3>2. Puts(p, "rollback", Absent)
        BY <1>2, <2>1, <3>1, FilesUnlinked
      <3>3. p \notin touched => Legal(p)'
        BY <1>1, <1>2, <3>2 DEF Undoing, UndoneAt, Legal, Puts, Names
      <3> QED
        BY <1>1, <1>2, <1>4, <2>1, <3>1, <3>3, UnlinkKeeps
    <2>6. \A q \in Paths, m \in Names : Data(q, m)' = IF q = p /\ m = "rollback" THEN Absent
                                                      ELSE Data(q, m)
      BY <2>5 DEF Puts
    <2>7. UndoneAt(session[s], p)'
      BY <1>1, <1>2, <2>4, <2>6 DEF UndoneAt, Names
    <2> QED
      BY <1>1, <1>2, <2>3, <2>4, <2>5, <2>6, <2>7, UndoGood DEF Names
  <1> QED
    BY <1>3, <1>4

LEMMA CaptureGood ==
  ASSUME TypeInv, ProjectInv, NEW s \in Sessions, Capture(s)
  PROVE  StepGood(s)
  <1> DEFINE x == session[s]
             y == session'[s]
  <1>1. /\ at[s] = "inside" /\ x.pc = "capture" /\ x.pc \in RollPlaces
        /\ UNCHANGED <<journal, touched, edited, removed, told>>
    BY DEF Capture, At, others, RollPlaces
  <1>2. PICK p \in journal.changes :
            /\ p \in Paths /\ p = Last(x.todo) /\ p \in x.todo
            /\ Going(x, journal.changes)
            /\ Undoing(x) /\ UndoneAt(x, p)
            /\ journal.changes \in SUBSET Paths /\ FilesInv
            /\ Before[p] # After[p]
            /\ p \notin touched => Legal(p)
            /\ Calm(x) => p \notin touched /\ Legal(p) /\ Data(p, "staging") # "torn"
    BY <1>1, RollFacts
  <1>3. files[p]["dest"] = Absent <=> Data(p, "dest") = Absent
    BY <1>2, HasData DEF Names
  <1>4. CASE files[p]["dest"] = Absent
    <2>1. Throw(s) /\ UNCHANGED files
      BY <1>2, <1>4 DEF Capture, Undone
    <2>2. ~Calm(x)
      BY <1>1, <1>2, <1>3, <1>4 DEF UndoneAt
    <2> QED
      BY <1>1, <2>1, <2>2, ThrowGood
  <1>5. CASE files[p]["dest"] # Absent
    <2>1. Rename(p, "dest", "rollback") /\ Set(s, [x EXCEPT !.pc = "captured"])
      BY <1>2, <1>5 DEF Capture, Undone, Goto
    <2>2. y = [x EXCEPT !.pc = "captured"]
      BY <2>1, SetCall
    <2>3. "captured" \in Places \ {"outside"} /\ "captured" \in RollPlaces
      BY DEF Places, RollPlaces
    <2>4. /\ Going(y, journal.changes) /\ y.pc = "captured" /\ y.todo = x.todo
          /\ y.phase = x.phase /\ y.sound = x.sound /\ y.conflicts = x.conflicts
      BY <1>2, <2>2, <2>3, GotoFacts
    <2>5. FilesOK' /\ Moves(p, "dest", "rollback")
      <3>1. "dest" \in Names /\ "rollback" \in Names
        BY DEF Names
      <3> QED
        BY <1>2, <2>1, <3>1, FilesMoved
    <2>6. \A q \in Paths, m \in Names : Data(q, m)' =
            IF q = p /\ m = "rollback" THEN Data(p, "dest")
            ELSE IF q = p /\ m = "dest" THEN Absent ELSE Data(q, m)
      BY <2>5 DEF Moves
    <2>7. FilesInv'
      <3>1. p \notin touched => Legal(p)'
        BY <1>1, <1>2, <2>6 DEF Undoing, UndoneAt, Legal, Names
      <3> QED
        BY <1>1, <1>2, <1>3, <1>5, <2>5, <3>1, MoveKeeps DEF Kept, UndoneAt
    <2>8. UndoneAt(session[s], p)'
      BY <1>1, <1>2, <1>3, <1>5, <2>4, <2>6 DEF UndoneAt, Names
    <2> QED
      BY <1>1, <1>2, <2>3, <2>4, <2>5, <2>6, <2>7, <2>8, UndoGood DEF Names
  <1> QED
    BY <1>4, <1>5

LEMMA CapturedGood ==
  ASSUME TypeInv, ProjectInv, NEW s \in Sessions, Captured(s)
  PROVE  StepGood(s)
  <1> DEFINE x == session[s]
             y == session'[s]
  <1>1. /\ at[s] = "inside" /\ x.pc = "captured" /\ x.pc \in RollPlaces
        /\ UNCHANGED <<journal, touched, edited, removed, told>>
    BY DEF Captured, At, others, RollPlaces
  <1>2. PICK p \in journal.changes :
            /\ p \in Paths /\ p = Last(x.todo) /\ p \in x.todo
            /\ Going(x, journal.changes)
            /\ Undoing(x) /\ UndoneAt(x, p)
            /\ journal.changes \in SUBSET Paths /\ FilesInv
            /\ Before[p] # After[p]
            /\ p \notin touched => Legal(p)
            /\ Calm(x) => p \notin touched /\ Legal(p) /\ Data(p, "staging") # "torn"
    BY <1>1, RollFacts
  <1>3. files[p]["dest"] = Absent <=> Data(p, "dest") = Absent
    BY <1>2, HasData DEF Names
  <1>4. CASE Data(p, "rollback") # After[p]
    <2>1. /\ Throw(s)
          /\ IF files[p]["dest"] = Absent THEN Link(p, "rollback", "dest") ELSE UNCHANGED files
      BY <1>2, <1>4 DEF Captured, Undone
    <2>2. ~Calm(x) /\ p \in touched
      BY <1>1, <1>2, <1>4 DEF UndoneAt
    <2>3. CASE files[p]["dest"] # Absent
      BY <1>1, <2>1, <2>2, <2>3, ThrowGood
    <2>4. CASE files[p]["dest"] = Absent
      <3>1. FilesOK' /\ Puts(p, "dest", Data(p, "rollback"))
        <4>1. "dest" \in Names /\ "rollback" \in Names
          BY DEF Names
        <4> QED
          BY <1>2, <2>1, <2>4, <4>1, FilesLinked
      <3>2. FilesInv'
        <4>1. p \notin removed
          BY <1>1, <1>2 DEF UndoneAt, FilesInv, DeletedForGood
        <4> QED
          BY <1>1, <1>2, <1>3, <2>2, <2>4, <3>1, <4>1, PutKeeps DEF Kept, Names
      <3>3. session'[s] = Threw(x) /\ Threw(x).sound = x.sound
        BY <1>2, <2>1, SetCall, ThrewFacts DEF Throw
      <3>4. ~Calm(session[s])'
        BY <1>1, <2>2, <3>3 DEF Calm
      <3>5. Going(y, journal.changes) /\ CallInv(session[s])'
        BY <1>1, <3>3, <3>4, ThrewKeeps
      <3> QED
        BY <1>1, <3>1, <3>2, <3>5 DEF StepGood
    <2> QED
      BY <2>3, <2>4
  <1>5. CASE Data(p, "rollback") = After[p]
    <2>1. y = [x EXCEPT !.pc = "restore"] /\ UNCHANGED files
      BY <1>2, <1>5, SetCall DEF Captured, Undone, Goto
    <2>2. "restore" \in Places \ {"outside"} /\ "restore" \in RollPlaces
      BY DEF Places, RollPlaces
    <2>3. /\ Going(y, journal.changes) /\ y.pc = "restore" /\ y.todo = x.todo
          /\ y.phase = x.phase /\ y.sound = x.sound /\ y.conflicts = x.conflicts
      BY <1>2, <2>1, <2>2, GotoFacts
    <2>4. FilesOK' /\ FilesInv' /\ SameData
      BY <1>1, <2>1, QuietFiles
    <2>5. \A q \in Paths, m \in Names : Data(q, m)' = Data(q, m)
      BY <2>4 DEF SameData
    <2>6. UndoneAt(session[s], p)'
      BY <1>1, <1>2, <2>3, <2>5 DEF UndoneAt, Names
    <2> QED
      BY <1>1, <1>2, <2>2, <2>3, <2>4, <2>5, <2>6, UndoGood DEF Names
  <1> QED
    BY <1>4, <1>5

LEMMA RestoreGood ==
  ASSUME TypeInv, ProjectInv, NEW s \in Sessions, Restore(s)
  PROVE  StepGood(s)
  <1> DEFINE x == session[s]
             y == session'[s]
  <1>1. /\ at[s] = "inside" /\ x.pc = "restore" /\ x.pc \in RollPlaces
        /\ UNCHANGED <<journal, touched, edited, removed, told>>
    BY DEF Restore, At, others, RollPlaces
  <1>2. PICK p \in journal.changes :
            /\ p \in Paths /\ p = Last(x.todo) /\ p \in x.todo
            /\ Going(x, journal.changes)
            /\ Undoing(x) /\ UndoneAt(x, p)
            /\ journal.changes \in SUBSET Paths /\ FilesInv
            /\ Before[p] # After[p]
            /\ p \notin touched => Legal(p)
            /\ Calm(x) => p \notin touched /\ Legal(p) /\ Data(p, "staging") # "torn"
    BY <1>1, RollFacts
  <1>3. files[p]["dest"] = Absent <=> Data(p, "dest") = Absent
    BY <1>2, HasData DEF Names
  <1>4. CASE Before[p] = Absent
    <2>1. y = [x EXCEPT !.pc = "restored"] /\ UNCHANGED files
      BY <1>2, <1>4, SetCall DEF Restore, Undone, Goto
    <2>2. "restored" \in Places \ {"outside"} /\ "restored" \in RollPlaces
      BY DEF Places, RollPlaces
    <2>3. /\ Going(y, journal.changes) /\ y.pc = "restored" /\ y.todo = x.todo
          /\ y.phase = x.phase /\ y.sound = x.sound /\ y.conflicts = x.conflicts
      BY <1>2, <2>1, <2>2, GotoFacts
    <2>4. FilesOK' /\ FilesInv' /\ SameData
      BY <1>1, <2>1, QuietFiles
    <2>5. \A q \in Paths, m \in Names : Data(q, m)' = Data(q, m)
      BY <2>4 DEF SameData
    <2>6. UndoneAt(session[s], p)'
      BY <1>1, <1>2, <1>4, <2>3, <2>5 DEF UndoneAt, Names
    <2> QED
      BY <1>1, <1>2, <2>2, <2>3, <2>4, <2>5, <2>6, UndoGood DEF Names
  <1>5. CASE /\ Before[p] # Absent
             /\ Data(p, "backup") = Before[p] /\ files[p]["dest"] = Absent
    <2>1. y = [x EXCEPT !.pc = "restored"] /\ Link(p, "backup", "dest")
      BY <1>2, <1>5, SetCall DEF Restore, Undone, Goto
    <2>2. "restored" \in Places \ {"outside"} /\ "restored" \in RollPlaces
      BY DEF Places, RollPlaces
    <2>3. /\ Going(y, journal.changes) /\ y.pc = "restored" /\ y.todo = x.todo
          /\ y.phase = x.phase /\ y.sound = x.sound /\ y.conflicts = x.conflicts
      BY <1>2, <2>1, <2>2, GotoFacts
    <2>4. FilesOK' /\ Puts(p, "dest", Before[p])
      <3>1. "dest" \in Names /\ "backup" \in Names
        BY DEF Names
      <3> QED
        BY <1>2, <1>5, <2>1, <3>1, FilesLinked
    <2>5. \A q \in Paths, m \in Names : Data(q, m)' = IF q = p /\ m = "dest" THEN Before[p]
                                                      ELSE Data(q, m)
      BY <2>4 DEF Puts
    <2>6. FilesInv'
      <3>1. p \notin removed
        BY <1>1, <1>2, <1>5 DEF UndoneAt, FilesInv, DeletedForGood
      <3>2. p \notin touched => Legal(p)'
        BY <1>1, <1>2, <1>5, <2>5 DEF Legal, Undoing, Names
      <3> QED
        BY <1>1, <1>2, <1>3, <1>5, <2>4, <3>1, <3>2, PutKeeps DEF Kept, Names
    <2>7. UndoneAt(session[s], p)'
      BY <1>1, <1>2, <2>3, <2>5 DEF UndoneAt, Names
    <2> QED
      BY <1>1, <1>2, <2>2, <2>3, <2>4, <2>5, <2>6, <2>7, UndoGood DEF Names
  <1>6. CASE /\ Before[p] # Absent
             /\ ~(Data(p, "backup") = Before[p] /\ files[p]["dest"] = Absent)
    <2>1. Throw(s) /\ UNCHANGED files
      BY <1>2, <1>6 DEF Restore, Undone
    <2>2. ~Calm(x)
      BY <1>1, <1>2, <1>3, <1>6 DEF UndoneAt, Legal, Undoing
    <2> QED
      BY <1>1, <2>1, <2>2, ThrowGood
  <1> QED
    BY <1>4, <1>5, <1>6

LEMMA RestoredGood ==
  ASSUME TypeInv, ProjectInv, NEW s \in Sessions, Restored(s)
  PROVE  StepGood(s)
  <1> DEFINE x == session[s]
             y == session'[s]
  <1>1. /\ at[s] = "inside" /\ x.pc = "restored" /\ x.pc \in RollPlaces
        /\ UNCHANGED <<journal, touched, edited, removed, told>>
    BY DEF Restored, At, others, RollPlaces
  <1>2. PICK p \in journal.changes :
            /\ p \in Paths /\ p = Last(x.todo) /\ p \in x.todo
            /\ Going(x, journal.changes)
            /\ Undoing(x) /\ UndoneAt(x, p)
            /\ journal.changes \in SUBSET Paths /\ FilesInv
            /\ Before[p] # After[p]
            /\ p \notin touched => Legal(p)
            /\ Calm(x) => p \notin touched /\ Legal(p) /\ Data(p, "staging") # "torn"
    BY <1>1, RollFacts
  <1>3. UNCHANGED files
    BY DEF Restored
  <1>4. FilesOK' /\ FilesInv' /\ SameData
    BY <1>1, <1>3, QuietFiles
  <1>5. CASE Data(p, "dest") = Before[p]
    <2>1. y = [x EXCEPT !.pc = "clean", !.names = Recoverables]
      BY <1>2, <1>5, SetCall DEF Restored, Undone
    <2>2. /\ Going(y, journal.changes) /\ y.pc = "clean" /\ y.todo = x.todo
          /\ y.names = Recoverables /\ y.phase = x.phase /\ y.sound = x.sound
          /\ y.conflicts = x.conflicts
      BY <1>2, <2>1, AllNamesLeft DEF Going, Calls, Places, RollPlaces
    <2>3. \A q \in Paths, m \in Names : Data(q, m)' = Data(q, m)
      BY <1>4 DEF SameData
    <2>4. UndoneAt(session[s], p)'
      BY <1>2, <1>5, <2>2, <2>3, AllNamesLeft DEF UndoneAt, Tidied, Names
    <2>5. y.pc \in RollPlaces
      BY <2>2 DEF RollPlaces
    <2> QED
      BY <1>1, <1>2, <1>4, <2>2, <2>3, <2>4, <2>5, UndoGood DEF Names
  <1>6. CASE Data(p, "dest") # Before[p]
    <2>1. Throw(s)
      BY <1>2, <1>6 DEF Restored, Undone, Throw
    <2>2. ~Calm(x)
      BY <1>1, <1>2, <1>6 DEF UndoneAt
    <2> QED
      BY <1>1, <1>3, <2>1, <2>2, ThrowGood
  <1> QED
    BY <1>5, <1>6

LEMMA CleanGood ==
  ASSUME TypeInv, ProjectInv, NEW s \in Sessions, Clean(s)
  PROVE  StepGood(s)
  <1> DEFINE x == session[s]
             y == session'[s]
  <1>1. /\ at[s] = "inside" /\ x.pc = "clean" /\ x.pc \in RollPlaces
        /\ UNCHANGED <<journal, touched, edited, removed, told>>
    BY DEF Clean, At, others, RollPlaces
  <1>2. PICK p \in journal.changes :
            /\ p \in Paths /\ p = Last(x.todo) /\ p \in x.todo
            /\ Going(x, journal.changes)
            /\ Undoing(x) /\ UndoneAt(x, p)
            /\ journal.changes \in SUBSET Paths /\ FilesInv
            /\ Before[p] # After[p]
            /\ p \notin touched => Legal(p)
            /\ Calm(x) => p \notin touched /\ Legal(p) /\ Data(p, "staging") # "torn"
    BY <1>1, RollFacts
  <1>n. PICK n : n = Head(x.names)
    OBVIOUS
  <1>3. /\ n \in Names \ {"dest"} /\ x.names \in NamesLeft /\ Tidied(p, x.names)
        /\ Len(x.names) > 1 => /\ Tail(x.names) \in NamesLeft
                               /\ Gone(Tail(x.names)) = Gone(x.names) \cup {n}
        /\ ~(Len(x.names) > 1) => Gone(x.names) \cup {n} = Names \ {"dest"}
    BY <1>1, <1>2, <1>n, NamesSteps DEF UndoneAt
  <1>4. CASE Data(p, n) \notin {Absent, Expected(p, n)}
    <2>1. Throw(s) /\ UNCHANGED files
      BY <1>2, <1>4, <1>n DEF Clean, RemoveKnown, Undone
    <2>2. ~Calm(x)
      BY <1>2, <1>3, <1>4 DEF Legal, Expected, Names
    <2> QED
      BY <1>1, <2>1, <2>2, ThrowGood
  <1>5. CASE Data(p, n) \in {Absent, Expected(p, n)}
    <2>1. /\ Unlink(p, n)
          /\ y = IF Len(x.names) > 1 THEN [x EXCEPT !.names = Tail(@)] ELSE RollNext(x, FALSE)
      BY <1>2, <1>5, <1>n, SetCall DEF Clean, RemoveKnown, Undone
    <2>2. FilesOK' /\ FilesInv' /\ Puts(p, n, Absent)
      <3>1. Puts(p, n, Absent)
        BY <1>2, <1>3, <2>1, FilesUnlinked
      <3>2. p \notin touched => Legal(p)'
        BY <1>1, <1>2, <1>3, <3>1 DEF Undoing, UndoneAt, Legal, Puts, Names
      <3> QED
        BY <1>1, <1>2, <1>3, <1>5, <2>1, <3>2, UnlinkKeeps
    <2>3. \A q \in Paths, m \in Names : Data(q, m)' = IF q = p /\ m = n THEN Absent
                                                      ELSE Data(q, m)
      BY <2>2 DEF Puts
    <2>4. Data(p, n) # "torn"
      BY <1>2, <1>5, ProjectConstants DEF Expected
    <2>5. \A m \in Gone(x.names) \cup {n} : Data(p, m)' = Absent
      <3>1. Gone(x.names) \subseteq Names
        BY DEF Gone, Names
      <3> QED
        BY <1>2, <1>3, <2>3, <3>1 DEF Tidied
    <2>6. p \notin touched => Data(p, "dest")' = Before[p]
      BY <1>1, <1>2, <1>3, <2>3 DEF UndoneAt, Names
    <2>7. CASE Len(x.names) > 1
      <3>1. y = [x EXCEPT !.names = Tail(x.names)]
        BY <1>2, <2>1, <2>7 DEF Going, Calls
      <3>2. /\ Going(y, journal.changes) /\ y.pc = "clean" /\ y.todo = x.todo
            /\ y.names = Tail(x.names) /\ y.phase = x.phase /\ y.sound = x.sound
            /\ y.conflicts = x.conflicts
        BY <1>1, <1>2, <1>3, <2>7, <3>1 DEF Going, Calls
      <3>3. UndoneAt(session[s], p)'
        BY <1>1, <1>3, <2>5, <2>6, <2>7, <3>2 DEF UndoneAt, Tidied
      <3> QED
        BY <1>1, <1>2, <2>2, <2>3, <2>4, <3>2, <3>3, UndoGood DEF Names
    <2>8. CASE ~(Len(x.names) > 1)
      <3>1. FALSE \in BOOLEAN /\ y = RollNext(x, FALSE)
        BY <2>1, <2>8
      <3>2. /\ Going(y, journal.changes) /\ y.pc \in {"roll", "finish"}
            /\ y.pc = "finish" <=> y.todo = {}
            /\ y.todo = x.todo \ {p}
            /\ y.conflicts = (x.conflicts \/ FALSE)
            /\ y.sound = x.sound /\ y.phase = x.phase
        <4>1. Going(x, journal.changes) /\ Last(x.todo) = p
          BY <1>2
        <4>2. /\ Going(RollNext(x, FALSE), journal.changes)
              /\ RollNext(x, FALSE).pc \in {"roll", "finish"}
              /\ RollNext(x, FALSE).pc = "finish" <=> x.todo \ {Last(x.todo)} = {}
              /\ RollNext(x, FALSE).todo = x.todo \ {Last(x.todo)}
              /\ RollNext(x, FALSE).conflicts = (x.conflicts \/ FALSE)
              /\ RollNext(x, FALSE).sound = x.sound
              /\ RollNext(x, FALSE).phase = x.phase
          BY <1>2, <3>1, <4>1, RollNextFacts
        <4> QED
          BY <3>1, <4>1, <4>2
      <3>3. y.conflicts = x.conflicts
        BY <1>2, <3>2 DEF Going, Calls
      <3>4. Bare(p)'
        BY <1>3, <2>5, <2>8 DEF Bare
      <3>5. Undoing(session[s])'
        <4>1. \A q \in Paths : Data(q, "staging") = "torn" => Data(q, "staging")' = "torn"
          BY <2>3, <2>4 DEF Names
        <4>2. ASSUME NEW q \in journal.changes \ y.todo
              PROVE  \/ q \notin x.todo /\ \A m \in Names : Data(q, m)' = Data(q, m)
                     \/ Bare(q)' /\ (q \notin touched => Data(q, "dest")' = Before[q])
          BY <1>2, <2>3, <2>6, <3>2, <3>4
        <4> QED
          BY <1>1, <1>2, <3>2, <3>3, <4>1, <4>2, UndoingKeeps
      <3>6. UndoneAt(session[s], Last(session[s].todo))' \/ y.pc = "finish"
        BY <3>2 DEF UndoneAt
      <3> QED
        BY <1>1, <2>2, <3>2, <3>5, <3>6 DEF StepGood, CallInv, RollPlaces
    <2> QED
      BY <2>7, <2>8
  <1> QED
    BY <1>4, <1>5

LEMMA FinishRollbackGood ==
  ASSUME TypeInv, ProjectInv, NEW s \in Sessions, FinishRollback(s)
  PROVE  StepGood(s)
  <1> DEFINE x == session[s]
             y == session'[s]
             state == IF x.conflicts THEN "rollback-incomplete" ELSE "rolled-back"
             place == IF x.conflicts THEN "failed" ELSE "recovered"
  <1>1. /\ at[s] = "inside" /\ x.pc = "finish" /\ Kept /\ UNCHANGED files
        /\ journal' = [journal EXCEPT !.state = state]
    BY DEF FinishRollback, At, others, WriteState, Kept, TypeInv
  <1>2. Going(x, journal.changes) /\ CallInv(x) /\ journal.changes \in SUBSET Paths /\ FilesInv
    BY <1>1, CallFacts
  <1>3. Undoing(x) /\ x.todo = {} /\ journal.state = "rolling-back"
    BY <1>1, <1>2 DEF CallInv, Undoing
  <1>4. FilesOK' /\ SameData /\ journal'.state = state
    BY <1>1, FilesSame DEF TypeInv
  <1>5. FilesInv'
    <2>1. told # "receipt"
      BY <1>2, <1>3 DEF FilesInv, ToldTruly
    <2>2. state = "rolled-back" => \A p \in Untouched : Data(p, "dest") = Before[p]
      BY <1>3 DEF Undoing, Untouched
    <2> QED
      BY <1>1, <1>2, <1>3, <1>4, <2>1, <2>2, StateKeeps
  <1>6. y = [x EXCEPT !.pc = place]
    BY SetCall DEF FinishRollback, Goto
  <1>7. /\ Going(y, journal'.changes) /\ y.pc = place /\ y.phase = x.phase
        /\ y.sound = x.sound
    <2>1. place \in Places \ {"outside"} /\ journal'.changes = journal.changes
      BY <1>1 DEF Places, Kept
    <2> HIDE DEF place
    <2> QED
      BY <1>2, <1>6, <2>1, GotoFacts
  <1>8. CASE x.conflicts
    <2>1. ~Calm(session[s])'
      BY <1>1, <1>3, <1>4, <1>7, <1>8 DEF Undoing, Calm, Kept, SameData, Names
    <2> QED
      BY <1>4, <1>5, <1>7, <1>8, <2>1 DEF StepGood, CallInv, RollPlaces
  <1>9. CASE ~x.conflicts
    <2>1. \A p \in journal'.changes : Bare(p)'
      BY <1>1, <1>2, <1>3, <1>4, <1>9 DEF Undoing, Bare, Kept, SameData
    <2>2. Recovering(session[s])'
      BY <1>3, <1>7 DEF Undoing, Recovering
    <2> QED
      BY <1>4, <1>5, <1>7, <1>9, <2>1, <2>2 DEF StepGood, CallInv, RollPlaces
  <1> QED
    BY <1>8, <1>9

(***************************************************************************)
(* The steps of the apply.                                                 *)
(***************************************************************************)
Publishing == {"check", "original", "verify", "publish", "unstage"}

LEMMA LoopFacts ==
  ASSUME TypeInv, ProjectInv, NEW s \in Sessions, at[s] = "inside", session[s].todo # {}
  PROVE  \E p \in journal.changes :
            /\ p \in Paths /\ p = First(session[s].todo) /\ p \in session[s].todo
            /\ Going(session[s], journal.changes) /\ CallInv(session[s])
            /\ journal.changes \in SUBSET Paths /\ FilesInv
            /\ Before[p] # After[p]
            /\ p \notin touched => Legal(p)
  <1> DEFINE x == session[s]
  <1>1. /\ Going(x, journal.changes) /\ CallInv(x)
        /\ journal.changes \in SUBSET Paths /\ FilesInv
        /\ First(x.todo) \in x.todo
    BY CallFacts
  <1>2. PICK p \in Paths : p = First(x.todo) /\ p \in x.todo /\ p \in journal.changes
    BY <1>1 DEF Going
  <1>3. Before[p] # After[p]
    BY ProjectConstants
  <1>4. p \notin touched => Legal(p)
    BY <1>1, <1>2 DEF FilesInv, AllLegal, Untouched
  <1> QED
    BY <1>1, <1>2, <1>3, <1>4

LEMMA OnwardFacts ==
  ASSUME TypeInv, ProjectInv, NEW s \in Sessions, at[s] = "inside",
         NEW again \in Places \ {"outside"}, NEW done \in Places \ {"outside"},
         Onward(s, again, done)
  PROVE  LET left == session[s].todo \ {First(session[s].todo)}
         IN  /\ Going(session'[s], journal.changes)
             /\ session'[s].pc = IF left = {} THEN done ELSE again
             /\ session'[s].todo = IF left = {} THEN journal.changes ELSE left
             /\ session'[s].phase = session[s].phase
             /\ session'[s].sound = session[s].sound
  <1> DEFINE x == session[s]
             left == x.todo \ {First(x.todo)}
  <1>1. Going(x, journal.changes) /\ journal.changes \in SUBSET Paths /\ x.todo \subseteq Paths
    BY CallFacts
  <1>2. left \in SUBSET Paths /\ left \subseteq journal.changes
    BY <1>1 DEF Going
  <1>3. session'[s] = IF left = {} THEN [x EXCEPT !.pc = done, !.todo = journal.changes]
                      ELSE [x EXCEPT !.pc = again, !.todo = left]
    BY SetCall DEF Onward, Goes, Applied
  <1> HIDE DEF x, left
  <1>4. CASE left = {}
    <2>1. session'[s] = [x EXCEPT !.pc = done, !.todo = journal.changes]
      BY <1>3, <1>4
    <2> QED
      BY <1>1, <1>4, <2>1 DEF Going, Calls, x, left
  <1>5. CASE left # {}
    <2>1. session'[s] = [x EXCEPT !.pc = again, !.todo = left]
      BY <1>3, <1>5
    <2>2. /\ Going(session'[s], journal.changes) /\ session'[s].pc = again
          /\ session'[s].todo = left /\ session'[s].phase = x.phase /\ session'[s].sound = x.sound
      BY <1>1, <1>2, <2>1 DEF Going, Calls, x
    <2> QED
      BY <1>5, <2>2 DEF x, left
  <1> QED
    BY <1>4, <1>5

\* The apply goes on with the same change.
LEMMA ApplyGood ==
  ASSUME TypeInv, ProjectInv, NEW s \in Sessions, at[s] = "inside",
         session[s].pc \in Publishing, UNCHANGED <<journal, touched>>,
         NEW place \in Publishing, session'[s] = [session[s] EXCEPT !.pc = place],
         FilesOK', FilesInv', NEW p, p = First(session[s].todo),
         \A q \in Paths \ {p}, m \in Names : Data(q, m)' = Data(q, m),
         session'[s].pc = place => AppliedAt(session[s], p)'
  PROVE  StepGood(s)
  <1> DEFINE x == session[s]
             y == session'[s]
  <1>1. /\ Going(x, journal.changes) /\ CallInv(x) /\ journal.changes \in SUBSET Paths
    BY CallFacts
  <1>2. Applying(x)
    BY <1>1 DEF CallInv, Publishing
  <1>3. p \in x.todo
    BY <1>2, CallFacts DEF Applying
  <1>4. place \in Places \ {"outside"}
    BY DEF Publishing, Places, ApplyPlaces
  <1>5. Going(y, journal.changes) /\ y.pc = place /\ y.todo = x.todo
    BY <1>1, <1>4, GotoFacts
  <1>6. Applying(session[s])'
    <2>1. ASSUME NEW q \in x.todo \ {p} PROVE Waiting(q)'
      BY <1>1, <1>2, <2>1 DEF Applying, Waiting, Staged, Going, Names
    <2>2. ASSUME NEW q \in Untouched \ x.todo PROVE Data(q, "dest")' = After[q]
      BY <1>1, <1>2, <1>3, <2>2 DEF Applying, Untouched, Names
    <2> QED
      BY <1>2, <1>5, <2>1, <2>2 DEF Applying, Untouched
  <1>7. AppliedAt(session[s], First(session[s].todo))'
    <2>1. First(y.todo) = p
      BY <1>5
    <2> QED
      BY <1>5, <2>1 DEF AppliedAt
  <1> QED
    BY <1>5, <1>6, <1>7 DEF StepGood, CallInv, Publishing, RollPlaces

\* The change is published: the next one, or the commit.
LEMMA OnwardGood ==
  ASSUME TypeInv, ProjectInv, NEW s \in Sessions, at[s] = "inside",
         session[s].pc \in Publishing, UNCHANGED <<journal, touched>>,
         Onward(s, "check", "commit"),
         FilesOK', FilesInv', NEW p, p = First(session[s].todo),
         \A q \in Paths \ {p}, m \in Names : Data(q, m)' = Data(q, m),
         p \notin touched => Data(p, "dest")' = After[p]
  PROVE  StepGood(s)
  <1> DEFINE x == session[s]
             y == session'[s]
             left == x.todo \ {p}
  <1>1. /\ Going(x, journal.changes) /\ CallInv(x) /\ journal.changes \in SUBSET Paths
        /\ x.todo \subseteq Paths
    BY CallFacts
  <1>2. Applying(x)
    BY <1>1 DEF CallInv, Publishing
  <1>3. "check" \in Places \ {"outside"} /\ "commit" \in Places \ {"outside"}
    BY DEF Places, ApplyPlaces
  <1>4. /\ Going(y, journal.changes)
        /\ y.pc = IF left = {} THEN "commit" ELSE "check"
        /\ y.todo = IF left = {} THEN journal.changes ELSE left
    BY <1>3, OnwardFacts
  <1>5. \A q \in Untouched \ left : Data(q, "dest")' = After[q]
    <2>1. SUFFICES ASSUME NEW q \in Untouched \ left PROVE Data(q, "dest")' = After[q]
      OBVIOUS
    <2>2. CASE q = p
      BY <2>2 DEF Untouched
    <2>3. CASE q # p
      BY <1>1, <1>2, <2>3 DEF Applying, Untouched, Names
    <2> QED
      BY <2>2, <2>3
  <1>6. CASE left = {}
    <2>1. Committing(session[s])'
      BY <1>2, <1>5, <1>6 DEF Committing, Applying, Untouched
    <2> QED
      BY <1>4, <1>6, <2>1 DEF StepGood, CallInv, RollPlaces
  <1>7. CASE left # {}
    <2>1. y.pc = "check" /\ y.todo = left
      BY <1>4, <1>7
    <2>2. ASSUME NEW q \in left PROVE Waiting(q)'
      BY <1>1, <1>2, <2>2 DEF Applying, Waiting, Staged, Names
    <2>3. Applying(session[s])'
      BY <1>2, <1>5, <1>7, <2>1, <2>2 DEF Applying, Untouched
    <2>4. AppliedAt(session[s], First(session[s].todo))'
      <3>1. PICK q \in left : q = First(y.todo)
        <4>1. left \in SUBSET Paths /\ left # {}
          BY <1>1, <1>7
        <4> QED
          BY <2>1, <4>1, SubsetLoops
      <3>2. Waiting(q)'
        BY <2>2
      <3>3. AppliedAt(session[s], q)'
        BY <2>1, <3>2 DEF AppliedAt
      <3> QED
        BY <3>1, <3>3, <2>1, <3>2 DEF AppliedAt
    <2> QED
      BY <1>4, <2>1, <2>3, <2>4 DEF StepGood, CallInv, RollPlaces
  <1> QED
    BY <1>6, <1>7

LEMMA PlanGood ==
  ASSUME TypeInv, ProjectInv, NEW s \in Sessions, Plan(s)
  PROVE  StepGood(s)
  <1> DEFINE x == session[s]
             y == session'[s]
             changes == {p \in Paths : Data(p, "dest") = Before[p]}
  <1>1. /\ at[s] = "inside" /\ x.pc = "plan" /\ x.pc \notin RollPlaces
        /\ UNCHANGED <<files, edited>>
    BY DEF Plan, At, RollPlaces
  <1>2. /\ Going(x, journal.changes) /\ CallInv(x) /\ journal.changes \in SUBSET Paths
        /\ FilesInv
    BY <1>1, CallFacts
  <1>3. Planning(x)
    BY <1>1, <1>2 DEF CallInv
  <1>4. CASE \E p \in Paths \ changes : Data(p, "dest") # After[p]
    <2>1. Throw(s) /\ UNCHANGED <<journal, touched, removed, told>>
      BY <1>4 DEF Plan
    <2> QED
      BY <1>1, <1>3, <2>1, ThrowGood DEF Planning
  <1>5. CASE /\ ~(\E p \in Paths \ changes : Data(p, "dest") # After[p])
             /\ changes = {}
    <2>1. y = [x EXCEPT !.pc = "returned"] /\ UNCHANGED <<journal, touched, removed, told>>
      BY <1>5, SetCall DEF Plan, Goto
    <2>2. FilesOK' /\ FilesInv'
      BY <1>1, <2>1, QuietFiles
    <2>3. "returned" \in Places \ {"outside"}
      BY DEF Places
    <2>4. Going(y, journal.changes) /\ y.pc = "returned" /\ y.phase = x.phase
      BY <1>2, <2>1, <2>3, GotoFacts
    <2> QED
      BY <1>3, <2>1, <2>2, <2>4 DEF StepGood, CallInv, Planning, RollPlaces
  <1>6. CASE /\ ~(\E p \in Paths \ changes : Data(p, "dest") # After[p])
             /\ changes # {}
    <2>1. /\ y = [x EXCEPT !.pc = "stage", !.phase = "apply", !.todo = changes]
          /\ journal' = [state |-> "preparing", changes |-> changes]
          /\ touched' = {} /\ removed' = {} /\ told' = "nothing"
      BY <1>6, SetCall DEF Plan
    <2>2. FilesOK' /\ SameData
      BY <1>1, FilesSame
    <2>3. changes \in SUBSET Paths
      OBVIOUS
    <2>4. \A p \in changes : Data(p, "dest")' = Before[p]
      BY <2>2 DEF SameData, Names
    <2> HIDE DEF changes
    <2>5. /\ y.pc = "stage" /\ y.todo = changes /\ Going(y, journal'.changes)
      BY <1>2, <2>1, <2>3 DEF Going, Calls, Places, ApplyPlaces
    <2>6. \A p \in Paths : Bare(p)'
      BY <1>2, <1>3, <2>2 DEF Planning, FilesInv, OthersBare, Bare, SameData
    <2>7. FilesInv'
      <3>1. OthersBare' /\ DeletedForGood' /\ ToldTruly'
        BY <2>1, <2>3, <2>6 DEF OthersBare, DeletedForGood, ToldTruly
      <3>2. EditsKept'
        BY <1>1, <1>2, <2>2 DEF FilesInv, EditsKept, SameData
      <3>3. AllLegal'
        BY <2>1, <2>3, <2>4, <2>6 DEF AllLegal, Untouched, Legal, Bare, Names
      <3> QED
        BY <3>1, <3>2, <3>3 DEF FilesInv
    <2>8. Staging(session[s])'
      BY <1>6, <2>1, <2>3, <2>4, <2>5, <2>6 DEF Staging
    <2> QED
      BY <2>2, <2>5, <2>7, <2>8 DEF StepGood, CallInv, RollPlaces
  <1> QED
    BY <1>4, <1>5, <1>6

LEMMA StageGood ==
  ASSUME TypeInv, ProjectInv, NEW s \in Sessions, Stage(s)
  PROVE  StepGood(s)
  <1> DEFINE x == session[s]
             y == session'[s]
  <1>1. /\ at[s] = "inside" /\ x.pc = "stage"
        /\ UNCHANGED <<journal, touched, edited, removed, told>>
        /\ Onward(s, "stage", "mark")
    BY DEF Stage, At, others
  <1>2. Staging(x) /\ x.todo # {} /\ journal.state = "preparing"
    BY <1>1, CallFacts DEF CallInv, Staging
  <1>3. PICK p \in journal.changes :
            /\ p \in Paths /\ p = First(x.todo) /\ p \in x.todo
            /\ Going(x, journal.changes) /\ CallInv(x)
            /\ journal.changes \in SUBSET Paths /\ FilesInv
            /\ Before[p] # After[p]
            /\ p \notin touched => Legal(p)
    BY <1>1, <1>2, LoopFacts
  <1>4. Bare(p) /\ (p \notin touched => Data(p, "dest") = Before[p])
    BY <1>2, <1>3 DEF Staging
  <1>5. /\ FilesOK' /\ FilesInv'
        /\ \A q \in Paths, m \in Names : Data(q, m)' = IF q = p /\ m = "staging" THEN After[p]
                                                       ELSE Data(q, m)
    <2>1. CASE After[p] = Absent
      <3>1. UNCHANGED files
        BY <1>3, <2>1 DEF Stage, Applied
      <3>2. FilesOK' /\ FilesInv' /\ SameData
        BY <1>1, <3>1, QuietFiles
      <3> QED
        BY <1>4, <2>1, <3>2 DEF SameData, Bare, Names
    <2>2. CASE After[p] # Absent
      <3>1. files' = [files EXCEPT ![p]["staging"] = File(1, After[p])]
        BY <1>3, <2>2 DEF Stage, Applied
      <3>2. FilesOK' /\ Puts(p, "staging", After[p])
        <4>1. "staging" \in Names /\ 1 \in Inodes
          BY ProjectConstants DEF Names, Inodes
        <4>2. After[p] \in Edits \cup {"torn"} \cup {After[q] : q \in Paths}
          BY <1>3
        <4> QED
          BY <1>3, <2>2, <3>1, <4>1, <4>2, FilesWritten
      <3>3. FilesInv'
        <4>1. p \notin touched => Legal(p)'
          BY <1>1, <1>2, <1>3, <1>4, <3>2 DEF Legal, Puts, Bare, Names
        <4>2. Data(p, "staging") = Absent /\ Data(p, "backup") = Absent
          BY <1>4 DEF Bare, Names
        <4> QED
          BY <1>1, <1>3, <3>2, <4>1, <4>2, PutKeeps DEF Kept, Names
      <3> QED
        BY <3>2, <3>3 DEF Puts
    <2> QED
      BY <2>1, <2>2
  <1>6. Waiting(p)'
    BY <1>1, <1>3, <1>4, <1>5 DEF Waiting, Staged, Bare, Names
  <1>7. \A q \in journal.changes \ x.todo : Waiting(q)'
    BY <1>1, <1>2, <1>3, <1>5 DEF Staging, Waiting, Staged, Names
  <1> DEFINE left == x.todo \ {p}
  <1>8. "stage" \in Places \ {"outside"} /\ "mark" \in Places \ {"outside"}
    BY DEF Places, ApplyPlaces
  <1>9. /\ Going(y, journal.changes)
        /\ y.pc = IF left = {} THEN "mark" ELSE "stage"
        /\ y.todo = IF left = {} THEN journal.changes ELSE left
    BY <1>1, <1>3, <1>8, OnwardFacts
  <1>10. \A q \in journal.changes \ left : Waiting(q)'
    BY <1>6, <1>7
  <1>11. CASE left = {}
    <2>1. Marking(session[s])'
      BY <1>1, <1>2, <1>3, <1>9, <1>10, <1>11 DEF Marking
    <2> QED
      BY <1>1, <1>5, <1>9, <1>11, <2>1 DEF StepGood, CallInv, RollPlaces
  <1>12. CASE left # {}
    <2>1. ASSUME NEW q \in left PROVE Bare(q)' /\ (q \notin touched => Data(q, "dest")' = Before[q])
      BY <1>2, <1>3, <1>5, <2>1 DEF Staging, Bare, Going, Names
    <2>2. Staging(session[s])'
      BY <1>1, <1>2, <1>9, <1>10, <1>12, <2>1 DEF Staging
    <2> QED
      BY <1>1, <1>5, <1>9, <1>12, <2>2 DEF StepGood, CallInv, RollPlaces
  <1> QED
    BY <1>11, <1>12

LEMMA MarkGood ==
  ASSUME TypeInv, ProjectInv, NEW s \in Sessions, Mark(s)
  PROVE  StepGood(s)
  <1> DEFINE x == session[s]
             y == session'[s]
  <1>1. /\ at[s] = "inside" /\ x.pc = "mark" /\ Kept /\ UNCHANGED files
        /\ journal' = [journal EXCEPT !.state = "applying"]
    BY DEF Mark, At, others, WriteState, Kept, TypeInv
  <1>2. /\ Going(x, journal.changes) /\ CallInv(x) /\ journal.changes \in SUBSET Paths
        /\ FilesInv /\ x.todo \subseteq Paths
        /\ x.todo # {} => First(x.todo) \in x.todo
    BY <1>1, CallFacts
  <1>3. Marking(x) /\ journal.state = "preparing" /\ journal'.state = "applying"
    BY <1>1, <1>2 DEF CallInv, TypeInv, Marking
  <1>4. FilesOK' /\ SameData
    BY <1>1, FilesSame
  <1>5. FilesInv'
    BY <1>1, <1>2, <1>3, <1>4, StateKeeps DEF FilesInv, ToldTruly
  <1>6. y = [x EXCEPT !.pc = "check"]
    BY SetCall DEF Mark, Goto
  <1>7. Going(y, journal'.changes) /\ y.pc = "check" /\ y.todo = x.todo
    <2>1. "check" \in Places \ {"outside"} /\ journal'.changes = journal.changes
      BY <1>1 DEF Places, ApplyPlaces, Kept
    <2> QED
      BY <1>2, <1>6, <2>1, GotoFacts
  <1>8. \A q \in x.todo : Waiting(q)'
    BY <1>1, <1>2, <1>3, <1>4 DEF Marking, Waiting, Staged, SameData, Kept, Names
  <1>9. Applying(session[s])'
    BY <1>1, <1>3, <1>7, <1>8 DEF Applying, Marking, Untouched, Kept
  <1>10. AppliedAt(session[s], First(session[s].todo))'
    <2>1. PICK p \in x.todo : p = First(y.todo)
      BY <1>2, <1>3, <1>7 DEF Marking
    <2>2. Waiting(p)'
      BY <1>8
    <2> QED
      BY <1>7, <2>1, <2>2 DEF AppliedAt
  <1> QED
    BY <1>4, <1>5, <1>7, <1>9, <1>10 DEF StepGood, CallInv, RollPlaces

LEMMA CheckGood ==
  ASSUME TypeInv, ProjectInv, NEW s \in Sessions, Check(s)
  PROVE  StepGood(s)
  <1> DEFINE x == session[s]
             y == session'[s]
  <1>1. /\ at[s] = "inside" /\ x.pc = "check"
        /\ x.pc \in ApplyPlaces /\ x.pc \notin RollPlaces /\ x.pc \in Publishing
        /\ UNCHANGED <<journal, touched, edited, removed, told>>
    BY DEF Check, At, others, ApplyPlaces, RollPlaces, Publishing
  <1>2. Applying(x) /\ x.todo # {} /\ journal.state = "applying"
    BY <1>1, CallFacts DEF CallInv, Applying
  <1>3. PICK p \in journal.changes :
            /\ p \in Paths /\ p = First(x.todo) /\ p \in x.todo
            /\ Going(x, journal.changes) /\ CallInv(x)
            /\ journal.changes \in SUBSET Paths /\ FilesInv
            /\ Before[p] # After[p]
            /\ p \notin touched => Legal(p)
    BY <1>1, <1>2, LoopFacts
  <1>4. AppliedAt(x, p)
    BY <1>1, <1>3 DEF CallInv
  <1>5. files[p]["dest"] = Absent <=> Data(p, "dest") = Absent
    BY <1>3, HasData DEF Names
  <1>6. FilesOK' /\ FilesInv' /\ SameData /\ UNCHANGED files
    BY <1>1, QuietFiles DEF Check
  <1>7. \A q \in Paths, m \in Names : Data(q, m)' = Data(q, m)
    BY <1>6 DEF SameData
  <1>8. CASE Data(p, "dest") # Before[p]
    <2>1. Throw(s)
      BY <1>3, <1>8 DEF Check, Applied
    <2> QED
      BY <1>1, <1>6, <2>1, ThrowGood
  <1>9. CASE Data(p, "dest") = Before[p]
    <2> DEFINE place == IF Before[p] # Absent THEN "original" ELSE "publish"
    <2>1. y = [x EXCEPT !.pc = place]
      BY <1>3, <1>9, SetCall DEF Check, Applied, Goto
    <2>2. place \in Publishing
      BY DEF Publishing
    <2>3. y.pc = place => AppliedAt(session[s], p)'
      BY <1>1, <1>3, <1>4, <1>7, <1>9 DEF AppliedAt, Waiting, Staged, Names
    <2> HIDE DEF place
    <2> QED
      BY <1>1, <1>3, <1>6, <1>7, <2>1, <2>2, <2>3, ApplyGood
  <1> QED
    BY <1>8, <1>9

LEMMA MoveOriginalGood ==
  ASSUME TypeInv, ProjectInv, NEW s \in Sessions, MoveOriginal(s)
  PROVE  StepGood(s)
  <1> DEFINE x == session[s]
             y == session'[s]
  <1>1. /\ at[s] = "inside" /\ x.pc = "original"
        /\ x.pc \in ApplyPlaces /\ x.pc \notin RollPlaces /\ x.pc \in Publishing
        /\ UNCHANGED <<journal, touched, edited, removed, told>>
    BY DEF MoveOriginal, At, others, ApplyPlaces, RollPlaces, Publishing
  <1>2. Applying(x) /\ x.todo # {} /\ journal.state = "applying"
    BY <1>1, CallFacts DEF CallInv, Applying
  <1>3. PICK p \in journal.changes :
            /\ p \in Paths /\ p = First(x.todo) /\ p \in x.todo
            /\ Going(x, journal.changes) /\ CallInv(x)
            /\ journal.changes \in SUBSET Paths /\ FilesInv
            /\ Before[p] # After[p]
            /\ p \notin touched => Legal(p)
    BY <1>1, <1>2, LoopFacts
  <1>4. AppliedAt(x, p)
    BY <1>1, <1>3 DEF CallInv
  <1>5. files[p]["dest"] = Absent <=> Data(p, "dest") = Absent
    BY <1>3, HasData DEF Names
  <1>6. CASE files[p]["dest"] = Absent
    <2>1. Throw(s) /\ UNCHANGED files
      BY <1>3, <1>6 DEF MoveOriginal, Applied
    <2> QED
      BY <1>1, <2>1, ThrowGood
  <1>7. CASE files[p]["dest"] # Absent
    <2>1. Rename(p, "dest", "backup") /\ y = [x EXCEPT !.pc = "verify"]
      BY <1>3, <1>7, SetCall DEF MoveOriginal, Applied, Goto
    <2>2. FilesOK' /\ Moves(p, "dest", "backup")
      <3>1. "dest" \in Names /\ "backup" \in Names
        BY DEF Names
      <3> QED
        BY <1>3, <2>1, <3>1, FilesMoved
    <2>3. \A q \in Paths, m \in Names : Data(q, m)' =
            IF q = p /\ m = "backup" THEN Data(p, "dest")
            ELSE IF q = p /\ m = "dest" THEN Absent ELSE Data(q, m)
      BY <2>2 DEF Moves
    <2>4. Waiting(p)
      BY <1>1, <1>4 DEF AppliedAt
    <2>5. FilesInv'
      <3>1. p \notin touched => Legal(p)'
        BY <1>1, <1>2, <1>3, <2>3, <2>4 DEF Waiting, Legal, Names
      <3> QED
        BY <1>1, <1>3, <1>5, <1>7, <2>2, <2>4, <3>1, MoveKeeps DEF Kept, Waiting
    <2>6. y.pc = "verify" => AppliedAt(session[s], p)'
      BY <1>1, <1>3, <1>4, <1>5, <1>7, <2>3, <2>4 DEF AppliedAt, Waiting, Staged, Names
    <2>7. "verify" \in Publishing
      BY DEF Publishing
    <2>8. \A q \in Paths \ {p}, m \in Names : Data(q, m)' = Data(q, m)
      BY <2>3
    <2> QED
      BY <1>1, <1>3, <2>1, <2>2, <2>5, <2>6, <2>7, <2>8, ApplyGood
  <1> QED
    BY <1>6, <1>7

LEMMA VerifyOriginalGood ==
  ASSUME TypeInv, ProjectInv, NEW s \in Sessions, VerifyOriginal(s)
  PROVE  StepGood(s)
  <1> DEFINE x == session[s]
             y == session'[s]
  <1>1. /\ at[s] = "inside" /\ x.pc = "verify"
        /\ x.pc \in ApplyPlaces /\ x.pc \notin RollPlaces /\ x.pc \in Publishing
        /\ UNCHANGED <<journal, touched, edited, removed, told>>
    BY DEF VerifyOriginal, At, others, ApplyPlaces, RollPlaces, Publishing
  <1>2. Applying(x) /\ x.todo # {} /\ journal.state = "applying"
    BY <1>1, CallFacts DEF CallInv, Applying
  <1>3. PICK p \in journal.changes :
            /\ p \in Paths /\ p = First(x.todo) /\ p \in x.todo
            /\ Going(x, journal.changes) /\ CallInv(x)
            /\ journal.changes \in SUBSET Paths /\ FilesInv
            /\ Before[p] # After[p]
            /\ p \notin touched => Legal(p)
    BY <1>1, <1>2, LoopFacts
  <1>4. AppliedAt(x, p)
    BY <1>1, <1>3 DEF CallInv
  <1>5. files[p]["dest"] = Absent <=> Data(p, "dest") = Absent
    BY <1>3, HasData DEF Names
  <1>6. FilesOK' /\ FilesInv' /\ SameData /\ UNCHANGED files
    BY <1>1, QuietFiles DEF VerifyOriginal
  <1>7. \A q \in Paths, m \in Names : Data(q, m)' = Data(q, m)
    BY <1>6 DEF SameData
  <1>8. CASE Data(p, "backup") # Before[p]
    <2>1. Throw(s)
      BY <1>3, <1>8 DEF VerifyOriginal, Applied
    <2> QED
      BY <1>1, <1>6, <2>1, ThrowGood
  <1>9. CASE Data(p, "backup") = Before[p] /\ After[p] = Absent
    <2>1. Onward(s, "check", "commit")
      BY <1>3, <1>9 DEF VerifyOriginal, Applied
    <2>2. p \notin touched => Data(p, "dest")' = After[p]
      BY <1>1, <1>3, <1>4, <1>7, <1>9 DEF AppliedAt, Names
    <2> QED
      BY <1>1, <1>3, <1>6, <1>7, <2>1, <2>2, OnwardGood
  <1>10. CASE Data(p, "backup") = Before[p] /\ After[p] # Absent
    <2>1. y = [x EXCEPT !.pc = "publish"]
      BY <1>3, <1>10, SetCall DEF VerifyOriginal, Applied, Goto
    <2>2. "publish" \in Publishing
      BY DEF Publishing
    <2>3. y.pc = "publish" => AppliedAt(session[s], p)'
      BY <1>1, <1>3, <1>4, <1>7, <1>10 DEF AppliedAt, Staged, Names
    <2> QED
      BY <1>1, <1>3, <1>6, <1>7, <2>1, <2>2, <2>3, ApplyGood
  <1> QED
    BY <1>8, <1>9, <1>10

LEMMA PublishGood ==
  ASSUME TypeInv, ProjectInv, NEW s \in Sessions, Publish(s)
  PROVE  StepGood(s)
  <1> DEFINE x == session[s]
             y == session'[s]
  <1>1. /\ at[s] = "inside" /\ x.pc = "publish"
        /\ x.pc \in ApplyPlaces /\ x.pc \notin RollPlaces /\ x.pc \in Publishing
        /\ UNCHANGED <<journal, touched, edited, removed, told>>
    BY DEF Publish, At, others, ApplyPlaces, RollPlaces, Publishing
  <1>2. Applying(x) /\ x.todo # {} /\ journal.state = "applying"
    BY <1>1, CallFacts DEF CallInv, Applying
  <1>3. PICK p \in journal.changes :
            /\ p \in Paths /\ p = First(x.todo) /\ p \in x.todo
            /\ Going(x, journal.changes) /\ CallInv(x)
            /\ journal.changes \in SUBSET Paths /\ FilesInv
            /\ Before[p] # After[p]
            /\ p \notin touched => Legal(p)
    BY <1>1, <1>2, LoopFacts
  <1>4. AppliedAt(x, p)
    BY <1>1, <1>3 DEF CallInv
  <1>5. files[p]["dest"] = Absent <=> Data(p, "dest") = Absent
    BY <1>3, HasData DEF Names
  <1>6. CASE ~(Data(p, "staging") = After[p] /\ files[p]["dest"] = Absent)
    <2>1. Throw(s) /\ UNCHANGED files
      BY <1>3, <1>6 DEF Publish, Applied
    <2> QED
      BY <1>1, <2>1, ThrowGood
  <1>7. CASE Data(p, "staging") = After[p] /\ files[p]["dest"] = Absent
    <2>1. Link(p, "staging", "dest") /\ y = [x EXCEPT !.pc = "unstage"]
      BY <1>3, <1>7, SetCall DEF Publish, Applied, Goto
    <2>2. FilesOK' /\ Puts(p, "dest", After[p])
      <3>1. "dest" \in Names /\ "staging" \in Names
        BY DEF Names
      <3> QED
        BY <1>3, <1>7, <2>1, <3>1, FilesLinked
    <2>3. \A q \in Paths, m \in Names : Data(q, m)' = IF q = p /\ m = "dest" THEN After[p]
                                                      ELSE Data(q, m)
      BY <2>2 DEF Puts
    <2>4. FilesInv'
      <3>1. p \notin removed
        BY <1>1, <1>3, <1>4, <1>7 DEF AppliedAt, FilesInv, DeletedForGood
      <3>2. p \notin touched => Legal(p)'
        BY <1>1, <1>2, <1>3, <1>4, <1>5, <1>7, <2>3 DEF AppliedAt, Legal, Names
      <3> QED
        BY <1>1, <1>3, <1>5, <1>7, <2>2, <3>1, <3>2, PutKeeps DEF Kept, Names
    <2>5. y.pc = "unstage" => AppliedAt(session[s], p)'
      BY <1>1, <1>3, <1>4, <2>3 DEF AppliedAt, Names
    <2>6. "unstage" \in Publishing
      BY DEF Publishing
    <2>7. \A q \in Paths \ {p}, m \in Names : Data(q, m)' = Data(q, m)
      BY <2>3
    <2> QED
      BY <1>1, <1>3, <2>1, <2>2, <2>4, <2>5, <2>6, <2>7, ApplyGood
  <1> QED
    BY <1>6, <1>7

\* The staging file goes: the user may have deleted what it was linked to, for good.
LEMMA UnstageKeeps ==
  ASSUME TypeInv, FilesInv, UNCHANGED <<journal, touched, edited, told>>,
         NEW p \in journal.changes, Unlink(p, "staging"), RemovedBefore(p),
         Data(p, "staging") = After[p], After[p] # Absent, Data(p, "rollback") = Absent,
         p \notin touched => Legal(p)'
  PROVE  FilesOK' /\ FilesInv'
  <1>0. p \in Paths /\ journal.changes \subseteq Paths /\ removed \subseteq Paths
    BY DEF TypeInv, TypeOK
  <1>1. FilesOK' /\ Puts(p, "staging", Absent)
    <2>1. "staging" \in Names
      BY DEF Names
    <2> QED
      BY <1>0, <2>1, FilesUnlinked
  <1>2. \A q \in Paths, m \in Names : Data(q, m)' = IF q = p /\ m = "staging" THEN Absent
                                                    ELSE Data(q, m)
    BY <1>1 DEF Puts
  <1>3. OthersBare'
    BY <1>0, <1>2 DEF FilesInv, OthersBare, Bare, Names
  <1>4. DeletedForGood'
    <2>1. SUFFICES ASSUME NEW q \in removed'
                   PROVE  /\ Absent \notin {Before[q], After[q]}
                          /\ Data(q, "dest")' = Absent
                          /\ Data(q, "backup")' = Absent \/
                               (Data(q, "staging")' = Absent /\ Data(q, "rollback")' = Absent)
      BY DEF DeletedForGood
    <2>2. CASE q \in removed
      BY <1>0, <1>2, <2>2 DEF FilesInv, DeletedForGood, Names
    <2>3. CASE q \notin removed
      <3>1. q = p /\ Data(p, "dest") = Absent /\ Before[p] # Absent
        BY <2>1, <2>3 DEF RemovedBefore
      <3> QED
        BY <1>0, <1>2, <3>1 DEF Names
    <2> QED
      BY <2>2, <2>3
  <1>5. EditsKept'
    BY <1>0, <1>2 DEF FilesInv, EditsKept
  <1>6. AllLegal'
    <2>1. ASSUME NEW q \in Untouched, q # p PROVE Legal(q)'
      BY <1>0, <1>2, <2>1 DEF FilesInv, AllLegal, Untouched, Legal, Names
    <2> QED
      BY <2>1 DEF AllLegal, Untouched
  <1>7. ToldTruly'
    BY DEF FilesInv, ToldTruly
  <1> QED
    BY <1>1, <1>3, <1>4, <1>5, <1>6, <1>7 DEF FilesInv

LEMMA UnstageGood ==
  ASSUME TypeInv, ProjectInv, NEW s \in Sessions, Unstage(s)
  PROVE  StepGood(s)
  <1> DEFINE x == session[s]
             y == session'[s]
  <1>1. /\ at[s] = "inside" /\ x.pc = "unstage"
        /\ x.pc \in ApplyPlaces /\ x.pc \notin RollPlaces /\ x.pc \in Publishing
        /\ UNCHANGED <<journal, touched, edited, told>>
    BY DEF Unstage, At, ApplyPlaces, RollPlaces, Publishing
  <1>2. Applying(x) /\ x.todo # {} /\ journal.state = "applying"
    BY <1>1, CallFacts DEF CallInv, Applying
  <1>3. PICK p \in journal.changes :
            /\ p \in Paths /\ p = First(x.todo) /\ p \in x.todo
            /\ Going(x, journal.changes) /\ CallInv(x)
            /\ journal.changes \in SUBSET Paths /\ FilesInv
            /\ Before[p] # After[p]
            /\ p \notin touched => Legal(p)
    BY <1>1, <1>2, LoopFacts
  <1>4. AppliedAt(x, p)
    BY <1>1, <1>3 DEF CallInv
  <1>5. files[p]["dest"] = Absent <=> Data(p, "dest") = Absent
    BY <1>3, HasData DEF Names
  <1>6. CASE Data(p, "staging") # After[p]
    <2>1. Throw(s) /\ UNCHANGED <<files, removed>>
      BY <1>3, <1>6 DEF Unstage, Applied
    <2> QED
      BY <1>1, <2>1, ThrowGood
  <1>7. CASE Data(p, "staging") = After[p]
    <2>1. Unlink(p, "staging") /\ RemovedBefore(p) /\ Onward(s, "check", "commit")
      BY <1>3, <1>7 DEF Unstage, Applied
    <2>2. Puts(p, "staging", Absent) /\ "staging" \in Names \ {"dest"}
      <3>1. "staging" \in Names
        BY DEF Names
      <3> QED
        BY <1>3, <2>1, <3>1, FilesUnlinked
    <2>3. \A q \in Paths, m \in Names : Data(q, m)' = IF q = p /\ m = "staging" THEN Absent
                                                      ELSE Data(q, m)
      BY <2>2 DEF Puts
    <2>4. FilesOK' /\ FilesInv'
      <3>1. p \notin touched => Legal(p)'
        BY <1>1, <1>2, <1>3, <1>4, <2>3 DEF AppliedAt, Legal, Names
      <3>2. After[p] # Absent /\ Data(p, "rollback") = Absent
        BY <1>1, <1>4 DEF AppliedAt
      <3> QED
        BY <1>1, <1>3, <1>7, <2>1, <2>2, <3>1, <3>2, UnstageKeeps
    <2>5. p \notin touched => Data(p, "dest")' = After[p]
      BY <1>1, <1>3, <1>4, <2>3 DEF AppliedAt, Names
    <2>6. \A q \in Paths \ {p}, m \in Names : Data(q, m)' = Data(q, m)
      BY <2>3
    <2> QED
      BY <1>1, <1>3, <2>1, <2>4, <2>5, <2>6, OnwardGood
  <1> QED
    BY <1>6, <1>7

LEMMA CommitGood ==
  ASSUME TypeInv, ProjectInv, NEW s \in Sessions, Commit(s)
  PROVE  StepGood(s)
  <1> DEFINE x == session[s]
             y == session'[s]
  <1>1. /\ at[s] = "inside" /\ x.pc = "commit" /\ Kept /\ UNCHANGED files
        /\ journal' = [journal EXCEPT !.state = "complete"]
    BY DEF Commit, At, others, WriteState, Kept, TypeInv
  <1>2. /\ Going(x, journal.changes) /\ CallInv(x) /\ journal.changes \in SUBSET Paths
        /\ FilesInv
    BY <1>1, CallFacts
  <1>3. Committing(x) /\ journal'.state = "complete"
    BY <1>1, <1>2 DEF CallInv, TypeInv
  <1>4. FilesOK' /\ SameData
    BY <1>1, FilesSame
  <1>5. FilesInv'
    BY <1>1, <1>2, <1>3, <1>4, StateKeeps DEF Committing
  <1>6. y = [x EXCEPT !.pc = "discard", !.todo = journal.changes]
    BY SetCall DEF Commit, Goes
  <1>7. Going(y, journal'.changes) /\ y.pc = "discard" /\ y.todo = journal.changes
    BY <1>1, <1>2, <1>6 DEF Going, Calls, Places, ApplyPlaces, Kept
  <1>8. journal.changes # {}
    BY <1>3 DEF Committing, TypeInv
  <1> QED
    BY <1>3, <1>4, <1>5, <1>7, <1>8 DEF StepGood, CallInv, RollPlaces

LEMMA DiscardGood ==
  ASSUME TypeInv, ProjectInv, NEW s \in Sessions, Discard(s)
  PROVE  StepGood(s)
  <1> DEFINE x == session[s]
             y == session'[s]
  <1>1. /\ at[s] = "inside" /\ x.pc = "discard"
        /\ x.pc \in ApplyPlaces /\ x.pc \notin RollPlaces
        /\ UNCHANGED <<journal, touched, edited, removed, told>>
    BY DEF Discard, At, others, ApplyPlaces, RollPlaces
  <1>2. x.todo # {} /\ journal.state = "complete"
    BY <1>1, CallFacts DEF CallInv
  <1>3. PICK p \in journal.changes :
            /\ p \in Paths /\ p = First(x.todo) /\ p \in x.todo
            /\ Going(x, journal.changes) /\ CallInv(x)
            /\ journal.changes \in SUBSET Paths /\ FilesInv
            /\ Before[p] # After[p]
            /\ p \notin touched => Legal(p)
    BY <1>1, <1>2, LoopFacts
  <1>4. CASE Data(p, "backup") \notin {Absent, Expected(p, "backup")}
    <2>1. Throw(s) /\ UNCHANGED files
      BY <1>3, <1>4 DEF Discard, RemoveKnown, Applied
    <2> QED
      BY <1>1, <2>1, ThrowGood
  <1>5. CASE Data(p, "backup") \in {Absent, Expected(p, "backup")}
    <2> DEFINE left == x.todo \ {p}
               place == IF left = {} THEN "returned" ELSE "discard"
    <2>1. Unlink(p, "backup") /\ y = [x EXCEPT !.todo = left, !.pc = place]
      BY <1>3, <1>5, SetCall DEF Discard, RemoveKnown, Applied
    <2>2. Puts(p, "backup", Absent) /\ "backup" \in Names \ {"dest"}
      <3>1. "backup" \in Names
        BY DEF Names
      <3> QED
        BY <1>3, <2>1, <3>1, FilesUnlinked
    <2>3. FilesOK' /\ FilesInv'
      <3>1. p \notin touched => Legal(p)'
        BY <1>1, <1>2, <1>3, <2>2 DEF Legal, Puts, Names
      <3> QED
        BY <1>1, <1>3, <1>5, <2>1, <2>2, <3>1, UnlinkKeeps
    <2>4. Going(y, journal.changes) /\ y.pc = place /\ y.todo = left
      <3>1. left \subseteq journal.changes /\ left \in SUBSET Paths
        BY <1>3 DEF Going
      <3>2. place \in Places \ {"outside"}
        BY DEF Places, ApplyPlaces
      <3> HIDE DEF place, left
      <3> QED
        BY <1>3, <2>1, <3>1, <3>2 DEF Going, Calls
    <2> QED
      BY <1>1, <1>2, <2>3, <2>4 DEF StepGood, CallInv, RollPlaces, Final
  <1> QED
    BY <1>4, <1>5

(***************************************************************************)
(* A step of the one call that is inside the lock.                         *)
(***************************************************************************)
LEMMA OnlyOne ==
  ASSUME MutualExclusion, NEW s \in Sessions, at[s] = "inside", NEW t \in Sessions, t # s
  PROVE  at[t] # "inside"
  BY DEF MutualExclusion, Holders

JournalOK ==
    /\ journal \in [state : JournalStates, changes : SUBSET Paths]
    /\ journal.state = "none" <=> journal.changes = {}

LeftOK ==
    /\ touched \subseteq Paths /\ removed \subseteq Paths
    /\ told \in {"nothing", "receipt", "error"}
    /\ DOMAIN edited = Paths
    /\ budget \in [edits : 0..MaxEdits, faults : 0..MaxFaults]

LEMMA WorkStep ==
  ASSUME TypeInv, ProjectInv, MutualExclusion, NEW s \in Sessions, at[s] = "inside",
         UNCHANGED lockVars, \E new : Set(s, new), StepGood(s), JournalOK', LeftOK'
  PROVE  TypeInv' /\ ProjectInv'
  <1>1. PICK new : session' = [session EXCEPT ![s] = new]
    BY DEF Set
  <1>2. session \in [Sessions -> Calls] /\ \A t \in Sessions : t # s => session[t] = Outside
    BY OnlyOne DEF TypeInv, TypeOK
  <1>3. session' \in [Sessions -> Calls] /\ \A t \in Sessions : t # s => session'[t] = Outside
    BY <1>1, <1>2 DEF StepGood, Going
  <1>4. at' = at /\ LockTypeOK'
    BY DEF lockVars, TypeInv, TypeOK, LockTypeOK
  <1>5. \A t \in Sessions : session'[t].todo \subseteq journal'.changes
    BY <1>3 DEF StepGood, Going, Outside
  <1>6. TypeOK'
    BY <1>3, <1>4, <1>5 DEF TypeOK, StepGood, FilesOK, JournalOK, JournalStates, LeftOK
  <1>7. \A t \in Sessions : at'[t] = "inside" => session'[t].pc # "outside"
    BY <1>4, OnlyOne DEF StepGood, Going
  <1>8. TypeInv'
    BY <1>3, <1>6, <1>7 DEF TypeInv, StepGood, JournalOK, LeftOK
  <1>9. \A t \in Sessions : at'[t] = "inside" => CallInv(session[t])'
    <2>1. SUFFICES ASSUME NEW t \in Sessions, at'[t] = "inside" PROVE CallInv(session[t])'
      OBVIOUS
    <2>2. t = s
      BY <1>4, <2>1, OnlyOne
    <2> QED
      BY <2>2 DEF StepGood
  <1> QED
    BY <1>8, <1>9 DEF ProjectInv, StepGood

LEMMA RecoverySteps ==
  ASSUME TypeInv, ProjectInv, NEW s \in Sessions, RecoveryStep(s)
  PROVE  /\ at[s] = "inside" /\ StepGood(s)
         /\ UNCHANGED <<touched, edited, removed, told, budget, lockVars>>
  <1>1. ReadJournal(s) => StepGood(s)
    BY ReadJournalGood
  <1>2. Inspect(s) => StepGood(s)
    BY InspectGood
  <1>3. ProveCommit(s) => StepGood(s)
    BY ProveCommitGood
  <1>4. StartRollback(s) => StepGood(s)
    BY StartRollbackGood
  <1>5. Tidy(s) => StepGood(s)
    BY TidyGood
  <1>6. Roll(s) => StepGood(s)
    BY RollGood
  <1>7. NameCapture(s) => StepGood(s)
    BY NameCaptureGood
  <1>8. Capture(s) => StepGood(s)
    BY CaptureGood
  <1>9. Captured(s) => StepGood(s)
    BY CapturedGood
  <1>10. Restore(s) => StepGood(s)
    BY RestoreGood
  <1>11. Restored(s) => StepGood(s)
    BY RestoredGood
  <1>12. Clean(s) => StepGood(s)
    BY CleanGood
  <1>13. FinishRollback(s) => StepGood(s)
    BY FinishRollbackGood
  <1>14. Recovered(s) => StepGood(s)
    BY RecoveredGood
  <1>15. StepGood(s)
    BY <1>1, <1>2, <1>3, <1>4, <1>5, <1>6, <1>7, <1>8, <1>9, <1>10, <1>11, <1>12, <1>13, <1>14
       DEF RecoveryStep
  <1>16. at[s] = "inside" /\ UNCHANGED <<touched, edited, removed, told, budget, lockVars>>
    BY DEF RecoveryStep, At, others, ReadJournal, Inspect, ProveCommit, StartRollback, Tidy,
           Roll, NameCapture, Capture, Captured, Restore, Restored, Clean, FinishRollback,
           Recovered
  <1> QED
    BY <1>15, <1>16

LEMMA ApplySteps ==
  ASSUME TypeInv, ProjectInv, NEW s \in Sessions, ApplyStep(s)
  PROVE  at[s] = "inside" /\ StepGood(s) /\ UNCHANGED <<edited, budget, lockVars>>
  <1>1. Plan(s) => StepGood(s)
    BY PlanGood
  <1>2. Stage(s) => StepGood(s)
    BY StageGood
  <1>3. Mark(s) => StepGood(s)
    BY MarkGood
  <1>4. Check(s) => StepGood(s)
    BY CheckGood
  <1>5. MoveOriginal(s) => StepGood(s)
    BY MoveOriginalGood
  <1>6. VerifyOriginal(s) => StepGood(s)
    BY VerifyOriginalGood
  <1>7. Publish(s) => StepGood(s)
    BY PublishGood
  <1>8. Unstage(s) => StepGood(s)
    BY UnstageGood
  <1>9. Commit(s) => StepGood(s)
    BY CommitGood
  <1>10. Discard(s) => StepGood(s)
    BY DiscardGood
  <1>11. StepGood(s)
    BY <1>1, <1>2, <1>3, <1>4, <1>5, <1>6, <1>7, <1>8, <1>9, <1>10 DEF ApplyStep
  <1>12. at[s] = "inside" /\ UNCHANGED <<edited, budget, lockVars>>
    BY DEF ApplyStep, At, others, Plan, Stage, Mark, Check, MoveOriginal, VerifyOriginal,
           Publish, Unstage, Commit, Discard
  <1> QED
    BY <1>11, <1>12

\* A call changes only its own state.
LEMMA StepSets ==
  ASSUME NEW s \in Sessions, RecoveryStep(s) \/ ApplyStep(s)
  PROVE  \E new : Set(s, new)
  <1>1. RecoveryStep(s) => \E new : Set(s, new)
    BY DEF RecoveryStep, ReadJournal, Inspect, ProveCommit, StartRollback, Tidy, Roll,
           NameCapture, Capture, Captured, Restore, Restored, Clean, FinishRollback, Recovered,
           RemoveKnown, Throw, Goto
  <1>2. ApplyStep(s) => \E new : Set(s, new)
    BY DEF ApplyStep, Plan, Stage, Mark, Check, MoveOriginal, VerifyOriginal, Publish, Unstage,
           Commit, Discard, RemoveKnown, Throw, Goto, Goes, Onward
  <1> QED
    BY <1>1, <1>2

\* Only a journal that names changes gets another state.
LEMMA StepJournal ==
  ASSUME TypeInv, ProjectInv, NEW s \in Sessions, RecoveryStep(s) \/ ApplyStep(s)
  PROVE  JournalOK'
  <1>1. JournalOK
    BY DEF TypeInv, JournalOK
  <1>2. CASE UNCHANGED journal
    BY <1>1, <1>2 DEF JournalOK
  <1>3. ASSUME NEW state \in JournalStates \ {"none"}, WriteState(state), journal.state # "none"
        PROVE  JournalOK'
    BY <1>1, <1>3 DEF JournalOK, WriteState
  <1>4. CASE ProveCommit(s) \/ StartRollback(s)
    <2>1. journal.state # "none"
      BY <1>4, CallFacts DEF ProveCommit, StartRollback, At, CallInv, Inspecting, Final
    <2>2. "complete" \in JournalStates \ {"none"} /\ "rolling-back" \in JournalStates \ {"none"}
      BY DEF JournalStates, Final
    <2> QED
      BY <1>3, <1>4, <2>1, <2>2 DEF ProveCommit, StartRollback
  <1>5. CASE FinishRollback(s)
    <2>1. journal.state # "none"
      BY <1>5, CallFacts DEF FinishRollback, At, CallInv, Undoing
    <2>2. "rollback-incomplete" \in JournalStates \ {"none"}
          /\ "rolled-back" \in JournalStates \ {"none"}
      BY DEF JournalStates, Final
    <2> QED
      BY <1>3, <1>5, <2>1, <2>2 DEF FinishRollback
  <1>6. CASE Mark(s) \/ Commit(s)
    <2>1. journal.state # "none"
      BY <1>6, CallFacts DEF Mark, Commit, At, CallInv, Marking, Committing
    <2>2. "applying" \in JournalStates \ {"none"} /\ "complete" \in JournalStates \ {"none"}
      BY DEF JournalStates, Final
    <2> QED
      BY <1>3, <1>6, <2>1, <2>2 DEF Mark, Commit
  <1>7. CASE Plan(s)
    <2> DEFINE changes == {p \in Paths : Data(p, "dest") = Before[p]}
    <2>1. CASE UNCHANGED journal
      BY <1>2, <2>1
    <2>2. CASE changes # {} /\ journal' = [state |-> "preparing", changes |-> changes]
      <3>1. changes \in SUBSET Paths /\ "preparing" \in JournalStates
        BY DEF JournalStates
      <3> HIDE DEF changes
      <3> QED
        BY <2>2, <3>1 DEF JournalOK
    <2> QED
      BY <1>7, <2>1, <2>2 DEF Plan
  <1> QED
    BY <1>2, <1>4, <1>5, <1>6, <1>7
       DEF RecoveryStep, ApplyStep, ReadJournal, Inspect, Tidy, Roll, NameCapture, Capture,
           Captured, Restore, Restored, Clean, Recovered, Stage, Check, MoveOriginal,
           VerifyOriginal, Publish, Unstage, Discard

LEMMA WorkerKeeps ==
  ASSUME TypeInv, ProjectInv, MutualExclusion, NEW s \in Sessions,
         RecoveryStep(s) \/ ApplyStep(s)
  PROVE  TypeInv' /\ ProjectInv'
  <1>1. at[s] = "inside" /\ StepGood(s) /\ UNCHANGED lockVars
    BY RecoverySteps, ApplySteps
  <1>2. LeftOK'
    <2>1. LeftOK
      BY DEF TypeInv, TypeOK, LeftOK
    <2>2. CASE UNCHANGED <<touched, edited, removed, told, budget>>
      BY <2>1, <2>2 DEF LeftOK
    <2>3. CASE Plan(s)
      BY <2>1, <2>2, <2>3 DEF Plan, LeftOK
    <2>4. CASE Unstage(s)
      <3>1. at[s] = "inside" /\ session[s].pc \in Publishing
        BY <2>4 DEF Unstage, At, Publishing
      <3>2. Applied(s) \in Paths
        BY <3>1, CallFacts DEF CallInv, Applying, Publishing, Applied
      <3> QED
        BY <2>1, <2>4, <3>2 DEF Unstage, RemovedBefore, LeftOK
    <2> QED
      BY <2>2, <2>3, <2>4, RecoverySteps DEF ApplyStep, others, Stage, Mark, Check, MoveOriginal,
         VerifyOriginal, Publish, Commit, Discard
  <1> QED
    BY <1>1, <1>2, StepSets, StepJournal, WorkStep

(***************************************************************************)
(* The user.                                                               *)
(***************************************************************************)
\* Whatever the user does at p, the recovery files of p stay present or absent, and
\* nothing is expected any more of what p contains.
LEMMA UserCalls ==
  ASSUME TypeInv, ProjectInv, NEW p \in Paths, touched' = touched \cup {p},
         UNCHANGED <<journal, session, told, at>>,
         \A q \in Paths \ {p}, m \in Names : Data(q, m)' = Data(q, m),
         \A m \in Names \ {"dest"} : Data(p, m)' = Absent <=> Data(p, m) = Absent,
         NEW s \in Sessions, at[s] = "inside"
  PROVE  CallInv(session[s])'
  <1> DEFINE x == session[s]
  <1>1. /\ Going(x, journal.changes) /\ CallInv(x) /\ journal.changes \subseteq Paths
        /\ x.todo \subseteq Paths
        /\ x.todo # {} => First(x.todo) \in Paths /\ Last(x.todo) \in Paths
    BY CallFacts
  <1>2. ~Calm(session[s])'
    BY DEF Calm
  <1>3. \A q \in Paths, m \in Names \ {"dest"} : Data(q, m)' = Absent <=> Data(q, m) = Absent
    OBVIOUS
  <1>4. \A q \in Paths : Bare(q) => Bare(q)'
    BY <1>3 DEF Bare
  <1>5. \A q \in Paths : Tidied(q, x.names) => Tidied(q, session[s].names)'
    <2>1. Gone(x.names) \subseteq Names \ {"dest"} /\ session'[s].names = x.names
      BY DEF Gone, Names
    <2> QED
      BY <1>3, <2>1 DEF Tidied
  <1>6. \A q \in Paths : Waiting(q) => Waiting(q)'
    BY <1>3 DEF Waiting, Staged, Names
  <1>7. Inspecting(x) => Inspecting(session[s])'
    BY <1>1 DEF Inspecting, Recovering, Untouched, Names
  <1>8. Tidying(x) => Tidying(session[s])'
    BY <1>1, <1>4, <1>5 DEF Tidying, Recovering
  <1>9. Undoing(x) => Undoing(session[s])'
    BY <1>1, <1>2, <1>4 DEF Undoing, Recovering, Names
  <1>10. ASSUME NEW q \in Paths, UndoneAt(x, q) PROVE UndoneAt(session[s], q)'
    BY <1>3, <1>5, <1>10 DEF UndoneAt, Names
  <1>11. Planning(x) => Planning(session[s])'
    BY <1>1, <1>4 DEF Planning
  <1>12. Staging(x) => Staging(session[s])'
    BY <1>1, <1>4, <1>6 DEF Staging, Names
  <1>13. Marking(x) => Marking(session[s])'
    BY <1>1, <1>6 DEF Marking
  <1>14. Applying(x) => Applying(session[s])'
    BY <1>1, <1>6 DEF Applying, Untouched, Names
  <1>15. ASSUME NEW q \in Paths, AppliedAt(x, q) PROVE AppliedAt(session[s], q)'
    BY <1>3, <1>6, <1>15 DEF AppliedAt, Staged, Names
  <1>16. Committing(x) => Committing(session[s])'
    BY <1>1 DEF Committing, Untouched, Names
  <1>17. x.pc \in RollPlaces => UndoneAt(session[s], Last(session[s].todo))'
    <2>1. SUFFICES ASSUME x.pc \in RollPlaces PROVE UndoneAt(session[s], Last(session[s].todo))'
      OBVIOUS
    <2>2. PICK q \in Paths : q = Last(x.todo) /\ UndoneAt(x, q)
      BY <1>1, <2>1 DEF CallInv
    <2>3. UndoneAt(session[s], q)' /\ q = Last(session'[s].todo)
      BY <1>10, <2>2
    <2> QED
      BY <2>3 DEF UndoneAt
  <1>18. x.pc \in Publishing => AppliedAt(session[s], First(session[s].todo))'
    <2>1. SUFFICES ASSUME x.pc \in Publishing
                   PROVE  AppliedAt(session[s], First(session[s].todo))'
      OBVIOUS
    <2>2. PICK q \in Paths : q = First(x.todo) /\ AppliedAt(x, q)
      BY <1>1, <2>1 DEF CallInv, Applying, Publishing
    <2>3. AppliedAt(session[s], q)' /\ q = First(session'[s].todo)
      BY <1>15, <2>2
    <2> QED
      BY <2>3 DEF AppliedAt
  <1>19. \A q \in journal.changes : Bare(q) => Bare(q)'
    BY <1>1, <1>4
  <1> QED
    BY <1>1, <1>2, <1>7, <1>8, <1>9, <1>11, <1>12, <1>13, <1>14, <1>16, <1>17, <1>18, <1>19
       DEF CallInv, Recovering, Publishing

LEMMA UserFiles ==
  ASSUME TypeInv, ProjectInv, NEW p \in Paths, touched' = touched \cup {p},
         UNCHANGED <<journal, told>>,
         \A q \in Paths \ {p}, m \in Names : Data(q, m)' = Data(q, m),
         \A m \in Names \ {"dest"} : Data(p, m)' = Absent <=> Data(p, m) = Absent,
         \A q \in Paths \ {p} : edited'[q] = edited[q],
         edited'[p] # Absent => edited'[p] \notin {Before[p], After[p]}
                                /\ Data(p, "dest")' = edited'[p],
         removed' \ {p} \subseteq removed,
         p \in removed' => /\ Absent \notin {Before[p], After[p]}
                           /\ \A m \in {"dest", "staging", "rollback"} : Data(p, m)' = Absent
  PROVE  FilesInv'
  <1>1. FilesInv /\ removed \subseteq Paths /\ journal.changes \subseteq Paths
    BY DEF ProjectInv, TypeInv, TypeOK
  <1>2. OthersBare'
    BY <1>1 DEF FilesInv, OthersBare, Bare
  <1>3. DeletedForGood'
    <2>1. SUFFICES ASSUME NEW q \in removed'
                   PROVE  /\ Absent \notin {Before[q], After[q]}
                          /\ Data(q, "dest")' = Absent
                          /\ Data(q, "backup")' = Absent \/
                               (Data(q, "staging")' = Absent /\ Data(q, "rollback")' = Absent)
      BY DEF DeletedForGood
    <2>2. CASE q = p
      BY <2>1, <2>2
    <2>3. CASE q # p
      BY <1>1, <2>1, <2>3 DEF FilesInv, DeletedForGood, Names
    <2> QED
      BY <2>2, <2>3
  <1>4. EditsKept'
    <2>1. ASSUME NEW q \in Paths, edited'[q] # Absent
          PROVE  edited'[q] \notin {Before[q], After[q]} /\ \E m \in Names : Data(q, m)' = edited'[q]
      <3>1. CASE q = p
        BY <2>1, <3>1 DEF Names
      <3>2. CASE q # p
        BY <1>1, <2>1, <3>2 DEF FilesInv, EditsKept
      <3> QED
        BY <3>1, <3>2
    <2> QED
      BY <2>1 DEF EditsKept
  <1>5. AllLegal'
    <2>1. ASSUME NEW q \in Untouched' PROVE Legal(q)'
      <3>1. q # p /\ q \in Untouched /\ q \in Paths
        BY <1>1, <2>1 DEF Untouched
      <3> QED
        BY <1>1, <3>1 DEF FilesInv, AllLegal, Legal, Names
    <2> QED
      BY <2>1 DEF AllLegal
  <1> QED
    BY <1>1, <1>2, <1>3, <1>4, <1>5 DEF FilesInv, ToldTruly

LEMMA UserStep ==
  ASSUME TypeInv, ProjectInv, NEW p \in Paths, UserActs(p), FilesOK', DOMAIN edited' = Paths,
         \A q \in Paths \ {p}, m \in Names : Data(q, m)' = Data(q, m),
         \A m \in Names \ {"dest"} : Data(p, m)' = Absent <=> Data(p, m) = Absent,
         \A q \in Paths \ {p} : edited'[q] = edited[q],
         edited'[p] # Absent => edited'[p] \notin {Before[p], After[p]}
                                /\ Data(p, "dest")' = edited'[p],
         removed' \ {p} \subseteq removed,
         p \in removed' => /\ Absent \notin {Before[p], After[p]}
                           /\ \A m \in {"dest", "staging", "rollback"} : Data(p, m)' = Absent
  PROVE  TypeInv' /\ ProjectInv'
  <1>1. /\ touched' = touched \cup {p} /\ UNCHANGED <<journal, session, told, at, claims, toScan>>
        /\ budget' = [budget EXCEPT !.edits = @ - 1] /\ budget.edits > 0
    BY DEF UserActs, lockVars
  <1>2. FilesInv'
    BY <1>1, UserFiles
  <1>3. \A s \in Sessions : at'[s] = "inside" => CallInv(session[s])'
    BY <1>1, UserCalls
  <1>4. budget' \in [edits : 0..MaxEdits, faults : 0..MaxFaults]
    BY <1>1, ProjectConstants DEF TypeInv
  <1>5. removed' \subseteq Paths
    BY DEF TypeInv, TypeOK
  <1>6. TypeOK'
    BY <1>1, <1>5 DEF TypeInv, TypeOK, LockTypeOK, FilesOK
  <1> QED
    BY <1>1, <1>2, <1>3, <1>4, <1>6 DEF TypeInv, ProjectInv

LEMMA UserKeeps ==
  ASSUME TypeInv, ProjectInv, User
  PROVE  TypeInv' /\ ProjectInv'
  <1>1. PICK p \in Paths : Delete(p) \/ \E data \in Edits : Overwrite(p, data) \/ Recreate(p, data)
    BY DEF User
  <1>2. /\ files[p]["dest"] = Absent <=> Data(p, "dest") = Absent
        /\ \A m \in Names : files[p][m] = Absent <=> Data(p, m) = Absent
    BY HasData DEF Names
  <1>3. /\ DOMAIN files = Paths /\ DOMAIN files[p] = Names /\ DOMAIN edited = Paths
        /\ "dest" \in Names
    BY DEF TypeInv, FilesOK, Names
  <1>4. CASE Delete(p)
    <2>1. /\ files[p]["dest"] # Absent /\ UserActs(p)
          /\ files' = [files EXCEPT ![p]["dest"] = Absent]
          /\ edited' = [edited EXCEPT ![p] = Absent]
          /\ removed' = IF Data(p, "dest") = After[p] /\ files[p]["staging"] = Absent
                           /\ files[p]["rollback"] = Absent /\ Before[p] # Absent
                        THEN removed \cup {p} ELSE removed
      BY <1>4 DEF Delete
    <2>2. FilesOK' /\ Puts(p, "dest", Absent)
      BY <1>3, <2>1, FilesUnlinked DEF Unlink
    <2>3. \A q \in Paths, m \in Names : Data(q, m)' = IF q = p /\ m = "dest" THEN Absent
                                                      ELSE Data(q, m)
      BY <2>2 DEF Puts
    <2>4. p \notin removed
      BY <1>2, <2>1 DEF ProjectInv, FilesInv, DeletedForGood
    <2>5. p \in removed' => /\ Absent \notin {Before[p], After[p]}
                            /\ \A m \in {"dest", "staging", "rollback"} : Data(p, m)' = Absent
      BY <1>2, <2>1, <2>3, <2>4 DEF Names
    <2>6. removed' \ {p} \subseteq removed
      BY <2>1
    <2>7. /\ DOMAIN edited' = Paths /\ edited'[p] = Absent
          /\ \A q \in Paths \ {p} : edited'[q] = edited[q]
      BY <1>3, <2>1
    <2>8. \A q \in Paths \ {p}, m \in Names : Data(q, m)' = Data(q, m)
      BY <2>3
    <2>9. \A m \in Names \ {"dest"} : Data(p, m)' = Absent <=> Data(p, m) = Absent
      BY <2>3
    <2> QED
      BY <2>1, <2>2, <2>5, <2>6, <2>7, <2>8, <2>9, UserStep
  <1>5. ASSUME NEW data \in Edits, Overwrite(p, data) \/ Recreate(p, data),
               FilesOK', Data(p, "dest")' = data,
               \A q \in Paths \ {p}, m \in Names : Data(q, m)' = Data(q, m),
               \A m \in Names \ {"dest"} : Data(p, m)' = Absent <=> Data(p, m) = Absent
        PROVE  TypeInv' /\ ProjectInv'
    <2>1. UserActs(p) /\ Remembered(p, data) /\ removed' = removed \ {p}
      BY <1>5 DEF Overwrite, Recreate
    <2>2. /\ DOMAIN edited' = Paths /\ \A q \in Paths \ {p} : edited'[q] = edited[q]
          /\ edited'[p] = IF data \in {Before[p], After[p]} THEN Absent ELSE data
      BY <1>3, <2>1 DEF Remembered
    <2>3. edited'[p] # Absent => edited'[p] \notin {Before[p], After[p]}
                                 /\ Data(p, "dest")' = edited'[p]
      BY <1>5, <2>2
    <2>4. removed' \ {p} \subseteq removed /\ p \notin removed'
      BY <2>1
    <2> QED
      BY <1>5, <2>1, <2>2, <2>3, <2>4, UserStep
  <1>6. ASSUME NEW data \in Edits, Recreate(p, data) PROVE TypeInv' /\ ProjectInv'
    <2>1. files' = [files EXCEPT ![p]["dest"] = File(1 + budget.edits, data)] /\ budget.edits > 0
      BY <1>6 DEF Recreate, UserActs
    <2>2. /\ 1 + budget.edits \in Inodes /\ data # Absent
          /\ data \in Edits \cup {"torn"} \cup {After[q] : q \in Paths}
      BY <2>1, ProjectConstants DEF Inodes, TypeInv
    <2>3. FilesOK' /\ Puts(p, "dest", data)
      <3> DEFINE ino == 1 + budget.edits
      <3>1. ino \in Inodes /\ files' = [files EXCEPT ![p]["dest"] = File(ino, data)]
        BY <2>1, <2>2
      <3> HIDE DEF ino
      <3> QED
        BY <1>3, <2>2, <3>1, FilesWritten
    <2> QED
      BY <1>3, <1>5, <1>6, <2>3 DEF Puts
  <1>7. ASSUME NEW data \in Edits, Overwrite(p, data) PROVE TypeInv' /\ ProjectInv'
    <2>1. /\ files[p]["dest"] # Absent
          /\ files' = [files EXCEPT ![p] = [n \in Names |->
                IF files[p][n] # Absent /\ files[p][n].ino = files[p]["dest"].ino
                THEN File(files[p][n].ino, data) ELSE files[p][n]]]
      BY <1>7 DEF Overwrite
    <2>2. data # Absent /\ data \in Edits \cup {"torn"} \cup {After[q] : q \in Paths}
      BY ProjectConstants
    <2>3. ASSUME NEW n \in Names, files[p][n] # Absent
          PROVE  /\ File(files[p][n].ino, data) # Absent
                 /\ File(files[p][n].ino, data).data = data
                 /\ File(files[p][n].ino, data).ino \in Inodes
      <3>1. files[p][n].ino \in Inodes
        BY <2>3 DEF TypeInv, FilesOK
      <3> QED
        BY <2>2, <3>1, ProjectConstants DEF Inodes, File
    <2>4. \A n \in Names : files'[p][n] =
            IF files[p][n] # Absent /\ files[p][n].ino = files[p]["dest"].ino
            THEN File(files[p][n].ino, data) ELSE files[p][n]
      BY <1>3, <2>1
    <2>5. /\ DOMAIN files' = Paths /\ DOMAIN files'[p] = Names
          /\ \A q \in Paths \ {p} : files'[q] = files[q]
      BY <1>3, <2>1
    <2>6. \A n \in Names : /\ files'[p][n] = Absent <=> files[p][n] = Absent
                           /\ files'[p][n] # Absent =>
                                files'[p][n].data # Absent /\ files'[p][n].ino \in Inodes
      BY <2>2, <2>3, <2>4 DEF TypeInv, FilesOK
    <2>7. FilesOK'
      BY <2>5, <2>6 DEF TypeInv, FilesOK
    <2>8. Data(p, "dest")' = data
      BY <1>3, <2>1, <2>3, <2>4 DEF Data
    <2>9. \A q \in Paths \ {p}, m \in Names : Data(q, m)' = Data(q, m)
      BY <2>5 DEF Data
    <2>10. \A m \in Names : Data(p, m)' = Absent <=> Data(p, m) = Absent
      BY <1>2, <2>6 DEF Data
    <2> QED
      BY <1>5, <1>7, <2>7, <2>8, <2>9, <2>10
  <1> QED
    BY <1>1, <1>4, <1>6, <1>7

\* Nothing that the invariant says of a call changes.
LEMMA CallSame ==
  ASSUME NEW s \in Sessions, CallInv(session[s]), session'[s] = session[s],
         UNCHANGED <<files, journal, touched>>
  PROVE  CallInv(session[s])'
  <1> DEFINE x == session[s]
  <1>1. \A p, n : Data(p, n)' = Data(p, n)
    BY DEF Data
  <1>2. \A p : Bare(p)' = Bare(p)
    BY <1>1 DEF Bare
  <1>3. \A p : Waiting(p)' = Waiting(p)
    BY <1>1 DEF Waiting, Staged
  <1>4. Calm(session[s])' = Calm(x)
    BY <1>1 DEF Calm
  <1>5. Inspecting(x) => Inspecting(session[s])'
    BY <1>1 DEF Inspecting, Recovering, Untouched
  <1>6. Tidying(x) => Tidying(session[s])'
    BY <1>1, <1>2 DEF Tidying, Tidied, Recovering
  <1>7. Undoing(x) => Undoing(session[s])'
    BY <1>1, <1>2, <1>4 DEF Undoing, Recovering
  <1>8. UndoneAt(x, Last(x.todo)) => UndoneAt(session[s], Last(session[s].todo))'
    BY <1>1 DEF UndoneAt, Tidied
  <1>9. Planning(x) => Planning(session[s])'
    BY <1>2 DEF Planning
  <1>10. Staging(x) => Staging(session[s])'
    BY <1>1, <1>2, <1>3 DEF Staging
  <1>11. Marking(x) => Marking(session[s])'
    BY <1>3 DEF Marking
  <1>12. Applying(x) => Applying(session[s])'
    BY <1>1, <1>3 DEF Applying, Untouched
  <1>13. AppliedAt(x, First(x.todo)) => AppliedAt(session[s], First(session[s].todo))'
    BY <1>1, <1>3 DEF AppliedAt, Staged
  <1>14. Committing(x) => Committing(session[s])'
    BY <1>1 DEF Committing, Untouched
  <1> QED
    BY <1>2, <1>4, <1>5, <1>6, <1>7, <1>8, <1>9, <1>10, <1>11, <1>12, <1>13, <1>14
       DEF CallInv, Recovering

(***************************************************************************)
(* Faults, and the lock around the calls.                                  *)
(***************************************************************************)
\* A staging file that was being written is torn.
LEMMA TornKeeps ==
  ASSUME TypeInv, ProjectInv, NEW s \in Sessions, TearStaging(s),
         UNCHANGED <<journal, touched, edited, removed, told>>
  PROVE  FilesOK' /\ FilesInv'
  <1> DEFINE x == session[s]
  <1>1. at[s] = "inside" /\ x.pc = "stage"
    BY DEF TearStaging, At
  <1>2. Staging(x) /\ x.todo # {} /\ journal.state = "preparing"
    BY <1>1, CallFacts DEF CallInv, Staging
  <1>3. PICK p \in journal.changes :
            /\ p \in Paths /\ p = First(x.todo) /\ p \in x.todo
            /\ Going(x, journal.changes) /\ CallInv(x)
            /\ journal.changes \in SUBSET Paths /\ FilesInv
            /\ Before[p] # After[p]
            /\ p \notin touched => Legal(p)
    BY <1>1, <1>2, LoopFacts
  <1>4. Bare(p) /\ (p \notin touched => Data(p, "dest") = Before[p])
    BY <1>2, <1>3 DEF Staging
  <1>5. files' = [files EXCEPT ![p]["staging"] = File(1, "torn")]
    BY <1>3 DEF TearStaging, Applied
  <1>6. FilesOK' /\ Puts(p, "staging", "torn")
    <2>1. "staging" \in Names /\ 1 \in Inodes /\ "torn" # Absent
          /\ "torn" \in Edits \cup {"torn"} \cup {After[q] : q \in Paths}
      BY ProjectConstants DEF Names, Inodes
    <2> QED
      BY <1>3, <1>5, <2>1, FilesWritten
  <1>7. Data(p, "staging") = Absent /\ Data(p, "backup") = Absent /\ Data(p, "rollback") = Absent
    BY <1>4 DEF Bare, Names
  <1>8. p \notin touched => Legal(p)'
    BY <1>2, <1>3, <1>4, <1>6, <1>7 DEF Legal, Puts, Names
  <1> QED
    BY <1>3, <1>6, <1>7, <1>8, PutKeeps DEF Kept, Names

LEMMA FaultKeeps ==
  ASSUME TypeInv, ProjectInv, MutualExclusion, NEW s \in Sessions, Fail(s) \/ FailStaging(s)
  PROVE  TypeInv' /\ ProjectInv'
  <1>1. /\ at[s] = "inside" /\ UNCHANGED <<journal, touched, edited, removed, told, lockVars>>
        /\ budget' = [budget EXCEPT !.faults = @ - 1] /\ budget.faults > 0
        /\ session' = [session EXCEPT ![s] = [Threw(session[s]) EXCEPT !.sound = FALSE]]
    BY DEF Fail, FailStaging, TearStaging, At, Working, Set
  <1>2. session'[s] = [Threw(session[s]) EXCEPT !.sound = FALSE]
    BY <1>1 DEF TypeInv
  <1>3. ~Calm(session[s])'
    <2>1. Going(Threw(session[s]), journal.changes)
      BY <1>1, CallFacts, ThrewFacts
    <2>2. ~session'[s].sound
      BY <1>2, <2>1 DEF Going, Calls
    <2> QED
      BY <2>2 DEF Calm
  <1>4. Going(session'[s], journal.changes) /\ CallInv(session[s])'
    BY <1>1, <1>2, <1>3, ThrewKeeps
  <1>5. FilesOK' /\ FilesInv'
    <2>1. CASE Fail(s)
      BY <1>1, <2>1, QuietFiles DEF Fail
    <2>2. CASE FailStaging(s)
      BY <1>1, <2>2, TornKeeps DEF FailStaging
    <2> QED
      BY <2>1, <2>2
  <1>6. StepGood(s) /\ \E new : Set(s, new)
    BY <1>1, <1>4, <1>5 DEF StepGood, Set
  <1>7. JournalOK' /\ LeftOK'
    BY <1>1, ProjectConstants DEF TypeInv, TypeOK, JournalOK, LeftOK
  <1> QED
    BY <1>1, <1>6, <1>7, WorkStep

LEMMA CrashKeeps ==
  ASSUME TypeInv, ProjectInv, MutualExclusion, LockTypeOK', NEW s \in Sessions, Crash(s)
  PROVE  TypeInv' /\ ProjectInv'
  <1>1. /\ UNCHANGED <<journal, touched, edited, removed, told>>
        /\ budget' = [budget EXCEPT !.faults = @ - 1] /\ budget.faults > 0
        /\ session' = [session EXCEPT ![s] = Outside]
        /\ at' = [at EXCEPT ![s] = "dead"]
        /\ TearStaging(s) \/ UNCHANGED files
    BY DEF Crash, Die
  <1>2. session \in [Sessions -> Calls] /\ Outside \in Calls /\ at \in [Sessions -> LockPlaces]
    BY DEF TypeInv, TypeOK, LockTypeOK, Outside, Calls, Places
  <1>3. /\ session' \in [Sessions -> Calls] /\ session'[s] = Outside /\ at'[s] = "dead"
        /\ \A t \in Sessions \ {s} : session'[t] = session[t] /\ at'[t] = at[t]
    BY <1>1, <1>2
  <1>4. FilesOK' /\ FilesInv'
    BY <1>1, QuietFiles, TornKeeps
  <1>5. \A t \in Sessions : session'[t].todo \subseteq journal'.changes
    BY <1>1, <1>3 DEF TypeInv, TypeOK, Outside
  <1>6. TypeOK'
    BY <1>1, <1>3, <1>4, <1>5 DEF TypeInv, TypeOK, FilesOK
  <1>7. \A t \in Sessions : at'[t] = "inside" => session'[t].pc # "outside"
    BY <1>3 DEF TypeInv
  <1>8. budget' \in [edits : 0..MaxEdits, faults : 0..MaxFaults]
    BY <1>1, ProjectConstants DEF TypeInv
  <1>9. TypeInv'
    BY <1>1, <1>3, <1>4, <1>6, <1>7, <1>8 DEF TypeInv
  <1>10. ASSUME NEW t \in Sessions, at'[t] = "inside" PROVE CallInv(session[t])'
    <2>1. t # s /\ at[t] = "inside" /\ session'[t] = session[t]
      BY <1>3, <1>10
    <2>2. at[s] # "inside"
      BY <2>1, OnlyOne
    <2>3. UNCHANGED files
      BY <1>1, <2>2 DEF TearStaging, At
    <2>4. CallInv(session[t])
      BY <2>1 DEF ProjectInv
    <2> QED
      BY <1>1, <2>1, <2>3, <2>4, CallSame
  <1> QED
    BY <1>4, <1>9, <1>10 DEF ProjectInv

LEMMA LockStepKeeps ==
  ASSUME TypeInv, ProjectInv, LockTypeOK', NEW s \in Sessions, Contend(s) \/ Replace(s),
         UNCHANGED applyVars
  PROVE  TypeInv' /\ ProjectInv'
  <1>1. \A t \in Sessions : at'[t] = "inside" <=> at[t] = "inside"
    BY DEF TypeInv, TypeOK, LockTypeOK, Contend, Replace, Claim, List, Release, ScanAbsent,
           ScanDead, ScanBusy
  <1>2. UNCHANGED <<files, journal, session, touched, edited, removed, told, budget>>
    BY DEF applyVars
  <1>3. FilesOK' /\ FilesInv'
    BY <1>2, QuietFiles
  <1>4. TypeInv'
    BY <1>1, <1>2, <1>3 DEF TypeInv, TypeOK
  <1>5. \A t \in Sessions : at'[t] = "inside" => CallInv(session[t])'
    BY <1>1, <1>2, CallSame DEF ProjectInv
  <1> QED
    BY <1>3, <1>4, <1>5 DEF ProjectInv

LEMMA OpenKeeps ==
  ASSUME TypeInv, ProjectInv, LockTypeOK', MutualExclusion', NEW s \in Sessions,
         NEW wants \in {"review", "apply"}, Open(s, wants)
  PROVE  TypeInv' /\ ProjectInv'
  <1>1. /\ UNCHANGED <<files, journal, touched, edited, removed, told, budget>>
        /\ at' = [at EXCEPT ![s] = "inside"]
        /\ session' = [session EXCEPT ![s] = [Outside EXCEPT !.pc = "read", !.wants = wants]]
    BY DEF Open, Enter, Set
  <1>2. session \in [Sessions -> Calls] /\ at \in [Sessions -> LockPlaces]
    BY DEF TypeInv, TypeOK, LockTypeOK
  <1>3. /\ [Outside EXCEPT !.pc = "read", !.wants = wants] \in Calls
        /\ [Outside EXCEPT !.pc = "read", !.wants = wants].pc = "read"
        /\ [Outside EXCEPT !.pc = "read", !.wants = wants].phase = "recover"
        /\ [Outside EXCEPT !.pc = "read", !.wants = wants].todo = {}
    BY DEF Outside, Calls, Places
  <1>4. /\ session' \in [Sessions -> Calls] /\ at'[s] = "inside"
        /\ session'[s].pc = "read" /\ session'[s].phase = "recover" /\ session'[s].todo = {}
        /\ \A t \in Sessions \ {s} : session'[t] = session[t] /\ at'[t] = at[t]
    BY <1>1, <1>2, <1>3
  <1>5. FilesOK' /\ FilesInv'
    BY <1>1, QuietFiles
  <1>6. TypeOK'
    BY <1>1, <1>4, <1>5 DEF TypeInv, TypeOK
  <1>7. TypeInv'
    BY <1>1, <1>4, <1>5, <1>6 DEF TypeInv
  <1>8. CallInv(session[s])'
    BY <1>4 DEF CallInv, Recovering, RollPlaces
  <1>9. ASSUME NEW t \in Sessions, at'[t] = "inside" PROVE t = s
    BY <1>4, <1>9 DEF MutualExclusion, Holders
  <1> QED
    BY <1>5, <1>7, <1>8, <1>9 DEF ProjectInv

LEMMA CloseKeeps ==
  ASSUME TypeInv, ProjectInv, MutualExclusion, LockTypeOK', NEW s \in Sessions, Close(s)
  PROVE  TypeInv' /\ ProjectInv'
  <1> DEFINE x == session[s]
  <1>1. /\ UNCHANGED <<files, journal, touched, edited, removed, budget>>
        /\ at[s] = "inside" /\ x.pc \in {"returned", "failed"}
        /\ at' = [at EXCEPT ![s] = "leaving"]
        /\ session' = [session EXCEPT ![s] = Outside]
        /\ told' = IF x.phase = "recover" THEN told
                   ELSE IF x.pc = "returned" THEN "receipt" ELSE "error"
    BY DEF Close, Leave, At, Set
  <1>2. session \in [Sessions -> Calls] /\ Outside \in Calls /\ at \in [Sessions -> LockPlaces]
    BY DEF TypeInv, TypeOK, LockTypeOK, Outside, Calls, Places
  <1>3. /\ session' \in [Sessions -> Calls] /\ session'[s] = Outside /\ at'[s] = "leaving"
        /\ \A t \in Sessions \ {s} : session'[t] = session[t] /\ at'[t] = at[t]
    BY <1>1, <1>2
  <1>4. \A t \in Sessions : at'[t] # "inside"
    BY <1>1, <1>3, OnlyOne
  <1>5. CallInv(x) /\ FilesInv
    BY <1>1 DEF ProjectInv
  <1>6. FilesOK' /\ SameData
    BY <1>1, FilesSame
  <1>7. FilesInv'
    <2>1. ToldTruly'
      BY <1>1, <1>5 DEF FilesInv, ToldTruly, CallInv
    <2>2. OthersBare' /\ DeletedForGood' /\ EditsKept' /\ AllLegal'
      <3>1. journal.changes \subseteq Paths /\ removed \subseteq Paths
        BY DEF TypeInv, TypeOK
      <3>2. OthersBare' /\ DeletedForGood' /\ EditsKept'
        BY <1>1, <1>5, <1>6, <3>1
           DEF FilesInv, OthersBare, Bare, DeletedForGood, EditsKept, SameData, Names
      <3>3. AllLegal'
        BY <1>1, <1>5, <1>6, <3>1 DEF FilesInv, AllLegal, Untouched, Legal, SameData, Names
      <3> QED
        BY <3>2, <3>3
    <2> QED
      BY <2>1, <2>2 DEF FilesInv
  <1>8. TypeOK'
    BY <1>1, <1>3, <1>6 DEF TypeInv, TypeOK, FilesOK, Outside
  <1>9. TypeInv'
    BY <1>1, <1>3, <1>4, <1>6, <1>8 DEF TypeInv
  <1> QED
    BY <1>4, <1>7, <1>9 DEF ProjectInv

(***************************************************************************)
(* The invariant, and what it gives.                                       *)
(***************************************************************************)
LEMMA NextProject ==
  TypeInv /\ ProjectInv /\ IInv /\ IInv' /\ [Next]_vars => TypeInv' /\ ProjectInv'
  <1> SUFFICES ASSUME TypeInv, ProjectInv, IInv, IInv', [Next]_vars
               PROVE  TypeInv' /\ ProjectInv'
    OBVIOUS
  <1>1. MutualExclusion
    BY IInvExcludes
  <1>2. MutualExclusion'
    BY IInvExcludes, PTL
  <1>3. LockTypeOK'
    BY DEF IInv
  <1>4. CASE User
    BY <1>4, UserKeeps
  <1>5. CASE Faults
    BY <1>1, <1>3, <1>5, FaultKeeps, CrashKeeps DEF Faults
  <1>6. ASSUME NEW s \in Sessions, SessionStep(s) PROVE TypeInv' /\ ProjectInv'
    <2>1. CASE (Contend(s) \/ Replace(s)) /\ UNCHANGED applyVars
      BY <1>3, <2>1, LockStepKeeps
    <2>2. CASE \E wants \in {"review", "apply"} : Open(s, wants)
      BY <1>2, <1>3, <2>2, OpenKeeps
    <2>3. CASE RecoveryStep(s) \/ ApplyStep(s)
      BY <1>1, <2>3, WorkerKeeps
    <2>4. CASE Close(s)
      BY <1>1, <1>3, <2>4, CloseKeeps
    <2> QED
      BY <1>6, <2>1, <2>2, <2>3, <2>4 DEF SessionStep
  <1>7. CASE UNCHANGED vars
    <2>1. /\ UNCHANGED <<files, journal, session, touched, edited, removed, told, budget>>
          /\ UNCHANGED <<at, claims, toScan>>
      BY <1>7 DEF vars, applyVars, lockVars
    <2>2. FilesOK' /\ FilesInv'
      BY <2>1, QuietFiles
    <2>3. TypeInv'
      BY <1>3, <2>1, <2>2 DEF TypeInv, TypeOK
    <2>4. \A s \in Sessions : at'[s] = "inside" => CallInv(session[s])'
      BY <2>1, CallSame DEF ProjectInv
    <2> QED
      BY <2>2, <2>3, <2>4 DEF ProjectInv
  <1> QED
    BY <1>4, <1>5, <1>6, <1>7 DEF Next

\* What the files hold at every place of a call, and what is left of it when it is gone.
THEOREM ProjectInvariance == Spec => [](TypeInv /\ ProjectInv)
  <1>1. Spec => []IInv
    BY ProjectFollowsLock, Invariance, PTL
  <1> QED
    BY <1>1, InitProject, NextProject, PTL DEF Spec

\* The files, the journal and the calls keep their types; outside the lock a session has no
\* state of a call.
THEOREM TypeOKAlways == Spec => []TypeOK
  <1>1. TypeInv => TypeOK
    BY DEF TypeInv
  <1> QED
    BY <1>1, ProjectInvariance, PTL

\* Whatever dies or fails in between, a finished apply has published every change or none
\* of them, apart from files the user has touched since (recoverWorkspaceJournal).
THEOREM AllOrNoneAlways == Spec => []AllOrNone
  <1>1. ProjectInv => AllOrNone
    BY DEF ProjectInv, FilesInv, AllLegal, Untouched, Legal, AllOrNone
  <1> QED
    BY <1>1, ProjectInvariance, PTL

\* Until the commit the original of every change exists under one of its names
\* (applySnapshot captures before it publishes, recovery cleans up last).
THEOREM OriginalKeptAlways == Spec => []OriginalKept
  <1>1. ProjectInv => OriginalKept
    BY DEF ProjectInv, FilesInv, AllLegal, Untouched, Legal, OriginalKept, Names
  <1> QED
    BY <1>1, ProjectInvariance, PTL

\* What the user wrote last is never lost ("user edit preserved").
THEOREM EditSurvivesAlways == Spec => []EditSurvives
  <1>1. ProjectInv => EditSurvives
    BY DEF ProjectInv, FilesInv, EditsKept, EditSurvives
  <1> QED
    BY <1>1, ProjectInvariance, PTL

\* A published file that the user deletes stays deleted ("deletion preserved"), if its
\* staging name is gone by then or is unlinked next by the same call: not when the process
\* dies, or the unlink fails, between the link and the unlink.
THEOREM DeletionKeptAlways == Spec => []DeletionKept
  <1>1. TypeInv /\ ProjectInv => DeletionKept
    <2> SUFFICES ASSUME TypeInv, ProjectInv, NEW p \in removed PROVE files[p]["dest"] = Absent
      BY DEF DeletionKept
    <2>1. p \in Paths /\ "dest" \in Names
      BY DEF TypeInv, TypeOK, Names
    <2> QED
      BY <2>1, HasData DEF ProjectInv, FilesInv, DeletedForGood
  <1> QED
    BY <1>1, ProjectInvariance, PTL

\* The caller gets a receipt only for an apply that is committed.
THEOREM ReceiptIsCommitAlways == Spec => []ReceiptIsCommit
  <1>1. ProjectInv => ReceiptIsCommit
    BY DEF ProjectInv, FilesInv, ToldTruly, ReceiptIsCommit
  <1> QED
    BY <1>1, ProjectInvariance, PTL

\* One session that is not disturbed settles what a dead or failed one left behind, unless
\* a staging file is torn, the user has written, or a file operation of the session has
\* failed: a torn file is not recognised, and no later recovery settles it.
THEOREM RecoverySettlesAlways == Spec => []RecoverySettles
  <1>1. ProjectInv => RecoverySettles
    BY DEF ProjectInv, CallInv, Calm, RecoverySettles, RollPlaces, Final
  <1> QED
    BY <1>1, ProjectInvariance, PTL

\* A committed apply is never taken back, and what is rolled back is never published by a
\* later recovery.
THEOREM FinalStaysAlways == Spec => FinalStays
  <1> DEFINE Stays == journal.state \in {"complete", "rolled-back"} =>
                         journal' = journal \/ journal'.state = "preparing"
  <1>1. TypeInv /\ ProjectInv /\ [Next]_vars => [Stays]_vars
    <2> SUFFICES ASSUME TypeInv, ProjectInv, [Next]_vars,
                        journal.state \in {"complete", "rolled-back"}
                 PROVE  journal' = journal \/ journal'.state = "preparing"
      OBVIOUS
    <2>1. CASE User \/ Faults
      BY <2>1 DEF User, Delete, Overwrite, Recreate, UserActs, Faults, Fail, FailStaging, Crash
    <2>2. ASSUME NEW s \in Sessions, RecoveryStep(s)
          PROVE  journal' = journal
      <3>1. ~ProveCommit(s) /\ ~StartRollback(s)
        BY CallFacts DEF ProveCommit, StartRollback, At, CallInv, Inspecting, Final
      <3>2. ~FinishRollback(s)
        BY CallFacts DEF FinishRollback, At, CallInv, Undoing
      <3> QED
        BY <2>2, <3>1, <3>2
           DEF RecoveryStep, ReadJournal, Inspect, Tidy, Roll, NameCapture, Capture, Captured,
               Restore, Restored, Clean, Recovered
    <2>3. ASSUME NEW s \in Sessions, ApplyStep(s)
          PROVE  journal' = journal \/ journal'.state = "preparing"
      <3>1. ~Mark(s) /\ ~Commit(s)
        BY CallFacts DEF Mark, Commit, At, CallInv, Marking, Committing
      <3> QED
        BY <2>3, <3>1
           DEF ApplyStep, Plan, Stage, Check, MoveOriginal, VerifyOriginal, Publish, Unstage,
               Discard
    <2>4. ASSUME NEW s \in Sessions, NEW wants \in {"review", "apply"}, Open(s, wants)
          PROVE  journal' = journal
      BY <2>4 DEF Open
    <2>5. ASSUME NEW s \in Sessions, Close(s) PROVE journal' = journal
      BY <2>5 DEF Close
    <2>6. CASE UNCHANGED vars
      BY <2>6 DEF vars, applyVars
    <2> QED
      BY <2>1, <2>2, <2>3, <2>4, <2>5, <2>6 DEF Next, SessionStep, applyVars
  <1> QED
    BY <1>1, ProjectInvariance, PTL DEF Spec, FinalStays
=============================================================================
