---------------------------- MODULE WorkspaceApply ----------------------------
(***************************************************************************)
(* Applying reviewed snapshot changes to the user's project, and the       *)
(* recovery of an apply that was interrupted (adapters/workspaceApply.ts,  *)
(* workspaceRecovery.ts, workspaceJournal.ts), inside the project lock.    *)
(*                                                                         *)
(* Every changed path has four names: the project file (dest), the new     *)
(* content (staging), the captured original (backup) and the published     *)
(* file captured by a rollback (rollback).  A file is an inode and its     *)
(* content; link gives one inode two names, and a write in place then      *)
(* shows under both.  A step ends at every await that touches a file or    *)
(* the journal: the user and a crash may come in between.                  *)
(***************************************************************************)
EXTENDS WorkspaceLocks, Naturals, FiniteSets, Sequences

CONSTANTS
    Paths,      \* the selected changes by their index, a set of numbers
    Before,     \* path -> content in the isolation baseline, or Absent
    After,      \* path -> content in the isolated workspace, or Absent
    Edits,      \* contents the user may write
    Absent,     \* no file, the null of the code
    MaxEdits,   \* bound: writes and deletions by the user
    MaxFaults   \* bound: deaths of a process and file operations that fail

VARIABLES
    files,      \* [Paths -> [Names -> file or Absent]]
    journal,    \* the newest journal file: state and changes
    session,    \* [Sessions -> local state of the call inside the lock]
    touched,    \* paths the user wrote or deleted since the journal was planned
    edited,     \* path -> what the user last wrote there, or Absent
    removed,    \* published files the user has deleted, once nothing beside them
                \* tells recovery that the apply was on its way to publish them
    told,       \* what the caller of the journal's apply was told
    budget      \* what is left of the two bounds

applyVars == <<files, journal, session, touched, edited, removed, told, budget>>

Names == {"dest", "staging", "backup", "rollback"}

File(ino, data) == [ino |-> ino, data |-> data]

\* The content under a name: contentHash of what is read there.
Data(p, n) == IF files[p][n] = Absent THEN Absent ELSE files[p][n].data

\* What removeKnownFile and inspectChange expect under each recovery name.
Expected(p, n) == IF n = "backup" THEN Before[p] ELSE After[p]

Final == {"none", "complete", "rolled-back"}

First(S) == CHOOSE p \in S : \A q \in S : p <= q
Last(S) == CHOOSE p \in S : \A q \in S : p >= q

\* pc: where the call is; phase: recovering before the operation, applying,
\* or undoing an apply that failed; wants: apply or only review; todo: the
\* changes the loop has left; names: recovery files cleanup has left;
\* installed: every change looked at was at its after hash; conflicts: a
\* rollback failed; sound: no file operation of this session failed.
Outside == [pc |-> "outside", phase |-> "recover", wants |-> "review", todo |-> {},
            names |-> <<>>, installed |-> FALSE, conflicts |-> FALSE, sound |-> TRUE]

ApplyInit ==
    /\ files = [p \in Paths |-> [n \in Names |->
                  IF n = "dest" /\ Before[p] # Absent THEN File(0, Before[p]) ELSE Absent]]
    /\ journal = [state |-> "none", changes |-> {}]
    /\ session = [s \in Sessions |-> Outside]
    /\ touched = {}
    /\ edited = [p \in Paths |-> Absent]
    /\ removed = {}
    /\ told = "nothing"
    /\ budget = [edits |-> MaxEdits, faults |-> MaxFaults]

-----------------------------------------------------------------------------
(* Helpers of the steps.  Every step is one of session s inside the lock.  *)

At(s, place) == at[s] = "inside" /\ session[s].pc = place
Set(s, new) == session' = [session EXCEPT ![s] = new]
Goto(s, place) == Set(s, [session[s] EXCEPT !.pc = place])
Goes(s, place, todo) == Set(s, [session[s] EXCEPT !.pc = place, !.todo = todo])

\* The change the apply loop, or the reversed rollback loop, works on.
Applied(s) == First(session[s].todo)
Undone(s) == Last(session[s].todo)

\* rename to a free name, exclusive link, unlink.
Rename(p, from, to) ==
    files' = [files EXCEPT ![p][to] = files[p][from], ![p][from] = Absent]
Link(p, from, to) == files' = [files EXCEPT ![p][to] = files[p][from]]
Unlink(p, n) == files' = [files EXCEPT ![p][n] = Absent]

WriteState(state) == journal' = [journal EXCEPT !.state = state]

\* The rollback loop goes on with the change before this one.
RollNext(x, conflict) ==
    LET left == x.todo \ {Last(x.todo)}
    IN  [x EXCEPT !.todo = left, !.conflicts = @ \/ conflict,
                  !.pc = IF left = {} THEN "finish" ELSE "roll"]

RollPlaces == {"roll", "name", "capture", "captured", "restore", "restored", "clean"}
ApplyPlaces == {"stage", "mark", "check", "original", "verify", "publish", "unstage",
                "commit", "discard"}

\* What an exception does where the session stands: inside the loop of
\* applySnapshot it starts the recovery of this journal, inside rollbackChange
\* it is collected as a conflict, everywhere else it ends the call.
Threw(x) ==
    CASE x.pc \in ApplyPlaces -> [x EXCEPT !.pc = "read", !.phase = "undo"]
      [] x.pc \in RollPlaces -> RollNext(x, TRUE)
      [] x.pc = "inspect" /\ x.todo # {} -> [x EXCEPT !.installed = FALSE, !.todo = @ \ {First(@)}]
      [] OTHER -> [x EXCEPT !.pc = "failed"]
Throw(s) == Set(s, Threw(session[s]))


\* What the user has done and the caller has been told stay as they are.
others == <<touched, edited, removed, told, budget, lockVars>>

\* removeKnownFile: an absent file is skipped, one with unexpected content is
\* preserved by throwing.
RemoveKnown(s, p, n, after) ==
    IF Data(p, n) \in {Absent, Expected(p, n)}
    THEN Unlink(p, n) /\ Set(s, after)
    ELSE Throw(s) /\ UNCHANGED files

Recoverables == <<"staging", "backup", "rollback">>

-----------------------------------------------------------------------------
(* recoverSourceApplies and recoverWorkspaceJournal.  Of the journals of   *)
(* the project only the newest can be unfinished: an apply starts only     *)
(* after a recovery of all of them has returned, and the recovery of a     *)
(* finished, tidied journal does nothing.                                  *)

\* The lock is taken for a review or for an apply.
Open(s, wants) ==
    /\ Enter(s)
    /\ Set(s, [Outside EXCEPT !.pc = "read", !.wants = wants])
    /\ UNCHANGED <<files, journal, touched, edited, removed, told, budget>>

\* Mutant: only a rolled back journal counts as finished.
ReadJournalAgain(s) ==
    /\ At(s, "read")
    /\ Set(s, [session[s] EXCEPT
          !.pc = IF journal.state \in {"none", "rolled-back"} THEN "tidy" ELSE "inspect",
          !.todo = journal.changes,
          !.names = Recoverables,
          !.installed = TRUE])
    /\ UNCHANGED <<files, journal, others>>

ReadJournal(s) ==
    /\ At(s, "read")
    /\ Set(s, [session[s] EXCEPT
          !.pc = IF journal.state \in Final THEN "tidy" ELSE "inspect",
          !.todo = journal.changes,
          !.names = Recoverables,
          !.installed = journal.state \notin {"rolling-back", "rollback-incomplete"}])
    /\ UNCHANGED <<files, journal, others>>

\* inspectChange: every recovery file that is present has the content that
\* the journal expects.
Recognised(p) == \A n \in Names \ {"dest"} : Data(p, n) \in {Absent, Expected(p, n)}

\* Mutant: what lies at the destination is not compared.
InspectRecovery(s) ==
    /\ At(s, "inspect")
    /\ session[s].todo # {}
    /\ LET p == Applied(s)
       IN  Set(s, [session[s] EXCEPT !.todo = @ \ {p}, !.installed = @ /\ Recognised(p)])
    /\ UNCHANGED <<files, journal, others>>

Inspect(s) ==
    /\ At(s, "inspect")
    /\ session[s].todo # {}
    /\ LET p == Applied(s)
       IN  Set(s, [session[s] EXCEPT !.todo = @ \ {p},
                     !.installed = @ /\ Recognised(p) /\ Data(p, "dest") = After[p]])
    /\ UNCHANGED <<files, journal, others>>

\* Every exact content in place proves the commit, whatever the journal says.
ProveCommit(s) ==
    /\ At(s, "inspect")
    /\ session[s].todo = {}
    /\ session[s].installed
    /\ WriteState("complete")
    /\ Set(s, [session[s] EXCEPT !.pc = "tidy", !.todo = journal.changes])
    /\ UNCHANGED <<files, others>>

StartRollback(s) ==
    /\ At(s, "inspect")
    /\ session[s].todo = {}
    /\ ~session[s].installed
    /\ WriteState("rolling-back")
    /\ Set(s, [session[s] EXCEPT !.pc = "roll", !.todo = journal.changes, !.conflicts = FALSE])
    /\ UNCHANGED <<files, others>>

\* cleanupChange of every change of a finished journal, a name at a time.
Tidy(s) ==
    /\ At(s, "tidy")
    /\ session[s].todo # {}
    /\ LET x == session[s]
           p == Applied(s)
           n == Head(x.names)
           after == IF Len(x.names) > 1 THEN [x EXCEPT !.names = Tail(@)]
                    ELSE [x EXCEPT !.names = Recoverables, !.todo = @ \ {p}]
       IN  RemoveKnown(s, p, n, after)
    /\ UNCHANGED <<journal, others>>

\* Mutant: a missing file is put back, whoever removed it.
ConflictingPresent(p) ==
    \/ ~Recognised(p)
    \/ Data(p, "dest") \notin {After[p], Absent}
    \/ Before[p] # Absent /\ Data(p, "backup") = Absent

\* Mutant: every missing file counts as deleted by the user.
ConflictingMissing(p) ==
    \/ ~Recognised(p)
    \/ Data(p, "dest") \notin {After[p], Absent}
    \/ Absent \notin {Before[p], After[p]} /\ Data(p, "dest") = Absent
    \/ Before[p] # Absent /\ Data(p, "backup") = Absent

\* A published file that is gone was deleted by the user; a file with other
\* content was edited by the user; without the original nothing is undone.
Conflicting(p) ==
    \/ ~Recognised(p)
    \/ Data(p, "dest") \notin {After[p], Absent}
    \/ /\ Absent \notin {Before[p], After[p]}
       /\ \A n \in {"dest", "staging", "rollback"} : Data(p, n) = Absent
    \/ Before[p] # Absent /\ Data(p, "backup") = Absent

\* rollbackChange up to its first change of a file.
Roll(s) ==
    /\ At(s, "roll")
    /\ LET x == session[s]
           p == Undone(s)
       IN  Set(s, IF Recognised(p) /\ Data(p, "dest") = Before[p]
                  THEN [x EXCEPT !.pc = "clean", !.names = Recoverables]
                  ELSE IF Conflicting(p) THEN Threw(x)
                  ELSE [x EXCEPT !.pc = IF Data(p, "dest") # Absent THEN "name" ELSE "restore"])
    /\ UNCHANGED <<files, journal, others>>

\* The file of an earlier capture goes; the new name is written to the journal.
NameCapture(s) ==
    /\ At(s, "name")
    /\ RemoveKnown(s, Undone(s), "rollback", [session[s] EXCEPT !.pc = "capture"])
    /\ UNCHANGED <<journal, others>>

\* Capture first: the project file is moved away, never unlinked.
Capture(s) ==
    /\ At(s, "capture")
    /\ LET p == Undone(s)
       IN  IF files[p]["dest"] = Absent
           THEN Throw(s) /\ UNCHANGED files
           ELSE Rename(p, "dest", "rollback") /\ Goto(s, "captured")
    /\ UNCHANGED <<journal, others>>

\* A user write raced the capture: it is linked back if its path is free.
Captured(s) ==
    /\ At(s, "captured")
    /\ LET p == Undone(s)
       IN  IF Data(p, "rollback") = After[p] THEN Goto(s, "restore") /\ UNCHANGED files
           ELSE /\ Throw(s)
                /\ IF files[p]["dest"] = Absent THEN Link(p, "rollback", "dest")
                   ELSE UNCHANGED files
    /\ UNCHANGED <<journal, others>>

\* Mutant: the backup is moved over whatever is there.
RestoreOver(s) ==
    /\ At(s, "restore")
    /\ LET p == Undone(s)
       IN  IF Before[p] = Absent THEN Goto(s, "restored") /\ UNCHANGED files
           ELSE IF Data(p, "backup") = Before[p]
           THEN Link(p, "backup", "dest") /\ Goto(s, "restored")
           ELSE Throw(s) /\ UNCHANGED files
    /\ UNCHANGED <<journal, others>>

\* The exclusive link cannot overwrite a file the user has created meanwhile.
Restore(s) ==
    /\ At(s, "restore")
    /\ LET p == Undone(s)
       IN  IF Before[p] = Absent THEN Goto(s, "restored") /\ UNCHANGED files
           ELSE IF Data(p, "backup") = Before[p] /\ files[p]["dest"] = Absent
           THEN Link(p, "backup", "dest") /\ Goto(s, "restored")
           ELSE Throw(s) /\ UNCHANGED files
    /\ UNCHANGED <<journal, others>>

Restored(s) ==
    /\ At(s, "restored")
    /\ LET x == session[s]
       IN  Set(s, IF Data(Undone(s), "dest") = Before[Undone(s)]
                  THEN [x EXCEPT !.pc = "clean", !.names = Recoverables] ELSE Threw(x))
    /\ UNCHANGED <<files, journal, others>>

\* cleanupChange of a change that is rolled back.
Clean(s) ==
    /\ At(s, "clean")
    /\ LET x == session[s]
       IN  RemoveKnown(s, Undone(s), Head(x.names),
              IF Len(x.names) > 1 THEN [x EXCEPT !.names = Tail(@)] ELSE RollNext(x, FALSE))
    /\ UNCHANGED <<journal, others>>

FinishRollback(s) ==
    /\ At(s, "finish")
    /\ WriteState(IF session[s].conflicts THEN "rollback-incomplete" ELSE "rolled-back")
    /\ Goto(s, IF session[s].conflicts THEN "failed" ELSE "recovered")
    /\ UNCHANGED <<files, others>>

\* Mutant: an apply whose recovery succeeded is reported as done.
RecoveredDone(s) ==
    /\ At(s, "recovered") \/ (At(s, "tidy") /\ session[s].todo = {})
    /\ LET x == session[s]
       IN  Goto(s, IF x.phase = "recover" /\ x.wants = "apply" THEN "plan" ELSE "returned")
    /\ UNCHANGED <<files, journal, others>>

\* The recovery returns: a review is done, an apply begins, and an apply that
\* failed is reported as done when the recovery could prove its commit.
Recovered(s) ==
    /\ At(s, "recovered") \/ (At(s, "tidy") /\ session[s].todo = {})
    /\ LET x == session[s]
           ended == IF x.phase = "undo" /\ journal.state # "complete" THEN "failed" ELSE "returned"
       IN  Goto(s, IF x.phase = "recover" /\ x.wants = "apply" THEN "plan" ELSE ended)
    /\ UNCHANGED <<files, journal, others>>

-----------------------------------------------------------------------------
(* applySnapshot.                                                          *)

\* Mutant: the loops run over the selected paths, the skipped ones included.
PlanSelected(s) ==
    /\ At(s, "plan")
    /\ LET changes == {p \in Paths : Data(p, "dest") = Before[p]}
       IN  IF \E p \in Paths \ changes : Data(p, "dest") # After[p]
           THEN Throw(s) /\ UNCHANGED <<journal, touched, removed, told>>
           ELSE IF changes = {} THEN Goto(s, "returned") /\ UNCHANGED <<journal, touched, removed, told>>
           ELSE /\ Set(s, [session[s] EXCEPT !.pc = "stage", !.phase = "apply", !.todo = Paths])
                /\ journal' = [state |-> "preparing", changes |-> changes]
                /\ touched' = {}
                /\ removed' = {}
                /\ told' = "nothing"
    /\ UNCHANGED <<files, edited, budget, lockVars>>

\* Compares baseline, workspace and project.  A file that is already as
\* wanted is skipped, any other difference from the baseline ends the call.
\* The journal is written before anything else.
Plan(s) ==
    /\ At(s, "plan")
    /\ LET changes == {p \in Paths : Data(p, "dest") = Before[p]}
       IN  IF \E p \in Paths \ changes : Data(p, "dest") # After[p]
           THEN Throw(s) /\ UNCHANGED <<journal, touched, removed, told>>
           ELSE IF changes = {} THEN Goto(s, "returned") /\ UNCHANGED <<journal, touched, removed, told>>
           ELSE /\ Set(s, [session[s] EXCEPT !.pc = "stage", !.phase = "apply", !.todo = changes])
                /\ journal' = [state |-> "preparing", changes |-> changes]
                /\ touched' = {}
                /\ removed' = {}
                /\ told' = "nothing"
    /\ UNCHANGED <<files, edited, budget, lockVars>>

\* The next change of a loop, or the place after the loop.
Onward(s, again, done) ==
    LET left == session[s].todo \ {Applied(s)}
    IN  IF left = {} THEN Goes(s, done, journal.changes) ELSE Goes(s, again, left)

Stage(s) ==
    /\ At(s, "stage")
    /\ LET p == Applied(s)
       IN  IF After[p] = Absent THEN UNCHANGED files
           ELSE files' = [files EXCEPT ![p]["staging"] = File(1, After[p])]
    /\ Onward(s, "stage", "mark")
    /\ UNCHANGED <<journal, others>>

Mark(s) ==
    /\ At(s, "mark")
    /\ WriteState("applying")
    /\ Goto(s, "check")
    /\ UNCHANGED <<files, others>>

Check(s) ==
    /\ At(s, "check")
    /\ IF Data(Applied(s), "dest") # Before[Applied(s)] THEN Throw(s)
       ELSE Goto(s, IF Before[Applied(s)] # Absent THEN "original" ELSE "publish")
    /\ UNCHANGED <<files, journal, others>>

\* The original is moved away, then verified: what the user wrote after the
\* check is in the backup and makes the apply fail.
MoveOriginal(s) ==
    /\ At(s, "original")
    /\ LET p == Applied(s)
       IN  IF files[p]["dest"] = Absent THEN Throw(s) /\ UNCHANGED files
           ELSE Rename(p, "dest", "backup") /\ Goto(s, "verify")
    /\ UNCHANGED <<journal, others>>

VerifyOriginal(s) ==
    /\ At(s, "verify")
    /\ LET p == Applied(s)
       IN  IF Data(p, "backup") # Before[p] THEN Throw(s)
           ELSE IF After[p] = Absent THEN Onward(s, "check", "commit")
           ELSE Goto(s, "publish")
    /\ UNCHANGED <<files, journal, others>>

\* The staged file is verified and linked to the project path, exclusively.
Publish(s) ==
    /\ At(s, "publish")
    /\ LET p == Applied(s)
       IN  IF Data(p, "staging") = After[p] /\ files[p]["dest"] = Absent
           THEN Link(p, "staging", "dest") /\ Goto(s, "unstage")
           ELSE Throw(s) /\ UNCHANGED files
    /\ UNCHANGED <<journal, others>>

\* A file that the user has deleted since the link stays deleted from here on.
RemovedBefore(p) ==
    removed' = IF Data(p, "dest") = Absent /\ Before[p] # Absent THEN removed \cup {p} ELSE removed

\* Mutant: every original is discarded as soon as its change is published.
UnstageDiscards(s) ==
    /\ At(s, "unstage")
    /\ LET p == Applied(s)
       IN  IF Data(p, "staging") = After[p]
           THEN /\ files' = [files EXCEPT ![p]["staging"] = Absent, ![p]["backup"] = Absent]
                /\ RemovedBefore(p)
                /\ Onward(s, "check", "commit")
           ELSE Throw(s) /\ UNCHANGED <<files, removed>>
    /\ UNCHANGED <<journal, touched, edited, told, budget, lockVars>>

\* The journal written after this step says what it said before.
Unstage(s) ==
    /\ At(s, "unstage")
    /\ LET p == Applied(s)
       IN  IF Data(p, "staging") = After[p]
           THEN Unlink(p, "staging") /\ RemovedBefore(p) /\ Onward(s, "check", "commit")
           ELSE Throw(s) /\ UNCHANGED <<files, removed>>
    /\ UNCHANGED <<journal, touched, edited, told, budget, lockVars>>

Commit(s) ==
    /\ At(s, "commit")
    /\ WriteState("complete")
    /\ Goes(s, "discard", journal.changes)
    /\ UNCHANGED <<files, others>>

Discard(s) ==
    /\ At(s, "discard")
    /\ LET x == session[s]
           left == x.todo \ {Applied(s)}
       IN  RemoveKnown(s, Applied(s), "backup",
              [x EXCEPT !.todo = left, !.pc = IF left = {} THEN "returned" ELSE "discard"])
    /\ UNCHANGED <<journal, others>>

\* The call has returned or thrown; the caller of an apply is told.
Close(s) ==
    /\ At(s, "returned") \/ At(s, "failed")
    /\ Leave(s)
    /\ told' = IF session[s].phase = "recover" THEN told
               ELSE IF session[s].pc = "returned" THEN "receipt" ELSE "error"
    /\ Set(s, Outside)
    /\ UNCHANGED <<files, journal, touched, edited, removed, budget>>

ApplyStep(s) ==
    \/ Plan(s) \/ Stage(s) \/ Mark(s) \/ Check(s) \/ MoveOriginal(s) \/ VerifyOriginal(s)
    \/ Publish(s) \/ Unstage(s) \/ Commit(s) \/ Discard(s)

RecoveryStep(s) ==
    \/ ReadJournal(s) \/ Inspect(s) \/ ProveCommit(s) \/ StartRollback(s) \/ Tidy(s)
    \/ Roll(s) \/ NameCapture(s) \/ Capture(s) \/ Captured(s) \/ Restore(s) \/ Restored(s)
    \/ Clean(s) \/ FinishRollback(s) \/ Recovered(s)
=============================================================================
