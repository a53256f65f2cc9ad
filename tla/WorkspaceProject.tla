--------------------------- MODULE WorkspaceProject ---------------------------
(***************************************************************************)
(* A project that several Studio processes review and apply to while its   *)
(* user edits it: the lock, the apply and its recovery composed, with      *)
(* processes that die and file operations that fail.                       *)
(***************************************************************************)
EXTENDS WorkspaceApply

vars == <<lockVars, applyVars>>

\* A missing file has no content, and what a torn write leaves is no content at all.
ASSUME ProjectConstants ==
    /\ Paths \subseteq Nat /\ IsFiniteSet(Paths)
    /\ Before \in [Paths -> Edits \cup {Absent}]
    /\ \A p \in Paths : Before[p] # After[p] /\ "torn" \notin {Before[p], After[p]}
    /\ MaxEdits \in Nat /\ MaxFaults \in Nat
    /\ Absent \notin Edits \cup {"torn"}
    /\ \A ino \in 0..(1 + MaxEdits), data \in Edits \cup {"torn"} \cup {After[p] : p \in Paths} :
          File(ino, data) # Absent

Init == LockInit /\ ApplyInit

-----------------------------------------------------------------------------
(* The user, external to the code: writes a file in place or through a new *)
(* file, or deletes it.                                                    *)

UserActs(p) ==
    /\ budget.edits > 0
    /\ budget' = [budget EXCEPT !.edits = @ - 1]
    /\ touched' = touched \cup {p}
    /\ UNCHANGED <<journal, session, told, lockVars>>

Remembered(p, data) ==
    edited' = [edited EXCEPT ![p] = IF data \in {Before[p], After[p]} THEN Absent ELSE data]

\* In place: every name of the inode shows the new content.
Overwrite(p, data) ==
    /\ files[p]["dest"] # Absent
    /\ files' = [files EXCEPT ![p] = [n \in Names |->
          IF files[p][n] # Absent /\ files[p][n].ino = files[p]["dest"].ino
          THEN File(files[p][n].ino, data) ELSE files[p][n]]]
    /\ Remembered(p, data)
    /\ removed' = removed \ {p}
    /\ UserActs(p)

\* A new file takes the place of the old one, or of none.
Recreate(p, data) ==
    /\ files' = [files EXCEPT ![p]["dest"] = File(1 + budget.edits, data)]
    /\ Remembered(p, data)
    /\ removed' = removed \ {p}
    /\ UserActs(p)

\* The history says that a published file is deleted when its staging name is
\* gone and no rollback has captured it; Unstage adds what was deleted before.
Delete(p) ==
    /\ files[p]["dest"] # Absent
    /\ files' = [files EXCEPT ![p]["dest"] = Absent]
    /\ edited' = [edited EXCEPT ![p] = Absent]
    /\ removed' = IF Data(p, "dest") = After[p] /\ files[p]["staging"] = Absent
                     /\ files[p]["rollback"] = Absent /\ Before[p] # Absent
                  THEN removed \cup {p} ELSE removed
    /\ UserActs(p)

User == \E p \in Paths :
    Delete(p) \/ \E data \in Edits : Overwrite(p, data) \/ Recreate(p, data)

-----------------------------------------------------------------------------
(* What goes wrong.                                                        *)

Working(s) == at[s] = "inside" /\ session[s].pc \notin {"returned", "failed", "recovered"}

\* A file operation fails: an exception instead of the step.
Fail(s) ==
    /\ Working(s)
    /\ budget.faults > 0
    /\ ~(session[s].pc = "tidy" /\ session[s].todo = {})
    /\ budget' = [budget EXCEPT !.faults = @ - 1]
    /\ Set(s, [Threw(session[s]) EXCEPT !.sound = FALSE])
    /\ UNCHANGED <<files, journal, touched, edited, removed, told, lockVars>>

\* The staging file is written where it lies: a failure or a death in the
\* middle leaves it torn (exclusiveWrite).
TearStaging(s) ==
    /\ At(s, "stage")
    /\ After[Applied(s)] # Absent
    /\ files' = [files EXCEPT ![Applied(s)]["staging"] = File(1, "torn")]

FailStaging(s) ==
    /\ TearStaging(s)
    /\ budget.faults > 0
    /\ budget' = [budget EXCEPT !.faults = @ - 1]
    /\ Set(s, [Threw(session[s]) EXCEPT !.sound = FALSE])
    /\ UNCHANGED <<journal, touched, edited, removed, told, lockVars>>

\* The process dies: only the files, the journal and the claim remain.
Crash(s) ==
    /\ Die(s)
    /\ budget.faults > 0
    /\ budget' = [budget EXCEPT !.faults = @ - 1]
    /\ session' = [session EXCEPT ![s] = Outside]
    /\ TearStaging(s) \/ UNCHANGED files
    /\ UNCHANGED <<journal, touched, edited, removed, told>>

Faults == \E s \in Sessions : Fail(s) \/ FailStaging(s) \/ Crash(s)

-----------------------------------------------------------------------------

SessionStep(s) ==
    \/ Contend(s) /\ UNCHANGED applyVars
    \/ Replace(s) /\ UNCHANGED applyVars
    \/ \E wants \in {"review", "apply"} : Open(s, wants)
    \/ RecoveryStep(s) \/ ApplyStep(s) \/ Close(s)

Next == User \/ Faults \/ \E s \in Sessions : SessionStep(s)

Spec == Init /\ [][Next]_vars

-----------------------------------------------------------------------------

\* Types of the files, the journal and the sessions.
TypeOK ==
    /\ LockTypeOK
    /\ \A p \in Paths : DOMAIN files[p] = Names
    /\ journal.state \in Final \cup {"preparing", "applying", "rolling-back", "rollback-incomplete"}
    /\ journal.changes \subseteq Paths
    /\ \A s \in Sessions : session[s].todo \subseteq journal.changes
    /\ \A s \in Sessions : (at[s] # "inside") => session[s] = Outside
    /\ touched \subseteq Paths /\ removed \subseteq Paths
    /\ told \in {"nothing", "receipt", "error"}

\* Whatever dies or fails in between, a finished apply has published every
\* change or none of them, apart from files the user has touched since: no
\* project is left with half of a snapshot (recoverWorkspaceJournal).
AllOrNone ==
    \A p \in journal.changes \ touched :
        /\ journal.state = "complete" => Data(p, "dest") = After[p]
        /\ journal.state = "rolled-back" => Data(p, "dest") = Before[p]

\* Until the commit the original of every change exists under one of its
\* names, at every single step: the engine never has only the new content
\* (applySnapshot captures before it publishes, recovery cleans up last).
OriginalKept ==
    \A p \in journal.changes \ touched :
        journal.state # "complete" /\ Before[p] # Absent =>
            \E n \in Names : Data(p, n) = Before[p]

\* What the user wrote last is never lost: if it is not in the project file
\* it is in a file that apply or recovery preserved ("user edit preserved",
\* "original edit preserved").
EditSurvives ==
    \A p \in Paths : edited[p] # Absent => \E n \in Names : Data(p, n) = edited[p]

\* A published file that the user deletes stays deleted, through a crash and
\* every later recovery ("deletion preserved"): deleted after the staging name
\* was unlinked, or between the link and an unlink that then takes place.  Not
\* so when the process dies, or the unlink fails, in between: recovery finds a
\* staging file and no project file, as after the capture of the original, and
\* puts the original back.
DeletionKept == \A p \in removed : files[p]["dest"] = Absent

\* The caller gets a receipt only for an apply that is committed.
ReceiptIsCommit == told = "receipt" => journal.state = "complete"

\* One session that is not disturbed settles what a dead or failed one left
\* behind: conflicts remain only where the user has written, a file operation
\* has failed, or a staging file is torn.
RecoverySettles ==
    \A s \in Sessions :
        /\ at[s] = "inside"
        /\ session[s].pc \in {"recovered", "returned", "failed"}
        /\ session[s].sound
        /\ touched = {}
        /\ \A p \in Paths : Data(p, "staging") # "torn"
        => journal.state \in Final

\* A committed apply is never taken back, and what is rolled back is never
\* published by a later recovery: a final journal stays as it is until the
\* next apply plans a new one.
FinalStays ==
    [][journal.state \in {"complete", "rolled-back"} =>
          journal' = journal \/ journal'.state = "preparing"]_vars
=============================================================================
