---------------------------- MODULE WorkspaceLocks ----------------------------
(***************************************************************************)
(* The lock of one project (adapters/workspaceLocks.ts).  A session is one *)
(* call of withWorkspaceLock; the calls of one process are queued          *)
(* (workspaceManager.ts locked), so a session stands for a process.  Every *)
(* session first publishes a claim file of its own, then lists the         *)
(* directory and looks at each other claim: a claim of a living process    *)
(* makes it withdraw, a claim of a dead one is removed.  There is no       *)
(* retry and no takeover of a living owner.                                *)
(*                                                                         *)
(* File names hold a fresh token, so a claim published later is never the  *)
(* one an earlier listing named.  A session identity is used again only    *)
(* once its claim is gone; Claim then drops it from the listings of the    *)
(* others, which is what reading the absent old file does (line 99).       *)
(***************************************************************************)
CONSTANT Sessions     \* processes that work on the project

VARIABLES
    at,         \* [Sessions -> where the session is in withWorkspaceLock]
    claims,     \* the sessions whose claim file is in the directory
    toScan      \* [Sessions -> claims listed and not looked at yet]

lockVars == <<at, claims, toScan>>

LockPlaces == {"idle", "claimed", "scanning", "inside", "leaving", "dead"}

LockTypeOK ==
    /\ at \in [Sessions -> LockPlaces]
    /\ claims \subseteq Sessions
    /\ toScan \in [Sessions -> SUBSET Sessions]

LockInit ==
    /\ at = [s \in Sessions |-> "idle"]
    /\ claims = {}
    /\ toScan = [s \in Sessions |-> {}]

\* The claim is written aside and renamed into the directory.
Claim(s) ==
    /\ at[s] = "idle"
    /\ at' = [at EXCEPT ![s] = "claimed"]
    /\ claims' = claims \cup {s}
    /\ toScan' = [t \in Sessions |-> toScan[t] \ {s}]

\* readdir, without the own claim.
List(s) ==
    /\ at[s] = "claimed"
    /\ at' = [at EXCEPT ![s] = "scanning"]
    /\ toScan' = [toScan EXCEPT ![s] = claims \ {s}]
    /\ UNCHANGED claims

\* The claim has gone since the listing.
ScanAbsent(s, t) ==
    /\ at[s] = "scanning"
    /\ t \in toScan[s] \ claims
    /\ toScan' = [toScan EXCEPT ![s] = @ \ {t}]
    /\ UNCHANGED <<at, claims>>

\* Mutant: a claim that was there first is taken over.
ScanTakeover(s, t) ==
    /\ at[s] = "scanning"
    /\ t \in toScan[s] \cap claims
    /\ claims' = claims \ {t}
    /\ toScan' = [toScan EXCEPT ![s] = @ \ {t}]
    /\ UNCHANGED at

\* The owner is certainly dead (ESRCH): its claim is removed.
ScanDead(s, t) ==
    /\ at[s] = "scanning"
    /\ t \in toScan[s] \cap claims
    /\ at[t] = "dead"
    /\ claims' = claims \ {t}
    /\ toScan' = [toScan EXCEPT ![s] = @ \ {t}]
    /\ UNCHANGED at

\* The owner is alive, or nothing proves that it is dead (EPERM, a process
\* number in use again): the session fails with "Workspace is busy".
ScanBusy(s, t) ==
    /\ at[s] = "scanning"
    /\ t \in toScan[s] \cap claims
    /\ at' = [at EXCEPT ![s] = "leaving"]
    /\ toScan' = [toScan EXCEPT ![s] = {}]
    /\ UNCHANGED claims

\* Every listed claim has been looked at: the operation starts.
Enter(s) ==
    /\ at[s] = "scanning"
    /\ toScan[s] = {}
    /\ at' = [at EXCEPT ![s] = "inside"]
    /\ UNCHANGED <<claims, toScan>>

\* The operation has returned or thrown.
Leave(s) ==
    /\ at[s] = "inside"
    /\ at' = [at EXCEPT ![s] = "leaving"]
    /\ UNCHANGED <<claims, toScan>>

\* The finally block removes the own claim.
Release(s) ==
    /\ at[s] = "leaving"
    /\ at' = [at EXCEPT ![s] = "idle"]
    /\ claims' = claims \ {s}
    /\ UNCHANGED toScan

\* The process dies; whatever it had published stays in the directory.
Die(s) ==
    /\ at[s] \notin {"idle", "dead"}
    /\ at' = [at EXCEPT ![s] = "dead"]
    /\ toScan' = [toScan EXCEPT ![s] = {}]
    /\ UNCHANGED claims

\* A new process under a new number, once the old claim has been removed.
Replace(s) ==
    /\ at[s] = "dead"
    /\ s \notin claims
    /\ at' = [at EXCEPT ![s] = "idle"]
    /\ UNCHANGED <<claims, toScan>>

Contend(s) ==
    \/ Claim(s) \/ List(s) \/ Release(s)
    \/ \E t \in Sessions : ScanAbsent(s, t) \/ ScanDead(s, t) \/ ScanBusy(s, t)

LockNext == \E s \in Sessions :
    Contend(s) \/ Enter(s) \/ Leave(s) \/ Die(s) \/ Replace(s)

LockSpec == LockInit /\ [][LockNext]_lockVars

-----------------------------------------------------------------------------

\* The sessions that are inside, and the abstract lock they implement.
Holders == {s \in Sessions : at[s] = "inside"}

Lock == INSTANCE ProjectLock WITH holders <- Holders

\* Two processes never work on one project at the same time, however their
\* claims, listings, deaths and withdrawals interleave
\* (withWorkspaceLock: "overlapping contenders either see the earlier claim
\* or both withdraw").
MutualExclusion == \A s, t \in Holders : s = t

\* A session removes a claim file only of a process that is dead, or its own:
\* the claim of a living session stays until that session removes it, which
\* is what makes the listing of every later session see it.
ClaimsAreKept ==
    \A s \in Sessions :
        at[s] \in {"claimed", "scanning", "inside", "leaving"} => s \in claims
=============================================================================
