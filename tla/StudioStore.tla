----------------------------- MODULE StudioStore -----------------------------
(***************************************************************************)
(* The studio SQLite database that every Host process of one data root     *)
(* opens (studioDatabase.ts): the stored runs, the `active` index, the     *)
(* executor lease, step results, turn records, questions to the user and   *)
(* steering messages.  Every transaction is one atomic step of the models  *)
(* that extend this module.                                                *)
(*                                                                         *)
(* Abstractions: time appears only as "the lease has run out or not", the  *)
(* payload of a result only as its status and its resultKnown flag, and a  *)
(* turn keeps at most one question per step and attempt.                   *)
(***************************************************************************)
EXTENDS Naturals, FiniteSets

CONSTANTS
  Hosts,          \* executor owner tokens: one per process incarnation
  NoHost,         \* "no owner", "no lease row"
  Runs,           \* run ids, numbered in the order in which they are admitted
  TargetOf,       \* run -> conversation, group or workflow it was sent to
  KindOf,         \* run -> "chat", "group" or "workflow"
  TaskRuns,       \* group runs sent in task mode
  AgentSteps,     \* steps that make a native kernel call
  ConfirmSteps,   \* steps that only ask the user
  StepsOf,        \* run -> the steps its engine executes
  Notes,          \* steering messages
  MaxAttempt,     \* bound: explicit retries of one run
  MaxActive,      \* bound of the code: runs one Host executes (8)
  MaxQueued,      \* bound of the code: accepted unfinished runs (100)
  MaxPerTarget    \* bound of the code: unfinished runs of one target (20)

Steps == AgentSteps \cup ConfirmSteps
Targets == {TargetOf[r] : r \in Runs}
Attempts == 1..MaxAttempt

ASSUME StoreConstants ==
  /\ NoHost \notin Hosts
  /\ Runs \subseteq Nat
  /\ DOMAIN TargetOf = Runs
  /\ KindOf \in [Runs -> {"chat", "group", "workflow"}]
  /\ TaskRuns \subseteq {r \in Runs : KindOf[r] = "group"}
  /\ AgentSteps \cap ConfirmSteps = {}
  /\ StepsOf \in [Runs -> SUBSET Steps]
  /\ \A r \in Runs : KindOf[r] = "group" => StepsOf[r] \subseteq AgentSteps
  /\ \A r \in Runs : KindOf[r] = "chat" => \E s \in AgentSteps : StepsOf[r] = {s}
  /\ MaxAttempt \in Nat \ {0}
  /\ MaxActive \in Nat \ {0}
  /\ MaxQueued \in Nat \ {0}
  /\ MaxPerTarget \in Nat \ {0}

VARIABLES
  run,       \* run -> its stored record
  active,    \* ids in the `active` index
  lease,     \* the executor row of studio_meta
  results,   \* run -> step -> result readStudioStep returns
  turns,     \* turn records in state "running": <<host, run, step, attempt>>
  asked,     \* run -> step -> attempt -> state of the question
  steering   \* run -> steering messages in state "pending"

store == <<run, active, lease, results, turns, asked, steering>>

(***************************************************************************)
(* Records.                                                                *)
(***************************************************************************)
StepStatus == {"succeeded", "failed", "cancelled", "interrupted", "skipped"}
Outcome(status, known) == [status |-> status, known |-> known]
NoOutcome == Outcome("none", FALSE)
Unknown == Outcome("interrupted", FALSE)
Stopped == Outcome("cancelled", TRUE)
Outcomes == [status : StepStatus, known : BOOLEAN] \cup {NoOutcome}

ActiveStates == {"queued", "running", "waiting"}
Executing == {"running", "waiting"}
RunStates == ActiveStates \cup {"succeeded", "failed", "cancelled", "interrupted"}
Absent == [state |-> "absent", owner |-> NoHost, attempt |-> 0,
           known |-> "unset", cancel |-> FALSE]
RunRecords == [state : RunStates \cup {"absent"}, owner : Hosts \cup {NoHost},
               attempt : 0..MaxAttempt, known : {"unset", "yes", "no"},
               cancel : BOOLEAN]
Flag(b) == IF b THEN "yes" ELSE "no"

AskStates == {"none", "pending", "allowed", "denied", "expired"}
Answers == {"allowed", "denied"}

AskTable == [Runs -> [Steps -> [Attempts -> AskStates]]]
ResultTable == [Runs -> [Steps -> Outcomes]]

StoreTypeOK ==
  /\ run \in [Runs -> RunRecords]
  /\ active \subseteq Runs
  /\ lease \in [owner : Hosts \cup {NoHost}, live : BOOLEAN]
  /\ results \in ResultTable
  /\ turns \subseteq Hosts \X Runs \X Steps \X Attempts
  /\ asked \in AskTable
  /\ steering \in [Runs -> SUBSET Notes]

StoreInit ==
  /\ run = [r \in Runs |-> Absent]
  /\ active = {}
  /\ lease = [owner |-> NoHost, live |-> FALSE]
  /\ results = [r \in Runs |-> [s \in Steps |-> NoOutcome]]
  /\ turns = {}
  /\ asked = [r \in Runs |-> [s \in Steps |-> [a \in Attempts |-> "none"]]]
  /\ steering = [r \in Runs |-> {}]

(***************************************************************************)
(* Queries.                                                                *)
(***************************************************************************)
Owns(h) == lease.owner = h /\ lease.live

\* Mutant: an owner that renews too late believes it never lost the lease.
ClaimOwnExpired(h) ==
  IF lease.owner \notin {h, NoHost} /\ lease.live THEN "busy"
  ELSE IF lease.owner = h THEN "owner" ELSE "acquired"

\* claim(): what a Host finds in the executor row.
Claim(h) ==
  IF lease.owner \notin {h, NoHost} /\ lease.live THEN "busy"
  ELSE IF Owns(h) THEN "owner" ELSE "acquired"

IsUnknown(r) == run[r].state = "interrupted" /\ run[r].known # "yes"

HasUnknown(t, except) == \E r \in Runs \ except : TargetOf[r] = t /\ IsUnknown(r)

ActiveOn(t) == {r \in active : TargetOf[r] = t}

QueuedRuns == {r \in active : run[r].state = "queued"}

\* An unfinished native call of the current attempt: its effect is unknown.
OpenSteps(r) == {s \in Steps : \E h \in Hosts : <<h, r, s, run[r].attempt>> \in turns}
\* Mutant: recovery does not look at the turn records.
UncertainNever(r) == FALSE

Uncertain(r) == OpenSteps(r) # {}

PendingOf(r) == {s \in Steps : \E a \in Attempts : asked[r][s][a] = "pending"}

\* Mutant: the fence does not look at the state of the run.
OwnedInAnyState(h, r, settling, attempt) ==
  /\ Owns(h)
  /\ run[r].owner = h
  /\ attempt \in {0, run[r].attempt}
  /\ run[r].cancel => settling

\* assertStudioRunOwned(): `attempt` 0 stands for "no expected attempt given".
Owned(h, r, settling, attempt) ==
  /\ Owns(h)
  /\ run[r].owner = h
  /\ attempt \in {0, run[r].attempt}
  /\ run[r].state \in Executing
  /\ run[r].cancel => settling

\* The fence of the settling transactions, inside an owning Host.
Current(h, r, attempt) == Owned(h, r, TRUE, attempt)

\* Mutant: questions of an ended run stay open.
ExpireNone(S) == asked

\* expireRunInteractions(), for every run of S
Expire(S) ==
  [r \in Runs |-> [s \in Steps |-> [a \in Attempts |->
     IF r \in S /\ asked[r][s][a] = "pending" THEN "expired" ELSE asked[r][s][a]]]]
=============================================================================
