------------------------------ MODULE EngineRun ------------------------------
(***************************************************************************)
(* What a workflow or group engine sees of the runtime: the execution port *)
(* that executeStudioRun (runExecutor.ts) hands to it, one studio run in   *)
(* the store, and the calls the engine makes through port.agent            *)
(* (turnExecutor.ts).  Several calls of one run may be under way.          *)
(*                                                                         *)
(* The lease, the queue and takeovers are modelled in StudioHost; here one *)
(* Host executes the run at a time and may die with it.  A result is its   *)
(* status, with "final" for a failure that must not be retried, "unknown"  *)
(* for resultKnown = false, and the answer of the host member of a group.  *)
(* `off` is the state of the AbortSignal given to the call.                *)
(***************************************************************************)
EXTENDS Naturals, FiniteSets

CONSTANTS
    Kinds,         \* "workflow", "group": what the run executes
    KernelResults, \* how a native call may end
    MaxAttempts,   \* bound: explicit retries by the user
    MaxCrashes     \* bound: deaths of the executing Host

ASSUME PortConstants ==
    /\ Kinds \subseteq {"workflow", "group"}
    /\ KernelResults \subseteq {"succeeded", "failed", "final", "cancelled", "unknown"}
    /\ MaxAttempts \in Nat \ {0} /\ MaxCrashes \in Nat

VARIABLES
    run,     \* the stored run: kind, state, attempt, cancelRequested
    stored,  \* call -> its result, as readStudioStep finds it
    turn,    \* call in progress -> its phase, or the result it came back with
    heard,   \* port.signal.aborted
    crashes  \* deaths so far

portVars == <<run, stored, turn, heard, crashes>>

Put(f, x, v) == [y \in DOMAIN f \cup {x} |-> IF y = x THEN v ELSE f[y]]
Drop(f, x) == [y \in DOMAIN f \ {x} |-> f[y]]
Nothing == <<>>    \* the function with an empty domain

Phases == {"permit", "preparing", "calling"}
Bad == {"failed", "final", "cancelled", "unknown"}
Good == {"succeeded", "skipped", "complete", "revise", "invalid"}

In(c, phase) == c \in DOMAIN turn /\ turn[c] = phase
Calling == {c \in DOMAIN turn : turn[c] = "calling"}
Returned(c) == c \in DOMAIN turn /\ turn[c] \notin Phases
Live == run.state \in {"queued", "running"}

PortTypeOK ==
    /\ run \in [kind : Kinds,
                state : {"queued", "running", "succeeded", "failed", "cancelled", "interrupted"},
                attempt : 1..MaxAttempts, stop : BOOLEAN]
    /\ \A c \in DOMAIN stored : stored[c] \in (Bad \cup Good) \ {"skipped"}
    /\ \A c \in DOMAIN turn : turn[c] \in Phases \cup Bad \cup Good
    /\ heard => run.stop
    /\ crashes \in 0..MaxCrashes
    /\ run.state # "running" => turn = Nothing

PortInit ==
    /\ run \in [kind : Kinds, state : {"queued"}, attempt : {1}, stop : {FALSE}]
    /\ stored = Nothing
    /\ turn = Nothing
    /\ heard = FALSE
    /\ crashes = 0

(***************************************************************************)
(* One call through port.agent.                                            *)
(***************************************************************************)
\* The call is over: its result goes to the store and to the engine.
Return(c, result) ==
    /\ turn' = Put(turn, c, result)
    /\ stored' = Put(stored, c, result)

\* port.agent: a stop in the store makes it throw, which the engines report
\* as unknown; a stored result is used again; else the call waits for a permit.
Asked(c) ==
    IF run.stop THEN "unknown"
    ELSE IF c \in DOMAIN stored THEN stored[c] ELSE "permit"

\* The signal aborts while the call waits: acquire() rejects outside the try.
Refused(c, off) ==
    /\ In(c, "permit") /\ off
    /\ turn' = Put(turn, c, "unknown")
    /\ UNCHANGED stored

\* The permit is granted; superseded: a task of a group with new steering.
Granted(c, off, superseded) ==
    /\ In(c, "permit")
    /\ IF off \/ run.stop THEN Return(c, IF off THEN "cancelled" ELSE "failed")
       ELSE /\ turn' = Put(turn, c, IF superseded THEN "skipped" ELSE "preparing")
            /\ UNCHANGED stored

\* Preparation fails, or ends after the signal or a stop in the store.
NotPrepared(c, off) ==
    /\ In(c, "preparing")
    /\ Return(c, IF off THEN "cancelled" ELSE "failed")

\* The turn record is written and the adapter is called.
Dispatched(c, off) ==
    /\ In(c, "preparing")
    /\ ~off /\ ~run.stop
    /\ turn' = Put(turn, c, "calling")
    /\ UNCHANGED stored

CallEnds(c, result) ==
    /\ In(c, "calling")
    /\ Return(c, result)

(***************************************************************************)
(* The run.                                                                *)
(***************************************************************************)
\* tick() dispatches the queued run to an engine.
Begun ==
    /\ run.state = "queued"
    /\ run' = [run EXCEPT !.state = "running"]
    /\ UNCHANGED <<stored, turn, heard, crashes>>

\* The cancel command: a queued run ends, a running one only gets the flag.
Stop ==
    /\ Live /\ ~run.stop
    /\ run' = [run EXCEPT !.stop = TRUE,
                          !.state = IF @ = "queued" THEN "cancelled" ELSE @]
    /\ UNCHANGED <<stored, turn, heard, crashes>>

\* tick() delivers the stop to the executor.
Hear ==
    /\ run.state = "running" /\ run.stop /\ ~heard
    /\ heard' = TRUE
    /\ UNCHANGED <<run, stored, turn, crashes>>

\* The settling transaction of executeStudioRun; more: a group task was
\* given new steering after its engine looked for the last time.
Outcome(result, more) ==
    IF result = "succeeded" /\ more /\ ~run.stop THEN "queued"
    ELSE IF result = "unknown" THEN "interrupted"
    ELSE IF run.stop THEN "cancelled"
    ELSE IF result = "final" THEN "failed"
    ELSE result

Settled(result, more) ==
    /\ run.state = "running"
    /\ run' = [run EXCEPT !.state = Outcome(result, more)]
    /\ turn' = Nothing
    /\ heard' = FALSE
    /\ UNCHANGED <<stored, crashes>>

\* The Host dies; another one recovers its run.
Crashed ==
    /\ run.state = "running" /\ crashes < MaxCrashes
    /\ run' = [run EXCEPT !.state = IF Calling # {} THEN "interrupted" ELSE "queued"]
    /\ turn' = Nothing
    /\ heard' = FALSE
    /\ crashes' = crashes + 1
    /\ UNCHANGED stored

\* The resume command: only finished steps keep their results.
Resume ==
    /\ run.state \in {"interrupted", "failed"} /\ run.attempt < MaxAttempts
    /\ run' = [run EXCEPT !.state = "queued", !.attempt = @ + 1, !.stop = FALSE]
    /\ stored' = [c \in {d \in DOMAIN stored : stored[d] \in Good} |-> stored[c]]
    /\ UNCHANGED <<turn, heard, crashes>>
=============================================================================
