------------------------------ MODULE AgentTools ------------------------------
(***************************************************************************)
(* The tools with which a running agent dispatches child runs              *)
(* (agentToolRuntime.ts, agentDispatch.ts), the outbox that tells it what  *)
(* became of them (agentOutbox.ts), and the receipts that make a repeated  *)
(* command harmless (commandReceipts.ts).                                  *)
(*                                                                         *)
(* A caller is one grant: a native turn of one parent conversation in one  *)
(* attempt.  Later turns and resumed attempts own the same children.  A    *)
(* tool call of an earlier grant may still be in progress when its lease   *)
(* or its turn is gone.  A Host serialises the calls of a conversation     *)
(* (`mutations`), two Hosts do not: here, only those of one grant are.     *)
(*                                                                         *)
(* The execution of a child is reduced to the transactions that change its *)
(* state; StudioHost has the rest.  The loop that starts children writes   *)
(* records which it read before, as there: a child that the user withdraws *)
(* in between is started in spite of it, and is no longer in the index.    *)
(* Limits on depth and admission, children of children, configurations,    *)
(* permissions and the contents of results are left out: a call may be     *)
(* refused for any of them.  A deadline may pass at any time.              *)
(* That the parent reads, retries and acknowledges an event changes only   *)
(* the delivery of that event and is left out too: an event is there.      *)
(***************************************************************************)
EXTENDS Naturals, Sequences, FiniteSets

CONSTANTS
    Calls,        \* command ids of tool calls
    Request,      \* call -> [tool, task]; the task is 0 for a dispatch
    UserCommands, \* command ids of the user's commands
    Order,        \* user command -> [type, run]
    MaxTasks, MaxActive, MaxRounds, \* StudioAgentPolicy
    MaxGrants     \* bound: turns of the parent

ASSUME ToolConstants ==
    /\ \A c \in Calls : Request[c].tool \in {"dispatch", "message", "cancel"}
    /\ \A u \in UserCommands : Order[u].type \in {"cancel", "resume"}
    /\ Calls \cap UserCommands = {} /\ "none" \notin Calls
    /\ MaxRounds \in Nat \ {0} /\ MaxGrants \in Nat \ {0}

VARIABLES
    caller,  \* the parent's last grant, whether it still holds
    receipt, \* agent-operation: call -> none, sent, accepted or failed
    command, \* command: user commands with a receipt
    op,      \* grant -> its tool call in progress
    tasks,   \* agent-task: the children, each with its last run and its rounds
    runs,    \* the runs of all children, with agent-run-link and `active`
    event,   \* agent-event: <<run, attempt, what>> -> the state it tells
    queue,   \* the loop of a tick: the records queuedRuns() returned, run -> record
    woken,   \* history: <<run, attempt>> started after it had been withdrawn
    done     \* history: command id -> how often it took effect

vars == <<caller, receipt, command, op, tasks, runs, event, queue, woken, done>>
childVars == <<tasks, runs, event>>
loopVars == <<queue, woken>>

Active == {"queued", "running", "waiting"}
NoOp == [call |-> "none", task |-> [run |-> 0, rounds |-> 0]]

Init ==
    /\ caller = [grant |-> 1, holds |-> TRUE]
    /\ receipt = [c \in Calls |-> "none"]
    /\ command = {}
    /\ op = [g \in 1..MaxGrants |-> NoOp]
    /\ tasks = <<>>
    /\ runs = <<>>
    /\ event = <<>>
    /\ queue = <<>> /\ woken = {}
    /\ done = [c \in Calls \cup UserCommands |-> 0]

Count(c) == done' = [done EXCEPT ![c] = @ + 1]

\* Mutant: the fence is only looked at when the call begins.
CallerAnyway(g) == g <= caller.grant

\* assertStudioAgentCaller(): the turn runs, its run is owned, in this attempt.
Caller(g) == caller.holds /\ caller.grant = g

(***************************************************************************)
(* Events.                                                                 *)
(***************************************************************************)
\* studioAgentState() of a run that is neither queued nor running.
Reported(run) ==
    IF run.cancel /\ run.state \notin {"succeeded", "failed", "cancelled"} THEN "cancel-unconfirmed"
    ELSE IF run.state \in {"waiting", "interrupted"} THEN "needs-input"
    ELSE run.state

\* Mutant: the key of an event leaves the attempt out.
KeyOfRun(r, run, what) == <<r, 1, what>>

Key(r, run, what) == <<r, run.attempt, what>>

Tells(run, what) ==
    run.state \notin {"queued", "running"} /\ (run.state = "waiting" => what # "terminal")

\* One transaction writes runs, with recordStudioAgentEvent() for each: once
\* per run, attempt and interaction.
Write(new, what) ==
    LET told == {Key(r, new[r], what) : r \in {r \in DOMAIN runs : new[r] # runs[r] /\ Tells(new[r], what)}}
    IN  /\ runs' = new
        /\ event' = [k \in DOMAIN event \cup told |->
                       IF k \in DOMAIN event THEN event[k] ELSE Reported(new[k[1]])]

(***************************************************************************)
(* Tool calls.                                                             *)
(***************************************************************************)
RunsOf(t) == {r \in DOMAIN runs : runs[r].task = t}
ActiveTasks == {t \in DOMAIN tasks : \E r \in RunsOf(t) : runs[r].state \in Active}
Unresolved(t) == \E r \in RunsOf(t) : runs[r].state = "interrupted"

\* mutate() up to its first await: a known call is answered from its receipt.
\* The rounds are checked on the record that the call then keeps.
Reserve(g, c) ==
    /\ Caller(g) /\ op[g] = NoOp
    /\ receipt[c] = "none"
    /\ LET q == Request[c]
           refused == q.tool # "dispatch" /\ (q.task \notin DOMAIN tasks
                        \/ (q.tool = "message" /\ tasks[q.task].rounds >= MaxRounds))
       IN  /\ receipt' = [receipt EXCEPT ![c] = IF refused THEN "failed" ELSE "sent"]
           /\ op' = IF refused THEN op
                    ELSE [op EXCEPT ![g] = [call |-> c, task |-> IF q.tool = "dispatch" THEN NoOp.task
                                                                 ELSE tasks[q.task]]]
    /\ UNCHANGED <<caller, command, childVars, loopVars, done>>

Calling(g, tool) == op[g] # NoOp /\ Request[op[g].call].tool = tool
Queued(t) == [task |-> t, state |-> "queued", attempt |-> 1, cancel |-> FALSE]

Accept(g) ==
    /\ receipt' = [receipt EXCEPT ![op[g].call] = "accepted"]
    /\ op' = [op EXCEPT ![g] = NoOp]
    /\ Count(op[g].call)

\* The transaction of dispatchStudioAgent after all its awaits.
Dispatch(g) ==
    /\ Calling(g, "dispatch") /\ Caller(g)
    /\ Len(tasks) < MaxTasks
    /\ Cardinality(ActiveTasks) < MaxActive
    /\ tasks' = Append(tasks, [run |-> Len(runs) + 1, rounds |-> 1])
    /\ runs' = Append(runs, Queued(Len(tasks) + 1))
    /\ Accept(g)
    /\ UNCHANGED <<caller, command, event, loopVars>>

\* That of messageStudioAgent: it writes back the record it read before.
Message(g) ==
    /\ Calling(g, "message") /\ Caller(g)
    /\ LET t == Request[op[g].call].task
       IN  /\ ~Unresolved(t)
           /\ tasks' = [tasks EXCEPT ![t] = [run |-> Len(runs) + 1, rounds |-> op[g].task.rounds + 1]]
           /\ runs' = Append(runs, Queued(t))
    /\ Accept(g)
    /\ UNCHANGED <<caller, command, event, loopVars>>

\* The cancel command on runs: queued ones end, others get the flag.
Stopped(S) ==
    [r \in DOMAIN runs |->
        IF r \notin S \/ runs[r].state \notin Active THEN runs[r]
        ELSE [runs[r] EXCEPT !.cancel = TRUE,
                             !.state = IF @ = "queued" THEN "cancelled" ELSE @]]

CancelTask(g) ==
    /\ Calling(g, "cancel") /\ Caller(g)
    /\ Write(Stopped(RunsOf(Request[op[g].call].task)), "terminal")
    /\ Accept(g)
    /\ UNCHANGED <<caller, command, tasks, loopVars>>

\* The call is refused, or ends after its grant: the catch block of mutate().
Refused(g) ==
    /\ op[g] # NoOp
    /\ receipt' = [receipt EXCEPT ![op[g].call] = IF @ = "sent" THEN "failed" ELSE @]
    /\ op' = [op EXCEPT ![g] = NoOp]
    /\ UNCHANGED <<caller, command, childVars, loopVars, done>>

ToolCall(g) ==
    \/ \E c \in Calls : Reserve(g, c)
    \/ Dispatch(g) \/ Message(g) \/ CancelTask(g)

(***************************************************************************)
(* The parent and its Host.                                                *)
(***************************************************************************)
\* The native turn ends; calls in progress go on until they look.
TurnEnds ==
    /\ caller.holds
    /\ caller' = [caller EXCEPT !.holds = FALSE]
    /\ UNCHANGED <<receipt, command, op, childVars, loopVars, done>>

\* The next turn of the parent's conversation, or its resumed attempt.
NextTurn ==
    /\ ~caller.holds /\ caller.grant < MaxGrants
    /\ caller' = [caller EXCEPT !.grant = @ + 1, !.holds = TRUE]
    /\ UNCHANGED <<receipt, command, op, childVars, loopVars, done>>

\* In the `active` index: a cancel took a woken run out of it for good.
Indexed(r) == runs[r].state \in Active /\ <<r, runs[r].attempt>> \notin woken

\* recover(): after a crash, or after the lease was lost by a Host whose tool
\* calls go on; the loop of that Host ends when it next asks for its lease.
\* Runs that had called their kernel are uncertain.  It reads the index.
Recover ==
    /\ caller' = [caller EXCEPT !.holds = FALSE]
    /\ op' \in {op, [g \in 1..MaxGrants |-> NoOp]}
    /\ \E uncertain \in SUBSET {r \in DOMAIN runs : runs[r].state = "running"} :
         Write([r \in DOMAIN runs |->
                  IF ~Indexed(r) \/ runs[r].state = "queued" THEN runs[r]
                  ELSE [runs[r] EXCEPT !.state = IF @ = "waiting" \/ r \in uncertain
                                                 THEN "interrupted" ELSE "queued"]], "terminal")
    /\ queue' = <<>>
    /\ UNCHANGED <<receipt, command, tasks, woken, done>>

(***************************************************************************)
(* The loop of a tick: a Host reads the queue and starts runs, each in a   *)
(* transaction of its own.  Its thread does nothing else meanwhile; the    *)
(* commands of another process, and recover() of another Host, may come    *)
(* between two transactions.                                               *)
(***************************************************************************)
Idle == queue = <<>>

ScanQueue ==
    /\ queue' = [r \in {r \in DOMAIN runs : runs[r].state = "queued"} |-> runs[r]]
    /\ UNCHANGED <<caller, receipt, command, op, childVars, woken, done>>

\* The loop has passed the runs before r, for the limit of 8, a lock of the
\* project or another target at work.  Unknown results and the runs of this
\* target are looked at now, the record is the one that was read.  A woken run
\* keeps its target only while its Host lives, which is not followed: it may
\* let another run go.
StartRun(r) ==
    /\ ~Unresolved(runs[r].task)
    /\ \A o \in RunsOf(runs[r].task) :
         runs[o].state \in {"running", "waiting"} => <<o, runs[o].attempt>> \in woken
    /\ Write([runs EXCEPT ![r] = [queue[r] EXCEPT !.state = "running"]], "terminal")
    /\ woken' = IF runs[r].state = "queued" THEN woken ELSE woken \cup {<<r, runs[r].attempt>>}
    /\ queue' = [q \in {q \in DOMAIN queue : q > r} |-> queue[q]]
    /\ UNCHANGED <<caller, receipt, command, op, tasks, done>>

\* No queued run is left that may start, or the lease is lost.
LoopEnds ==
    /\ ~Idle
    /\ queue' = <<>>
    /\ UNCHANGED <<caller, receipt, command, op, childVars, woken, done>>

(***************************************************************************)
(* The children.                                                           *)
(***************************************************************************)
Becomes(r, state, what) == Write([runs EXCEPT ![r].state = state], what)

Ask(r) == runs[r].state = "running" /\ ~runs[r].cancel /\ Becomes(r, "waiting", "question")
AskEnds(r) == runs[r].state = "waiting" /\ Becomes(r, "running", "terminal")

\* executeStudioRun settles: the result is unknown, or the run was stopped, or
\* the kernel says how it ended, which may be that it was cancelled.
Settle(r) ==
    /\ runs[r].state = "running"
    /\ \E result \in {"succeeded", "failed", "cancelled", "interrupted"} :
         Becomes(r, IF runs[r].cancel /\ result # "interrupted" THEN "cancelled" ELSE result, "terminal")

\* enforceStudioAgentDeadlines(), in a tick: runs of the index past the deadline
\* of their link, which a resume does not renew, or with too many attempts.
Enforce(over) == Write(Stopped(over), "terminal")

Child ==
    /\ \/ \E over \in SUBSET {r \in DOMAIN runs : Indexed(r) /\ ~runs[r].cancel} :
            over # {} /\ Enforce(over)
       \/ \E r \in DOMAIN runs : Ask(r) \/ AskEnds(r) \/ Settle(r)
    /\ UNCHANGED <<caller, receipt, command, op, tasks, loopVars, done>>

(***************************************************************************)
(* The user.                                                               *)
(***************************************************************************)
\* readStudioCommandReceipt() finds nothing: the command is applied.
Fresh(u) == u \notin command

\* The resume command, with the unknown result acknowledged.
Resumed(r) ==
    /\ \/ runs[r].state = "interrupted"
       \/ runs[r].state = "failed" /\ ~Unresolved(runs[r].task)
    /\ Write([runs EXCEPT ![r].state = "queued", ![r].attempt = @ + 1, ![r].cancel = FALSE], "terminal")

\* admitStudioCommandReceipt(): effect and receipt are one transaction; a
\* client that did not see the answer sends the command again.
UserCommand(u) ==
    /\ Fresh(u) /\ Order[u].run \in DOMAIN runs
    /\ IF Order[u].type = "cancel" THEN Write(Stopped({Order[u].run}), "terminal")
       ELSE Resumed(Order[u].run)
    /\ command' = command \cup {u}
    /\ Count(u)
    /\ UNCHANGED <<caller, receipt, op, tasks, loopVars>>

\* What the thread of the Host does when no loop runs.
HostStep ==
    /\ Idle
    /\ \/ \E g \in 1..MaxGrants : ToolCall(g)
       \/ TurnEnds \/ NextTurn
       \/ Child
       \/ ScanQueue

Next ==
    \/ HostStep
    \/ \E r \in DOMAIN queue : StartRun(r)
    \/ LoopEnds \/ Recover
    \/ \E g \in 1..MaxGrants : Refused(g)
    \/ \E u \in UserCommands : UserCommand(u)

Spec == Init /\ [][Next]_vars

(***************************************************************************)
(* What has to hold.                                                       *)
(***************************************************************************)
\* Through crashes, late calls of an earlier grant, resumed parents and
\* clients that repeat themselves, a command takes effect exactly if its
\* receipt says so, and at most once; and the rounds of a child, which a
\* message writes back from a record read before its awaits, count its runs.
CommandOnce ==
    /\ \A c \in Calls : done[c] = IF receipt[c] = "accepted" THEN 1 ELSE 0
    /\ \A u \in UserCommands : done[u] = IF u \in command THEN 1 ELSE 0
    /\ \A t \in DOMAIN tasks : /\ tasks[t].rounds = Cardinality(RunsOf(t))
                               /\ tasks[t].rounds <= MaxRounds
                               /\ \A r \in RunsOf(t) : r <= tasks[t].run

\* However a child's run ends, by its result, a cancel, a deadline, a crash
\* or a recovery, and in each of its attempts, the outbox has exactly one
\* event for that end, which says what the run says; and none for an end
\* that has not come (recordStudioAgentEvent, agentOutbox.ts).  The one
\* exception is an attempt that was withdrawn and started in spite of it: its
\* event says cancelled, before it ends and however it does.
EndsTold ==
    \A r \in DOMAIN runs :
      LET k == <<r, runs[r].attempt, "terminal">>
          ended == runs[r].state \notin Active
          stale == <<r, runs[r].attempt>> \in woken
      IN  /\ k \in DOMAIN event <=> ended \/ stale
          /\ stale => event[k] = "cancelled"
          /\ ended /\ ~stale => event[k] = Reported(runs[r])
          /\ \A a \in 1..(runs[r].attempt - 1) : <<r, a, "terminal">> \in DOMAIN event
          /\ runs[r].state = "waiting" => <<r, runs[r].attempt, "question">> \in DOMAIN event

\* What the specification of the tools says: the outbox has each end of a
\* child as it was.  Not so for a run that was withdrawn between the read of
\* the queue and its start (studioRuntimeService.ts, agentOutbox.ts).
EndToldAsItWas ==
    \A r \in DOMAIN runs :
      LET k == <<r, runs[r].attempt, "terminal">>
      IN  runs[r].state \notin Active => k \in DOMAIN event /\ event[k] = Reported(runs[r])
=============================================================================
