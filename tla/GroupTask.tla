------------------------------ MODULE GroupTask ------------------------------
(***************************************************************************)
(* The group engine in task mode (groupExecutor.ts task, groupSteps.ts,    *)
(* groupSteering.ts): the host member plans a round of tasks, the members  *)
(* execute them, the host reviews, and messages the user adds meanwhile    *)
(* lead to a new plan.  The plan is a checkpoint, the messages are an      *)
(* inbox in the store.                                                     *)
(*                                                                         *)
(* Every round has the same tasks: the engine does not look at what they   *)
(* say.  As in WorkflowEngine a step ends where the code awaits; messages  *)
(* of the user may be committed by another process at any moment.  Results *)
(* the engine cannot ask for again, because a new plan has been saved, are *)
(* dropped: a round has its own call ids.                                  *)
(* Prompts, summaries, the size of a batch in characters and the manual    *)
(* mode are left out.                                                      *)
(***************************************************************************)
EXTENDS EngineRun, Sequences

CONSTANTS
    Tasks,          \* a round: sequence of [member, needs], needs a set of places
    Messages,       \* what the user may add, numbered in the order of sending
    BatchMessages,  \* messages the host is shown at once (32)
    HostResponses,  \* answers the host may need for one valid plan
    MaxRevisions    \* bound: reviews that ask for another round

\* What a task needs may stand before or after it, but not in a cycle (tasks()).
ASSUME GroupConstants ==
    /\ Tasks \in Seq({Tasks[i] : i \in DOMAIN Tasks})
    /\ \A i \in DOMAIN Tasks : Tasks[i].needs \subseteq DOMAIN Tasks
    /\ \E rank \in [DOMAIN Tasks -> DOMAIN Tasks] :
          \A i \in DOMAIN Tasks : \A j \in Tasks[i].needs : rank[j] < rank[i]
    /\ Messages \subseteq Nat
    /\ BatchMessages \in Nat \ {0}
    /\ HostResponses \in Nat \ {0}

VARIABLES
    plan,     \* checkpoint.plan
    inbox,    \* message -> unsent, pending or consumed
    desk,     \* the local state of task() and studioGroupTasks
    output,   \* results of this round: place of a task -> result
    busy,     \* places of the tasks with a running call
    shown,    \* history: messages in the prompt of the last steering call
    planned   \* history: message -> how many saved plans took it in

groupVars == <<plan, inbox, desk, output, busy, shown, planned>>

NoPlan == [round |-> 0, phase |-> "none", revision |-> 0, pending |-> {}, ack |-> {}]
Away == [pc |-> "idle", next |-> 1, advanced |-> FALSE, halted |-> FALSE, result |-> "none"]

GroupInit ==
    /\ plan = NoPlan
    /\ inbox = [m \in Messages |-> "unsent"]
    /\ desk = Away
    /\ output = Nothing
    /\ busy = {}
    /\ shown = {}
    /\ planned = [m \in Messages |-> 0]

Pending == {m \in Messages : inbox[m] = "pending"}
\* hasStudioGroupSteering(): an aborted executor sees no messages.
HasSteering == Pending # {} /\ ~heard

\* Mutant: the batch of the prompt is whatever is pending when it is needed.
SnapshotAll == Pending

\* snapshotStudioGroupSteering(): the oldest messages, one batch of them.
Snapshot == {m \in Pending : Cardinality({o \in Pending : o < m}) < BatchMessages}

Finish(result) == [Away EXCEPT !.pc = "finish", !.result = result]

(***************************************************************************)
(* The host member.                                                        *)
(***************************************************************************)
HostStages == {"plan", "steer", "review"}
Subject(stage) == CASE stage = "plan" -> 0
                    [] stage = "steer" -> plan.revision
                    [] stage = "review" -> plan.round
HostCall == <<desk.pc, Subject(desk.pc), desk.next>>
TaskCall(i) == <<"task", plan.round, i>>

\* studioGroupHostJson() calls the host, for the n-th time on one subject.
CallHost(stage, n) ==
    IF heard THEN desk' = Finish("cancelled") /\ UNCHANGED <<turn, shown>>
    ELSE LET c == <<stage, Subject(stage), n>>
         IN  /\ desk' = [desk EXCEPT !.pc = stage, !.next = n]
             /\ turn' = Put(turn, c, Asked(c))
             /\ shown' = IF stage = "steer" /\ Asked(c) = "permit"
                         THEN plan.pending ELSE shown

BeginGroup ==
    /\ run.kind = "group"
    /\ run.state = "queued"
    /\ run' = [run EXCEPT !.state = "running"]
    /\ IF plan.phase = "none" THEN CallHost("plan", 1)
       ELSE desk' = [Away EXCEPT !.pc = "top"] /\ UNCHANGED <<turn, shown>>
    /\ UNCHANGED <<stored, heard, crashes, plan, inbox, output, busy, planned>>

Answer == turn[HostCall]
Answered(stage) == desk.pc = stage /\ Returned(HostCall)
Accepted(stage) == Answered(stage) /\ Answer \in Good \ {"invalid"} /\ ~heard

\* The call failed, was stopped, or its text is no valid plan.
HostFails ==
    /\ desk.pc \in HostStages /\ Returned(HostCall) /\ ~Accepted(desk.pc)
    /\ desk' = IF Answer = "unknown" THEN Finish("unknown")
               ELSE IF heard THEN Finish("cancelled")
               ELSE IF Answer # "invalid" THEN Finish(Answer)
               ELSE IF desk.next = HostResponses \/ run.stop THEN Finish("failed")
               ELSE [desk EXCEPT !.next = @ + 1]
    /\ turn' = Drop(turn, HostCall)
    /\ UNCHANGED <<run, stored, heard, crashes, plan, inbox, output, busy, shown, planned>>

\* The next response is asked for after progress() has been written.
HostAgain ==
    /\ desk.pc \in HostStages /\ HostCall \notin DOMAIN turn
    /\ CallHost(desk.pc, desk.next)
    /\ UNCHANGED <<run, stored, heard, crashes, plan, inbox, output, busy, planned>>

Planned ==
    /\ Accepted("plan")
    /\ plan' = [NoPlan EXCEPT !.phase = "tasks"]
    /\ desk' = [Away EXCEPT !.pc = "top"]
    /\ turn' = Drop(turn, HostCall)
    /\ stored' = Nothing
    /\ UNCHANGED <<run, heard, crashes, inbox, output, busy, shown, planned>>

\* The new plan takes the messages in and is to acknowledge them.
Steered ==
    /\ Accepted("steer")
    /\ plan' = [plan EXCEPT !.round = @ + 1, !.phase = "tasks",
                            !.pending = {}, !.ack = plan.pending]
    /\ planned' = [m \in Messages |-> planned[m] + (IF m \in plan.pending THEN 1 ELSE 0)]
    /\ desk' = [Away EXCEPT !.pc = "top"]
    /\ turn' = Drop(turn, HostCall)
    /\ stored' = Nothing
    /\ UNCHANGED <<run, heard, crashes, inbox, output, busy, shown>>

\* Mutant: the host's word is enough.
AllSucceededAnyway == TRUE

AllSucceeded == \A i \in DOMAIN output : output[i] = "succeeded"

\* The review counts unless new messages arrived; completion is not taken on
\* the host's word alone.
Reviewed ==
    /\ Accepted("review")
    /\ turn' = Drop(turn, HostCall)
    /\ IF ~HasSteering /\ Answer = "complete" /\ ~AllSucceeded
       THEN desk' = Finish("failed") /\ UNCHANGED <<plan, stored>>
       ELSE /\ desk' = [Away EXCEPT !.pc = "top"]
            /\ CASE HasSteering -> UNCHANGED <<plan, stored>>
                 [] ~HasSteering /\ Answer = "complete" ->
                      plan' = [plan EXCEPT !.phase = "complete"] /\ UNCHANGED stored
                 [] OTHER ->
                      plan' = [plan EXCEPT !.round = @ + 1, !.phase = "tasks"] /\ stored' = Nothing
    /\ output' = Nothing
    /\ UNCHANGED <<run, heard, crashes, inbox, busy, shown, planned>>

(***************************************************************************)
(* The head of the loop.                                                   *)
(***************************************************************************)
\* Mutant: the list of messages is cleared before they are consumed.
AckEarly ==
    /\ plan' = [plan EXCEPT !.ack = {}]
    /\ UNCHANGED inbox

\* ackSteering(): the saved plan's messages are consumed.
Ack ==
    /\ inbox' = [m \in Messages |-> IF m \in plan.ack /\ inbox[m] = "pending" THEN "consumed" ELSE inbox[m]]
    /\ UNCHANGED plan

Acknowledge ==
    /\ desk.pc = "top"
    /\ IF heard THEN desk' = Finish("cancelled") /\ UNCHANGED <<inbox, plan>>
       ELSE IF plan.ack = {} THEN desk' = [desk EXCEPT !.pc = "open"] /\ UNCHANGED <<inbox, plan>>
       ELSE IF run.stop THEN desk' = Finish("failed") /\ UNCHANGED <<inbox, plan>>
       ELSE desk' = [desk EXCEPT !.pc = "acked"] /\ Ack
    /\ UNCHANGED <<portVars, output, busy, shown, planned>>

Acknowledged ==
    /\ desk.pc = "acked"
    /\ IF heard THEN UNCHANGED plan ELSE plan' = [plan EXCEPT !.ack = {}]
    /\ desk' = [desk EXCEPT !.pc = "open"]
    /\ UNCHANGED <<portVars, inbox, output, busy, shown, planned>>

\* The batch the host will be asked about is fixed in the plan first.
FixBatch ==
    /\ desk.pc = "open" /\ HasSteering /\ plan.phase # "steering"
    /\ plan' = [plan EXCEPT !.phase = "steering", !.revision = @ + 1, !.pending = Snapshot]
    /\ UNCHANGED <<portVars, inbox, desk, output, busy, shown, planned>>

Steer ==
    /\ desk.pc = "open" /\ plan.phase = "steering"
    /\ CallHost("steer", 1)
    /\ UNCHANGED <<run, stored, heard, crashes, plan, inbox, output, busy, planned>>

\* No new messages: the round's tasks, or the end.
Proceed ==
    /\ desk.pc = "open" /\ ~HasSteering /\ plan.phase # "steering"
    /\ desk' = IF heard THEN Finish("cancelled")
               ELSE IF plan.phase = "complete" THEN Finish("succeeded")
               ELSE IF run.stop THEN Finish("failed")
               ELSE [Away EXCEPT !.pc = "woken"]
    /\ UNCHANGED <<portVars, plan, inbox, output, busy, shown, planned>>

(***************************************************************************)
(* studioGroupTasks(): one round.                                          *)
(***************************************************************************)
Held == heard \/ desk.halted \/ HasSteering

\* Mutant: members are not looked at, only the tasks.
MayStartTogether(i) == i \notin busy /\ Tasks[i].needs \subseteq DOMAIN output

MayStart(i) ==
    /\ i \notin busy
    /\ \A j \in busy : Tasks[j].member # Tasks[i].member
    /\ Tasks[i].needs \subseteq DOMAIN output

Startable == {i \in desk.next..Len(Tasks) : i \notin DOMAIN output /\ MayStart(i)}
NextTask == CHOOSE i \in Startable : \A j \in Startable : i <= j

TasksLoop ==
    /\ desk.pc = "woken"
    /\ desk' = IF DOMAIN output = DOMAIN Tasks \/ Held THEN [desk EXCEPT !.pc = "drain"]
               ELSE [desk EXCEPT !.pc = "pass", !.next = 1, !.advanced = FALSE]
    /\ UNCHANGED <<portVars, plan, inbox, output, busy, shown, planned>>

\* A task whose dependency failed is not dispatched.
TaskBlocked ==
    /\ desk.pc = "pass" /\ ~Held /\ Startable # {}
    /\ \E j \in Tasks[NextTask].needs : output[j] # "succeeded"
    /\ output' = Put(output, NextTask, "failed")
    /\ desk' = [desk EXCEPT !.next = NextTask + 1, !.advanced = TRUE]
    /\ UNCHANGED <<portVars, plan, inbox, busy, shown, planned>>

TaskStarts ==
    /\ desk.pc = "pass" /\ ~Held /\ Startable # {}
    /\ \A j \in Tasks[NextTask].needs : output[j] = "succeeded"
    /\ busy' = busy \cup {NextTask}
    /\ turn' = Put(turn, TaskCall(NextTask), Asked(TaskCall(NextTask)))
    /\ desk' = [desk EXCEPT !.next = NextTask + 1, !.advanced = TRUE]
    /\ UNCHANGED <<run, stored, heard, crashes, plan, inbox, output, shown, planned>>

\* The pass is over; a message may have ended it before its first task, and
\* the engine then takes the round for stuck.
TasksPassed ==
    /\ desk.pc = "pass" /\ (Held \/ Startable = {})
    /\ desk' = IF busy # {} THEN [desk EXCEPT !.pc = "race", !.next = 1, !.advanced = FALSE]
               ELSE IF ~desk.advanced THEN Finish(IF heard THEN "cancelled" ELSE "failed")
               ELSE [desk EXCEPT !.pc = "woken"]
    /\ UNCHANGED <<portVars, plan, inbox, output, busy, shown, planned>>

\* What studioGroupCall makes of the result of task i.
TaskResult(i) ==
    IF turn[TaskCall(i)] = "unknown" THEN "unknown"
    ELSE IF heard THEN "cancelled" ELSE turn[TaskCall(i)]

\* A task comes back; some results stop the round.
TaskEnds(i) ==
    /\ desk.pc \in {"race", "drain", "woken"} /\ i \in busy /\ Returned(TaskCall(i))
    /\ LET r == TaskResult(i)
           stops == r \in {"unknown", "final"} \/ (r = "cancelled" /\ ~desk.halted)
       IN  /\ output' = Put(output, i, r)
           /\ desk' = [desk EXCEPT !.halted = @ \/ stops,
                                   !.result = IF r = "unknown" \/ (stops /\ @ = "none") THEN r ELSE @,
                                   !.pc = IF @ = "race" THEN "woken" ELSE @]
    /\ busy' = busy \ {i}
    /\ turn' = Drop(turn, TaskCall(i))
    /\ UNCHANGED <<run, stored, heard, crashes, plan, inbox, shown, planned>>

AllExited == busy = {}

\* The finally block has waited for all calls.
TasksDone ==
    /\ desk.pc = "drain" /\ AllExited
    /\ IF desk.result # "none" \/ heard
       THEN /\ desk' = Finish(IF desk.result # "none" THEN desk.result ELSE "cancelled")
            /\ UNCHANGED <<turn, shown, output>>
       ELSE IF HasSteering
       THEN desk' = [Away EXCEPT !.pc = "top"] /\ output' = Nothing /\ UNCHANGED <<turn, shown>>
       ELSE CallHost("review", 1) /\ UNCHANGED output
    /\ UNCHANGED <<run, stored, heard, crashes, plan, inbox, busy, planned>>

FinishGroup ==
    /\ desk.pc = "finish"
    /\ Settled(desk.result, Pending # {})
    /\ desk' = Away
    /\ output' = Nothing
    /\ UNCHANGED <<plan, inbox, busy, shown, planned>>

(***************************************************************************)
(* Signals and calls.                                                      *)
(***************************************************************************)
\* Some promise can still be continued before the next timer or signal.
Continuing ==
    \/ desk.pc \notin {"race", "drain", "idle"} \cup HostStages
    \/ desk.pc = "drain" /\ busy = {}
    \/ desk.pc \in HostStages
       /\ (HostCall \notin DOMAIN turn \/ Returned(HostCall) \/ (heard /\ In(HostCall, "permit")))
    \/ \E i \in busy : Returned(TaskCall(i))
                       \/ ((heard \/ desk.halted) /\ In(TaskCall(i), "permit"))

Turning(c, off, answers) ==
    /\ \/ Refused(c, off)
       \/ Granted(c, off, c[1] = "task" /\ Pending # {})
       \/ ~Continuing /\ NotPrepared(c, off)
       \/ ~Continuing /\ Dispatched(c, off)
       \/ ~Continuing /\ \E r \in answers : CallEnds(c, r)
    /\ UNCHANGED <<run, heard, crashes, groupVars>>

\* The texts with which the host may answer; a plan is just "succeeded".
Texts ==
    IF desk.pc # "review" THEN {"invalid", "succeeded"}
    ELSE {"invalid", "complete"} \cup (IF plan.round < MaxRevisions THEN {"revise"} ELSE {})

HostTurn ==
    /\ desk.pc \in HostStages
    /\ Turning(HostCall, heard, (KernelResults \ {"succeeded"}) \cup Texts)

TaskTurn(i) == desk.pc # "pass" /\ i \in busy /\ Turning(TaskCall(i), heard \/ desk.halted, KernelResults)

HearGroup == run.kind = "group" /\ ~Continuing /\ Hear /\ UNCHANGED groupVars

\* The steer command.
Send(m) ==
    /\ run.kind = "group" /\ Live /\ ~run.stop
    /\ inbox[m] = "unsent"
    /\ \A o \in Messages : o < m => inbox[o] # "unsent"
    /\ inbox' = [inbox EXCEPT ![m] = "pending"]
    /\ UNCHANGED <<portVars, plan, desk, output, busy, shown, planned>>

CrashGroup ==
    /\ run.kind = "group"
    /\ Crashed
    /\ desk' = Away
    /\ output' = Nothing
    /\ busy' = {}
    /\ UNCHANGED <<plan, inbox, shown, planned>>

GroupNext ==
    \/ BeginGroup \/ HostFails \/ HostAgain \/ Planned \/ Steered \/ Reviewed
    \/ Acknowledge \/ Acknowledged \/ FixBatch \/ Steer \/ Proceed
    \/ TasksLoop \/ TaskBlocked \/ TaskStarts \/ TasksPassed \/ TasksDone \/ FinishGroup
    \/ HostTurn \/ HearGroup \/ CrashGroup
    \/ \E i \in DOMAIN Tasks : TaskEnds(i) \/ TaskTurn(i)
    \/ \E m \in Messages : Send(m)

GroupTypeOK ==
    /\ plan.phase \in {"none", "tasks", "steering", "complete"}
    /\ plan.round \in Nat /\ plan.revision \in Nat
    /\ plan.pending \cup plan.ack \subseteq Messages
    /\ (plan.phase = "steering") <=> (plan.pending # {})
    /\ Cardinality(plan.pending) <= BatchMessages
    /\ inbox \in [Messages -> {"unsent", "pending", "consumed"}]
    /\ desk.result \in {"none", "succeeded"} \cup Bad
    /\ DOMAIN output \subseteq DOMAIN Tasks
    /\ busy \subseteq DOMAIN Tasks \ DOMAIN output
    /\ desk.pc = "idle" => desk = Away /\ output = Nothing /\ busy = {}
=============================================================================
