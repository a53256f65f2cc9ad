---------------------------- MODULE WorkflowEngine ----------------------------
(***************************************************************************)
(* The workflow engine (workflowExecutor.ts) and its agent nodes           *)
(* (workflowSteps.ts): it walks over the nodes in topological order,       *)
(* starts those whose predecessors allow it, and picks the winner of an    *)
(* any-join, abandoning the other branches.                                *)
(*                                                                         *)
(* JavaScript runs to the next await.  "visit" is the for loop between two *)
(* awaits, "await" a settle() in it, "race" Promise.race of the running    *)
(* nodes, "woken" after it, "drain" the finally block.  Timers, signals    *)
(* and ends of calls arrive when no promise is left to be continued.       *)
(*                                                                         *)
(* Prompts, outputs and the text of conditions are left out: a condition   *)
(* gives yes or no.  Approval nodes are modelled in StudioHost, creation   *)
(* nodes are not.                                                          *)
(***************************************************************************)
EXTENDS EngineRun, Sequences

CONSTANT Graphs  \* validated definitions

\* order: the topological order of studioWorkflowGraph; edges: source, target
\* and source handle, in the order of the definition; retries: retryCount.
ASSUME GraphsValid ==
    \A g \in Graphs :
        LET from(n) == {i \in DOMAIN g.edges : g.edges[i].from = n}
            into(n) == {i \in DOMAIN g.edges : g.edges[i].to = n}
        IN  /\ g.order \in Seq(DOMAIN g.kind)
            /\ \A n \in DOMAIN g.kind : \E i \in DOMAIN g.order : g.order[i] = n
            /\ \A p, q \in DOMAIN g.order : g.order[p] = g.order[q] => p = q
            /\ g.retries \in [DOMAIN g.kind -> Nat]
            /\ g.edges \in Seq({g.edges[i] : i \in DOMAIN g.edges})
            /\ \A i \in DOMAIN g.edges : /\ {g.edges[i].from, g.edges[i].to} \subseteq DOMAIN g.kind
                                         /\ \A p, q \in DOMAIN g.order :
                                              g.order[p] = g.edges[i].from /\ g.order[q] = g.edges[i].to => p < q
            /\ \A n \in DOMAIN g.kind : g.kind[n] = "start" <=> into(n) = {}
            /\ \E s \in DOMAIN g.kind : \A n \in DOMAIN g.kind : g.kind[n] = "start" <=> n = s
            /\ \A n \in DOMAIN g.kind :
                 CASE g.kind[n] = "end" -> from(n) = {}
                   [] g.kind[n] = "parallel" -> Cardinality(from(n)) >= 2
                   [] g.kind[n] = "condition" ->
                        {g.edges[i].on : i \in from(n)} = {"yes", "no"} /\ Cardinality(from(n)) = 2
                   [] OTHER -> Cardinality(from(n)) = 1

VARIABLES
    graph,     \* the definition stored with the run
    value,     \* checkpoint: node -> persisted outcome
    wait,      \* checkpoint: <<node, attempt>> -> its retry deadline
    engine,    \* the local state of executeStudioWorkflow
    node,      \* running: node -> how far executeWorkflowNode is
    outcome,   \* outcomes: node -> its outcome in this execution
    abandoned  \* losers of any-joins

flowVars == <<graph, value, wait, engine, node, outcome, abandoned>>
flowLocal == <<engine, node, outcome, abandoned>>

Nodes == DOMAIN graph.kind
Into(n) == {i \in DOMAIN graph.edges : graph.edges[i].to = n}
OutOf(n) == {i \in DOMAIN graph.edges : graph.edges[i].from = n}

\* workflowAncestors()
Ancestors(n) ==
    LET above[m \in Nodes] == UNION {{graph.edges[i].from} \cup above[graph.edges[i].from] : i \in Into(m)}
    IN  above[n]

\* workflowAnyLosers(): ancestors of the join that nothing but the join uses
\* and that the winner does not depend on.
Losers(join, winner) ==
    LET only[n \in Nodes] == n = join \/ (OutOf(n) # {} /\ \A i \in OutOf(n) : only[graph.edges[i].to])
    IN  {n \in Nodes : n \in Ancestors(join) \ (Ancestors(winner) \cup {winner}) /\ only[n]}

\* won: the winner of the join at `next` whose losers are being abandoned.
Idle == [pc |-> "idle", next |-> 1, advanced |-> FALSE, fatal |-> "none", scope |-> FALSE, won |-> {}]

FlowInit ==
    /\ graph \in Graphs
    /\ value = Nothing
    /\ wait = Nothing
    /\ engine = Idle
    /\ node = Nothing
    /\ outcome = Nothing
    /\ abandoned = {}

Aborted == heard \/ engine.scope
Off(n) == Aborted \/ n \in abandoned
CallOf(n) == <<n, node[n].k>>

\* Mutant: a branch that was not taken never answers its successors.
EdgeStatePending(i) ==
    LET o == IF graph.edges[i].from \in DOMAIN outcome THEN outcome[graph.edges[i].from] ELSE "none"
    IN  IF o = "none" \/ (o \in {"yes", "no"} /\ o # graph.edges[i].on) THEN "pending"
        ELSE IF o \in {"succeeded", "yes", "no"} THEN "active" ELSE "failed"

\* Mutant: the successors of a failed node are skipped.
EdgeStateLenient(i) ==
    LET o == IF graph.edges[i].from \in DOMAIN outcome THEN outcome[graph.edges[i].from] ELSE "none"
    IN  IF o = "none" THEN "pending"
        ELSE IF o \in {"succeeded", graph.edges[i].on} THEN "active" ELSE "skipped"

\* incoming(): what an edge says about its target.
EdgeState(i) ==
    LET o == IF graph.edges[i].from \in DOMAIN outcome THEN outcome[graph.edges[i].from] ELSE "none"
    IN  IF o = "none" THEN "pending"
        ELSE IF o = "skipped" \/ (o \in {"yes", "no"} /\ o # graph.edges[i].on) THEN "skipped"
        ELSE IF o \in {"succeeded", "yes", "no"} THEN "active" ELSE "failed"

InState(n, state) == {i \in Into(n) : EdgeState(i) = state}
\* The loop goes on with the losers of the winner it began with, even if a
\* predecessor before it has succeeded since.
Winner(n) ==
    LET first == CHOOSE i \in InState(n, "active") : \A j \in InState(n, "active") : i <= j
    IN  IF engine.won # {} /\ n = graph.order[engine.next]
        THEN CHOOSE w \in engine.won : TRUE
        ELSE graph.edges[first].from

\* Mutant: the join starts while losing branches are still winding down.
LosersLeftAlone(n) == {}

\* Losing branches of a decided any-join that are still running.
LosersLeft(n) == Losers(n, Winner(n)) \cap DOMAIN node

\* Losers the join has still to abandon, or to settle because they never ran.
LosersToDrop(n) ==
    {l \in Losers(n, Winner(n)) \ DOMAIN outcome : l \notin abandoned \/ l \notin DOMAIN node}

\* What the loop does when it comes to node n.
Decision(n) ==
    IF n \in abandoned THEN "skip"
    ELSE IF graph.kind[n] = "any" /\ InState(n, "active") # {}
    THEN IF LosersToDrop(n) # {} THEN "drop"
         ELSE IF LosersLeft(n) # {} THEN "wait" ELSE "launch"
    ELSE IF InState(n, "pending") # {} THEN "wait"
    ELSE IF InState(n, "failed") # {} THEN "fail"
    ELSE IF Into(n) # {} /\ InState(n, "active") = {} THEN "skip"
    ELSE "launch"

\* The place of the next node with something to do in this pass.
Todo == {i \in engine.next..Len(graph.order) :
            /\ graph.order[i] \notin DOMAIN outcome \cup DOMAIN node
            /\ Decision(graph.order[i]) # "wait"}
First == CHOOSE i \in Todo : \A j \in Todo : i <= j

\* The condition of the while loop and the check of the signal after it.
Complete == DOMAIN outcome = Nodes /\ node = Nothing
Looping(e) == [e EXCEPT !.pc = IF Complete \/ Aborted THEN "drain" ELSE "visit",
                        !.next = 1, !.advanced = FALSE, !.won = {}]

\* persist() and outcomes.set()
Record(n, result) ==
    /\ value' = Put(value, n, result)
    /\ outcome' = Put(outcome, n, result)

(***************************************************************************)
(* The loop.                                                               *)
(***************************************************************************)
\* workflowCached(): what an earlier execution finished.
Cached == {n \in DOMAIN value : value[n] \in {"succeeded", "skipped", "yes", "no"}}

BeginFlow ==
    /\ run.kind = "workflow"
    /\ Begun
    /\ outcome' = [n \in Cached |-> value[n]]
    /\ engine' = [Idle EXCEPT !.pc = "woken"]
    /\ UNCHANGED <<graph, value, wait, node, abandoned>>

Loop ==
    /\ engine.pc \in {"woken", "await"}
    /\ engine' = IF engine.pc = "woken" THEN Looping(engine) ELSE [engine EXCEPT !.pc = "visit"]
    /\ UNCHANGED <<portVars, graph, value, wait, node, outcome, abandoned>>

\* A node that needs no call: skipped, or failed with a predecessor.
SettleHere ==
    /\ engine.pc = "visit" /\ ~Aborted /\ Todo # {}
    /\ LET n == graph.order[First]
       IN  /\ Decision(n) \in {"skip", "fail"}
           /\ Record(n, IF Decision(n) = "skip" THEN "skipped" ELSE "failed")
    /\ engine' = [engine EXCEPT !.pc = "await", !.next = First + 1, !.advanced = TRUE, !.won = {}]
    /\ UNCHANGED <<portVars, graph, wait, node, abandoned>>

\* The loop is in the middle of the losers of a join: nothing but the end of
\* the list ends it, not even the signal.
Dropping == engine.won # {} /\ LosersToDrop(graph.order[engine.next]) # {}

\* An any-join has its winner: abandon a loser, abort it or settle it.
DropLoser ==
    /\ engine.pc = "visit" /\ (Dropping \/ ~Aborted) /\ Todo # {}
    /\ Decision(graph.order[First]) = "drop"
    /\ \E l \in LosersToDrop(graph.order[First]) :
         /\ abandoned' = abandoned \cup {l}
         /\ engine' = [engine EXCEPT !.pc = IF l \in DOMAIN node THEN "visit" ELSE "await",
                                     !.next = First, !.won = {Winner(graph.order[First])}]
         /\ IF l \in DOMAIN node THEN UNCHANGED <<value, outcome>> ELSE Record(l, "skipped")
    /\ UNCHANGED <<portVars, graph, wait, node>>

Launch ==
    /\ engine.pc = "visit" /\ ~Aborted /\ Todo # {}
    /\ Decision(graph.order[First]) = "launch"
    /\ node' = Put(node, graph.order[First], [at |-> "launched", k |-> 0])
    /\ engine' = [engine EXCEPT !.next = First + 1, !.advanced = TRUE, !.won = {}]
    /\ UNCHANGED <<portVars, graph, value, wait, outcome, abandoned>>

\* The pass is over: wait for a node, or loop, or give up.
EndPass ==
    /\ engine.pc = "visit" /\ ~Dropping /\ (Aborted \/ Todo = {})
    /\ engine' =
         IF node # Nothing THEN [engine EXCEPT !.pc = "race", !.next = 1, !.advanced = FALSE, !.won = {}]
         ELSE IF ~engine.advanced /\ DOMAIN outcome # Nodes
         THEN [engine EXCEPT !.pc = "drain", !.scope = TRUE, !.won = {},
                             !.fatal = IF @ = "none" THEN "stuck" ELSE @]
         ELSE Looping(engine)
    /\ UNCHANGED <<portVars, graph, value, wait, node, outcome, abandoned>>

\* What executeStudioWorkflow returns when everything has exited.
FlowResult ==
    IF engine.fatal # "none" THEN IF engine.fatal = "stuck" THEN "failed" ELSE engine.fatal
    ELSE IF heard THEN "cancelled"
    ELSE LET ends == {outcome[n] : n \in {m \in DOMAIN outcome : graph.kind[m] = "end"}} \cap Bad
         IN  IF ends = {} THEN "succeeded" ELSE CHOOSE r \in ends : TRUE

FinishFlow ==
    /\ engine.pc = "drain" /\ node = Nothing
    /\ Settled(FlowResult, FALSE)
    /\ engine' = Idle
    /\ outcome' = Nothing
    /\ abandoned' = {}
    /\ UNCHANGED <<graph, value, wait, node>>

(***************************************************************************)
(* One node, in its own promise.                                           *)
(***************************************************************************)
Listening == engine.pc \in {"await", "race", "woken", "drain"}

\* settle() shows a loser as skipped unless its effect is unknown.
Shown(n, r) == IF n \in abandoned /\ r # "unknown" THEN "skipped" ELSE r

\* Mutant: an outcome is recorded and stops nothing.
NodeEndsQuietly(n, r) ==
    /\ engine' = [engine EXCEPT !.pc = IF @ = "race" THEN "woken" ELSE @]
    /\ Record(n, Shown(n, r))
    /\ node' = Drop(node, n)
    /\ UNCHANGED <<graph, wait, abandoned>>

\* settle(): an unknown outcome, or a cancellation nobody asked for, stops all.
NodeEnds(n, r) ==
    LET fatal == CASE r = "unknown" -> r
                   [] r = "cancelled" /\ ~Off(n) /\ engine.fatal = "none" -> r
                   [] OTHER -> engine.fatal
    IN  /\ engine' = [engine EXCEPT !.fatal = fatal,
                                    !.scope = @ \/ r = "unknown" \/ (r = "cancelled" /\ ~Off(n)),
                                    !.pc = IF @ = "race" THEN "woken" ELSE @]
        /\ Record(n, Shown(n, r))
        /\ node' = Drop(node, n)
        /\ UNCHANGED <<graph, wait, abandoned>>

\* agentNode at the head of its loop, for call attempt k.
Attempt(n, k) ==
    IF Off(n)
    THEN NodeEnds(n, "cancelled") /\ UNCHANGED portVars
    ELSE /\ node' = Put(node, n, [at |-> "agent", k |-> k])
         /\ turn' = Put(turn, <<n, k>>, Asked(<<n, k>>))
         /\ UNCHANGED <<run, stored, heard, crashes, graph, value, wait, engine, outcome, abandoned>>

\* A launched node gets its turn.
Execute(n) ==
    /\ Listening /\ n \in DOMAIN node /\ node[n].at = "launched"
    /\ IF graph.kind[n] = "agent" THEN Attempt(n, 0)
       ELSE /\ \E r \in IF Off(n) THEN {"cancelled"}
                        ELSE IF graph.kind[n] = "condition" THEN {"yes", "no"} ELSE {"succeeded"} :
                 NodeEnds(n, r)
            /\ UNCHANGED portVars

Retriable(n, r) == r = "failed" /\ node[n].k < graph.retries[n]

\* Mutant: the deadline is set anew whenever the failure is looked at.
DeadlineAnew(c) == Put(wait, c, "ahead")

\* The retry deadline is written once for a failed call.
Deadline(c) == IF c \in DOMAIN wait THEN wait ELSE Put(wait, c, "ahead")

\* agentNode gets its result; progress() refuses to report a retry after a stop.
Judge(n) ==
    /\ Listening /\ n \in DOMAIN node /\ node[n].at = "agent" /\ Returned(CallOf(n))
    /\ turn' = Drop(turn, CallOf(n))
    /\ UNCHANGED <<run, stored, heard, crashes>>
    /\ LET r == turn[CallOf(n)]
       IN  IF r # "unknown" /\ ~Off(n) /\ Retriable(n, r)
           THEN /\ wait' = Deadline(CallOf(n))
                /\ IF run.stop
                   THEN /\ engine' = [engine EXCEPT !.pc = IF @ = "race" THEN "woken" ELSE @]
                        /\ Record(n, Shown(n, "failed"))
                        /\ node' = Drop(node, n)
                        /\ UNCHANGED <<graph, abandoned>>
                   ELSE /\ node' = Put(node, n, [at |-> "backoff", k |-> node[n].k])
                        /\ UNCHANGED <<graph, value, engine, outcome, abandoned>>
           ELSE NodeEnds(n, IF r = "unknown" THEN r ELSE IF Off(n) THEN "cancelled"
                            ELSE IF r = "final" THEN "failed" ELSE r)

\* The signal ends the delay before a retry.
BackoffAborted(n) ==
    /\ Listening /\ n \in DOMAIN node /\ node[n].at = "backoff" /\ Off(n)
    /\ NodeEnds(n, "cancelled")
    /\ UNCHANGED portVars

(***************************************************************************)
(* Timers, signals and calls.                                              *)
(***************************************************************************)
\* Some promise can still be continued before the next timer or signal.
Ready ==
    \/ engine.pc \notin {"race", "drain"}
    \/ engine.pc = "drain" /\ node = Nothing
    \/ \E n \in DOMAIN node :
         \/ node[n].at = "launched"
         \/ node[n].at = "agent" /\ (Returned(CallOf(n)) \/ (Off(n) /\ In(CallOf(n), "permit")))
         \/ node[n].at = "backoff" /\ Off(n)

\* Time reaches a deadline, whether or not the run executes.
TimePasses ==
    /\ \E c \in DOMAIN wait : wait[c] = "ahead" /\ wait' = Put(wait, c, "passed")
    /\ UNCHANGED <<portVars, graph, value, engine, node, outcome, abandoned>>

RetryDue(n) == node[n].at = "backoff" /\ wait[CallOf(n)] = "passed"

Retry(n) ==
    /\ ~Ready /\ n \in DOMAIN node /\ RetryDue(n)
    /\ Attempt(n, node[n].k + 1)

FlowTurn(n) ==
    /\ n \in DOMAIN node /\ node[n].at = "agent"
    /\ \/ Listening /\ Refused(CallOf(n), Off(n))
       \/ Listening /\ Granted(CallOf(n), Off(n), FALSE)
       \/ ~Ready /\ NotPrepared(CallOf(n), Off(n))
       \/ ~Ready /\ Dispatched(CallOf(n), Off(n))
       \/ ~Ready /\ \E r \in KernelResults : CallEnds(CallOf(n), r)
    /\ UNCHANGED <<run, heard, crashes, flowVars>>

HearFlow == run.kind = "workflow" /\ ~Ready /\ Hear /\ UNCHANGED flowVars

CrashFlow ==
    /\ run.kind = "workflow"
    /\ Crashed
    /\ engine' = Idle
    /\ node' = Nothing
    /\ outcome' = Nothing
    /\ abandoned' = {}
    /\ UNCHANGED <<graph, value, wait>>

NodeStep(n) == Execute(n) \/ Judge(n) \/ BackoffAborted(n) \/ Retry(n) \/ FlowTurn(n)

FlowNext ==
    \/ BeginFlow \/ Loop \/ SettleHere \/ DropLoser \/ Launch \/ EndPass \/ FinishFlow
    \/ HearFlow \/ TimePasses \/ CrashFlow
    \/ \E n \in Nodes : NodeStep(n)

FlowTypeOK ==
    /\ graph \in Graphs
    /\ DOMAIN value \subseteq Nodes
    /\ \A n \in DOMAIN value : value[n] \in {"succeeded", "yes", "no", "skipped"} \cup Bad
    /\ \A c \in DOMAIN wait : wait[c] \in {"ahead", "passed"}
    /\ engine.pc \in {"idle", "visit", "await", "race", "woken", "drain"}
    /\ engine.fatal \in {"none", "stuck", "cancelled", "unknown"}
    /\ \A n \in DOMAIN node : node[n].at \in {"launched", "agent", "backoff"}
    /\ DOMAIN node \cap DOMAIN outcome = {}
    /\ \A n \in DOMAIN outcome : n \in DOMAIN value /\ value[n] = outcome[n]
    /\ abandoned \subseteq Nodes
    /\ engine.pc = "idle" => flowLocal = <<Idle, Nothing, Nothing, {}>>
=============================================================================
