---------------------------- MODULE StudioEngines ----------------------------
(***************************************************************************)
(* One studio run, executed by the engine its kind asks for                *)
(* (executeStudioRun, runExecutor.ts), with the user's commands, and what  *)
(* the engines promise.                                                    *)
(***************************************************************************)
EXTENDS WorkflowEngine, GroupTask

vars == <<portVars, flowVars, groupVars>>

SomeGraph == CHOOSE g \in Graphs : TRUE

Init ==
    /\ PortInit
    /\ FlowInit
    /\ GroupInit
    /\ run.kind = "group" => graph = SomeGraph

Command ==
    /\ Stop \/ Resume
    /\ UNCHANGED <<flowVars, groupVars>>

\* Nothing is left to do: the run has ended and is not retried.
Ended == ~Live /\ UNCHANGED vars

Next ==
    \/ FlowNext /\ UNCHANGED groupVars
    \/ GroupNext /\ UNCHANGED flowVars
    \/ Command
    \/ Ended

Spec == Init /\ [][Next]_vars

\* Store, port and the local state of both engines keep their shape.
TypeOK == PortTypeOK /\ FlowTypeOK /\ GroupTypeOK

Dispatches == Calling' \ Calling
Underway(n) == {c \in DOMAIN turn : c[1] = n /\ turn[c] \in {"preparing", "calling"}}

(***************************************************************************)
(* Workflows.                                                              *)
(***************************************************************************)
\* Joins, skipped branches and abandoned losers never leave the loop without
\* a node to start or to wait for: the error "cannot make progress" at the
\* end of a pass is not reachable (workflowExecutor.ts).
NeverStuck == engine.fatal # "stuck"

\* Once an any-join has gone ahead, no losing branch is still writing to the
\* project beside what follows the join: there is a predecessor that won, and
\* nothing it beat is under way.  (Winner may name another one later: a
\* predecessor that is no loser, since the winner depends on it, may still end.)
\* A user's retry may start a loser that had failed again, and so may the second
\* death of a Host (README, observations): this is about the first attempt with
\* at most one.
LosersOut ==
    run.attempt = 1 /\ crashes < 2 =>
      \A j \in Nodes :
        graph.kind[j] = "any" /\ (j \in DOMAIN node \/ (j \in DOMAIN outcome /\ outcome[j] = "succeeded"))
        => \E i \in InState(j, "active") : \A l \in Losers(j, graph.edges[i].from) : Underway(l) = {}

\* A node is called again only after the call before it definitely failed and
\* its backoff is over; a restart does not start a backoff again, and gives no
\* attempt back: no call is repeated whose result is stored, and there are no
\* more of them than retryCount allows (agentNode, workflowSteps.ts).
RetryOnTime ==
    [][/\ \A c \in Dispatches :
            run.kind = "workflow" =>
              /\ c \notin DOMAIN stored
              /\ c[2] <= graph.retries[c[1]]
              /\ c[2] > 0 =>
                   LET before == <<c[1], c[2] - 1>>
                   IN  before \in DOMAIN stored /\ stored[before] = "failed" /\ wait[before] = "passed"
       /\ \A c \in DOMAIN wait : wait[c] = "passed" => wait'[c] = "passed"]_vars

\* A workflow reported as succeeded has settled every node, reached an end,
\* and every failed node was a branch that an any-join could do without.
SuccessReachesEnd ==
    run.kind = "workflow" /\ run.state = "succeeded" =>
      /\ DOMAIN value = Nodes
      /\ \E n \in Nodes : graph.kind[n] = "end" /\ value[n] = "succeeded"
      /\ \A n \in Nodes : value[n] \in Bad =>
           \E j \in Nodes : /\ graph.kind[j] = "any" /\ value[j] = "succeeded"
                            /\ n \in Ancestors(j)

\* As long as its Host lives, a workflow that has seen an unknown result
\* dispatches nothing more and ends as interrupted, even if the result came
\* from a loser (settle, workflowExecutor.ts).
UnknownStops ==
    [][run.kind = "workflow" /\ crashes = 0 /\ (\E c \in DOMAIN stored : stored[c] = "unknown") =>
         Dispatches = {} /\ run'.state \in {"running", "interrupted", "queued"}]_vars

\* What the comment in settle() says of every branch: an unknown side effect
\* is always shown, so a run that hides one is not reported as succeeded.
UnknownShown ==
    run.kind = "workflow" /\ run.state = "succeeded" =>
      \A c \in DOMAIN stored : stored[c] # "unknown"

(***************************************************************************)
(* Group tasks.                                                            *)
(***************************************************************************)
\* Through crashes, retries and failing host calls every message is taken in
\* by exactly one saved plan before it counts as consumed, and by a plan
\* whose host was shown it (groupSteering.ts, steer in groupExecutor.ts).
PlannedOnce ==
    /\ \A m \in Messages : planned[m] <= 1 /\ (inbox[m] = "consumed" => planned[m] = 1)
    /\ plan.ack \subseteq shown

\* The host plans and reviews while no member works, and no member has two
\* calls at a time (groupSteps.ts).
OneCallPerMember ==
    run.kind = "group" =>
      \A c, d \in Calling : c # d =>
        /\ {c[1], d[1]} = {"task"}
        /\ Tasks[c[3]].member # Tasks[d[3]].member

\* A group task reported as succeeded has a completed plan, all tasks of its
\* last round succeeded, and no message of the user was left behind.
CompletionIsEarned ==
    run.kind = "group" /\ run.state = "succeeded" =>
      /\ plan.phase = "complete"
      /\ \A i \in DOMAIN Tasks : TaskCall(i) \in DOMAIN stored /\ stored[TaskCall(i)] = "succeeded"
      /\ \A m \in Messages : inbox[m] # "pending"
=============================================================================
