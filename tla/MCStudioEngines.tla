--------------------------- MODULE MCStudioEngines ---------------------------
(***************************************************************************)
(* Small workflows and group tasks for TLC.                                *)
(***************************************************************************)
EXTENDS StudioEngines, TLC

Edge(from, to, on) == [from |-> from, to |-> to, on |-> on]
Line(from, to) == Edge(from, to, "out")

\* Two branches race to an any-join; the longer one ends in a condition.
RaceGraph ==
    [order |-> <<"s", "p", "a", "b", "y", "j", "c", "e">>,
     kind |-> [s |-> "start", p |-> "parallel", a |-> "agent", b |-> "agent", y |-> "condition",
               j |-> "any", c |-> "agent", e |-> "end"],
     retries |-> [s |-> 0, p |-> 0, a |-> 0, b |-> 0, y |-> 0, j |-> 0, c |-> 0, e |-> 0],
     edges |-> <<Line("s", "p"), Line("p", "a"), Line("p", "b"), Line("a", "j"), Line("b", "y"),
                 Edge("y", "j", "yes"), Edge("y", "j", "no"), Line("j", "c"), Line("c", "e")>>]

\* A condition beside a branch that may be retried, and a join of a branch
\* that may not be taken.
ChoiceGraph ==
    [order |-> <<"s", "p", "a", "q", "j", "b", "k", "e">>,
     kind |-> [s |-> "start", p |-> "parallel", a |-> "agent", q |-> "condition", j |-> "any",
               b |-> "agent", k |-> "all", e |-> "end"],
     retries |-> [s |-> 0, p |-> 0, a |-> 1, q |-> 0, j |-> 0, b |-> 0, k |-> 0, e |-> 0],
     edges |-> <<Line("s", "p"), Line("p", "a"), Line("p", "q"), Edge("q", "b", "yes"),
                 Edge("q", "j", "no"), Line("a", "j"), Line("j", "k"), Line("b", "k"),
                 Line("k", "e")>>]

\* The branch that wins the second join leaves two others running that do not
\* count as its losers, since the first join could have taken them.
\* For checks by hand, as LateOnly (README).
LateGraph ==
    [order |-> <<"s", "p", "a", "b", "y", "q", "r", "w", "j", "e">>,
     kind |-> [s |-> "start", p |-> "parallel", a |-> "agent", b |-> "agent", y |-> "agent",
               q |-> "parallel", r |-> "parallel", w |-> "any", j |-> "any", e |-> "end"],
     retries |-> [n \in {"s", "p", "a", "b", "y", "q", "r", "w", "j", "e"} |-> 0],
     edges |-> <<Line("s", "p"), Line("p", "a"), Line("p", "b"), Line("p", "y"), Line("a", "q"),
                 Line("b", "r"), Line("y", "w"), Line("q", "j"), Line("q", "w"), Line("r", "j"),
                 Line("r", "w"), Line("w", "j"), Line("j", "e")>>]

BothGraphs == {RaceGraph, ChoiceGraph}
LateOnly == {LateGraph}
OneGraph == {RaceGraph}

\* The first task needs the second and competes with the third for a member.
SomeTasks == <<[member |-> "m1", needs |-> {2}], [member |-> "m2", needs |-> {}],
               [member |-> "m1", needs |-> {}]>>
TwoMessages == {1, 2}
=============================================================================
