----------------------------- MODULE MCStudioHost -----------------------------
(***************************************************************************)
(* Small instances of StudioHost for TLC.                                  *)
(***************************************************************************)
EXTENDS StudioProperties, TLC

CONSTANTS h1, h2, none, target, work, check, note

MCHosts == {h1, h2}
Symmetric == Permutations(MCHosts)

\* One run with one step: a chat, or a workflow with a native call or a confirmation.
OneRun == {1}
WorkflowKind == [r \in OneRun |-> "workflow"]
OneChat == [r \in OneRun |-> "chat"]
AgentStep == [r \in OneRun |-> {work}]
ConfirmStep == [r \in OneRun |-> {check}]
OneTarget == [r \in OneRun |-> target]

\* Which commands come in the middle of a scan: all, or those to the first attempt of run 1.
AnyCommand == OneRun \X (0..MaxAttempt)
FirstAttempt == {<<1, 1>>}

\* Two inputs of one group; the first is a task.
TwoRuns == {1, 2}
GroupKind == [r \in TwoRuns |-> "group"]
AgentOnly == [r \in TwoRuns |-> {work}]
SharedTarget == [r \in TwoRuns |-> target]
\* Two chats sent to one conversation.
ChatKind == [r \in TwoRuns |-> "chat"]

\* A native call succeeds or is lost; other ends come from the runtime itself.
FewOutcomes == {Outcome("succeeded", TRUE), Unknown}
=============================================================================
