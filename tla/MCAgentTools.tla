---------------------------- MODULE MCAgentTools ----------------------------
(***************************************************************************)
(* A parent with a few tool calls and a user, for TLC.                     *)
(***************************************************************************)
EXTENDS AgentTools, TLC

MCRequest ==
    ("d" :> [tool |-> "dispatch", task |-> 0]) @@ ("m" :> [tool |-> "message", task |-> 1])
    @@ ("n" :> [tool |-> "message", task |-> 1]) @@ ("x" :> [tool |-> "cancel", task |-> 1])
MCCalls == DOMAIN MCRequest

MCOrder ==
    ("resume" :> [type |-> "resume", run |-> 1]) @@ ("stop" :> [type |-> "cancel", run |-> 2])
MCUserCommands == DOMAIN MCOrder

\* A child that is withdrawn as it starts.
WithdrawOrder == "stop" :> [type |-> "cancel", run |-> 1]
WithdrawCommands == DOMAIN WithdrawOrder
=============================================================================
