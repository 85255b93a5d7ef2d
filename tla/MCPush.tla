------------------------------- MODULE MCPush -------------------------------
(* TLC instances of Push. *)
EXTENDS Push, TLC

SenderSymmetry == Permutations(Senders)
EndpointSymmetry == Permutations(Endpoints)
=============================================================================
