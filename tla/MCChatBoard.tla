---------------------------- MODULE MCChatBoard ----------------------------
(* An instance of ChatBoard for TLC: clients of one host and one group.    *)
EXTENDS ChatBoard, TLC

CONSTANTS h, p

OnHost == [c \in Clients |-> h]
OnPort == [c \in Clients |-> p]

Symmetric == {f @@ g : f \in Permutations(Clients), g \in Permutations(Courses)}

=============================================================================
