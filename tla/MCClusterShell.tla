--------------------------- MODULE MCClusterShell ---------------------------
(* An instance of ClusterShell for TLC.                                    *)
EXTENDS ClusterShell

CarefulOrNot == {Habits, {}}

=============================================================================
