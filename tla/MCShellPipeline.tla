--------------------------- MODULE MCShellPipeline ---------------------------
(* An instance of ShellPipeline for TLC.                                   *)
EXTENDS ShellPipeline

\* Everything avoided; everything but deaf stages, in the foreground and in the
\* background; and whatever there is, one line after the other.
OneOrTheOther == {Habits, {"deaf"}, {"background"}}

=============================================================================
