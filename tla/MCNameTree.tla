----------------------------- MODULE MCNameTree -----------------------------
(* Instances of NameTree for TLC.                                          *)
EXTENDS NameTree

TwoNames == {"f", "d"}

\* All paths of one component, and those through the name d and through "..".
ShortPaths ==
    {<<x>> : x \in TwoNames \cup {".", ".."}} \cup
    {<<x, y>> : x \in {"d", ".."}, y \in TwoNames}

OneName == {"d"}

\* Enough to go down, up and round in a circle.
LoopPaths == {<<"d">>, <<".">>, <<"..">>, <<"d", "d">>, <<"..", "d">>}

Everything == Habits
NotStale   == Habits \ {"stale_parent"}
Anything   == {}

=============================================================================
