------------------------------ MODULE MCBigFS ------------------------------
(* Instances of BigFS for TLC.                                             *)
EXTENDS BigFS

F  == <<<<"f", 0>>>>
G  == <<<<"g", 0>>>>
F1 == <<<<"f", 0>>, <<"num", 1>>>>

PlainNames   == {F, G}
NumeralNames == {F, F1}

\* An earlier session stored a file f of two blocks.
LeftOver == {[loc |-> F, text |-> <<<<0, 1>>, <<0, 2>>>>]}

Nothing  == {}
FullTail == {FALSE}
AnyTail  == {TRUE, FALSE}
NoFullTail == {TRUE}

=============================================================================
