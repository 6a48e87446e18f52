---------------------------- MODULE MCReadBuffer ----------------------------
(* Instances of ReadBuffer for TLC.                                        *)
EXTENDS ReadBuffer

\* Strings of two, one, four, one, four, two and one bytes, terminators included.
\* None has more than MAX bytes before its terminator, like every string the
\* programs send: a buffer that is left behind held the end of one.
SomeNuls == {2, 3, 7, 8, 12, 14, 15} \cap (1..Total)

AllSchedules == Schedules
NoRace       == {"exact", "torn", "overrun"}

=============================================================================
