----------------------------- MODULE ReadBuffer -----------------------------
(***************************************************************************)
(* How every process of BigFS reads a connection (src/Assignment2P1).  A   *)
(* thread (readfromName, readfromData, readfromClient) appends the bytes   *)
(* of the connection to one of two buffers of 2*MAX bytes and moves on to  *)
(* the other one once it holds more than MAX bytes.  The main thread       *)
(* (copyToString, datacopyToString) takes one NUL-terminated string after  *)
(* the other out of them.  The threads share the buffers and the fill      *)
(* marks "start" and use no lock; the builds are not optimised, so every   *)
(* access to a shared variable is an access to memory, in program order.   *)
(*                                                                         *)
(* A byte is represented by its position in the stream; 0 is a byte that   *)
(* was never received (the buffers are zero, which reads as a NUL).        *)
(* BigFS.tla takes the connections for queues of strings; this module      *)
(* says when that is so.                                                   *)
(***************************************************************************)
EXTENDS Naturals, Sequences

CONSTANTS
    MAX,        \* MAX_SIZE or BLOCKSIZE: half a buffer
    Total,      \* bound: the length of the stream
    Nuls,       \* the positions of its NUL bytes
    Polling,    \* is the thread's read non-blocking, without a select()?
    Excluded    \* schedules that a run leaves out: see the four below

\* "exact":   a read ends exactly at MAX.
\* "torn":    a read is counted between the two comparisons of
\*            cur>=start && start>MAX.
\* "early":   the main thread moves to the other buffer before the reading
\*            thread does.
\* "overrun": the reading thread moves to a buffer that the main thread has
\*            not left.
Schedules == {"exact", "torn", "early", "overrun"}

BufferConstants ==
    /\ MAX \in Nat \ {0} /\ Total \in Nat
    /\ Nuls \subseteq 1..Total
    /\ Polling \in BOOLEAN /\ Excluded \subseteq Schedules

\* No more than MAX bytes go before a NUL.
StringsFit ==
    \A i \in 1..Total : i + MAX <= Total => \E j \in i..(i + MAX) : j \in Nuls

ASSUME BufferConstantsOK == BufferConstants

VARIABLES
    sent,       \* how many bytes the thread took from the connection
    n,          \* what read() returned
    rpc,        \* where the reading thread is
    bufsel,     \* the buffer it fills
    rbuf,       \* rbuf1 and rbuf2
    start,      \* start1 and start2: how much of each buffer is filled
    cur,        \* cur1 and cur2: how much of each buffer is taken
    cursel,     \* the buffer the main thread takes bytes from
    mpc,        \* where the main thread is in copyToString
    got         \* ghost: the bytes it took, terminators included

reader == <<sent, n, rpc, bufsel, rbuf, start>>
main   == <<cur, cursel, mpc, got>>
vars   == <<reader, main>>

Buffers  == {0, 1}
Other(b) == 1 - b
Index    == 0..(2 * MAX - 1)

\* The byte in memory; past the end of the buffer it may be anything, and a
\* byte that was never received stands for it.
Byte(b, i) == IF i \in Index THEN rbuf[b][i] ELSE 0
IsNul(x)   == x = 0 \/ x \in Nuls

Init ==
    /\ sent = 0 /\ n = 0 /\ rpc = "top" /\ bufsel = 0
    /\ rbuf = [b \in Buffers |-> [i \in Index |-> 0]]
    /\ start = [b \in Buffers |-> 0]
    /\ cur = [b \in Buffers |-> 0] /\ cursel = 0 /\ mpc = "enter" /\ got = <<>>

-----------------------------------------------------------------------------
(* The reading thread.                                                     *)

\* The loop starts again when read() has nothing, except behind a select().
Arrived == Polling \/ sent < Total

\* Mutant: the fill mark of the other buffer is not reset.
SwitchKeeping ==
    /\ rpc = "top" /\ Arrived /\ start[bufsel] > MAX
    /\ "overrun" \in Excluded => cursel = bufsel
    /\ bufsel' = Other(bufsel)
    /\ rpc' = "read"
    /\ UNCHANGED <<start, sent, n, rbuf, main>>

\* The buffer holds more than MAX bytes: start the other one afresh.
Switch ==
    /\ rpc = "top" /\ Arrived /\ start[bufsel] > MAX
    /\ "overrun" \in Excluded => cursel = bufsel
    /\ bufsel' = Other(bufsel)
    /\ start' = [start EXCEPT ![bufsel'] = 0]
    /\ rpc' = "read"
    /\ UNCHANGED <<sent, n, rbuf, main>>

Stay ==
    /\ rpc = "top" /\ Arrived /\ start[bufsel] <= MAX
    /\ rpc' = "read"
    /\ UNCHANGED <<sent, n, bufsel, rbuf, start, main>>

\* How many bytes a read may return at most: what still fits.  (Mutant: the
\* size of the whole buffer.)
RoomOfWhole == 2 * MAX
Room == 2 * MAX - start[bufsel]

\* read() stores k bytes, which the main thread does not know of yet.
ReadBytes(k) ==
    /\ rpc = "read" /\ k \in 1..Room /\ sent + k <= Total
    /\ "exact" \in Excluded => start[bufsel] + k # MAX
    /\ rbuf' = [rbuf EXCEPT ![bufsel] = [i \in Index |->
                  IF i >= start[bufsel] /\ i < start[bufsel] + k
                  THEN sent + 1 + i - start[bufsel] ELSE @[i]]]
    /\ sent' = sent + k /\ n' = k /\ rpc' = "count"
    /\ UNCHANGED <<bufsel, start, main>>

\* start += n
CountBytes ==
    /\ rpc = "count"
    /\ "torn" \in Excluded => mpc \notin {"inside2", "behind2"}
    /\ start' = [start EXCEPT ![bufsel] = @ + n]
    /\ n' = 0 /\ rpc' = "top"
    /\ UNCHANGED <<sent, bufsel, rbuf, main>>

\* Nothing has arrived: EWOULDBLOCK.
ReadNothing ==
    /\ rpc = "read" /\ Polling
    /\ rpc' = "top"
    /\ UNCHANGED <<sent, n, bufsel, rbuf, start, main>>

-----------------------------------------------------------------------------
(* The main thread, in copyToString; it calls it again and again.          *)

Goto(where) == mpc' = where /\ UNCHANGED <<cur, cursel, got>>

\* while(start<MAX && cur>=start): the first comparison ...
EnterFilled ==
    /\ mpc = "enter"
    /\ Goto(IF start[cursel] < MAX THEN "enter2" ELSE "byte")
    /\ UNCHANGED reader

\* ... and the second.
EnterTaken ==
    /\ mpc = "enter2"
    /\ Goto(IF cur[cursel] >= start[cursel] THEN "enter" ELSE "byte")
    /\ UNCHANGED reader

\* Mutant: a string that ends does not rewind the other buffer.
TakeByteOnly ==
    LET x == Byte(cursel, cur[cursel]) IN
    /\ mpc = "byte"
    /\ got' = Append(got, x)
    /\ cur' = [cur EXCEPT ![cursel] = @ + 1]
    /\ mpc' = IF IsNul(x) THEN "behind" ELSE "inside"
    /\ UNCHANGED <<cursel, reader>>

\* Take the next byte.  A NUL ends the string, and the other buffer will be
\* taken from its beginning.
TakeByte ==
    LET x == Byte(cursel, cur[cursel]) IN
    /\ mpc = "byte"
    /\ got' = Append(got, x)
    /\ IF IsNul(x)
       THEN /\ cur' = [cur EXCEPT ![cursel] = @ + 1, ![Other(cursel)] = 0]
            /\ mpc' = "behind"
       ELSE /\ cur' = [cur EXCEPT ![cursel] = @ + 1]
            /\ mpc' = "inside"
    /\ UNCHANGED <<cursel, reader>>

\* cur>=start && start>MAX, inside a string and behind it: the first half.
TestTaken ==
    \/ /\ mpc = "inside"
       /\ Goto(IF cur[cursel] >= start[cursel] THEN "inside2" ELSE "spin")
       /\ UNCHANGED reader
    \/ /\ mpc = "behind"
       /\ Goto(IF cur[cursel] >= start[cursel] THEN "behind2" ELSE "enter")
       /\ UNCHANGED reader

\* The second half: if it holds too, the other buffer is next.
TestFilled ==
    \/ /\ mpc \in {"inside2", "behind2"} /\ start[cursel] > MAX
       /\ "early" \in Excluded => bufsel # cursel
       /\ cursel' = Other(cursel) /\ mpc' = "enter"
       /\ UNCHANGED <<cur, got, reader>>
    \/ /\ mpc \in {"inside2", "behind2"} /\ start[cursel] <= MAX
       /\ Goto(IF mpc = "inside2" THEN "spin" ELSE "enter")
       /\ UNCHANGED reader

\* while(cur>=start);
Spin ==
    /\ mpc = "spin" /\ cur[cursel] < start[cursel]
    /\ Goto("byte")
    /\ UNCHANGED reader

-----------------------------------------------------------------------------
ReadingThread ==
    \/ Switch \/ Stay \/ \E k \in 1..(2 * MAX) : ReadBytes(k)
    \/ CountBytes \/ ReadNothing

MainThread ==
    \/ EnterFilled \/ EnterTaken \/ TakeByte \/ TestTaken \/ TestFilled \/ Spin

Next == ReadingThread \/ MainThread

Spec == Init /\ [][Next]_vars

\* Both threads run for ever; a byte that was sent arrives.
FairSpec ==
    /\ Spec
    /\ WF_vars(ReadingThread)
    /\ WF_vars(MainThread)

-----------------------------------------------------------------------------
(* What is checked.                                                        *)

\* Every variable has its type; the fill marks stay inside the buffers,
\* so that no read() writes behind the end of one.
TypeOK ==
    /\ sent \in 0..Total /\ n \in 0..(2 * MAX)
    /\ rpc \in {"top", "read", "count"}
    /\ bufsel \in Buffers /\ cursel \in Buffers
    /\ rbuf \in [Buffers -> [Index -> 0..Total]]
    /\ start \in [Buffers -> 0..(2 * MAX)]
    /\ cur \in [Buffers -> Nat]
    /\ mpc \in {"enter", "enter2", "byte", "inside", "inside2", "behind",
                "behind2", "spin"}
    /\ got \in Seq(0..Total)

\* The main thread takes the bytes of the stream, all of them, each once and
\* in order, whatever it is that the reading thread is doing meanwhile.
InOrder == \A i \in DOMAIN got : got[i] = i

\* copyToString never looks at memory behind the end of a buffer.
InBounds == mpc = "byte" => cur[cursel] \in Index

\* Every byte that arrives is taken in the end: neither thread waits for
\* what the other has already done.
Delivered == \A i \in 1..Total : sent >= i ~> Len(got) >= i

-----------------------------------------------------------------------------
(* Why it holds: an inductive invariant, for streams that end before a      *)
(* buffer is half full and for schedules without the four races.           *)

Tame == Total < MAX \/ (Excluded = Schedules /\ StringsFit)

\* How many bytes of the stream went before those in the buffer being filled
\* and before those in the buffer being taken.
Base   == sent - n - start[bufsel]
Offset == IF cursel = bufsel THEN Base ELSE Base - start[cursel]

Filling ==
    /\ Base >= 0 /\ start[bufsel] + n <= 2 * MAX
    /\ IF rpc = "count" THEN n >= 1 ELSE n = 0
    /\ rpc = "read" => start[bufsel] <= MAX
    /\ \A b \in Buffers : start[b] # MAX
    /\ start[bufsel] + n # MAX
    /\ \A i \in Index :
        i < start[bufsel] + n => rbuf[bufsel][i] = Base + 1 + i

Taking ==
    /\ Offset >= 0
    /\ cursel # bufsel => start[cursel] > MAX
    /\ \A i \in Index : i < start[cursel] => rbuf[cursel][i] = Offset + 1 + i
    /\ cur[cursel] <= start[cursel]
    /\ Len(got) = Offset + cur[cursel]

Control ==
    /\ mpc = "byte" => cur[cursel] < start[cursel]
    /\ mpc \in {"enter", "enter2"} /\ start[cursel] > MAX
        => cur[cursel] < start[cursel]
    /\ mpc \in {"inside2", "behind2"} /\ start[cursel] > MAX
        => cur[cursel] = start[cursel]

\* The other buffer is rewound unless no string has ended in this one.
Rewound ==
    \/ cur[Other(cursel)] = 0
    \/ \A i \in Index : i < cur[cursel] => rbuf[cursel][i] \notin Nuls

Ind == TypeOK /\ Filling /\ Taking /\ Control /\ Rewound /\ InOrder

=============================================================================
