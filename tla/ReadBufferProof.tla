-------------------------- MODULE ReadBufferProof --------------------------
(***************************************************************************)
(* Theorems about ReadBuffer, for every size of the buffers and every      *)
(* stream.                                                                 *)
(***************************************************************************)
EXTENDS ReadBuffer, SequenceTheorems, TLAPS

-----------------------------------------------------------------------------
(* Memory safety of the reading thread, whatever the schedule.             *)

LEMMA ByteType ==
    ASSUME TypeOK, NEW b \in Buffers, NEW i \in Nat
    PROVE  Byte(b, i) \in 0..Total
BY BufferConstantsOK DEF TypeOK, Byte, BufferConstants

LEMMA OtherBuffer ==
    ASSUME NEW b \in Buffers
    PROVE  Other(b) \in Buffers /\ Other(b) # b /\ Other(Other(b)) = b
BY DEF Buffers, Other

\* What is stored by a read that is not counted yet still fits.
Fits ==
    /\ start[bufsel] + (IF rpc = "count" THEN n ELSE 0) <= 2 * MAX
    /\ rpc = "count" => n >= 1

LEMMA FitsStep ==
    ASSUME TypeOK, Fits, [Next]_vars
    PROVE  TypeOK' /\ Fits'
<1> USE BufferConstantsOK DEF BufferConstants
<1>1. CASE Switch
  <2>1. bufsel' \in Buffers /\ bufsel' # bufsel
    BY <1>1, OtherBuffer DEF Switch, TypeOK
  <2>2. start' \in [Buffers -> 0..(2 * MAX)] /\ start'[bufsel'] = 0
    BY <1>1, <2>1 DEF Switch, TypeOK
  <2>3. TypeOK'
    BY <1>1, <2>1, <2>2 DEF Switch, TypeOK, main
  <2> QED BY <1>1, <2>2, <2>3 DEF Switch, Fits, TypeOK
<1>2. CASE Stay
  BY <1>2 DEF Stay, TypeOK, Fits, main
<1>3. ASSUME NEW k \in 1..(2 * MAX), ReadBytes(k) PROVE TypeOK' /\ Fits'
  <2>1. k \in Nat \ {0} /\ start[bufsel] \in 0..(2 * MAX) /\ sent \in Nat
        /\ bufsel \in Buffers
    BY DEF TypeOK
  <2>2. start[bufsel] + k <= 2 * MAX /\ sent + k <= Total
    BY <1>3, <2>1 DEF ReadBytes, Room
  <2>3. [i \in Index |-> IF i >= start[bufsel] /\ i < start[bufsel] + k
                         THEN sent + 1 + i - start[bufsel] ELSE rbuf[bufsel][i]]
        \in [Index -> 0..Total]
    <3>1. ASSUME NEW i \in Index
          PROVE  i \in Nat /\ rbuf[bufsel][i] \in 0..Total
      BY <2>1 DEF Index, TypeOK
    <3>2. ASSUME NEW i \in Index, i >= start[bufsel], i < start[bufsel] + k
          PROVE  sent + 1 + i - start[bufsel] \in 0..Total
      <4>1. i \in Nat BY <3>1, <3>2
      <4> QED BY <4>1, <3>2, <2>1, <2>2
    <3> QED BY <3>1, <3>2
  <2>4. rbuf' \in [Buffers -> [Index -> 0..Total]]
    BY <1>3, <2>3 DEF ReadBytes, TypeOK
  <2>5. TypeOK'
    BY <1>3, <2>1, <2>2, <2>4 DEF ReadBytes, TypeOK, main
  <2> QED BY <1>3, <2>1, <2>2, <2>5 DEF ReadBytes, Fits
<1>4. CASE CountBytes
  <2>1. start[bufsel] + n \in 0..(2 * MAX)
    BY <1>4 DEF CountBytes, Fits, TypeOK
  <2>2. start' \in [Buffers -> 0..(2 * MAX)] /\ start'[bufsel] = start[bufsel] + n
    BY <1>4, <2>1 DEF CountBytes, TypeOK
  <2> QED BY <1>4, <2>1, <2>2 DEF CountBytes, TypeOK, Fits, main
<1>5. CASE ReadNothing
  BY <1>5 DEF ReadNothing, TypeOK, Fits, main
<1>6. CASE EnterFilled
  BY <1>6 DEF EnterFilled, Goto, TypeOK, Fits, reader
<1>7. CASE EnterTaken
  BY <1>7 DEF EnterTaken, Goto, TypeOK, Fits, reader
<1>8. CASE TakeByte
  <2> DEFINE x == Byte(cursel, cur[cursel])
  <2>1. cursel \in Buffers /\ cur[cursel] \in Nat
    BY DEF TypeOK
  <2>2. x \in 0..Total
    BY <2>1, ByteType
  <2>3. got' \in Seq(0..Total)
    BY <1>8, <2>2, AppendProperties DEF TakeByte, TypeOK
  <2>4. cur' \in [Buffers -> Nat] /\ mpc' \in {"behind", "inside"}
    <3>1. cur \in [Buffers -> Nat] /\ Other(cursel) \in Buffers
      BY <2>1, OtherBuffer DEF TypeOK
    <3>2. CASE IsNul(x)
      BY <1>8, <2>1, <3>1, <3>2 DEF TakeByte
    <3>3. CASE ~IsNul(x)
      BY <1>8, <2>1, <3>1, <3>3 DEF TakeByte
    <3> QED BY <3>2, <3>3
  <2>5. UNCHANGED <<cursel, reader>>
    BY <1>8 DEF TakeByte
  <2> QED BY <2>3, <2>4, <2>5 DEF TypeOK, Fits, reader
<1>9. CASE TestTaken
  BY <1>9 DEF TestTaken, Goto, TypeOK, Fits, reader
<1>10. CASE TestFilled
  <2>1. cursel' \in Buffers
    BY <1>10, OtherBuffer DEF TestFilled, Goto, TypeOK
  <2> QED BY <1>10, <2>1 DEF TestFilled, Goto, TypeOK, Fits, reader
<1>11. CASE Spin
  BY <1>11 DEF Spin, Goto, TypeOK, Fits, reader
<1>12. CASE UNCHANGED vars
  BY <1>12 DEF vars, reader, main, TypeOK, Fits
<1> QED BY <1>1, <1>2, <1>3, <1>4, <1>5, <1>6, <1>7, <1>8, <1>9, <1>10,
           <1>11, <1>12 DEF Next, ReadingThread, MainThread

LEMMA FitsInit == Init => TypeOK /\ Fits
BY BufferConstantsOK, EmptySeq
   DEF BufferConstants, Init, TypeOK, Fits, Buffers, Index

\* However the threads are scheduled, however much each read returns, and
\* whatever the stream is: no read() of readfromName, readfromData or
\* readfromClient moves a fill mark behind the end of its buffer, and every
\* other variable of the two threads keeps its type.
THEOREM BufferTypeCorrect == Spec => []TypeOK
<1>1. TypeOK /\ Fits /\ [Next]_vars => (TypeOK /\ Fits)'
  BY FitsStep
<1> QED BY FitsInit, <1>1, PTL DEF Spec

-----------------------------------------------------------------------------
(* Delivery in order, for tame streams and schedules.  TypeOK of the next    *)
(* state comes from FitsStep, so each step proves the other parts of Ind.   *)

Rest == Filling /\ Taking /\ Control /\ Rewound /\ InOrder

LEMMA Ranges ==
    ASSUME TypeOK
    PROVE  /\ MAX \in Nat \ {0} /\ Total \in Nat
           /\ bufsel \in Buffers /\ cursel \in Buffers
           /\ \A b \in Buffers : start[b] \in Nat /\ cur[b] \in Nat
           /\ sent \in Nat /\ sent <= Total /\ n \in Nat /\ Len(got) \in Nat
           /\ Index = 0..(2 * MAX - 1)
BY BufferConstantsOK, LenProperties DEF BufferConstants, TypeOK, Index

LEMMA Positions ==
    ASSUME Ind
    PROVE  Base \in Nat /\ Offset \in Nat /\ Offset + start[cursel] <= Total
<1> USE Ranges DEF Ind
<1>1. Base \in Nat
  BY DEF Filling, Base
<1>2. CASE cursel = bufsel
  BY <1>1, <1>2 DEF Offset, Base
<1>3. CASE cursel # bufsel
  <2>1. Offset >= 0 /\ Offset = Base - start[cursel]
    BY <1>3 DEF Offset, Taking
  <2>2. Base <= Total
    BY DEF Base
  <2> QED BY <1>1, <2>1, <2>2
<1> QED BY <1>1, <1>2, <1>3

\* A stream that is short enough never gets to the second buffer.
LEMMA ShortOrExcluded ==
    ASSUME Tame, Ind
    PROVE  \/ Excluded = Schedules /\ StringsFit
           \/ sent <= Total /\ Total < MAX /\ start[bufsel] + n < MAX
              /\ cursel = bufsel
<1>1. SUFFICES ASSUME Total < MAX
               PROVE  start[bufsel] + n < MAX /\ cursel = bufsel
  BY Ranges DEF Ind, Tame
<1>2. start[bufsel] + n < MAX
  BY <1>1, Ranges DEF Ind, Filling, Base
<1>3. cursel # bufsel => FALSE
  BY <1>1, Ranges DEF Ind, Filling, Taking, Base, Offset
<1> QED BY <1>2, <1>3

LEMMA StepSwitch == ASSUME Tame, Ind, Switch PROVE Rest'
<1> USE Ranges DEF Ind
<1>1. start[bufsel] > MAX /\ n = 0
  BY DEF Switch, Filling
<1>2. Excluded = Schedules /\ cursel = bufsel
  <2>1. Excluded = Schedules
    BY <1>1, ShortOrExcluded
  <2> QED BY <2>1 DEF Switch, Schedules
<1>3. /\ bufsel' = Other(bufsel) /\ bufsel' \in Buffers /\ bufsel' # bufsel
      /\ start'[bufsel'] = 0 /\ start'[cursel] = start[cursel]
      /\ \A b \in Buffers : start'[b] \in {0, start[b]}
  BY <1>2, OtherBuffer DEF Switch, TypeOK
<1>4. UNCHANGED <<sent, n, rbuf, cur, cursel, mpc, got>> /\ rpc' = "read"
  BY DEF Switch, main
<1>5. Base' = sent /\ Offset' = Offset
  BY <1>1, <1>2, <1>3, <1>4 DEF Base, Offset
<1>6. Filling'
  BY <1>1, <1>3, <1>4, <1>5 DEF Filling
<1>7. Taking'
  BY <1>1, <1>2, <1>3, <1>4, <1>5 DEF Taking
<1>8. Control' /\ Rewound' /\ InOrder'
  BY <1>3, <1>4 DEF Control, Rewound, InOrder
<1> QED BY <1>6, <1>7, <1>8 DEF Rest

LEMMA StepStay == ASSUME Ind, Stay \/ ReadNothing PROVE Rest'
<1>1. UNCHANGED <<sent, n, bufsel, rbuf, start, cur, cursel, mpc, got>>
  BY DEF Stay, ReadNothing, main
<1>2. Filling'
  BY <1>1 DEF Ind, Filling, Base, Stay, ReadNothing
<1> QED BY <1>1, <1>2 DEF Ind, Rest, Taking, Control, Rewound, InOrder, Offset,
                          Base

LEMMA StepReadBytes ==
    ASSUME Tame, Ind, NEW k \in 1..(2 * MAX), ReadBytes(k) PROVE Rest'
<1> USE Ranges DEF Ind
<1>1. /\ k \in Nat \ {0} /\ start[bufsel] + k <= 2 * MAX /\ sent + k <= Total
      /\ n = 0 /\ n' = k /\ sent' = sent + k /\ rpc' = "count"
  BY DEF ReadBytes, Room, Filling
<1>2. UNCHANGED <<bufsel, start, cur, cursel, mpc, got>>
  BY DEF ReadBytes, main
<1>3. Base' = Base /\ Offset' = Offset
  BY <1>1, <1>2 DEF Base, Offset
<1>4. start[bufsel] + k # MAX
  <2>1. CASE Excluded = Schedules
    BY <2>1 DEF ReadBytes, Schedules
  <2>2. CASE Total < MAX
    BY <2>2, <1>1 DEF Filling, Base
  <2> QED BY <2>1, <2>2 DEF Tame
<1>5. \A i \in Index :
        rbuf'[bufsel][i] = IF i >= start[bufsel] /\ i < start[bufsel] + k
                           THEN sent + 1 + i - start[bufsel] ELSE rbuf[bufsel][i]
  BY DEF ReadBytes, TypeOK
<1>6. cursel # bufsel => rbuf'[cursel] = rbuf[cursel]
  BY DEF ReadBytes, TypeOK
<1>7. \A i \in Index : i < start[cursel] => rbuf'[cursel][i] = rbuf[cursel][i]
  <2>1. CASE cursel = bufsel BY <2>1, <1>5
  <2>2. CASE cursel # bufsel BY <2>2, <1>6
  <2> QED BY <2>1, <2>2
<1>8. \A i \in Index :
        i < start[bufsel] + k => rbuf'[bufsel][i] = Base + 1 + i
  <2>1. SUFFICES ASSUME NEW i \in Index, i < start[bufsel] + k
                 PROVE  rbuf'[bufsel][i] = Base + 1 + i
    OBVIOUS
  <2>2. CASE i < start[bufsel]
    BY <2>1, <2>2, <1>1, <1>5 DEF Filling
  <2>3. CASE i >= start[bufsel]
    BY <2>1, <2>3, <1>1, <1>5 DEF Base
  <2> QED BY <2>1, <2>2, <2>3
<1>9. Filling'
  BY <1>1, <1>2, <1>3, <1>4, <1>8 DEF Filling
<1>10. Taking'
  BY <1>2, <1>3, <1>7 DEF Taking
<1>11. Rewound'
  <2>1. \A i \in Index : i < cur[cursel] => rbuf'[cursel][i] = rbuf[cursel][i]
    BY <1>7 DEF Taking
  <2> QED BY <1>2, <2>1 DEF Rewound
<1>12. Control' /\ InOrder'
  BY <1>2 DEF Control, InOrder
<1> QED BY <1>9, <1>10, <1>11, <1>12 DEF Rest

LEMMA StepCountBytes == ASSUME Tame, Ind, CountBytes PROVE Rest'
<1> USE Ranges DEF Ind
<1>1. /\ n >= 1 /\ n' = 0 /\ rpc' = "top"
      /\ start'[bufsel] = start[bufsel] + n
      /\ \A b \in Buffers : b # bufsel => start'[b] = start[b]
  BY DEF CountBytes, Filling, TypeOK
<1>2. UNCHANGED <<sent, bufsel, rbuf, cur, cursel, mpc, got>>
  BY DEF CountBytes, main
<1>3. start'[cursel] = IF cursel = bufsel THEN start[cursel] + n
                                          ELSE start[cursel]
  BY <1>1
<1>4. Base' = Base /\ Offset' = Offset
  BY <1>1, <1>2, <1>3 DEF Base, Offset
<1>5. Filling'
  <2>1. /\ start'[bufsel] = start[bufsel] + n /\ start'[bufsel] # MAX
        /\ start'[bufsel] + n' = start[bufsel] + n
    BY <1>1 DEF Filling
  <2>2. \A b \in Buffers : start'[b] # MAX
    BY <1>1, <2>1 DEF Filling
  <2>3. \A i \in Index :
          i < start'[bufsel] + n' => rbuf'[bufsel][i] = Base' + 1 + i
    BY <1>2, <1>4, <2>1 DEF Filling
  <2> QED BY <1>1, <1>2, <1>4, <2>1, <2>2, <2>3 DEF Filling
<1>6. Taking'
  <2>1. CASE cursel = bufsel
    BY <2>1, <1>2, <1>3, <1>4 DEF Taking, Filling, Offset
  <2>2. CASE cursel # bufsel
    BY <2>2, <1>2, <1>3, <1>4 DEF Taking
  <2> QED BY <2>1, <2>2
<1>7. Control'
  <2>1. CASE cursel = bufsel
    <3>1. \/ mpc \notin {"inside2", "behind2"}
          \/ start'[cursel] < MAX
      <4>1. CASE Excluded = Schedules
        BY <4>1 DEF CountBytes, Schedules
      <4>2. CASE start[bufsel] + n < MAX
        BY <4>2, <2>1, <1>1
      <4> QED BY <4>1, <4>2, ShortOrExcluded
    <3>2. cur[cursel] < start'[cursel] /\ cur[cursel] \in Nat
          /\ start'[cursel] \in Nat
      BY <2>1, <1>1 DEF Taking
    <3> QED BY <1>2, <3>1, <3>2 DEF Control
  <2>2. CASE cursel # bufsel
    BY <2>2, <1>2, <1>3 DEF Control
  <2> QED BY <2>1, <2>2
<1>8. Rewound' /\ InOrder'
  BY <1>2 DEF Rewound, InOrder
<1> QED BY <1>5, <1>6, <1>7, <1>8 DEF Rest

\* The main thread's comparisons change nothing but where it is.
LEMMA StepCompare ==
    ASSUME Ind, EnterFilled \/ EnterTaken \/ TestTaken \/ Spin PROVE Rest'
<1> USE Ranges DEF Ind
<1>1. UNCHANGED <<sent, n, rpc, bufsel, rbuf, start, cur, cursel, got>>
  BY DEF EnterFilled, EnterTaken, TestTaken, Spin, Goto, reader
<1>2. Filling' /\ Taking' /\ Rewound' /\ InOrder'
  BY <1>1 DEF Filling, Taking, Rewound, InOrder, Base, Offset
<1>3. Control'
  <2>1. start[cursel] # MAX /\ cur[cursel] <= start[cursel]
    BY DEF Filling, Taking
  <2>2. CASE EnterFilled
    BY <1>1, <2>1, <2>2 DEF EnterFilled, Goto, Control
  <2>3. CASE EnterTaken
    BY <1>1, <2>1, <2>3 DEF EnterTaken, Goto, Control
  <2>4. CASE TestTaken
    BY <1>1, <2>1, <2>4 DEF TestTaken, Goto, Control
  <2>5. CASE Spin
    BY <1>1, <2>1, <2>5 DEF Spin, Goto, Control
  <2> QED BY <2>2, <2>3, <2>4, <2>5
<1> QED BY <1>2, <1>3 DEF Rest

LEMMA StepTakeByte == ASSUME Ind, TakeByte PROVE Rest'
<1> USE Ranges DEF Ind
<1> DEFINE x == Byte(cursel, cur[cursel])
<1>1. /\ cur[cursel] < start[cursel] /\ start[cursel] <= 2 * MAX
      /\ cur[cursel] \in Index
  BY DEF TakeByte, Control, TypeOK
<1>2. x = rbuf[cursel][cur[cursel]] /\ x = Len(got) + 1 /\ x # 0
  <2>1. x = rbuf[cursel][cur[cursel]]
    BY <1>1 DEF Byte
  <2>2. rbuf[cursel][cur[cursel]] = Offset + 1 + cur[cursel] /\ Len(got) = Offset + cur[cursel]
    BY <1>1 DEF Taking
  <2>3. Offset \in Nat /\ cur[cursel] \in Nat
    BY Positions
  <2>4. \A a, b \in Nat : a + 1 + b = (a + b) + 1 /\ a + 1 + b # 0
    OBVIOUS
  <2>5. Offset + 1 + cur[cursel] = (Offset + cur[cursel]) + 1 /\ Offset + 1 + cur[cursel] # 0
    BY <2>3, <2>4
  <2> HIDE DEF x
  <2> QED BY <2>1, <2>2, <2>5
<1>3. UNCHANGED <<sent, n, rpc, bufsel, rbuf, start, cursel>>
  BY DEF TakeByte, reader
<1>4. got' = Append(got, x) /\ got \in Seq(0..Total) /\ x \in 0..Total
  BY ByteType DEF TakeByte, TypeOK
<1>5. /\ Len(got') = Len(got) + 1 /\ got'[Len(got) + 1] = x
      /\ \A i \in 1..Len(got) : got'[i] = got[i]
      /\ DOMAIN got' = 1..(Len(got) + 1) /\ DOMAIN got = 1..Len(got)
  <2> HIDE DEF x
  <2> QED BY <1>4, AppendProperties, LenProperties
<1>6. cur'[cursel] = cur[cursel] + 1 /\ mpc' \in {"behind", "inside"}
  <2>1. cur \in [Buffers -> Nat] /\ Other(cursel) # cursel
    BY OtherBuffer DEF TypeOK
  <2> QED BY <2>1 DEF TakeByte
<1>7. InOrder'
  <2>1. SUFFICES ASSUME NEW i \in 1..(Len(got) + 1) PROVE got'[i] = i
    BY <1>5 DEF InOrder
  <2>2. CASE i = Len(got) + 1 BY <2>2, <1>2, <1>5
  <2>3. CASE i \in 1..Len(got) BY <2>3, <1>5 DEF InOrder
  <2> QED BY <2>1, <2>2, <2>3
<1>8. Taking'
  <2>1. Offset' = Offset BY <1>3 DEF Offset, Base
  <2>2. cur[cursel] \in Nat /\ start[cursel] \in Nat
    OBVIOUS
  <2>3. cur'[cursel] <= start[cursel]
    BY <2>2, <1>1, <1>6
  <2>4. Len(got') = Offset + cur'[cursel]
    BY <2>2, <1>5, <1>6, Positions DEF Taking
  <2> QED BY <2>1, <2>3, <2>4, <1>3 DEF Taking
<1>9. Filling' /\ Control'
  BY <1>3, <1>6 DEF Filling, Control, Base
<1>10. Rewound'
  <2>1. CASE IsNul(x)
    <3>1. cur'[Other(cursel)] = 0
      BY <2>1, OtherBuffer DEF TakeByte, TypeOK
    <3> QED BY <3>1, <1>3 DEF Rewound
  <2>2. CASE ~IsNul(x)
    <3>1. cur'[Other(cursel)] = cur[Other(cursel)]
      BY <2>2, OtherBuffer DEF TakeByte, TypeOK
    <3>2. rbuf[cursel][cur[cursel]] \notin Nuls
      BY <2>2, <1>2 DEF IsNul
    <3>3. ASSUME \A i \in Index : i < cur[cursel] => rbuf[cursel][i] \notin Nuls
          PROVE  \A i \in Index :
                    i < cur[cursel] + 1 => rbuf[cursel][i] \notin Nuls
      <4>1. SUFFICES ASSUME NEW i \in Index, i < cur[cursel] + 1
                     PROVE  rbuf[cursel][i] \notin Nuls
        OBVIOUS
      <4>2. i < cur[cursel] \/ i = cur[cursel] BY <4>1
      <4> QED BY <4>1, <4>2, <3>2, <3>3
    <3> QED BY <3>1, <3>3, <1>3, <1>6 DEF Rewound
  <2> QED BY <2>1, <2>2
<1> QED BY <1>7, <1>8, <1>9, <1>10 DEF Rest

\* The main thread moves on only after the end of a string: every buffer that
\* is full holds one.
LEMMA Cancels == \A a, b \in Int : a + 1 + (b - a - 1) = b
OBVIOUS

LEMMA OtherIsRewound ==
    ASSUME Ind, StringsFit, cur[cursel] = start[cursel], start[cursel] > MAX
    PROVE  cur[Other(cursel)] = 0
<1> USE Ranges DEF Ind
<1>1. SUFFICES ASSUME \A i \in Index :
                        i < cur[cursel] => rbuf[cursel][i] \notin Nuls
               PROVE  FALSE
  BY DEF Rewound
<1>2. Offset \in Nat /\ Offset + start[cursel] <= Total
  BY Positions
<1>3. Offset + 1 \in 1..Total /\ Offset + 1 + MAX <= Total
  BY <1>2
<1>4. PICK j \in (Offset + 1)..(Offset + 1 + MAX) : j \in Nuls
  BY <1>3 DEF StringsFit
<1>5. j - Offset - 1 \in Index /\ j - Offset - 1 < start[cursel]
  BY <1>2, <1>4
<1>6. rbuf[cursel][j - Offset - 1] = j
  <2>1. rbuf[cursel][j - Offset - 1] = Offset + 1 + (j - Offset - 1)
    BY <1>5 DEF Taking
  <2>2. Offset + 1 + (j - Offset - 1) = j
    BY <1>2, <1>4, Cancels
  <2> QED BY <2>1, <2>2
<1> QED BY <1>1, <1>4, <1>5, <1>6

LEMMA StepTestFilled == ASSUME Tame, Ind, TestFilled PROVE Rest'
<1> USE Ranges DEF Ind
<1>1. UNCHANGED <<sent, n, rpc, bufsel, rbuf, start, cur, got>>
  BY DEF TestFilled, Goto, reader
<1>2. Filling' /\ InOrder'
  BY <1>1 DEF Filling, InOrder, Base
<1>3. CASE start[cursel] <= MAX
  <2>1. cursel' = cursel /\ mpc' \in {"spin", "enter"}
    BY <1>3 DEF TestFilled, Goto
  <2>2. Taking' /\ Rewound'
    BY <1>1, <2>1 DEF Taking, Rewound, Offset, Base
  <2>3. Control'
    BY <1>1, <1>3, <2>1 DEF Control
  <2> QED BY <1>2, <2>2, <2>3 DEF Rest
<1>4. CASE start[cursel] > MAX
  <2>1. Excluded = Schedules /\ StringsFit
    BY <1>4, ShortOrExcluded
  <2>2. /\ bufsel # cursel /\ cursel' = Other(cursel) /\ mpc' = "enter"
        /\ cur[cursel] = start[cursel]
    BY <1>4, <2>1 DEF TestFilled, Schedules, Control
  <2>3. cursel' = bufsel /\ Other(cursel') = cursel
    BY <2>2 DEF Buffers, Other
  <2>4. cur[bufsel] = 0
    BY <1>4, <2>1, <2>2, <2>3, OtherIsRewound
  <2>5. Offset' = Base /\ Len(got) = Base
    BY <1>1, <2>2, <2>3 DEF Offset, Base, Taking
  <2>6. Taking'
    BY <1>1, <2>3, <2>4, <2>5 DEF Taking, Filling
  <2>7. Control' /\ Rewound'
    BY <1>1, <2>2, <2>3, <2>4 DEF Control, Rewound
  <2> QED BY <1>2, <2>6, <2>7 DEF Rest
<1> QED BY <1>3, <1>4

LEMMA IndStep == ASSUME Tame, Ind, [Next]_vars PROVE Ind'
<1>1. TypeOK'
  BY FitsStep DEF Ind, Fits, Filling
<1>2. CASE UNCHANGED vars
  BY <1>2 DEF vars, reader, main, Ind, Filling, Taking, Control, Rewound,
              InOrder, Offset, Base, TypeOK
<1>3. CASE Next
  <2>1. Rest'
    BY <1>3, StepSwitch, StepStay, StepReadBytes, StepCountBytes, StepCompare,
       StepTakeByte, StepTestFilled DEF Next, ReadingThread, MainThread
  <2> QED BY <1>1, <2>1 DEF Ind, Rest
<1> QED BY <1>2, <1>3

LEMMA IndInit == Init => Ind
BY BufferConstantsOK, FitsInit, EmptySeq
   DEF BufferConstants, Init, Ind, Filling, Taking, Control, Rewound, InOrder,
       Offset, Base, Buffers, Other, Index

\* Whatever the stream and however the threads are scheduled, while fewer
\* than MAX bytes are received; and for streams of any length without the
\* four races: copyToString takes the bytes of the connection in order, each
\* once, and looks at no memory behind the end of a buffer.
THEOREM DeliveredInOrder ==
    ASSUME Tame PROVE Spec => [](InOrder /\ InBounds)
<1>1. Ind /\ [Next]_vars => Ind'
  BY IndStep
<1>2. Ind => InOrder /\ InBounds
  <2>1. SUFFICES ASSUME Ind PROVE InBounds BY DEF Ind
  <2> QED BY <2>1, Ranges DEF Ind, Control, InBounds, TypeOK
<1> QED BY IndInit, <1>1, <1>2, PTL DEF Spec

\* The second half by itself: copyToString reads inside the buffers.
THEOREM ReadsStayInside ==
    ASSUME Tame PROVE Spec => []InBounds
BY DeliveredInOrder, PTL

=============================================================================
