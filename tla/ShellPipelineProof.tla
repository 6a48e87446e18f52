------------------------- MODULE ShellPipelineProof -------------------------
(* Proofs about ShellPipeline, for any number of lines, stages and sizes.  *)
EXTENDS ShellPipeline, SequenceTheorems, TLAPS

-----------------------------------------------------------------------------
(* Texts.                                                                  *)

LEMMA FirstProperties ==
    ASSUME NEW S, NEW s \in Seq(S), NEW n \in Nat
    PROVE  First(s, n) \in Seq(S) /\ Len(First(s, n)) <= n /\ Len(First(s, n)) <= Len(s)
<1> DEFINE k == IF n < Len(s) THEN n ELSE Len(s)
<1>1. k \in Nat /\ k <= n /\ k <= Len(s)
  OBVIOUS
<1>2. \A i \in 1..k : s[i] \in S
  BY <1>1
<1> HIDE DEF k
<1>3. SubSeq(s, 1, k) \in Seq(S) /\ Len(SubSeq(s, 1, k)) = IF 1 <= k THEN k - 1 + 1 ELSE 0
  BY <1>1, <1>2, SubSeqProperties
<1> QED BY <1>1, <1>3 DEF First, k

LEMMA RestProperties ==
    ASSUME NEW S, NEW s \in Seq(S), NEW n \in Nat
    PROVE  /\ Rest(s, n) \in Seq(S)
           /\ Len(Rest(s, n)) = IF n < Len(s) THEN Len(s) - n ELSE 0
<1>1. \A i \in (n + 1)..Len(s) : s[i] \in S
  OBVIOUS
<1> QED BY <1>1, SubSeqProperties DEF Rest

\* A read that takes everything, and what it leaves.
LEMMA WholeText ==
    ASSUME NEW S, NEW s \in Seq(S), NEW n \in Nat, Len(s) <= n
    PROVE  First(s, n) = s /\ Rest(s, n) = <<>>
BY SubSeqFull, SubSeqEmpty DEF First, Rest

\* What a read takes and what it leaves make up the text.
LEMMA TakenAndLeft ==
    ASSUME NEW S, NEW s \in Seq(S), NEW n \in Nat, Len(s) > n
    PROVE  First(s, n) \o Rest(s, n) = s
<1>1. 1 \in 1..(Len(s) + 1) /\ n \in (1 - 1)..Len(s) /\ Len(s) \in n..Len(s)
  OBVIOUS
<1>2. SubSeq(s, 1, n) \o SubSeq(s, n + 1, Len(s)) = SubSeq(s, 1, Len(s))
  BY <1>1, ConcatAdjacentSubSeq
<1> QED BY <1>2, SubSeqFull DEF First, Rest

LEMMA UnitsAreUnits ==
    /\ Pad \in Units /\ Junk \in Units /\ Newline \in Units /\ Notice \in Units
    /\ <<>> \in Seq(Units) /\ <<Junk>> \in Seq(Units) /\ Len(<<Junk>>) = 1
BY DEF Units

LEMMA FilledType ==
    ASSUME NEW t \in Seq(Units)
    PROVE  Filled(t) \in Seq(Units) /\ Len(Filled(t)) = MaxSize
<1>1. MaxSize \in Nat
  BY PipelineConstantsOK DEF PipelineConstants
<1>2. \A i \in 1..MaxSize : (IF i <= Len(t) THEN t[i] ELSE Pad) \in Units
  BY <1>1, UnitsAreUnits
<1>3. Filled(t) \in [1..MaxSize -> Units]
  BY <1>2 DEF Filled
<1> QED BY <1>1, <1>3

LEMMA OutputType ==
    ASSUME TypeOK, NEW j \in Jobs, NEW n \in Nat
    PROVE  Output(j, n) \in Seq(Units)
BY DEF TypeOK, ControlType, Output, Units

-----------------------------------------------------------------------------
(* The course of a job, and types.                                         *)

Idle    == {"none", "begin", "prepare", "fork", "collect", "show", "remove", "astray"}
Running == {"close", "feed", "unlink", "open", "wait"}

\* Where a job may be, with which process, and at which stage.
Course(j) ==
    /\ kind[j] = "none" <=> at[j] = "none"
    /\ at[j] \in {"none", "begin"} => stage[j] = 1
    /\ stage[j] <= Last(j)
    /\ at[j] \in Idle => proc[j] = "none"
    /\ at[j] \in Running => proc[j] # "none"
    /\ Over(j) => proc[j] \in {"none", "ended", "job"}
    /\ proc[j] = "job" => kind[j] \in {"shm", "queue"}
    /\ proc[j] = "babble" => kind[j] = "pipe"
    /\ helper[j] # "none" => kind[j] = "cluster" /\ at[j] = "wait"
    /\ proc[j] = "read" => stage[j] > 1
    /\ at[j] = "close" => kind[j] \in {"pipe", "fanout"}
    /\ at[j] \in {"feed", "astray"} => kind[j] \in {"shm", "queue"}
    /\ at[j] \in {"unlink", "open"} => kind[j] = "shm"
    /\ at[j] \in {"close", "feed", "unlink", "open", "astray"} => stage[j] > 1
    /\ at[j] = "collect" => kind[j] \in {"shm", "queue"} \/ (kind[j] = "fanout" /\ stage[j] = 1)
    /\ at[j] = "show" => kind[j] \in {"shm", "queue", "cluster"}
    /\ at[j] = "remove" => kind[j] = "queue"
    /\ kind[j] = "shm" /\ at[j] # "begin" => seg[j] \in Segments
    /\ kind[j] = "fanout" => at[j] \notin {"show", "remove"}

\* Whatever is handed on between stages fits a pipe.
Sizes ==
    /\ \A s \in Segments : Len(mem[s]) <= MaxBuf
    /\ \A k \in 1..Len(box) : Len(box[k]) <= MaxSize
    /\ \A j \in Jobs : Len(text[j]) <= MaxBuf

Sound == TypeOK /\ Sizes /\ \A j \in Jobs : Course(j)

LEMMA InitSound == Init => Sound
<1> SUFFICES ASSUME Init PROVE Sound
  OBVIOUS
<1>1. TypeOK
  BY PipelineConstantsOK, UnitsAreUnits
     DEF Init, TypeOK, ControlType, TextType, SharedType, NoneOverflows, PipelineConstants, Texts, NoJob
<1>2. Sizes
  BY PipelineConstantsOK DEF Init, Sizes, PipelineConstants
<1>3. ASSUME NEW j \in Jobs PROVE Course(j)
  BY PipelineConstantsOK DEF Init, Course, Last, Over, Idle, Running, PipelineConstants
<1> QED BY <1>1, <1>2, <1>3 DEF Sound

\* What a step does to one job says all about the course of the jobs.
LEMMA OthersCourse ==
    ASSUME NEW j \in Jobs, \A i \in Jobs : Course(i), Course(j)',
           \A i \in Jobs \ {j} :
               /\ kind'[i] = kind[i] /\ at'[i] = at[i] /\ stage'[i] = stage[i]
               /\ proc'[i] = proc[i] /\ helper'[i] = helper[i] /\ seg'[i] = seg[i]
    PROVE  \A i \in Jobs : Course(i)'
BY DEF Course, Last, Over, Idle, Running

LEMMA OthersOfTwoCourse ==
    ASSUME NEW j \in Jobs, NEW c \in Jobs, \A i \in Jobs : Course(i), Course(j)', Course(c)',
           \A i \in Jobs \ {j, c} :
               /\ kind'[i] = kind[i] /\ at'[i] = at[i] /\ stage'[i] = stage[i]
               /\ proc'[i] = proc[i] /\ helper'[i] = helper[i] /\ seg'[i] = seg[i]
    PROVE  \A i \in Jobs : Course(i)'
BY DEF Course, Last, Over, Idle, Running

LEMMA TypeSound ==
    ASSUME Sound, NEW j \in Jobs, NEW k \in Programs[program], NEW back \in BOOLEAN, Type(j, k, back)
    PROVE  Sound'
<1> USE DEF Type, Free, Set, Goes, user, control, process, pipes, buffers, queues, shared, ghosts
<1>1. ControlType'
  BY PipelineConstantsOK DEF Sound, TypeOK, ControlType, Kinds, Places, Programs
<1>2. TextType'
  BY UnitsAreUnits DEF Sound, TypeOK, TextType, Texts
<1>3. SharedType'
  BY PipelineConstantsOK, UnitsAreUnits DEF Sound, TypeOK, SharedType
<1>4. NoneOverflows'
  BY PipelineConstantsOK DEF Sound, TypeOK, NoneOverflows, TextType, Texts, PipelineConstants
<1>5. Sizes'
  BY DEF Sound, TypeOK, Sizes, SharedType
<1>6. Course(j)'
  <2>1. k \in Kinds
    BY DEF Sound, TypeOK, ControlType, Programs, Kinds
  <2>2. at[j] = "none" /\ stage[j] = 1 /\ proc[j] = "none" /\ helper[j] = "none"
    BY DEF Sound, TypeOK, ControlType, Course, Idle
  <2>3. kind'[j] = k /\ at'[j] = "begin"
    BY DEF Sound, TypeOK, ControlType
  <2> QED BY <2>1, <2>2, <2>3, PipelineConstantsOK DEF Course, Last, Over, Idle, Running, PipelineConstants, Kinds
<1>7. \A i \in Jobs \ {j} :
          /\ kind'[i] = kind[i] /\ at'[i] = at[i] /\ stage'[i] = stage[i]
          /\ proc'[i] = proc[i] /\ helper'[i] = helper[i] /\ seg'[i] = seg[i]
  BY DEF Sound, TypeOK, ControlType, SharedType
<1> QED BY <1>1, <1>2, <1>3, <1>4, <1>5, <1>6, <1>7, OthersCourse DEF Sound, TypeOK

LEMMA ReapSound ==
    ASSUME Sound, NEW j \in Jobs, Reap(j)
    PROVE  Sound'
<1> USE DEF Reap, Set, Goes, user, control, process, pipes, buffers, queues, shared, ghosts
<1>1. ControlType'
  BY PipelineConstantsOK DEF Sound, TypeOK, ControlType, Kinds, Places, Programs
<1>2. TextType'
  BY UnitsAreUnits DEF Sound, TypeOK, TextType, Texts
<1>3. SharedType'
  BY PipelineConstantsOK, UnitsAreUnits DEF Sound, TypeOK, SharedType
<1>4. NoneOverflows'
  BY PipelineConstantsOK DEF Sound, TypeOK, NoneOverflows, TextType, Texts, PipelineConstants
<1>5. Sizes'
  BY PipelineConstantsOK DEF Sound, TypeOK, Sizes, SharedType, PipelineConstants
<1>6. Course(j)'
  BY DEF Sound, TypeOK, ControlType, SharedType, Course, Last, Over, Idle, Running
<1>7. \A i \in Jobs \ {j} :
          /\ kind'[i] = kind[i] /\ at'[i] = at[i] /\ stage'[i] = stage[i]
          /\ proc'[i] = proc[i] /\ helper'[i] = helper[i] /\ seg'[i] = seg[i]
  BY DEF Sound, TypeOK, ControlType, SharedType
<1> QED BY <1>1, <1>2, <1>3, <1>4, <1>5, <1>6, <1>7, OthersCourse DEF Sound, TypeOK

LEMMA BeginSound ==
    ASSUME Sound, NEW j \in Jobs, Begin(j)
    PROVE  Sound'
<1> USE DEF Begin, Set, Goes, user, control, process, pipes, buffers, queues, shared, ghosts
<1>1. ControlType'
  BY PipelineConstantsOK DEF Sound, TypeOK, ControlType, Kinds, Places, Programs
<1>2. TextType'
  BY UnitsAreUnits DEF Sound, TypeOK, TextType, Texts
<1>3. SharedType'
  <2>1. <<j, 0>> \in Segments
    BY PipelineConstantsOK DEF Segments, PipelineConstants
  <2>2. name' \in Segments \cup {NoName} /\ seg' \in [Jobs -> Segments \cup {NoName}]
    BY <2>1 DEF Sound, TypeOK, SharedType
  <2>3. queue' \in Jobs \cup {NoJob} /\ qid' \in [Jobs -> Jobs \cup {NoJob}]
    BY DEF Sound, TypeOK, SharedType
  <2> QED BY <2>2, <2>3 DEF Sound, TypeOK, SharedType
<1>4. NoneOverflows'
  BY DEF Sound, TypeOK, NoneOverflows
<1>5. Sizes'
  BY DEF Sound, TypeOK, Sizes, SharedType
<1>6. Course(j)'
  <2>1. kind[j] = "shm" => seg'[j] \in Segments
    <3>1. CASE kind[j] = "shm"
      <4>1. <<j, 0>> \in Segments
        BY PipelineConstantsOK DEF Segments, PipelineConstants
      <4>2. name' \in Segments
        BY <3>1, <4>1 DEF Sound, TypeOK, SharedType
      <4> QED BY <3>1, <4>2 DEF Sound, TypeOK, SharedType
    <3> QED BY <3>1
  <2>2. at[j] = "begin" /\ at'[j] = "prepare"
    BY DEF Sound, TypeOK, ControlType
  <2> QED BY <2>1, <2>2 DEF Sound, Course, Last, Over, Idle, Running
<1>7. \A i \in Jobs \ {j} :
          /\ kind'[i] = kind[i] /\ at'[i] = at[i] /\ stage'[i] = stage[i]
          /\ proc'[i] = proc[i] /\ helper'[i] = helper[i] /\ seg'[i] = seg[i]
  BY DEF Sound, TypeOK, ControlType, SharedType
<1> QED BY <1>1, <1>2, <1>3, <1>4, <1>5, <1>6, <1>7, OthersCourse DEF Sound, TypeOK

LEMMA InputType ==
    ASSUME Sound, NEW j \in Jobs
    PROVE  Input(j) \in Seq(Units) /\ Len(Input(j)) <= Capacity
<1>1. /\ out[j] \in Seq(Units) /\ Len(out[j]) <= Capacity
      /\ text[j] \in Seq(Units) /\ Len(text[j]) <= MaxBuf /\ Len(text[j]) \in Nat
  BY DEF Sound, TypeOK, TextType, Texts, NoneOverflows, Sizes
<1> QED BY <1>1, UnitsAreUnits, PipelineConstantsOK DEF Input, PipelineConstants

LEMMA ForkSound ==
    ASSUME Sound, NEW j \in Jobs, Fork(j)
    PROVE  Sound'
<1> USE DEF Fork, AfterFork, ForkPipes, Set, Goes, user, control, process, pipes, buffers, queues, shared, ghosts
<1>1. ControlType'
  BY PipelineConstantsOK DEF Sound, TypeOK, ControlType, Kinds, Places, Programs
<1>2. TextType'
  BY UnitsAreUnits, InputType DEF Sound, TypeOK, TextType, Texts
<1>3. SharedType'
  BY PipelineConstantsOK, UnitsAreUnits DEF Sound, TypeOK, SharedType
<1>4. NoneOverflows'
  <2>1. inp \in Texts /\ out \in Texts /\ Capacity \in Nat /\ Len(<<>>) = 0 /\ Len(Input(j)) <= Capacity
    BY PipelineConstantsOK, InputType DEF Sound, TypeOK, TextType, PipelineConstants
  <2>2. \A i \in Jobs : /\ out'[i] = out[i] \/ out'[i] = <<>>
                        /\ inp'[i] = inp[i] \/ inp'[i] = <<>> \/ inp'[i] = Input(j)
    BY <2>1 DEF Texts
  <2> QED BY <2>1, <2>2 DEF Sound, TypeOK, NoneOverflows
<1>5. Sizes'
  BY DEF Sound, TypeOK, Sizes, SharedType
<1>6. Course(j)'
  BY DEF Sound, TypeOK, ControlType, SharedType, Course, Last, Over, Idle, Running
<1>7. \A i \in Jobs \ {j} :
          /\ kind'[i] = kind[i] /\ at'[i] = at[i] /\ stage'[i] = stage[i]
          /\ proc'[i] = proc[i] /\ helper'[i] = helper[i] /\ seg'[i] = seg[i]
  BY DEF Sound, TypeOK, ControlType, SharedType
<1> QED BY <1>1, <1>2, <1>3, <1>4, <1>5, <1>6, <1>7, OthersCourse DEF Sound, TypeOK

LEMMA CloseSound ==
    ASSUME Sound, NEW j \in Jobs, Close(j)
    PROVE  Sound'
<1> USE DEF Close, Set, Goes, user, control, process, pipes, buffers, queues, shared, ghosts
<1>1. ControlType'
  BY PipelineConstantsOK DEF Sound, TypeOK, ControlType, Kinds, Places, Programs
<1>2. TextType'
  BY UnitsAreUnits DEF Sound, TypeOK, TextType, Texts
<1>3. SharedType'
  BY PipelineConstantsOK, UnitsAreUnits DEF Sound, TypeOK, SharedType
<1>4. NoneOverflows'
  BY PipelineConstantsOK DEF Sound, TypeOK, NoneOverflows, TextType, Texts, PipelineConstants
<1>5. Sizes'
  BY DEF Sound, TypeOK, Sizes, SharedType
<1>6. Course(j)'
  BY DEF Sound, TypeOK, ControlType, SharedType, Course, Last, Over, Idle, Running
<1>7. \A i \in Jobs \ {j} :
          /\ kind'[i] = kind[i] /\ at'[i] = at[i] /\ stage'[i] = stage[i]
          /\ proc'[i] = proc[i] /\ helper'[i] = helper[i] /\ seg'[i] = seg[i]
  BY DEF Sound, TypeOK, ControlType, SharedType
<1> QED BY <1>1, <1>2, <1>3, <1>4, <1>5, <1>6, <1>7, OthersCourse DEF Sound, TypeOK

LEMMA FeedSound ==
    ASSUME Sound, NEW j \in Jobs, Feed(j)
    PROVE  Sound'
<1> USE DEF Feed, Set, Goes, user, control, process, pipes, buffers, queues, shared, ghosts
<1>1. ControlType'
  <2>1. at' \in [Jobs -> Places \cup {"none"}]
    BY DEF Sound, TypeOK, ControlType, Places
  <2>2. eof' \in [Jobs -> BOOLEAN]
    BY DEF Sound, TypeOK, ControlType
  <2> QED BY <2>1, <2>2 DEF Sound, TypeOK, ControlType
<1>2. TextType'
  <2>1. Filled(text[j]) \in Seq(Units)
    BY FilledType DEF Sound, TypeOK, TextType, Texts
  <2> QED BY <2>1 DEF Sound, TypeOK, TextType, Texts
<1>3. SharedType'
  BY PipelineConstantsOK, UnitsAreUnits DEF Sound, TypeOK, SharedType
<1>4. NoneOverflows'
  <2>1. Len(Filled(text[j])) = MaxSize
    BY FilledType DEF Sound, TypeOK, TextType, Texts
  <2>2. Len(Filled(text[j])) <= Capacity
    BY <2>1, PipelineConstantsOK DEF PipelineConstants
  <2> QED BY <2>2 DEF Sound, TypeOK, NoneOverflows, TextType, Texts
<1>5. Sizes'
  BY PipelineConstantsOK DEF Sound, TypeOK, Sizes, TextType, SharedType, Texts, PipelineConstants
<1>6. Course(j)'
  <2>1. /\ at[j] = "feed" /\ stage[j] > 1 /\ proc'[j] = proc[j]
        /\ \/ at'[j] = "zombie" /\ proc[j] \in {"ended", "job"}
           \/ at'[j] = "unlink" /\ kind[j] = "shm"
           \/ at'[j] = "wait"
    BY DEF Unread, Sound, TypeOK, ControlType, Course
  <2>2. UNCHANGED <<kind, stage, helper, seg>>
    OBVIOUS
  <2> QED BY <2>1, <2>2 DEF Sound, Course, Last, Over, Idle, Running
<1>7. \A i \in Jobs \ {j} :
          /\ kind'[i] = kind[i] /\ at'[i] = at[i] /\ stage'[i] = stage[i]
          /\ proc'[i] = proc[i] /\ helper'[i] = helper[i] /\ seg'[i] = seg[i]
  BY DEF Sound, TypeOK, ControlType, SharedType
<1> QED BY <1>1, <1>2, <1>3, <1>4, <1>5, <1>6, <1>7, OthersCourse DEF Sound, TypeOK

LEMMA UnlinkSound ==
    ASSUME Sound, NEW j \in Jobs, Unlink(j)
    PROVE  Sound'
<1> USE DEF Unlink, Set, Goes, user, control, process, pipes, buffers, queues, shared, ghosts
<1>1. ControlType'
  BY PipelineConstantsOK DEF Sound, TypeOK, ControlType, Kinds, Places, Programs
<1>2. TextType'
  BY UnitsAreUnits DEF Sound, TypeOK, TextType, Texts
<1>3. SharedType'
  BY PipelineConstantsOK, UnitsAreUnits DEF Sound, TypeOK, SharedType
<1>4. NoneOverflows'
  BY PipelineConstantsOK DEF Sound, TypeOK, NoneOverflows, TextType, Texts, PipelineConstants
<1>5. Sizes'
  BY DEF Sound, TypeOK, Sizes, SharedType
<1>6. Course(j)'
  BY DEF Sound, TypeOK, ControlType, SharedType, Course, Last, Over, Idle, Running
<1>7. \A i \in Jobs \ {j} :
          /\ kind'[i] = kind[i] /\ at'[i] = at[i] /\ stage'[i] = stage[i]
          /\ proc'[i] = proc[i] /\ helper'[i] = helper[i] /\ seg'[i] = seg[i]
  BY DEF Sound, TypeOK, ControlType, SharedType
<1> QED BY <1>1, <1>2, <1>3, <1>4, <1>5, <1>6, <1>7, OthersCourse DEF Sound, TypeOK

LEMMA StageSegment ==
    ASSUME Sound, NEW j \in Jobs, at[j] = "open"
    PROVE  <<j, stage[j]>> \in Segments
BY DEF Sound, TypeOK, ControlType, Course, Last, Segments

LEMMA OpenSound ==
    ASSUME Sound, NEW j \in Jobs, Open(j)
    PROVE  Sound'
<1> USE DEF Open, Set, Goes, user, control, process, pipes, buffers, queues, shared, ghosts
<1>1. ControlType'
  BY PipelineConstantsOK DEF Sound, TypeOK, ControlType, Kinds, Places, Programs
<1>2. TextType'
  BY UnitsAreUnits DEF Sound, TypeOK, TextType, Texts
<1>3. SharedType'
  <2>1. <<j, stage[j]>> \in Segments
    BY StageSegment DEF Sound, TypeOK, ControlType
  <2> QED BY <2>1 DEF Sound, TypeOK, SharedType
<1>4. NoneOverflows'
  BY DEF Sound, TypeOK, NoneOverflows
<1>5. Sizes'
  BY DEF Sound, TypeOK, Sizes, SharedType
<1>6. Course(j)'
  <2>1. <<j, stage[j]>> \in Segments
    BY StageSegment DEF Sound, TypeOK, ControlType
  <2>2. seg'[j] \in Segments
    BY <2>1 DEF Sound, TypeOK, SharedType
  <2>3. at[j] = "open" /\ at'[j] = "wait"
    BY DEF Sound, TypeOK, ControlType
  <2> QED BY <2>2, <2>3 DEF Sound, Course, Last, Over, Idle, Running
<1>7. \A i \in Jobs \ {j} :
          /\ kind'[i] = kind[i] /\ at'[i] = at[i] /\ stage'[i] = stage[i]
          /\ proc'[i] = proc[i] /\ helper'[i] = helper[i] /\ seg'[i] = seg[i]
  BY DEF Sound, TypeOK, ControlType, SharedType
<1> QED BY <1>1, <1>2, <1>3, <1>4, <1>5, <1>6, <1>7, OthersCourse DEF Sound, TypeOK

LEMMA HearSound ==
    ASSUME Sound, NEW j \in Jobs, Hear(j)
    PROVE  Sound'
<1> USE DEF Hear, Set, Goes, user, control, process, pipes, buffers, queues, shared, ghosts
<1>1. ControlType'
  BY PipelineConstantsOK DEF Sound, TypeOK, ControlType, Kinds, Places, Programs
<1>2. TextType'
  BY UnitsAreUnits DEF Sound, TypeOK, TextType, Texts
<1>3. SharedType'
  BY PipelineConstantsOK, UnitsAreUnits DEF Sound, TypeOK, SharedType
<1>4. NoneOverflows'
  BY PipelineConstantsOK DEF Sound, TypeOK, NoneOverflows, TextType, Texts, PipelineConstants
<1>5. Sizes'
  BY DEF Sound, TypeOK, Sizes, SharedType
<1>6. Course(j)'
  BY DEF Sound, TypeOK, ControlType, SharedType, Course, Last, Over, Idle, Running
<1>7. \A i \in Jobs \ {j} :
          /\ kind'[i] = kind[i] /\ at'[i] = at[i] /\ stage'[i] = stage[i]
          /\ proc'[i] = proc[i] /\ helper'[i] = helper[i] /\ seg'[i] = seg[i]
  BY DEF Sound, TypeOK, ControlType, SharedType
<1> QED BY <1>1, <1>2, <1>3, <1>4, <1>5, <1>6, <1>7, OthersCourse DEF Sound, TypeOK

LEMMA ThinkSound ==
    ASSUME Sound, NEW j \in Jobs, Think(j)
    PROVE  Sound'
<1> USE DEF Think, Set, Goes, user, control, process, pipes, buffers, queues, shared, ghosts
<1>1. ControlType'
  BY PipelineConstantsOK DEF Sound, TypeOK, ControlType, Kinds, Places, Programs
<1>2. TextType'
  <2>1. \A n \in Lengths : Output(j, n) \in Seq(Units)
    BY PipelineConstantsOK, OutputType DEF Sound, PipelineConstants
  <2> QED BY <2>1 DEF Sound, TypeOK, TextType, Texts
<1>3. SharedType'
  BY PipelineConstantsOK, UnitsAreUnits DEF Sound, TypeOK, SharedType
<1>4. NoneOverflows'
  BY PipelineConstantsOK DEF Sound, TypeOK, NoneOverflows, TextType, Texts, PipelineConstants
<1>5. Sizes'
  BY DEF Sound, TypeOK, Sizes, SharedType
<1>6. Course(j)'
  BY DEF Sound, TypeOK, ControlType, SharedType, Course, Last, Over, Idle, Running
<1>7. \A i \in Jobs \ {j} :
          /\ kind'[i] = kind[i] /\ at'[i] = at[i] /\ stage'[i] = stage[i]
          /\ proc'[i] = proc[i] /\ helper'[i] = helper[i] /\ seg'[i] = seg[i]
  BY DEF Sound, TypeOK, ControlType, SharedType
<1> QED BY <1>1, <1>2, <1>3, <1>4, <1>5, <1>6, <1>7, OthersCourse DEF Sound, TypeOK

LEMMA EndSound ==
    ASSUME Sound, NEW j \in Jobs, End(j)
    PROVE  Sound'
<1> USE DEF End, Set, Goes, user, control, process, pipes, buffers, queues, shared, ghosts
<1>1. ControlType'
  BY PipelineConstantsOK DEF Sound, TypeOK, ControlType, Kinds, Places, Programs
<1>2. TextType'
  BY UnitsAreUnits DEF Sound, TypeOK, TextType, Texts
<1>3. SharedType'
  BY PipelineConstantsOK, UnitsAreUnits DEF Sound, TypeOK, SharedType
<1>4. NoneOverflows'
  BY PipelineConstantsOK DEF Sound, TypeOK, NoneOverflows, TextType, Texts, PipelineConstants
<1>5. Sizes'
  BY DEF Sound, TypeOK, Sizes, SharedType
<1>6. Course(j)'
  BY DEF Sound, TypeOK, ControlType, SharedType, Course, Last, Over, Idle, Running
<1>7. \A i \in Jobs \ {j} :
          /\ kind'[i] = kind[i] /\ at'[i] = at[i] /\ stage'[i] = stage[i]
          /\ proc'[i] = proc[i] /\ helper'[i] = helper[i] /\ seg'[i] = seg[i]
  BY DEF Sound, TypeOK, ControlType, SharedType
<1> QED BY <1>1, <1>2, <1>3, <1>4, <1>5, <1>6, <1>7, OthersCourse DEF Sound, TypeOK

LEMMA HelpSound ==
    ASSUME Sound, NEW j \in Jobs, Help(j)
    PROVE  Sound'
<1> USE DEF Help, Set, Goes, user, control, process, pipes, buffers, queues, shared, ghosts
<1>1. ControlType'
  BY PipelineConstantsOK DEF Sound, TypeOK, ControlType, Kinds, Places, Programs
<1>2. TextType'
  <2>1. First(out[j], MaxSize) \in Seq(Units) /\ Rest(out[j], MaxSize) \in Seq(Units)
    BY PipelineConstantsOK, FirstProperties, RestProperties
       DEF Sound, TypeOK, TextType, Texts, PipelineConstants
  <2> QED BY <2>1 DEF Sound, TypeOK, TextType, Texts
<1>3. SharedType'
  BY PipelineConstantsOK, UnitsAreUnits DEF Sound, TypeOK, SharedType
<1>4. NoneOverflows'
  <2>1. out[j] \in Seq(Units) /\ Len(out[j]) <= Capacity
    BY DEF Sound, TypeOK, TextType, Texts, NoneOverflows
  <2>2. MaxSize \in Nat /\ Capacity \in Nat /\ Len(out[j]) \in Nat
    BY <2>1, PipelineConstantsOK DEF PipelineConstants
  <2>3. Len(First(out[j], MaxSize)) <= Len(out[j]) /\ Len(First(out[j], MaxSize)) \in Nat
    BY <2>1, <2>2, FirstProperties, LenProperties
  <2>4. Len(Rest(out[j], MaxSize)) <= Len(out[j]) /\ Len(Rest(out[j], MaxSize)) \in Nat
    <3>1. Len(Rest(out[j], MaxSize)) = IF MaxSize < Len(out[j]) THEN Len(out[j]) - MaxSize ELSE 0
      BY <2>1, <2>2, RestProperties
    <3> QED BY <2>2, <3>1
  <2> QED BY <2>1, <2>2, <2>3, <2>4 DEF Sound, TypeOK, NoneOverflows
<1>5. Sizes'
  BY DEF Sound, TypeOK, Sizes, SharedType
<1>6. Course(j)'
  BY DEF Sound, TypeOK, ControlType, SharedType, Course, Last, Over, Idle, Running
<1>7. \A i \in Jobs \ {j} :
          /\ kind'[i] = kind[i] /\ at'[i] = at[i] /\ stage'[i] = stage[i]
          /\ proc'[i] = proc[i] /\ helper'[i] = helper[i] /\ seg'[i] = seg[i]
  BY DEF Sound, TypeOK, ControlType, SharedType
<1> QED BY <1>1, <1>2, <1>3, <1>4, <1>5, <1>6, <1>7, OthersCourse DEF Sound, TypeOK

LEMMA RemoveSound ==
    ASSUME Sound, NEW j \in Jobs, Remove(j)
    PROVE  Sound'
<1> USE DEF Remove, Set, Goes, user, control, process, pipes, buffers, queues, shared, ghosts
<1>1. ControlType'
  BY PipelineConstantsOK DEF Sound, TypeOK, ControlType, Kinds, Places, Programs
<1>2. TextType'
  BY UnitsAreUnits DEF Sound, TypeOK, TextType, Texts
<1>3. SharedType'
  <2>1. <<>> \in Seq(Seq(Units))
    OBVIOUS
  <2> QED BY <2>1 DEF Sound, TypeOK, SharedType
<1>4. NoneOverflows'
  BY DEF Sound, TypeOK, NoneOverflows
<1>5. Sizes'
  <2>1. box' = box \/ box' = <<>>
    OBVIOUS
  <2>2. \A k \in 1..Len(box') : Len(box'[k]) <= MaxSize
    <3>1. CASE box' = <<>>
      BY <3>1
    <3>2. CASE box' = box
      BY <3>2 DEF Sound, Sizes
    <3> QED BY <2>1, <3>1, <3>2
  <2> QED BY <2>2 DEF Sound, Sizes
<1>6. Course(j)'
  BY DEF Sound, TypeOK, ControlType, SharedType, Course, Last, Over, Idle, Running
<1>7. \A i \in Jobs \ {j} :
          /\ kind'[i] = kind[i] /\ at'[i] = at[i] /\ stage'[i] = stage[i]
          /\ proc'[i] = proc[i] /\ helper'[i] = helper[i] /\ seg'[i] = seg[i]
  BY DEF Sound, TypeOK, ControlType, SharedType
<1> QED BY <1>1, <1>2, <1>3, <1>4, <1>5, <1>6, <1>7, OthersCourse DEF Sound, TypeOK

\* What msgrcv takes from the queue, and what it leaves.
LEMMA HeadOfBox ==
    ASSUME Sound, box # <<>>
    PROVE  /\ Head(box) \in Seq(Units) /\ Len(Head(box)) <= MaxSize
           /\ Tail(box) \in Seq(Seq(Units))
           /\ \A k \in 1..Len(Tail(box)) : Len(Tail(box)[k]) <= MaxSize
<1>1. box \in Seq(Seq(Units)) /\ Len(box) \in Nat \ {0}
  BY EmptySeq DEF Sound, TypeOK, SharedType
<1>2. /\ Head(box) \in Seq(Units) /\ Tail(box) \in Seq(Seq(Units)) /\ Len(Tail(box)) = Len(box) - 1
      /\ \A k \in 1..Len(Tail(box)) : Tail(box)[k] = box[k + 1]
  BY <1>1, HeadTailProperties
<1>3. Head(box) = box[1] /\ 1 \in 1..Len(box)
  BY <1>1
<1>4. \A k \in 1..Len(Tail(box)) : k + 1 \in 1..Len(box)
  BY <1>1, <1>2
<1> QED BY <1>2, <1>3, <1>4 DEF Sound, Sizes

LEMMA PrepareSound ==
    ASSUME Sound, NEW j \in Jobs, Prepare(j)
    PROVE  Sound'
<1> USE DEF Prepare, Set, Goes, user, control, process, pipes, buffers, queues, shared, ghosts
<1>1. \/ UNCHANGED <<text, box>>
      \/ text' = Set(text, j, mem[seg[j]]) /\ seg[j] \in Segments /\ UNCHANGED box
      \/ box # <<>> /\ text' = Set(text, j, Head(box)) /\ box' = Tail(box)
      \/ text' = Set(text, j, <<Junk>>) /\ UNCHANGED box
  BY DEF Receive, Sound, Course
<1>2. \/ UNCHANGED text
      \/ \E new \in Seq(Units) : Len(new) <= MaxBuf /\ text' = Set(text, j, new)
  <2>1. CASE text' = Set(text, j, mem[seg[j]]) /\ seg[j] \in Segments
    <3>1. mem[seg[j]] \in Seq(Units) /\ Len(mem[seg[j]]) <= MaxBuf
      BY <2>1 DEF Sound, TypeOK, SharedType, Sizes
    <3> QED BY <2>1, <3>1
  <2>2. CASE box # <<>> /\ text' = Set(text, j, Head(box))
    <3>1. Head(box) \in Seq(Units) /\ Len(Head(box)) <= MaxSize
      BY <2>2, HeadOfBox
    <3>2. Len(Head(box)) <= MaxBuf
      BY <3>1, PipelineConstantsOK DEF PipelineConstants
    <3> QED BY <2>2, <3>1, <3>2
  <2>3. CASE text' = Set(text, j, <<Junk>>)
    <3>1. <<Junk>> \in Seq(Units) /\ Len(<<Junk>>) <= MaxBuf
      BY UnitsAreUnits, PipelineConstantsOK DEF PipelineConstants
    <3> QED BY <2>3, <3>1
  <2> QED BY <1>1, <2>1, <2>2, <2>3
<1>3. ControlType'
  BY DEF Sound, TypeOK, ControlType, Places
<1>4. TextType'
  BY <1>2 DEF Sound, TypeOK, TextType, Texts
<1>5. SharedType'
  BY <1>1, HeadOfBox DEF Sound, TypeOK, SharedType
<1>6. NoneOverflows'
  BY DEF Sound, TypeOK, NoneOverflows
<1>7. Sizes'
  <2>1. \A k \in 1..Len(box') : Len(box'[k]) <= MaxSize
    <3>1. CASE box' = Tail(box) /\ box # <<>>
      BY <3>1, HeadOfBox
    <3>2. CASE box' = box
      BY <3>2 DEF Sound, Sizes
    <3> QED BY <1>1, <3>1, <3>2
  <2>2. \A i \in Jobs : Len(text'[i]) <= MaxBuf
    BY <1>2 DEF Sound, Sizes, TypeOK, TextType, Texts
  <2> QED BY <2>1, <2>2 DEF Sound, Sizes
<1>8. Course(j)'
  <2>1. at[j] = "prepare" /\ at'[j] = "fork"
    BY DEF Sound, TypeOK, ControlType
  <2> QED BY <2>1 DEF Sound, Course, Last, Over, Idle, Running
<1>9. \A i \in Jobs \ {j} :
          /\ kind'[i] = kind[i] /\ at'[i] = at[i] /\ stage'[i] = stage[i]
          /\ proc'[i] = proc[i] /\ helper'[i] = helper[i] /\ seg'[i] = seg[i]
  BY DEF Sound, TypeOK, ControlType
<1> QED BY <1>3, <1>4, <1>5, <1>6, <1>7, <1>8, <1>9, OthersCourse DEF Sound, TypeOK

\* Where a job goes on, and that stages are counted up to the last.
LEMMA AdvanceCourse ==
    ASSUME Sound, NEW j \in Jobs, NEW here \in Places, NEW end \in Places, Advance(j, here, end)
    PROVE  /\ at[j] = here
           /\ at' \in [Jobs -> Places \cup {"none"}] /\ stage' \in [Jobs -> 1..(Stages + 3)]
           /\ \A i \in Jobs \ {j} : at'[i] = at[i] /\ stage'[i] = stage[i]
           /\ \/ at'[j] = "prepare" /\ stage'[j] = stage[j] + 1 /\ stage'[j] > 1 /\ stage'[j] <= Last(j)
              \/ at'[j] = end /\ stage'[j] = stage[j] /\ stage[j] = Last(j)
<1> USE DEF Advance, Goes, Set
<1>1. /\ stage \in [Jobs -> 1..(Stages + 3)] /\ at \in [Jobs -> Places \cup {"none"}]
      /\ stage[j] <= Last(j) /\ Last(j) \in 1..(Stages + 3) /\ Stages \in Nat
  BY PipelineConstantsOK DEF Sound, TypeOK, ControlType, Course, Last, PipelineConstants
<1>2. CASE stage[j] < Last(j)
  <2>1. stage[j] + 1 \in 1..(Stages + 3) /\ stage[j] + 1 > 1
    BY <1>1, <1>2
  <2> QED BY <1>1, <1>2, <2>1 DEF Places
<1>3. CASE ~(stage[j] < Last(j))
  <2>1. stage[j] = Last(j)
    BY <1>1, <1>3
  <2> QED BY <1>1, <1>3, <2>1
<1> QED BY <1>2, <1>3

LEMMA WaitSound ==
    ASSUME Sound, NEW j \in Jobs, Wait(j)
    PROVE  Sound'
<1> USE DEF Wait, Set, user, control, process, pipes, buffers, queues, shared, ghosts
<1>1. /\ at[j] = "wait" /\ at' \in [Jobs -> Places \cup {"none"}] /\ stage' \in [Jobs -> 1..(Stages + 3)]
      /\ \A i \in Jobs \ {j} : at'[i] = at[i] /\ stage'[i] = stage[i]
      /\ \/ at'[j] = "prepare" /\ stage'[j] > 1 /\ stage'[j] <= Last(j)
         \/ at'[j] = "zombie" /\ stage'[j] = stage[j]
         \/ at'[j] = "show" /\ kind[j] = "cluster" /\ stage'[j] = stage[j]
         \/ /\ at'[j] = "collect" /\ stage'[j] = stage[j]
            /\ kind[j] \in {"shm", "queue"} \/ (kind[j] = "fanout" /\ stage[j] = 1)
  <2>1. {"wait", "zombie", "show", "collect"} \subseteq Places
    BY DEF Places
  <2>2. CASE kind[j] = "pipe"
    BY <2>1, <2>2, AdvanceCourse
  <2>3. CASE kind[j] = "cluster"
    BY <2>1, <2>3, AdvanceCourse
  <2>4. CASE kind[j] = "fanout" /\ stage[j] > 1
    BY <2>1, <2>4, AdvanceCourse
  <2>5. CASE kind[j] \notin {"pipe", "cluster"} /\ ~(kind[j] = "fanout" /\ stage[j] > 1)
    <3>1. Goes(j, "wait", "collect") /\ UNCHANGED stage
      BY <2>5
    <3>2. kind[j] \in {"shm", "queue", "fanout"} /\ (stage[j] = 1 \/ stage[j] > 1)
      BY <2>5, <3>1 DEF Goes, Sound, TypeOK, ControlType, Course, Kinds
    <3> QED BY <2>1, <2>5, <3>1, <3>2 DEF Goes, Sound, TypeOK, ControlType
  <2> QED BY <2>2, <2>3, <2>4, <2>5
<1>2. ControlType'
  BY <1>1 DEF Sound, TypeOK, ControlType
<1>3. TextType'
  BY DEF Sound, TypeOK, TextType, Texts
<1>4. SharedType' /\ NoneOverflows' /\ Sizes'
  BY DEF Sound, TypeOK, SharedType, NoneOverflows, Sizes
<1>5. Course(j)'
  <2>1. proc'[j] = "none" /\ helper'[j] = "none"
    BY DEF Sound, TypeOK, ControlType
  <2> QED BY <1>1, <2>1 DEF Sound, Course, Last, Over, Idle, Running
<1>6. \A i \in Jobs \ {j} :
          /\ kind'[i] = kind[i] /\ at'[i] = at[i] /\ stage'[i] = stage[i]
          /\ proc'[i] = proc[i] /\ helper'[i] = helper[i] /\ seg'[i] = seg[i]
  BY <1>1 DEF Sound, TypeOK, ControlType
<1> QED BY <1>2, <1>3, <1>4, <1>5, <1>6, OthersCourse DEF Sound, TypeOK

LEMMA CollectSound ==
    ASSUME Sound, NEW j \in Jobs, Collect(j)
    PROVE  Sound'
<1> USE DEF Set, user, control, process, pipes, buffers, queues, shared, ghosts
<1> DEFINE n   == IF kind[j] = "fanout" THEN MaxBuf ELSE MaxSize
           got == First(out[j], n)
           left == Rest(out[j], n)
<1>1. /\ n \in Nat /\ n <= MaxBuf /\ (kind[j] # "fanout" => n = MaxSize)
      /\ MaxSize \in Nat /\ MaxBuf \in Nat
  BY PipelineConstantsOK DEF PipelineConstants
<1>2. out[j] \in Seq(Units) /\ Len(out[j]) <= Capacity /\ Len(out[j]) \in Nat
  BY DEF Sound, TypeOK, TextType, Texts, NoneOverflows
<1>3. got \in Seq(Units) /\ Len(got) \in Nat /\ Len(got) <= n /\ Len(got) <= Len(out[j])
  BY <1>1, <1>2, FirstProperties, LenProperties
<1>4. left \in Seq(Units) /\ Len(left) = IF n < Len(out[j]) THEN Len(out[j]) - n ELSE 0
  BY <1>1, <1>2, RestProperties
<1>5. Len(left) \in Nat /\ Len(left) + Len(got) <= Capacity
  <2>1. CASE n < Len(out[j])
    BY <1>1, <1>2, <1>3, <1>4, <2>1, PipelineConstantsOK DEF PipelineConstants
  <2>2. CASE ~(n < Len(out[j]))
    BY <1>1, <1>2, <1>3, <1>4, <2>2, PipelineConstantsOK DEF PipelineConstants
  <2> QED BY <2>1, <2>2
<1>6. /\ UNCHANGED <<user, main, kind, parent, process, inp, eof, helper, shown, queue, qid, name, seg, ghosts>>
      /\ Advance(j, "collect", "show")
      /\ mem' = IF kind[j] = "shm" THEN [mem EXCEPT ![seg[j]] = Append(got, Newline)] ELSE mem
      /\ box' = IF kind[j] = "queue" /\ queue = qid[j] THEN Append(box, got) ELSE box
      /\ text' = IF kind[j] = "fanout" THEN Set(text, j, got) ELSE text
      /\ out' = Set(out, j, left \o (IF kind[j] = "fanout" THEN got ELSE <<>>))
  BY DEF Collect
<1> HIDE DEF n, got, left
<1>7. /\ at[j] = "collect" /\ at' \in [Jobs -> Places \cup {"none"}] /\ stage' \in [Jobs -> 1..(Stages + 3)]
      /\ \A i \in Jobs \ {j} : at'[i] = at[i] /\ stage'[i] = stage[i]
      /\ \/ at'[j] = "prepare" /\ stage'[j] > 1 /\ stage'[j] <= Last(j)
         \/ at'[j] = "show" /\ stage'[j] = stage[j] /\ kind[j] # "fanout"
  <2>1. "collect" \in Places /\ "show" \in Places
    BY DEF Places
  <2>2. kind[j] = "fanout" => stage[j] # Last(j)
    BY <1>6, <2>1, AdvanceCourse DEF Sound, Course, Last
  <2> QED BY <1>6, <2>1, <2>2, AdvanceCourse
<1>8. ControlType'
  BY <1>6, <1>7 DEF Sound, TypeOK, ControlType
<1>9. /\ left \o (IF kind[j] = "fanout" THEN got ELSE <<>>) \in Seq(Units)
      /\ Len(left \o (IF kind[j] = "fanout" THEN got ELSE <<>>)) <= Capacity
  <2>1. left \o got \in Seq(Units) /\ Len(left \o got) <= Capacity
    BY <1>3, <1>4, <1>5, ConcatProperties
  <2>2. left \o <<>> = left /\ Len(left) <= Capacity
    BY <1>3, <1>4, <1>5, ConcatEmptySeq, PipelineConstantsOK DEF PipelineConstants
  <2> QED BY <1>4, <2>1, <2>2
<1>10. TextType'
  BY <1>3, <1>6, <1>9 DEF Sound, TypeOK, TextType, Texts
<1>11. SharedType'
  <2>1. mem' \in [Segments -> Seq(Units)]
    <3>1. Append(got, Newline) \in Seq(Units)
      BY <1>3, UnitsAreUnits, AppendProperties
    <3> QED BY <1>6, <3>1 DEF Sound, TypeOK, SharedType
  <2>2. box' \in Seq(Seq(Units))
    <3>1. box \in Seq(Seq(Units)) /\ Append(box, got) \in Seq(Seq(Units))
      BY <1>3, AppendProperties DEF Sound, TypeOK, SharedType
    <3> QED BY <1>6, <3>1
  <2> QED BY <1>6, <2>1, <2>2 DEF Sound, TypeOK, SharedType
<1>12. NoneOverflows'
  BY <1>6, <1>9 DEF Sound, TypeOK, NoneOverflows
<1>13. Sizes'
  <2>1. \A s \in Segments : Len(mem'[s]) <= MaxBuf
    <3>1. CASE kind[j] = "shm"
      <4>1. Len(Append(got, Newline)) = Len(got) + 1
        BY <1>3, UnitsAreUnits, AppendProperties
      <4>2. Len(Append(got, Newline)) <= MaxBuf
        BY <1>1, <1>3, <3>1, <4>1, PipelineConstantsOK DEF PipelineConstants
      <4> QED BY <1>6, <4>2 DEF Sound, TypeOK, SharedType, Sizes
    <3>2. CASE kind[j] # "shm"
      BY <1>6, <3>2 DEF Sound, Sizes
    <3> QED BY <3>1, <3>2
  <2>2. \A k \in 1..Len(box') : Len(box'[k]) <= MaxSize
    <3>1. CASE box' = Append(box, got) /\ kind[j] = "queue"
      <4>1. /\ Len(box') = Len(box) + 1 /\ box'[Len(box) + 1] = got
            /\ \A k \in 1..Len(box) : box'[k] = box[k]
        BY <1>3, <3>1, AppendProperties DEF Sound, TypeOK, SharedType
      <4>2. Len(box) \in Nat /\ Len(got) <= MaxSize
        BY <1>1, <1>3, <3>1 DEF Sound, TypeOK, SharedType
      <4>3. ASSUME NEW k \in 1..Len(box') PROVE Len(box'[k]) <= MaxSize
        <5>1. CASE k = Len(box) + 1
          BY <4>1, <4>2, <5>1
        <5>2. CASE k # Len(box) + 1
          <6>1. k \in 1..Len(box)
            BY <4>1, <4>2, <4>3, <5>2
          <6> QED BY <4>1, <6>1 DEF Sound, Sizes
        <5> QED BY <5>1, <5>2
      <4> QED BY <4>3
    <3>2. CASE box' = box
      BY <3>2 DEF Sound, Sizes
    <3> QED BY <1>6, <3>1, <3>2
  <2>3. \A i \in Jobs : Len(text'[i]) <= MaxBuf
    BY <1>1, <1>3, <1>6 DEF Sound, TypeOK, Sizes
  <2> QED BY <2>1, <2>2, <2>3 DEF Sizes
<1>14. Course(j)'
  BY <1>6, <1>7 DEF Sound, Course, Last, Over, Idle, Running
<1>15. \A i \in Jobs \ {j} :
          /\ kind'[i] = kind[i] /\ at'[i] = at[i] /\ stage'[i] = stage[i]
          /\ proc'[i] = proc[i] /\ helper'[i] = helper[i] /\ seg'[i] = seg[i]
  BY <1>6, <1>7 DEF Sound, TypeOK, ControlType
<1> QED BY <1>8, <1>10, <1>11, <1>12, <1>13, <1>14, <1>15, OthersCourse DEF Sound, TypeOK

\* How a pipeline ends.
LEMMA ShowCases ==
    ASSUME Sound, NEW j \in Jobs, Show(j)
    PROVE  /\ at[j] = "show"
           /\ \/ /\ kind[j] = "shm" /\ seg[j] \in Segments
                 /\ shown' = Set(shown, j, mem[seg[j]]) /\ name' = NoName
                 /\ at' = Set(at, j, "zombie") /\ UNCHANGED <<out, box>>
              \/ /\ kind[j] = "queue" /\ queue = qid[j] /\ box # <<>>
                 /\ shown' = Set(shown, j, Head(box)) /\ box' = Tail(box)
                 /\ at' = Set(at, j, "remove") /\ UNCHANGED <<out, name>>
              \/ /\ kind[j] = "queue" /\ queue # qid[j]
                 /\ shown' = Set(shown, j, <<Junk>>) /\ UNCHANGED box
                 /\ at' = Set(at, j, "remove") /\ UNCHANGED <<out, name>>
              \/ /\ kind[j] = "cluster"
                 /\ shown' = Set(shown, j, First(out[j], MaxSize))
                 /\ out' = Set(out, j, Rest(out[j], MaxSize))
                 /\ at' = Set(at, j, "zombie") /\ UNCHANGED <<box, name>>
<1>1. at[j] = "show"
  BY DEF Show
<1>2. kind[j] = "shm" => seg[j] \in Segments
  BY <1>1 DEF Sound, Course
<1> QED BY <1>1, <1>2 DEF Show, Receive, Goes, Set

LEMMA ShowSound ==
    ASSUME Sound, NEW j \in Jobs, Show(j)
    PROVE  Sound'
<1>1. UNCHANGED <<user, main, kind, stage, parent, process, inp, eof, helper, text, queue, qid, mem, seg, ghosts>>
  BY DEF Show
<1> USE <1>1 DEF Set, user, control, process, pipes, buffers, queues, shared, ghosts
<1>2. First(out[j], MaxSize) \in Seq(Units) /\ Rest(out[j], MaxSize) \in Seq(Units)
      /\ Len(Rest(out[j], MaxSize)) <= Capacity
  <2>1. out[j] \in Seq(Units) /\ Len(out[j]) \in Nat /\ Len(out[j]) <= Capacity
    BY DEF Sound, TypeOK, TextType, Texts, NoneOverflows
  <2>2. MaxSize \in Nat /\ Capacity \in Nat
    BY PipelineConstantsOK DEF PipelineConstants
  <2>3. Len(Rest(out[j], MaxSize)) = IF MaxSize < Len(out[j]) THEN Len(out[j]) - MaxSize ELSE 0
    BY <2>1, <2>2, RestProperties
  <2>4. Len(Rest(out[j], MaxSize)) <= Capacity
    BY <2>1, <2>2, <2>3
  <2> QED BY <2>1, <2>2, <2>4, FirstProperties, RestProperties
<1>3. ControlType'
  <2>1. \E p \in {"zombie", "remove"} : at' = Set(at, j, p)
    BY ShowCases
  <2>2. at' \in [Jobs -> Places \cup {"none"}]
    BY <2>1 DEF Sound, TypeOK, ControlType, Places
  <2> QED BY <2>2 DEF Sound, TypeOK, ControlType
<1>4. TextType'
  <2>1. kind[j] = "shm" => mem[seg[j]] \in Seq(Units)
    BY ShowCases DEF Sound, TypeOK, SharedType
  <2>2. box # <<>> => Head(box) \in Seq(Units)
    BY HeadOfBox
  <2>3. \E new \in Seq(Units) : shown' = Set(shown, j, new)
    <3>1. CASE kind[j] = "shm"
      BY <2>1, <3>1, ShowCases
    <3>2. CASE kind[j] = "queue"
      BY <2>2, <3>2, ShowCases, UnitsAreUnits
    <3>3. CASE kind[j] = "cluster"
      BY <1>2, <3>3, ShowCases
    <3> QED BY <3>1, <3>2, <3>3, ShowCases
  <2>4. out' \in Texts
    <3>1. out' = out \/ out' = Set(out, j, Rest(out[j], MaxSize))
      BY ShowCases
    <3>2. out \in Texts
      BY DEF Sound, TypeOK, TextType
    <3> QED BY <1>2, <3>1, <3>2 DEF Texts
  <2> QED BY <2>3, <2>4 DEF Sound, TypeOK, TextType, Texts
<1>5. SharedType'
  BY ShowCases, HeadOfBox DEF Sound, TypeOK, SharedType
<1>6. NoneOverflows'
  <2>1. out' = out \/ out' = Set(out, j, Rest(out[j], MaxSize))
    BY ShowCases
  <2>2. DOMAIN out = Jobs /\ NoneOverflows
    BY DEF Sound, TypeOK, TextType, Texts
  <2> QED BY <1>2, <2>1, <2>2 DEF NoneOverflows
<1>7. Sizes'
  <2>1. CASE box' = Tail(box) /\ box # <<>>
    BY <2>1, HeadOfBox DEF Sound, Sizes
  <2>2. CASE box' = box
    BY <2>2 DEF Sound, Sizes
  <2> QED BY <2>1, <2>2, ShowCases
<1>8. Course(j)'
  <2>1. at'[j] = "zombie" \/ (at'[j] = "remove" /\ kind[j] = "queue")
    BY ShowCases DEF Sound, TypeOK, ControlType
  <2>2. at[j] = "show"
    BY ShowCases
  <2> QED BY <2>1, <2>2 DEF Sound, Course, Last, Over, Idle, Running
<1>9. \A i \in Jobs \ {j} :
          /\ kind'[i] = kind[i] /\ at'[i] = at[i] /\ stage'[i] = stage[i]
          /\ proc'[i] = proc[i] /\ helper'[i] = helper[i] /\ seg'[i] = seg[i]
  BY ShowCases DEF Sound, TypeOK, ControlType
<1> QED BY <1>3, <1>4, <1>5, <1>6, <1>7, <1>8, <1>9, OthersCourse DEF Sound, TypeOK

LEMMA WriteSound ==
    ASSUME Sound, NEW j \in Jobs, Write(j)
    PROVE  Sound'
<1> DEFINE room == Capacity - Len(out[j])
<1> USE DEF Set, user, control, process, pipes, buffers, queues, shared, ghosts
<1>1. /\ UNCHANGED <<user, main, control, proc, inp, eof, helper, text, queues, shared, ghosts>>
      /\ \/ /\ shown' = Set(shown, j, shown[j] \o rest[j])
            /\ rest' = Set(rest, j, <<>>) /\ UNCHANGED out
         \/ /\ room > 0
            /\ out' = Set(out, j, out[j] \o First(rest[j], room))
            /\ rest' = Set(rest, j, Rest(rest[j], room)) /\ UNCHANGED shown
  BY DEF Write
<1>2. /\ out[j] \in Seq(Units) /\ rest[j] \in Seq(Units) /\ shown[j] \in Seq(Units)
      /\ Len(out[j]) \in Nat /\ Len(out[j]) <= Capacity /\ Capacity \in Nat /\ room \in Nat
  BY PipelineConstantsOK DEF Sound, TypeOK, TextType, Texts, NoneOverflows, PipelineConstants
<1>3. /\ shown[j] \o rest[j] \in Seq(Units)
      /\ Rest(rest[j], room) \in Seq(Units)
      /\ First(rest[j], room) \in Seq(Units) /\ Len(First(rest[j], room)) <= room
  BY <1>2, ConcatProperties, FirstProperties, RestProperties
<1>4. /\ out[j] \o First(rest[j], room) \in Seq(Units)
      /\ Len(out[j] \o First(rest[j], room)) <= Capacity
  <2> DEFINE taken == First(rest[j], room)
  <2>1. taken \in Seq(Units) /\ Len(taken) \in Nat /\ Len(taken) <= room
    BY <1>3, LenProperties
  <2> HIDE DEF taken
  <2>2. out[j] \o taken \in Seq(Units) /\ Len(out[j] \o taken) = Len(out[j]) + Len(taken)
    BY <1>2, <2>1, ConcatProperties
  <2>3. Len(out[j]) + Len(taken) <= Capacity
    BY <1>2, <2>1
  <2>4. out[j] \o taken \in Seq(Units) /\ Len(out[j] \o taken) <= Capacity
    BY <2>2, <2>3
  <2> QED BY <2>4 DEF taken
<1> HIDE DEF room
<1>5. ControlType'
  BY <1>1 DEF Sound, TypeOK, ControlType
<1>6. TextType'
  <2>1. TextType /\ <<>> \in Seq(Units)
    BY UnitsAreUnits DEF Sound, TypeOK
  <2>2. out' \in Texts
    BY <1>1, <1>4, <2>1 DEF TextType, Texts
  <2>3. rest' \in Texts /\ shown' \in Texts
    BY <1>1, <1>3, <2>1 DEF TextType, Texts
  <2> QED BY <1>1, <2>1, <2>2, <2>3 DEF TextType
<1>7. SharedType' /\ Sizes'
  BY <1>1 DEF Sound, TypeOK, SharedType, Sizes
<1>8. NoneOverflows'
  BY <1>1, <1>4 DEF Sound, TypeOK, TextType, Texts, NoneOverflows
<1>9. \A i \in Jobs : Course(i)'
  BY <1>1 DEF Sound, Course, Last, Over, Idle, Running
<1> QED BY <1>5, <1>6, <1>7, <1>8, <1>9 DEF Sound, TypeOK

LEMMA ForkLostSound ==
    ASSUME Sound, NEW j \in Jobs, ForkLost(j)
    PROVE  Sound'
<1> USE DEF ForkLost, AfterFork, ForkPipes, Set, Goes, user, control, process, pipes, buffers,
           queues, shared, ghosts
<1>1. ControlType'
  BY PipelineConstantsOK DEF Sound, TypeOK, ControlType, Kinds, Places
<1>2. TextType'
  BY UnitsAreUnits, InputType DEF Sound, TypeOK, TextType, Texts
<1>3. SharedType'
  BY DEF Sound, TypeOK, SharedType
<1>4. NoneOverflows'
  <2>1. inp \in Texts /\ out \in Texts /\ Capacity \in Nat /\ Len(<<>>) = 0 /\ Len(Input(j)) <= Capacity
    BY PipelineConstantsOK, InputType DEF Sound, TypeOK, TextType, PipelineConstants
  <2>2. \A i \in Jobs : /\ out'[i] = out[i] \/ out'[i] = <<>>
                        /\ inp'[i] = inp[i] \/ inp'[i] = <<>> \/ inp'[i] = Input(j)
    BY <2>1 DEF Texts
  <2> QED BY <2>1, <2>2 DEF Sound, TypeOK, NoneOverflows
<1>5. Sizes'
  BY DEF Sound, TypeOK, Sizes, SharedType
<1>6. Course(j)'
  BY DEF Sound, TypeOK, ControlType, SharedType, Course, Last, Over, Idle, Running
<1>7. \A i \in Jobs \ {j} :
          /\ kind'[i] = kind[i] /\ at'[i] = at[i] /\ stage'[i] = stage[i]
          /\ proc'[i] = proc[i] /\ helper'[i] = helper[i] /\ seg'[i] = seg[i]
  BY DEF Sound, TypeOK, ControlType, SharedType
<1> QED BY <1>1, <1>2, <1>3, <1>4, <1>5, <1>6, <1>7, OthersCourse DEF Sound, TypeOK

LEMMA ForkAstraySound ==
    ASSUME Sound, NEW j \in Jobs, NEW c \in Jobs, ForkAstray(j, c)
    PROVE  Sound'
<1> USE DEF ForkAstray, Free, Set, user, control, process, pipes, buffers, queues, shared, ghosts
<1>1. c # j /\ at[c] = "none" /\ proc[c] = "none" /\ helper[c] = "none" /\ helper[j] = "none"
  BY DEF Sound, TypeOK, ControlType, Course, Idle
<1>2. ControlType'
  BY DEF Sound, TypeOK, ControlType, Places
<1>3. TextType'
  <2>1. TextType /\ <<>> \in Seq(Units)
    BY UnitsAreUnits DEF Sound, TypeOK
  <2> QED BY <2>1 DEF TextType, Texts
<1>4. SharedType'
  BY DEF Sound, TypeOK, SharedType
<1>5. NoneOverflows'
  <2>1. \A i \in Jobs : /\ out'[i] = out[i] \/ out'[i] = <<>> \/ out'[i] = out[j]
                        /\ inp'[i] = inp[i] \/ inp'[i] = <<>>
    BY DEF Sound, TypeOK, TextType, Texts
  <2>2. Len(<<>>) <= Capacity
    BY PipelineConstantsOK DEF PipelineConstants
  <2> QED BY <2>1, <2>2 DEF Sound, TypeOK, NoneOverflows
<1>6. Sizes'
  <2>1. \A i \in Jobs : text'[i] = text[i] \/ text'[i] = text[j]
    BY DEF Sound, TypeOK, TextType, Texts
  <2> QED BY <2>1 DEF Sound, Sizes
<1>7. Course(j)'
  <2>1. /\ kind'[j] = kind[j] /\ at'[j] = "feed" /\ stage'[j] = stage[j] /\ proc'[j] = "job"
        /\ helper'[j] = helper[j] /\ seg'[j] = seg[j]
    BY <1>1 DEF Sound, TypeOK, ControlType, SharedType
  <2> QED BY <1>1, <2>1 DEF Sound, Course, Last, Over, Idle, Running
<1>8. Course(c)'
  <2>1. /\ kind'[c] = kind[j] /\ at'[c] = "astray" /\ stage'[c] = stage[j] /\ proc'[c] = "none"
        /\ helper'[c] = "none" /\ seg'[c] = seg[j]
    BY <1>1 DEF Sound, TypeOK, ControlType, SharedType
  <2> QED BY <2>1 DEF Sound, Course, Last, Over, Idle, Running
<1>9. \A i \in Jobs \ {j, c} :
          /\ kind'[i] = kind[i] /\ at'[i] = at[i] /\ stage'[i] = stage[i]
          /\ proc'[i] = proc[i] /\ helper'[i] = helper[i] /\ seg'[i] = seg[i]
  BY DEF Sound, TypeOK, ControlType, SharedType
<1> QED BY <1>2, <1>3, <1>4, <1>5, <1>6, <1>7, <1>8, <1>9, OthersOfTwoCourse DEF Sound, TypeOK

LEMMA BurySound ==
    ASSUME Sound, NEW j \in Jobs, NEW c \in Jobs, Bury(j, c)
    PROVE  Sound'
<1> USE DEF Bury, Set, user, control, process, pipes, buffers, queues, shared, ghosts
<1>1. c # j /\ kind[j] \in {"shm", "queue"}
  BY DEF Sound, Course
<1>2. ControlType'
  BY DEF Sound, TypeOK, ControlType, Places
<1>3. TextType'
  <2>1. TextType /\ <<>> \in Seq(Units)
    BY UnitsAreUnits DEF Sound, TypeOK
  <2> QED BY <2>1 DEF TextType, Texts
<1>4. SharedType' /\ Sizes'
  BY DEF Sound, TypeOK, SharedType, Sizes
<1>5. NoneOverflows'
  <2>1. \A i \in Jobs : out'[i] = out[i] \/ out'[i] = <<>> \/ out'[i] = out[c]
    BY DEF Sound, TypeOK, TextType, Texts
  <2>2. Len(<<>>) <= Capacity
    BY PipelineConstantsOK DEF PipelineConstants
  <2> QED BY <2>1, <2>2 DEF Sound, TypeOK, NoneOverflows
<1>6. Course(j)'
  <2>1. /\ kind'[j] = kind[j] /\ at'[j] = "collect" /\ stage'[j] = stage[j] /\ proc'[j] = "none"
        /\ helper'[j] = helper[j] /\ seg'[j] = seg[j] /\ at[j] = "wait"
    BY <1>1 DEF Sound, TypeOK, ControlType, SharedType
  <2> QED BY <1>1, <2>1 DEF Sound, Course, Last, Over, Idle, Running
<1>7. Course(c)'
  <2>1. /\ kind'[c] = kind[c] /\ at'[c] = "gone" /\ stage'[c] = stage[c] /\ proc'[c] = proc[c]
        /\ helper'[c] = helper[c] /\ seg'[c] = seg[c] /\ at[c] = "zombie"
    BY <1>1 DEF Sound, TypeOK, ControlType, SharedType
  <2> QED BY <2>1 DEF Sound, Course, Last, Over, Idle, Running
<1>8. \A i \in Jobs \ {j, c} :
          /\ kind'[i] = kind[i] /\ at'[i] = at[i] /\ stage'[i] = stage[i]
          /\ proc'[i] = proc[i] /\ helper'[i] = helper[i] /\ seg'[i] = seg[i]
  BY DEF Sound, TypeOK, ControlType, SharedType
<1> QED BY <1>2, <1>3, <1>4, <1>5, <1>6, <1>7, <1>8, OthersOfTwoCourse DEF Sound, TypeOK

LEMMA GoOnSound ==
    ASSUME Sound, NEW j \in Jobs, GoOn(j)
    PROVE  Sound'
<1> USE DEF user, control, process, pipes, buffers, queues, shared, ghosts
<1>1. /\ at[j] = "astray" /\ at' \in [Jobs -> Places \cup {"none"}] /\ stage' \in [Jobs -> 1..(Stages + 3)]
      /\ \A i \in Jobs \ {j} : at'[i] = at[i] /\ stage'[i] = stage[i]
      /\ \/ at'[j] = "prepare" /\ stage'[j] > 1 /\ stage'[j] <= Last(j)
         \/ at'[j] = "show" /\ stage'[j] = stage[j]
  <2>1. "astray" \in Places /\ "show" \in Places
    BY DEF Places
  <2> QED BY <2>1, AdvanceCourse DEF GoOn
<1>2. UNCHANGED <<user, main, kind, parent, process, pipes, buffers, queues, shared, ghosts>>
  BY DEF GoOn
<1>3. TypeOK' /\ Sizes'
  BY <1>1, <1>2 DEF Sound, TypeOK, ControlType, TextType, SharedType, NoneOverflows, Sizes
<1>4. Course(j)'
  BY <1>1, <1>2 DEF Sound, Course, Last, Over, Idle, Running
<1>5. \A i \in Jobs \ {j} :
          /\ kind'[i] = kind[i] /\ at'[i] = at[i] /\ stage'[i] = stage[i]
          /\ proc'[i] = proc[i] /\ helper'[i] = helper[i] /\ seg'[i] = seg[i]
  BY <1>1, <1>2
<1> QED BY <1>3, <1>4, <1>5, OthersCourse DEF Sound

LEMMA BabbleSound ==
    ASSUME Sound, NEW j \in Jobs, Babble(j)
    PROVE  Sound'
<1> USE DEF Babble, Set, user, control, process, pipes, buffers, queues, shared, ghosts
<1>1. Append(out[j], Notice) \in Seq(Units) /\ Len(Append(out[j], Notice)) = Len(out[j]) + 1
      /\ Len(out[j]) \in Nat
  BY UnitsAreUnits, AppendProperties DEF Sound, TypeOK, TextType, Texts
<1>2. ControlType'
  BY DEF Sound, TypeOK, ControlType
<1>3. TextType'
  BY <1>1 DEF Sound, TypeOK, TextType, Texts
<1>4. SharedType' /\ Sizes'
  BY DEF Sound, TypeOK, SharedType, Sizes
<1>5. NoneOverflows'
  <2>1. out' = out \/ (out' = Set(out, j, Append(out[j], Notice)) /\ Len(out[j]) < Capacity)
    OBVIOUS
  <2>2. Len(out[j]) < Capacity => Len(Append(out[j], Notice)) <= Capacity
    BY <1>1, PipelineConstantsOK DEF PipelineConstants
  <2>3. UNCHANGED inp /\ out \in [Jobs -> Seq(Units)]
    BY DEF Sound, TypeOK, TextType, Texts
  <2> QED BY <2>1, <2>2, <2>3 DEF Sound, TypeOK, NoneOverflows
<1>6. Course(j)'
  <2>1. proc[j] = "babble" /\ proc'[j] \in {"babble", "ended"}
    BY DEF Sound, TypeOK, ControlType
  <2> QED BY <2>1 DEF Sound, Course, Last, Over, Idle, Running
<1>7. \A i \in Jobs \ {j} :
          /\ kind'[i] = kind[i] /\ at'[i] = at[i] /\ stage'[i] = stage[i]
          /\ proc'[i] = proc[i] /\ helper'[i] = helper[i] /\ seg'[i] = seg[i]
  BY DEF Sound, TypeOK, ControlType
<1> QED BY <1>2, <1>3, <1>4, <1>5, <1>6, <1>7, OthersCourse DEF Sound, TypeOK

LEMMA StutterSound ==
    ASSUME Sound, UNCHANGED vars
    PROVE  Sound'
<1> USE DEF vars, user, control, process, pipes, buffers, queues, shared, ghosts
<1>1. TypeOK'
  BY DEF Sound, TypeOK, ControlType, TextType, SharedType, NoneOverflows
<1>2. Sizes' /\ \A i \in Jobs : Course(i)'
  BY DEF Sound, Sizes, Course, Last, Over, Idle, Running
<1> QED BY <1>1, <1>2 DEF Sound

LEMMA NextSound ==
    ASSUME Sound, [Next]_vars
    PROVE  Sound'
<1>1. CASE UNCHANGED vars
  BY <1>1, StutterSound
<1>2. ASSUME NEW j \in Jobs, NEW k \in Programs[program], NEW back \in BOOLEAN, Type(j, k, back)
      PROVE  Sound'
  BY <1>2, TypeSound
<1>3. ASSUME NEW j \in Jobs, Reap(j) \/ Job(j) \/ Stage(j) \/ Help(j)
      PROVE  Sound'
  BY <1>3, ReapSound, BeginSound, PrepareSound, ForkSound, CloseSound, FeedSound, UnlinkSound,
     OpenSound, WaitSound, CollectSound, ShowSound, RemoveSound, HearSound, ThinkSound, WriteSound,
     EndSound, HelpSound, ForkLostSound, ForkAstraySound, BurySound, GoOnSound, BabbleSound DEF Job, Stage
<1> QED BY <1>1, <1>2, <1>3 DEF Next

\* Whatever is typed, and however lines meet: every variable keeps its type,
\* every stage number names a stage, and no pipe is filled beyond its capacity.
THEOREM PipelineTypeCorrect == Spec => []TypeOK
<1>1. Sound /\ [Next]_vars => Sound'
  BY NextSound
<1>2. Sound => TypeOK
  BY DEF Sound
<1> QED BY InitSound, <1>1, <1>2, PTL DEF Spec

-----------------------------------------------------------------------------
(* The names that jobs share.                                              *)

Live(j) == at[j] \notin {"none", "begin", "zombie", "gone"}

\* A job is sure to come to its end unless it is about to feed a stage that was
\* not found: the process of that stage comes to the same end.
Holds(j) == Live(j) /\ ~(at[j] = "feed" /\ proc[j] = "job")

\* A stage that was found reads its input and is there when the job feeds it.
Listens(j) == at[j] = "feed" => (proc[j] = "read" /\ ~eof[j]) \/ proc[j] = "job"

\* Some job that knows the queue has still to remove it.
QueueOwned == queue # NoJob => \E j \in Jobs : kind[j] = "queue" /\ qid[j] = queue /\ Holds(j)

\* Some job has still to remove the name.
NameOwned == name # NoName => \E j \in Jobs : kind[j] = "shm" /\ Holds(j)

Owned == (\A j \in Jobs : Listens(j)) /\ QueueOwned /\ NameOwned

\* Most steps concern no name: no job changes its kind or its msgid, and none
\* that has begun comes to its end.
Keeps ==
    /\ UNCHANGED <<queue, qid, name>>
    /\ \A i \in Jobs : Live(i) => kind'[i] = kind[i]
    /\ \A i \in Jobs : Holds(i) /\ kind[i] \in {"shm", "queue"} => Holds(i)'

LEMMA KeepsOwned ==
    ASSUME Sound, Owned, Keeps, \A j \in Jobs : Listens(j)'
    PROVE  Owned'
<1>1. \A i \in Jobs : Holds(i) => Live(i)
  BY DEF Holds
<1>2. QueueOwned'
  BY <1>1 DEF Owned, QueueOwned, Keeps
<1>3. NameOwned'
  BY <1>1 DEF Owned, NameOwned, Keeps
<1> QED BY <1>2, <1>3 DEF Owned

LEMMA ListensKept ==
    ASSUME Sound, \A j \in Jobs : Listens(j), "deaf" \in avoids, [Next]_vars
    PROVE  \A j \in Jobs : Listens(j)'
<1> SUFFICES ASSUME NEW i \in Jobs PROVE Listens(i)'
  OBVIOUS
<1> USE DEF Set, Goes, user, control, process, pipes, buffers, queues, shared, ghosts, Sound, TypeOK,
           ControlType, Course, Running, Idle
<1>1. CASE UNCHANGED vars
  BY <1>1 DEF Listens, vars
<1>2. ASSUME NEW j \in Jobs, NEW k \in Programs[program], NEW back \in BOOLEAN, Type(j, k, back)
      PROVE  Listens(i)'
  BY <1>2 DEF Type, Listens
<1>3. ASSUME NEW j \in Jobs, Reap(j) PROVE Listens(i)'
  BY <1>3 DEF Reap, Listens
<1>4. ASSUME NEW j \in Jobs, Begin(j) \/ Prepare(j) \/ Close(j) \/ Feed(j) \/ Unlink(j) \/ Open(j) \/ Remove(j)
      PROVE  Listens(i)'
  BY <1>4 DEF Begin, Prepare, Close, Feed, Unlink, Open, Remove, Listens
<1>5. ASSUME NEW j \in Jobs, Fork(j) \/ ForkLost(j) PROVE Listens(i)'
  <2>1. \A h \in Jobs \ {j} : at'[h] = at[h] /\ proc'[h] = proc[h] /\ eof'[h] = eof[h]
    BY <1>5 DEF Fork, ForkLost, ForkPipes
  <2>2. ~eof'[j]
    BY <1>5 DEF Fork, ForkLost, ForkPipes
  <2>3. CASE Fork(j)
    <3>1. at'[j] = "feed" => stage[j] > 1
      BY <2>3 DEF Fork, AfterFork
    <3>2. stage[j] > 1 => proc'[j] = "read"
      BY <2>3 DEF Fork
    <3> QED BY <2>1, <2>2, <3>1, <3>2 DEF Listens
  <2>4. CASE ForkLost(j)
    <3>1. at'[j] # "feed"
      BY <2>4 DEF ForkLost, AfterFork
    <3> QED BY <2>1, <3>1 DEF Listens
  <2> QED BY <1>5, <2>3, <2>4
<1>6. ASSUME NEW j \in Jobs, Wait(j) PROVE Listens(i)'
  <2>1. at'[j] # "feed" /\ UNCHANGED eof
    BY <1>6 DEF Wait, Advance
  <2>2. \A h \in Jobs \ {j} : at'[h] = at[h] /\ proc'[h] = proc[h]
    BY <1>6 DEF Wait, Advance
  <2> QED BY <2>1, <2>2 DEF Listens
<1>7. ASSUME NEW j \in Jobs, Collect(j) PROVE Listens(i)'
  BY <1>7 DEF Collect, Advance, Listens
<1>8. ASSUME NEW j \in Jobs, Show(j) PROVE Listens(i)'
  BY <1>8 DEF Show, Listens
<1>9. ASSUME NEW j \in Jobs, Stage(j) PROVE Listens(i)'
  <2>1. at[j] # "feed"
    BY <1>9 DEF Stage, Hear, Think, Write, End, Babble, Listens
  <2>2. UNCHANGED <<at, eof>>
    BY <1>9 DEF Stage, Hear, Think, Write, End, Babble
  <2>3. \/ UNCHANGED proc
        \/ \E p \in {"think", "write", "ended"} : proc' = Set(proc, j, p)
    BY <1>9 DEF Stage, Hear, Think, Write, End, Babble
  <2> QED BY <2>1, <2>2, <2>3 DEF Listens
<1>10. ASSUME NEW j \in Jobs, Help(j) PROVE Listens(i)'
  BY <1>10 DEF Help, Listens
<1>11. ASSUME NEW j \in Jobs, GoOn(j) PROVE Listens(i)'
  <2>1. at'[j] # "feed" /\ UNCHANGED <<eof, proc>>
    BY <1>11 DEF GoOn, Advance
  <2>2. \A h \in Jobs \ {j} : at'[h] = at[h]
    BY <1>11 DEF GoOn, Advance
  <2> QED BY <2>1, <2>2 DEF Listens
<1>12. ASSUME NEW j \in Jobs, NEW c \in Jobs, ForkAstray(j, c) PROVE Listens(i)'
  BY <1>12 DEF ForkAstray, Listens
<1>13. ASSUME NEW j \in Jobs, NEW c \in Jobs, Bury(j, c) PROVE Listens(i)'
  BY <1>13 DEF Bury, Listens
<1> QED BY <1>1, <1>2, <1>3, <1>4, <1>5, <1>6, <1>7, <1>8, <1>9, <1>10, <1>11, <1>12, <1>13 DEF Next, Job

LEMMA OwnedKept ==
    ASSUME Sound, Owned, "deaf" \in avoids, [Next]_vars
    PROVE  Owned'
<1> USE DEF Set, Goes, user, control, process, pipes, buffers, queues, shared, ghosts
<1>1. \A j \in Jobs : Listens(j)'
  BY ListensKept DEF Owned
<1>2. CASE UNCHANGED vars
  BY <1>1, <1>2, KeepsOwned DEF Keeps, Holds, Live, vars
<1>3. ASSUME NEW j \in Jobs, NEW k \in Programs[program], NEW back \in BOOLEAN, Type(j, k, back)
      PROVE  Owned'
  <2>1. Keeps
    BY <1>3 DEF Type, Free, Keeps, Holds, Live, Sound, TypeOK, ControlType, Course
  <2> QED BY <1>1, <2>1, KeepsOwned
<1>4. ASSUME NEW j \in Jobs, Reap(j) \/ Prepare(j) \/ Close(j) \/ Help(j)
      PROVE  Owned'
  <2>1. Keeps
    BY <1>4 DEF Reap, Prepare, Close, Help, Keeps, Holds, Live, Sound, TypeOK, ControlType
  <2> QED BY <1>1, <2>1, KeepsOwned
<1>5. ASSUME NEW j \in Jobs, Stage(j) PROVE Owned'
  <2>1. UNCHANGED <<queue, qid, name, kind, at>>
    BY <1>5 DEF Stage, Hear, Think, Write, End, Babble
  <2>2. \A i \in Jobs : proc'[i] = "job" => proc[i] = "job"
    BY <1>5 DEF Stage, Hear, Think, Write, End, Babble, Sound, TypeOK, ControlType
  <2>3. Keeps
    BY <2>1, <2>2 DEF Keeps, Holds, Live
  <2> QED BY <1>1, <2>3, KeepsOwned
<1>6. ASSUME NEW j \in Jobs, Fork(j) \/ ForkLost(j) PROVE Owned'
  <2>1. UNCHANGED <<queue, qid, name, kind>>
    BY <1>6 DEF Fork, ForkLost
  <2>2. at[j] = "fork" /\ at'[j] \in {"close", "feed", "wait"} /\ proc'[j] # "job"
    BY <1>6 DEF Fork, ForkLost, AfterFork, Sound, TypeOK, ControlType
  <2>3. \A i \in Jobs \ {j} : at'[i] = at[i] /\ proc'[i] = proc[i]
    BY <1>6 DEF Fork, ForkLost, Sound, TypeOK, ControlType
  <2>4. Keeps
    BY <2>1, <2>2, <2>3 DEF Keeps, Holds, Live
  <2> QED BY <1>1, <2>4, KeepsOwned
<1>7. ASSUME NEW j \in Jobs, Feed(j) PROVE Owned'
  <2>1. UNCHANGED <<queue, qid, name, kind, proc>>
    BY <1>7 DEF Feed
  <2>2. at[j] = "feed" /\ (Holds(j) => at'[j] \in {"unlink", "wait"})
    BY <1>7 DEF Feed, Unread, Holds, Owned, Listens, Sound, TypeOK, ControlType
  <2>3. \A i \in Jobs \ {j} : at'[i] = at[i]
    BY <1>7 DEF Feed, Sound, TypeOK, ControlType
  <2>4. Keeps
    BY <2>1, <2>2, <2>3 DEF Keeps, Holds, Live
  <2> QED BY <1>1, <2>4, KeepsOwned
<1>8. ASSUME NEW j \in Jobs, Wait(j) \/ Collect(j) \/ GoOn(j) PROVE Owned'
  <2>1. CASE Wait(j)
    BY <1>1, <2>1, KeepsOwned DEF Wait, Advance, Keeps, Holds, Live, Sound, TypeOK, ControlType
  <2>2. CASE Collect(j)
    BY <1>1, <2>2, KeepsOwned DEF Collect, Advance, Keeps, Holds, Live, Sound, TypeOK, ControlType
  <2>3. CASE GoOn(j)
    BY <1>1, <2>3, KeepsOwned DEF GoOn, Advance, Keeps, Holds, Live, Sound, TypeOK, ControlType
  <2> QED BY <1>8, <2>1, <2>2, <2>3
<1>9. ASSUME NEW j \in Jobs, Begin(j) PROVE Owned'
  <2>1. \A i \in Jobs : Holds(i) => i # j /\ Holds(i)'
    BY <1>9 DEF Begin, Holds, Live, Sound, TypeOK, ControlType
  <2>2. Holds(j)' /\ UNCHANGED kind
    BY <1>9 DEF Begin, Holds, Live, Sound, TypeOK, ControlType
  <2>3. QueueOwned'
    <3>1. kind[j] = "queue" => qid'[j] = queue'
      BY <1>9 DEF Begin, Sound, TypeOK, SharedType
    <3>2. \A i \in Jobs \ {j} : qid'[i] = qid[i]
      BY <1>9 DEF Begin, Sound, TypeOK, SharedType
    <3>3. kind[j] # "queue" => UNCHANGED queue
      BY <1>9 DEF Begin
    <3> QED BY <2>1, <2>2, <3>1, <3>2, <3>3 DEF Owned, QueueOwned
  <2>4. NameOwned'
    BY <1>9, <2>1, <2>2 DEF Begin, Owned, NameOwned
  <2> QED BY <1>1, <2>3, <2>4 DEF Owned
<1>10. ASSUME NEW j \in Jobs, Unlink(j) \/ Open(j) PROVE Owned'
  <2>1. UNCHANGED <<queue, qid, kind, proc>>
    BY <1>10 DEF Unlink, Open
  <2>2. kind[j] = "shm" /\ Holds(j)' /\ \A i \in Jobs : Holds(i) => Holds(i)'
    BY <1>10 DEF Unlink, Open, Holds, Live, Sound, TypeOK, ControlType, Course
  <2>3. QueueOwned'
    BY <2>1, <2>2 DEF Owned, QueueOwned
  <2>4. NameOwned'
    BY <2>1, <2>2 DEF NameOwned
  <2> QED BY <1>1, <2>3, <2>4 DEF Owned
<1>11. ASSUME NEW j \in Jobs, Show(j) PROVE Owned'
  <2>1. UNCHANGED <<queue, qid, kind, proc>>
    BY <1>11 DEF Show
  <2>2. at[j] = "show" /\ (kind[j] = "queue" => at'[j] = "remove") /\ \A i \in Jobs \ {j} : at'[i] = at[i]
    BY <1>11, ShowCases DEF Sound, TypeOK, ControlType
  <2>3. QueueOwned'
    BY <2>1, <2>2 DEF Owned, QueueOwned, Holds, Live
  <2>4. NameOwned'
    <3>1. CASE kind[j] = "shm"
      BY <1>11, <3>1, ShowCases DEF NameOwned
    <3>2. CASE kind[j] # "shm"
      <4>1. UNCHANGED name
        BY <1>11, <3>2, ShowCases
      <4> QED BY <2>1, <2>2, <3>2, <4>1 DEF Owned, NameOwned, Holds, Live
    <3> QED BY <3>1, <3>2
  <2> QED BY <1>1, <2>3, <2>4 DEF Owned
<1>12. ASSUME NEW j \in Jobs, Remove(j) PROVE Owned'
  <2>1. UNCHANGED <<qid, kind, proc, name>> /\ kind[j] = "queue"
        /\ IF queue = qid[j] THEN queue' = NoJob ELSE UNCHANGED queue
    BY <1>12 DEF Remove, Sound, Course
  <2>2. \A i \in Jobs \ {j} : Holds(i) => Holds(i)'
    BY <1>12 DEF Remove, Holds, Live, Sound, TypeOK, ControlType
  <2>3. QueueOwned'
    BY <2>1, <2>2 DEF Owned, QueueOwned
  <2>4. NameOwned'
    BY <2>1, <2>2 DEF Owned, NameOwned
  <2> QED BY <1>1, <2>3, <2>4 DEF Owned
<1>13. ASSUME NEW j \in Jobs, NEW c \in Jobs, ForkAstray(j, c) PROVE Owned'
  <2>1. UNCHANGED <<queue, name>> /\ at[c] = "none" /\ c # j
    BY <1>13 DEF ForkAstray, Free, Sound, Course
  <2>2. kind'[c] = kind[j] /\ qid'[c] = qid[j] /\ Holds(c)'
    BY <1>13 DEF ForkAstray, Holds, Live, Sound, TypeOK, ControlType, SharedType
  <2>3. \A i \in Jobs \ {j, c} : (Holds(i) => Holds(i)') /\ kind'[i] = kind[i] /\ qid'[i] = qid[i]
    BY <1>13 DEF ForkAstray, Holds, Live, Sound, TypeOK, ControlType, SharedType
  <2>4. ~Holds(c)
    BY <2>1 DEF Holds, Live
  <2>5. QueueOwned'
    BY <2>1, <2>2, <2>3, <2>4 DEF Owned, QueueOwned
  <2>6. NameOwned'
    BY <2>1, <2>2, <2>3, <2>4 DEF Owned, NameOwned
  <2> QED BY <1>1, <2>5, <2>6 DEF Owned
<1>14. ASSUME NEW j \in Jobs, NEW c \in Jobs, Bury(j, c) PROVE Owned'
  <2>1. Keeps
    BY <1>14 DEF Bury, Keeps, Holds, Live, Sound, TypeOK, ControlType
  <2> QED BY <1>1, <2>1, KeepsOwned
<1> QED BY <1>2, <1>3, <1>4, <1>5, <1>6, <1>7, <1>8, <1>9, <1>10, <1>11, <1>12, <1>13, <1>14 DEF Next, Job

LEMMA AvoidsKept ==
    ASSUME [Next]_vars
    PROVE  avoids' = avoids
<1> USE DEF user
<1>1. ASSUME NEW j \in Jobs, NEW k \in Programs[program], NEW back \in BOOLEAN, Type(j, k, back)
      PROVE  avoids' = avoids
  BY <1>1 DEF Type
<1>2. ASSUME NEW j \in Jobs, Reap(j) \/ Help(j) PROVE avoids' = avoids
  BY <1>2 DEF Reap, Help
<1>3. ASSUME NEW j \in Jobs, Begin(j) \/ Prepare(j) \/ Fork(j) \/ ForkLost(j) \/ Close(j) \/ Feed(j)
      PROVE  avoids' = avoids
  BY <1>3 DEF Begin, Prepare, Fork, ForkLost, Close, Feed
<1>4. ASSUME NEW j \in Jobs, Unlink(j) \/ Open(j) \/ Wait(j) PROVE avoids' = avoids
  BY <1>4 DEF Unlink, Open, Wait
<1>5. ASSUME NEW j \in Jobs, Collect(j) \/ Show(j) \/ Remove(j) PROVE avoids' = avoids
  BY <1>5 DEF Collect, Show, Remove
<1>6. ASSUME NEW j \in Jobs, Stage(j) PROVE avoids' = avoids
  BY <1>6 DEF Stage, Hear, Think, Write, End, Babble
<1>7. ASSUME NEW j \in Jobs, NEW c \in Jobs, ForkAstray(j, c) \/ Bury(j, c) \/ GoOn(j) PROVE avoids' = avoids
  BY <1>7 DEF ForkAstray, Bury, GoOn
<1>8. CASE UNCHANGED vars
  BY <1>8 DEF vars
<1> QED BY <1>1, <1>2, <1>3, <1>4, <1>5, <1>6, <1>7, <1>8 DEF Next, Job

\* Unless a program does not read its input and its job dies of SIGPIPE, the
\* lines leave neither the message queue nor the name of the shared memory
\* behind, whoever made them, whoever else runs, and even if commands were not
\* found: a later line starts with an empty queue and fresh memory.
THEOREM NothingStays == Spec => []LeavesNothing
<1> DEFINE Inv == Sound /\ ("deaf" \in avoids => Owned)
<1>1. Init => Inv
  BY InitSound, PipelineConstantsOK
     DEF Init, Owned, Listens, QueueOwned, NameOwned, PipelineConstants
<1>2. Inv /\ [Next]_vars => Inv'
  BY AvoidsKept, NextSound, OwnedKept
<1>3. Inv => LeavesNothing
  BY DEF Sound, TypeOK, SharedType, Owned, QueueOwned, NameOwned, LeavesNothing, Holds, Live, Over
<1> QED BY <1>1, <1>2, <1>3, PTL DEF Spec

-----------------------------------------------------------------------------
(* What flows through the pipes of |.                                      *)

\* The text that a stage wrote is, until the next one is there, just what is in
\* the pipe and what it has still to write.
Flow(j) ==
    /\ kind[j] = "none" => right[j] /\ out[j] = <<>>
    /\ proc[j] = "babble" => ~found[j]
    /\ kind[j] = "pipe" /\ found[j] =>
          /\ right[j]
          /\ at[j] = "begin" => out[j] = <<>>
          /\ at[j] \in {"prepare", "fork"} => out[j] = IF stage[j] = 1 THEN <<>> ELSE due[j]
          /\ Over(j) => proc[j] = "none"
          /\ proc[j] = "read" => inp[j] = due[j]
          /\ proc[j] \in {"read", "think"} => out[j] = <<>>
          /\ proc[j] \in {"write", "ended"} /\ stage[j] < Stages => out[j] \o rest[j] = wrote[j]
          /\ proc[j] = "ended" => rest[j] = <<>>

\* What a job does with stages that are found, and what they do.
Works(j) == \/ Begin(j) \/ Prepare(j) \/ Fork(j) \/ Close(j) \/ Feed(j) \/ Unlink(j) \/ Open(j)
            \/ Wait(j) \/ Collect(j) \/ Show(j) \/ Remove(j)
Runs(j)  == Hear(j) \/ Think(j) \/ Write(j) \/ End(j)

\* A step is of one job: what the others have stays as it is.
Others(j) ==
    \A i \in Jobs \ {j} :
        /\ kind'[i] = kind[i] /\ at'[i] = at[i] /\ stage'[i] = stage[i] /\ proc'[i] = proc[i]
        /\ inp'[i] = inp[i] /\ eof'[i] = eof[i] /\ out'[i] = out[i] /\ rest'[i] = rest[i]
        /\ helper'[i] = helper[i] /\ text'[i] = text[i] /\ shown'[i] = shown[i]
        /\ qid'[i] = qid[i] /\ seg'[i] = seg[i]
        /\ due'[i] = due[i] /\ wrote'[i] = wrote[i] /\ right'[i] = right[i] /\ found'[i] = found[i]

LEMMA OfOne ==
    ASSUME Sound, NEW j \in Jobs,
           \/ \E k \in Programs[program], back \in BOOLEAN : Type(j, k, back)
           \/ Reap(j) \/ Works(j) \/ Runs(j) \/ Help(j) \/ ForkLost(j) \/ GoOn(j) \/ Babble(j)
    PROVE  Others(j)
<1> USE DEF Others, Set, Goes, user, control, process, pipes, buffers, queues, shared, ghosts,
           Sound, TypeOK, ControlType, TextType, SharedType, Texts
<1>1. ASSUME NEW k \in Programs[program], NEW back \in BOOLEAN, Type(j, k, back) PROVE Others(j)
  BY <1>1 DEF Type
<1>2. CASE Reap(j)
  BY <1>2 DEF Reap
<1>3. CASE Begin(j)
  BY <1>3 DEF Begin
<1>4. CASE Prepare(j)
  BY <1>4 DEF Prepare, Receive
<1>5. CASE Fork(j)
  BY <1>5 DEF Fork, ForkPipes
<1>6. CASE Close(j)
  BY <1>6 DEF Close
<1>7. CASE Feed(j)
  <2>1. /\ \E p \in Places : at' = Set(at, j, p)
        /\ inp' = inp \/ inp' = Set(inp, j, Filled(text[j]))
        /\ eof' = eof \/ eof' = Set(eof, j, TRUE)
    BY <1>7 DEF Feed, Places
  <2>2. UNCHANGED <<kind, stage, proc, out, rest, helper, text, shown, qid, seg, due, wrote, right, found>>
    BY <1>7 DEF Feed
  <2> QED BY <2>1, <2>2
<1>8. CASE Unlink(j) \/ Open(j) \/ Remove(j)
  BY <1>8 DEF Unlink, Open, Remove
<1>9. CASE Wait(j)
  BY <1>9 DEF Wait, Advance
<1>10. CASE Collect(j)
  BY <1>10 DEF Collect, Advance
<1>11. CASE Show(j)
  <2>1. /\ \/ shown' = Set(shown, j, mem[seg[j]]) \/ shown' = Set(shown, j, Head(box))
           \/ shown' = Set(shown, j, <<Junk>>) \/ shown' = Set(shown, j, First(out[j], MaxSize))
        /\ \/ at' = Set(at, j, "zombie") \/ at' = Set(at, j, "remove")
        /\ \/ UNCHANGED out \/ out' = Set(out, j, Rest(out[j], MaxSize))
    BY <1>11 DEF Show, Receive
  <2>2. UNCHANGED <<kind, stage, proc, inp, eof, rest, helper, text, qid, seg, due, wrote, right, found>>
    BY <1>11 DEF Show
  <2>3. \A i \in Jobs \ {j} : shown'[i] = shown[i]
    BY <2>1
  <2>4. \A i \in Jobs \ {j} : at'[i] = at[i]
    BY <2>1
  <2>5. \A i \in Jobs \ {j} : out'[i] = out[i]
    BY <2>1
  <2> QED BY <2>2, <2>3, <2>4, <2>5
<1>12. CASE Hear(j) \/ End(j)
  BY <1>12 DEF Hear, End
<1>13. CASE Think(j)
  BY <1>13 DEF Think
<1>14. CASE Write(j)
  BY <1>14 DEF Write
<1>15. CASE Help(j)
  BY <1>15 DEF Help
<1>16. CASE ForkLost(j)
  BY <1>16 DEF ForkLost, ForkPipes
<1>17. CASE GoOn(j)
  BY <1>17 DEF GoOn, Advance
<1>18. CASE Babble(j)
  BY <1>18 DEF Babble
<1> QED BY <1>1, <1>2, <1>3, <1>4, <1>5, <1>6, <1>7, <1>8, <1>9, <1>10, <1>11, <1>12, <1>13,
       <1>14, <1>15, <1>16, <1>17, <1>18 DEF Works, Runs

\* Writing moves text from what is left to the pipe and changes nothing else.
LEMMA WritingKeeps ==
    ASSUME Sound, NEW j \in Jobs, Write(j), ~Terminal(j)
    PROVE  out'[j] \o rest'[j] = out[j] \o rest[j]
<1> DEFINE room == Capacity - Len(out[j])
<1>1. /\ out[j] \in Seq(Units) /\ rest[j] \in Seq(Units) /\ room \in Nat
  BY PipelineConstantsOK DEF Sound, TypeOK, TextType, Texts, NoneOverflows, PipelineConstants
<1>2. out'[j] = out[j] \o First(rest[j], room) /\ rest'[j] = Rest(rest[j], room)
  BY DEF Write, Set, Sound, TypeOK, TextType, Texts
<1>3. First(rest[j], room) \in Seq(Units) /\ Rest(rest[j], room) \in Seq(Units)
  BY <1>1, FirstProperties, RestProperties
<1> DEFINE taken == First(rest[j], room)
           left  == Rest(rest[j], room)
<1> HIDE DEF room
<1>4. First(rest[j], room) \o Rest(rest[j], room) = rest[j]
  <2>1. CASE Len(rest[j]) <= room
    BY <1>1, <2>1, WholeText, ConcatEmptySeq
  <2>2. CASE Len(rest[j]) > room
    BY <1>1, <2>2, TakenAndLeft
  <2> QED BY <1>1, <2>1, <2>2
<1>5. (out[j] \o taken) \o left = out[j] \o (taken \o left)
  <2> HIDE DEF taken, left
  <2>1. out[j] \in Seq(Units) /\ taken \in Seq(Units) /\ left \in Seq(Units)
    BY <1>1, <1>3 DEF taken, left
  <2>2. \A r, s, t \in Seq(Units) : (r \o s) \o t = r \o (s \o t)
    OBVIOUS
  <2> QED BY <2>1, <2>2, Zenon
<1> QED BY <1>2, <1>4, <1>5

LEMMA FlowKept ==
    ASSUME Sound, NEW j \in Jobs, Flow(j),
           \/ \E k \in Programs[program], back \in BOOLEAN : Type(j, k, back)
           \/ Reap(j) \/ Works(j) \/ Runs(j) \/ Help(j) \/ ForkLost(j) \/ GoOn(j) \/ Babble(j)
    PROVE  Flow(j)'
<1> USE DEF Flow, Set, Goes, user, control, process, pipes, buffers, queues, shared, ghosts,
           Sound, TypeOK, ControlType, Over
<1>1. ASSUME NEW k \in Programs[program], NEW back \in BOOLEAN, Type(j, k, back) PROVE Flow(j)'
  BY <1>1 DEF Type, Free, Course, Idle
<1>2. CASE Reap(j)
  BY <1>2 DEF Reap, Course
<1>3. CASE Begin(j)
  BY <1>3 DEF Begin, Course, Idle
<1>4. CASE Prepare(j)
  BY <1>4 DEF Prepare, Course, Idle
<1>5. CASE Fork(j)
  BY <1>5, PipelineConstantsOK DEF Fork, AfterFork, ForkPipes, Input, TextType, Texts, Course, Idle
<1>6. CASE Close(j) \/ Feed(j) \/ Unlink(j) \/ Open(j) \/ Remove(j)
  BY <1>6 DEF Close, Feed, Unlink, Open, Remove, Course
<1>7. CASE Wait(j)
  <2>1. kind[j] = "pipe" /\ found[j] /\ stage[j] < Stages => out[j] = wrote[j]
    BY <1>7, ConcatEmptySeq DEF Wait, TextType, Texts
  <2>2. CASE kind[j] = "pipe"
    <3>1. /\ proc'[j] = "none" /\ due'[j] = wrote[j] /\ at[j] = "wait"
          /\ IF stage[j] < Stages THEN at'[j] = "prepare" /\ stage'[j] = stage[j] + 1
                                 ELSE at'[j] = "zombie" /\ stage'[j] = stage[j]
      BY <1>7, <2>2 DEF Wait, Advance, Last, TextType, Texts
    <3>2. UNCHANGED <<kind, found, right, inp, out, rest, wrote>>
      BY <1>7 DEF Wait
    <3>3. stage[j] \in Nat /\ Stages \in Nat /\ stage[j] >= 1
      BY PipelineConstantsOK DEF PipelineConstants
    <3>4. CASE stage[j] < Stages
      <4>1. at'[j] = "prepare" /\ stage'[j] # 1 /\ proc'[j] = "none" /\ kind'[j] = "pipe"
        BY <2>2, <3>1, <3>2, <3>3, <3>4
      <4>2. found'[j] => right'[j] /\ out'[j] = due'[j]
        BY <2>1, <2>2, <3>1, <3>2, <3>4
      <4> QED BY <4>1, <4>2
    <3>5. CASE ~(stage[j] < Stages)
      BY <2>1, <2>2, <3>1, <3>2, <3>5
    <3> QED BY <3>4, <3>5
  <2>3. CASE kind[j] # "pipe"
    BY <1>7, <2>3 DEF Wait
  <2> QED BY <2>2, <2>3
<1>8. CASE Collect(j) \/ Show(j)
  <2>1. kind[j] \notin {"none", "pipe"}
    <3>1. CASE Collect(j)
      BY <3>1 DEF Collect, Advance, Course
    <3>2. CASE Show(j)
      BY <3>2, ShowCases
    <3> QED BY <1>8, <3>1, <3>2
  <2>2. UNCHANGED <<kind, proc, found>>
    BY <1>8 DEF Collect, Show
  <2> QED BY <2>1, <2>2
<1>9. CASE Hear(j)
  BY <1>9 DEF Hear, Handed, Course, Idle
<1>10. CASE Think(j)
  <2>1. PICK n \in Lengths : rest' = Set(rest, j, Output(j, n)) /\ wrote' = Set(wrote, j, Output(j, n))
    BY <1>10 DEF Think
  <2>2. Output(j, n) \in Seq(Units)
    BY OutputType, PipelineConstantsOK DEF PipelineConstants
  <2>3. <<>> \o Output(j, n) = Output(j, n)
    BY <2>2, ConcatEmptySeq
  <2>4. proc'[j] = "write" /\ rest'[j] = wrote'[j] /\ UNCHANGED <<kind, at, stage, inp, out, due, right, found>>
    BY <1>10, <2>1 DEF Think, TextType, Texts
  <2>5. proc[j] = "think" /\ at[j] \notin {"begin", "prepare", "fork", "zombie", "gone"}
    BY <1>10 DEF Think, Course, Idle
  <2>6. kind[j] = "pipe" /\ found[j] => out'[j] \o rest'[j] = wrote'[j]
    BY <2>1, <2>3, <2>4, <2>5 DEF TextType, Texts
  <2> QED BY <2>4, <2>5, <2>6
<1>11. CASE Write(j)
  <2>1. UNCHANGED <<kind, at, stage, proc, inp, due, wrote, right, found>>
    BY <1>11 DEF Write
  <2>2. kind[j] = "pipe" /\ stage[j] < Stages => ~Terminal(j)
    BY PipelineConstantsOK DEF Terminal, PipelineConstants
  <2>3. proc[j] = "write"
    BY <1>11 DEF Write
  <2>4. kind[j] # "none" /\ at[j] \notin {"begin", "prepare", "fork"}
    BY <2>3 DEF Course, Idle
  <2> QED BY <1>11, <2>1, <2>2, <2>3, <2>4, WritingKeeps
<1>12. CASE End(j)
  BY <1>12 DEF End, Course
<1>13. CASE Help(j)
  BY <1>13 DEF Help, Course
<1>14. CASE ForkLost(j)
  <2>1. ~found'[j] /\ kind'[j] # "none"
    BY <1>14 DEF ForkLost
  <2> QED BY <2>1
<1>15. CASE GoOn(j)
  <2>1. UNCHANGED <<kind, proc, found, right, out>>
    BY <1>15 DEF GoOn
  <2>2. kind[j] \notin {"none", "pipe"}
    BY <1>15 DEF GoOn, Advance, Course
  <2> QED BY <2>1, <2>2
<1>16. CASE Babble(j)
  <2>1. ~found[j] /\ kind[j] # "none" /\ UNCHANGED <<found, kind>>
    BY <1>16 DEF Babble, Course
  <2> QED BY <2>1
<1> QED BY <1>1, <1>2, <1>3, <1>4, <1>5, <1>6, <1>7, <1>8, <1>9, <1>10, <1>11, <1>12, <1>13,
       <1>14, <1>15, <1>16 DEF Works, Runs

\* Two jobs of S or # have no part in it.
LEMMA FlowKeptByTwo ==
    ASSUME Sound, \A i \in Jobs : Flow(i), NEW j \in Jobs, NEW c \in Jobs,
           ForkAstray(j, c) \/ Bury(j, c)
    PROVE  \A i \in Jobs : Flow(i)'
<1>1. Flow(j)' /\ Flow(c)'
  <2> USE DEF Set, control, process, pipes, ghosts, Sound, TypeOK, ControlType, TextType, Texts, Over
  <2>1. CASE ForkAstray(j, c)
    <3>1. proc[c] = "none" /\ c # j
      BY <2>1 DEF ForkAstray, Free, Course, Idle
    <3>2. /\ kind'[j] \in {"shm", "queue"} /\ proc'[j] = "job"
          /\ kind'[c] \in {"shm", "queue"} /\ proc'[c] = "none"
      BY <2>1, <3>1 DEF ForkAstray
    <3> QED BY <3>2 DEF Flow
  <2>2. CASE Bury(j, c)
    <3>1. kind[j] \in {"shm", "queue"} /\ c # j /\ kind[c] # "none"
      BY <2>2 DEF Bury, Course
    <3>2. /\ at[c] = "zombie" /\ at'[c] = "gone" /\ out'[c] = <<>> /\ proc'[j] = "none" /\ proc'[c] = proc[c]
          /\ UNCHANGED <<kind, found, right, inp, due, wrote, rest, stage>>
      BY <2>2, <3>1 DEF Bury
    <3>3. Flow(c)'
      BY <3>1, <3>2 DEF Flow
    <3> QED BY <3>1, <3>2, <3>3 DEF Flow
  <2> QED BY <2>1, <2>2
<1>2. \A i \in Jobs \ {j, c} :
         /\ kind'[i] = kind[i] /\ at'[i] = at[i] /\ stage'[i] = stage[i] /\ proc'[i] = proc[i]
         /\ inp'[i] = inp[i] /\ out'[i] = out[i] /\ rest'[i] = rest[i]
         /\ due'[i] = due[i] /\ wrote'[i] = wrote[i] /\ right'[i] = right[i] /\ found'[i] = found[i]
  <2> USE DEF Set, control, process, pipes, ghosts, Sound, TypeOK, ControlType, TextType, Texts
  <2>1. CASE ForkAstray(j, c)
    BY <2>1 DEF ForkAstray
  <2>2. CASE Bury(j, c)
    BY <2>2 DEF Bury
  <2> QED BY <2>1, <2>2
<1>3. ASSUME NEW i \in Jobs PROVE Flow(i)'
  <2>1. CASE i \in {j, c}
    BY <1>1, <2>1
  <2>2. CASE i \notin {j, c}
    <3>1. Flow(i)
      OBVIOUS
    <3> QED BY <1>2, <2>2, <3>1 DEF Flow, Over
  <2> QED BY <2>1, <2>2
<1> QED BY <1>3

\* As long as the commands of a pipeline with | exist, a stage that reads its
\* input reads exactly what the one before wrote: all of it, in its order, and
\* nothing of another line, whatever commands that line has.
THEOREM PipesCarryText == Spec => []PipesCompose
<1> DEFINE Inv == Sound /\ \A j \in Jobs : Flow(j)
<1>1. Init => Inv
  BY InitSound DEF Init, Flow
<1>2. Inv /\ [Next]_vars => Inv'
  <2> SUFFICES ASSUME Inv, [Next]_vars PROVE Inv'
    OBVIOUS
  <2>1. CASE UNCHANGED vars
    BY <2>1, NextSound DEF Flow, Over, vars, control, process, pipes, ghosts
  <2>2. ASSUME NEW j \in Jobs,
               \/ \E k \in Programs[program], back \in BOOLEAN : Type(j, k, back)
               \/ Reap(j) \/ Works(j) \/ Runs(j) \/ Help(j) \/ ForkLost(j) \/ GoOn(j) \/ Babble(j)
        PROVE  \A i \in Jobs : Flow(i)'
    <3>1. Flow(j)'
      BY <2>2, FlowKept
    <3>2. ASSUME NEW i \in Jobs \ {j} PROVE Flow(i)'
      <4>1. Others(j)
        BY <2>2, OfOne
      <4>2. Flow(i)
        OBVIOUS
      <4> HIDE DEF Inv
      <4> QED BY <4>1, <4>2 DEF Others, Flow, Over
    <3> QED BY <3>1, <3>2
  <2>3. ASSUME NEW j \in Jobs, NEW c \in Jobs, ForkAstray(j, c) \/ Bury(j, c)
        PROVE  \A i \in Jobs : Flow(i)'
    BY <2>3, FlowKeptByTwo
  <2> QED BY <2>1, <2>2, <2>3, NextSound DEF Next, Job, Stage, Works, Runs
<1>3. Inv => PipesCompose
  BY DEF Flow, PipesCompose
<1> QED BY <1>1, <1>2, <1>3, PTL DEF Spec

-----------------------------------------------------------------------------
(* What is carried from stage to stage by the job.                         *)

Busy(j) == at[j] \notin {"none", "gone"}

\* Nothing runs beside a line in the foreground.
Alone ==
    /\ main = "prompt" => \A j \in Jobs : ~Busy(j)
    /\ \A i, j \in Jobs : Busy(i) /\ Busy(j) => i = j

\* What the step after the stage takes at once.
Taken(j) == IF kind[j] = "fanout" THEN MaxBuf ELSE MaxSize

\* The text of a stage is in the pipe, or still to be written.
Written(j) ==
    /\ at[j] = "begin" \/ (at[j] \in {"prepare", "fork"} /\ stage[j] = 1) => out[j] = <<>>
    /\ proc[j] = "think" => out[j] = <<>>
    /\ proc[j] \in {"write", "ended"} =>
          IF Terminal(j) THEN out[j] = <<>>
          ELSE out[j] \o rest[j] = wrote[j] /\ Len(wrote[j]) <= Taken(j)
    /\ proc[j] = "ended" => rest[j] = <<>>
    /\ at[j] = "collect" => out[j] = due[j] /\ Len(due[j]) <= Taken(j)
    /\ at[j] \in {"collect", "show"} => due[j] = wrote[j]
    /\ Over(j) => proc[j] = "none"

ByMemory(j) ==
    /\ at[j] = "prepare" /\ stage[j] > 1 => mem[seg[j]] = Append(due[j], Newline) /\ out[j] = <<>>
    /\ at[j] = "fork" /\ stage[j] > 1 => text[j] = Append(due[j], Newline) /\ out[j] = <<>>
    /\ at[j] = "feed" => text[j] = Append(due[j], Newline)
    /\ proc[j] = "read" => out[j] = <<>>
    /\ proc[j] = "read" /\ eof[j] => inp[j] = Filled(Append(due[j], Newline))
    /\ at[j] = "show" => mem[seg[j]] = Append(due[j], Newline)

ByQueue(j) ==
    /\ Live(j) => queue = qid[j] /\ queue # NoJob
    /\ Live(j) => box = IF at[j] = "show" \/ (at[j] = "prepare" /\ stage[j] > 1) THEN <<due[j]>> ELSE <<>>
    /\ at[j] = "prepare" /\ stage[j] > 1 => out[j] = <<>>
    /\ at[j] = "fork" /\ stage[j] > 1 => text[j] = due[j] /\ out[j] = <<>>
    /\ at[j] = "feed" => text[j] = due[j]
    /\ proc[j] = "read" => out[j] = <<>>
    /\ proc[j] = "read" /\ eof[j] => inp[j] = Filled(due[j])
    /\ at[j] = "remove" => shown[j] = wrote[j]

ByTwoPipes(j) ==
    /\ Live(j) /\ stage[j] > 1 => text[j] = due[j]
    /\ at[j] \in {"prepare", "fork"} /\ stage[j] > 1 => out[j] = IF stage[j] = 2 THEN due[j] ELSE <<>>
    /\ proc[j] = "read" => inp[j] = due[j] /\ out[j] = <<>>

ByHelper(j) ==
    /\ at[j] \in {"prepare", "fork"} /\ stage[j] > 1 => out[j] = due[j] /\ Len(due[j]) <= MaxSize
    /\ helper[j] = "read" => proc[j] = "read" /\ ~eof[j]
    /\ proc[j] = "read" =>
          IF eof[j] THEN inp[j] = due[j] /\ out[j] = <<>> ELSE out[j] = due[j] /\ Len(due[j]) <= MaxSize
    /\ at[j] = "show" => out[j] = due[j] /\ Len(due[j]) <= MaxSize

Carried(j) ==
    /\ right[j]
    /\ kind[j] \notin {"none", "pipe"} => Written(j)
    /\ kind[j] = "shm" => ByMemory(j)
    /\ kind[j] = "queue" => ByQueue(j)
    /\ kind[j] = "fanout" => ByTwoPipes(j)
    /\ kind[j] = "cluster" => ByHelper(j)
    /\ at[j] = "zombie" /\ kind[j] \in {"shm", "queue", "cluster"} => shown[j] = Displayed(j)

\* A queue that is not there holds nothing.
NoQueue == queue = NoJob => box = <<>>

\* All commands were found.
NoneLost == \A j \in Jobs : found[j] /\ at[j] # "astray" /\ proc[j] \notin {"babble", "job"}

\* With a user who avoids all bad habits.
Ready == /\ Sound /\ Owned /\ NoQueue /\ Alone /\ NoneLost /\ avoids = Habits
         /\ \A j \in Jobs : Flow(j) /\ Carried(j)

\* Then no process goes astray, and all steps are the ordinary ones.
LEMMA ReadySteps ==
    ASSUME Ready, Next
    PROVE  \E j \in Jobs :
              \/ \E k \in Programs[program], back \in BOOLEAN : Type(j, k, back)
              \/ Reap(j) \/ Works(j) \/ Runs(j) \/ Help(j)
<1>1. ASSUME NEW j \in Jobs, ForkLost(j) PROVE FALSE
  BY <1>1 DEF ForkLost, Ready, Habits
<1>2. ASSUME NEW j \in Jobs, NEW c \in Jobs, ForkAstray(j, c) PROVE FALSE
  BY <1>2 DEF ForkAstray, Ready, Habits
<1>3. ASSUME NEW j \in Jobs, NEW c \in Jobs, Bury(j, c) PROVE FALSE
  BY <1>3 DEF Bury, Ready, NoneLost
<1>4. ASSUME NEW j \in Jobs, GoOn(j) PROVE FALSE
  <2>1. at[j] = "astray"
    BY <1>4 DEF GoOn, Advance, Goes
  <2> QED BY <2>1 DEF Ready, NoneLost
<1>5. ASSUME NEW j \in Jobs, Babble(j) PROVE FALSE
  BY <1>5 DEF Babble, Ready, NoneLost
<1> QED BY <1>1, <1>2, <1>3, <1>4, <1>5 DEF Next, Job, Stage, Works, Runs

LEMMA NoneLostKept ==
    ASSUME Ready, [Next]_vars
    PROVE  NoneLost'
<1> USE DEF Ready, NoneLost, Set, Goes, user, control, process, pipes, buffers, queues, shared, ghosts,
           Sound, TypeOK, ControlType
<1>1. CASE UNCHANGED vars
  BY <1>1 DEF vars
<1>2. ASSUME NEW j \in Jobs, NEW k \in Programs[program], NEW back \in BOOLEAN, Type(j, k, back)
      PROVE  NoneLost'
  BY <1>2 DEF Type
<1>3. ASSUME NEW j \in Jobs, Reap(j) \/ Begin(j) \/ Prepare(j) \/ Close(j) \/ Unlink(j) \/ Open(j)
                             \/ Remove(j) \/ Help(j)
      PROVE  NoneLost'
  BY <1>3 DEF Reap, Begin, Prepare, Close, Unlink, Open, Remove, Help
<1>4. ASSUME NEW j \in Jobs, Fork(j) PROVE NoneLost'
  BY <1>4 DEF Fork, AfterFork
<1>5. ASSUME NEW j \in Jobs, Feed(j) PROVE NoneLost'
  BY <1>5 DEF Feed
<1>6. ASSUME NEW j \in Jobs, Wait(j) \/ Collect(j) PROVE NoneLost'
  <2>1. UNCHANGED found /\ \A i \in Jobs : proc'[i] = proc[i] \/ proc'[i] = "none"
    BY <1>6 DEF Wait, Collect
  <2>2. \A i \in Jobs : at'[i] # "astray"
    <3>1. CASE Wait(j)
      BY <3>1 DEF Wait, Advance
    <3>2. CASE Collect(j)
      BY <3>2 DEF Collect, Advance
    <3> QED BY <1>6, <3>1, <3>2
  <2> QED BY <2>1, <2>2
<1>7. ASSUME NEW j \in Jobs, Show(j) PROVE NoneLost'
  <2>1. UNCHANGED <<found, proc>>
    BY <1>7 DEF Show
  <2>2. at' = Set(at, j, "zombie") \/ at' = Set(at, j, "remove")
    BY <1>7, ShowCases
  <2> QED BY <2>1, <2>2
<1>8. ASSUME NEW j \in Jobs, Runs(j) PROVE NoneLost'
  <2>1. UNCHANGED <<found, at>>
    BY <1>8 DEF Runs, Hear, Think, Write, End
  <2>2. proc' = proc \/ \E p \in {"think", "write", "ended"} : proc' = Set(proc, j, p)
    BY <1>8 DEF Runs, Hear, Think, Write, End
  <2> QED BY <2>1, <2>2
<1> QED BY <1>1, <1>2, <1>3, <1>4, <1>5, <1>6, <1>7, <1>8, ReadySteps DEF Works

LEMMA AloneKept ==
    ASSUME Ready, [Next]_vars
    PROVE  Alone'
<1> USE DEF Ready, Sound, TypeOK, ControlType, Course, Idle, Running, Alone, Busy, Set, Goes,
           user, control, process, pipes, buffers, queues, shared, ghosts
<1>1. CASE UNCHANGED vars
  BY <1>1 DEF vars
<1>2. ASSUME NEW j \in Jobs, NEW k \in Programs[program], NEW back \in BOOLEAN, Type(j, k, back)
      PROVE  Alone'
  BY <1>2 DEF Type, Free, Habits
<1>3. ASSUME NEW j \in Jobs, Reap(j) PROVE Alone'
  BY <1>3 DEF Reap
<1>4. ASSUME NEW j \in Jobs, Works(j) PROVE Alone'
  <2>1. UNCHANGED main /\ Busy(j)
    BY <1>4 DEF Works, Begin, Prepare, Fork, Close, Feed, Unlink, Open, Wait, Collect, Show, Remove, Advance
  <2>2. Others(j)
    BY <1>4, OfOne
  <2> QED BY <2>1, <2>2 DEF Others
<1>5. ASSUME NEW j \in Jobs, Runs(j) \/ Help(j) PROVE Alone'
  BY <1>5 DEF Runs, Hear, Think, Write, End, Help
<1> QED BY <1>1, <1>2, <1>3, <1>4, <1>5, ReadySteps

LEMMA NoQueueKept ==
    ASSUME Ready, [Next]_vars
    PROVE  NoQueue'
<1> USE DEF Ready, NoQueue, Set, Goes, user, control, process, pipes, buffers, queues, shared, ghosts
<1>1. CASE UNCHANGED vars
  BY <1>1 DEF vars
<1>2. ASSUME NEW j \in Jobs, NEW k \in Programs[program], NEW back \in BOOLEAN, Type(j, k, back)
      PROVE  NoQueue'
  BY <1>2 DEF Type
<1>3. ASSUME NEW j \in Jobs, Reap(j) \/ Fork(j) \/ Close(j) \/ Feed(j) \/ Unlink(j) \/ Open(j) \/ Wait(j)
                             \/ Remove(j) \/ Runs(j) \/ Help(j)
      PROVE  NoQueue'
  BY <1>3 DEF Reap, Fork, Close, Feed, Unlink, Open, Wait, Remove, Runs, Hear, Think, Write, End, Help
<1>4. ASSUME NEW j \in Jobs, Begin(j) PROVE NoQueue'
  BY <1>4 DEF Begin, NoJob, Jobs
<1>5. ASSUME NEW j \in Jobs, Prepare(j) PROVE NoQueue'
  BY <1>5 DEF Prepare, Receive
<1>6. ASSUME NEW j \in Jobs, Collect(j) PROVE NoQueue'
  <2>1. kind[j] = "queue" => queue = qid[j] /\ queue # NoJob
    BY <1>6 DEF Collect, Advance, Carried, ByQueue, Live
  <2> QED BY <1>6, <2>1 DEF Collect
<1>7. ASSUME NEW j \in Jobs, Show(j) PROVE NoQueue'
  BY <1>7, ShowCases DEF Show
<1> QED BY <1>1, <1>2, <1>3, <1>4, <1>5, <1>6, <1>7, ReadySteps DEF Works

LEMMA OneMessage ==
    ASSUME NEW t
    PROVE  <<t>> # <<>> /\ Head(<<t>>) = t /\ Tail(<<t>>) = <<>>
OBVIOUS

LEMMA QueueTaken ==
    ASSUME Sound, NEW j \in Jobs, Begin(j), kind[j] = "queue"
    PROVE  queue' = qid'[j] /\ queue' # NoJob
<1>1. queue' = (IF queue = NoJob THEN j ELSE queue) /\ qid'[j] = queue'
  BY DEF Begin, Set, Sound, TypeOK, SharedType
<1>2. j # NoJob
  BY DEF NoJob, Jobs
<1> QED BY <1>1, <1>2

LEMMA CarriedBegin ==
    ASSUME Ready, NEW j \in Jobs, Begin(j)
    PROVE  Carried(j)'
<1> USE DEF Set, Goes, user, control, process, pipes, buffers, queues, shared, ghosts
<1>1. /\ at[j] = "begin" /\ at'[j] = "prepare"
      /\ kind' = kind /\ stage' = stage /\ proc' = proc /\ helper' = helper /\ out' = out /\ right' = right
      /\ kind[j] = "queue" => queue' = qid'[j] /\ queue' # NoJob
  BY QueueTaken DEF Begin, Ready, Sound, TypeOK, ControlType
<1>2. Carried(j) /\ Course(j) /\ right'[j] /\ stage[j] \in 1..(Stages + 3) /\ Stages \in Nat
  BY <1>1, PipelineConstantsOK DEF Ready, Sound, TypeOK, ControlType, Carried, PipelineConstants
<1>3. kind[j] = "queue" => box' = <<>>
  <2>1. \A i \in Jobs : Holds(i) => Busy(i) /\ i # j
    BY <1>1 DEF Holds, Live, Busy
  <2>2. queue = NoJob
    BY <1>1, <2>1 DEF Ready, Owned, QueueOwned, Alone, Busy
  <2> QED BY <2>2 DEF Begin, Ready, NoQueue
<1>4. kind'[j] \notin {"none", "pipe"} => Written(j)'
  BY <1>1, <1>2 DEF Carried, Written, Over, Terminal, Taken, Course, Idle, Running
<1>5. kind'[j] = "shm" => ByMemory(j)'
  BY <1>1, <1>2 DEF Carried, ByMemory, Course, Idle, Running
<1>6. kind'[j] = "queue" => ByQueue(j)'
  BY <1>1, <1>2, <1>3 DEF Carried, ByQueue, Live, Course, Idle, Running
<1>7. kind'[j] = "fanout" => ByTwoPipes(j)'
  BY <1>1, <1>2 DEF Carried, ByTwoPipes, Live, Course, Idle, Running, Last
<1>8. kind'[j] = "cluster" => ByHelper(j)'
  BY <1>1, <1>2 DEF Carried, ByHelper, Course, Idle, Running
<1> QED BY <1>1, <1>2, <1>4, <1>5, <1>6, <1>7, <1>8 DEF Carried, Over

LEMMA CarriedPrepare ==
    ASSUME Ready, NEW j \in Jobs, Prepare(j)
    PROVE  Carried(j)'
<1> USE DEF Set, Goes, user, control, process, pipes, buffers, queues, shared, ghosts
<1>1. /\ at[j] = "prepare" /\ at'[j] = "fork"
      /\ kind' = kind /\ stage' = stage /\ proc' = proc /\ helper' = helper /\ out' = out /\ right' = right
      /\ due' = due /\ wrote' = wrote /\ shown' = shown /\ queue' = queue /\ qid' = qid
      /\ kind[j] = "shm" /\ stage[j] > 1 => text'[j] = mem[seg[j]]
      /\ kind[j] = "queue" /\ stage[j] > 1 => Receive(j, text)
      /\ ~(kind[j] = "queue" /\ stage[j] > 1) => box' = box
      /\ kind[j] \notin {"shm", "queue"} => text' = text
  BY DEF Prepare, Ready, Sound, TypeOK, ControlType, TextType, Texts
<1>2. Carried(j) /\ Course(j) /\ right'[j] /\ stage[j] \in 1..(Stages + 3) /\ Stages \in Nat
  BY <1>1, PipelineConstantsOK DEF Ready, Sound, TypeOK, ControlType, Carried, PipelineConstants
<1>3. kind[j] = "queue" /\ stage[j] > 1 => text'[j] = due[j] /\ box' = <<>>
  <2>1. CASE kind[j] = "queue" /\ stage[j] > 1
    <3>1. queue = qid[j] /\ box = <<due[j]>>
      BY <1>1, <1>2, <2>1 DEF Carried, ByQueue, Live
    <3>2. text' = Set(text, j, Head(box)) /\ box' = Tail(box)
      BY <1>1, <2>1, <3>1 DEF Receive
    <3> QED BY <3>1, <3>2, OneMessage DEF Ready, Sound, TypeOK, TextType, Texts
  <2> QED BY <2>1
<1>4. kind'[j] \notin {"none", "pipe"} => Written(j)'
  BY <1>1, <1>2 DEF Carried, Written, Over, Terminal, Taken, Course, Idle, Running
<1>5. kind'[j] = "shm" => ByMemory(j)'
  BY <1>1, <1>2 DEF Carried, ByMemory, Course, Idle, Running
<1>6. kind'[j] = "queue" => ByQueue(j)'
  BY <1>1, <1>2, <1>3 DEF Carried, ByQueue, Live, Course, Idle, Running
<1>7. kind'[j] = "fanout" => ByTwoPipes(j)'
  BY <1>1, <1>2 DEF Carried, ByTwoPipes, Live, Course, Idle, Running, Last
<1>8. kind'[j] = "cluster" => ByHelper(j)'
  BY <1>1, <1>2 DEF Carried, ByHelper, Course, Idle, Running
<1> QED BY <1>1, <1>2, <1>4, <1>5, <1>6, <1>7, <1>8 DEF Carried, Over

LEMMA CarriedFork ==
    ASSUME Ready, NEW j \in Jobs, Fork(j)
    PROVE  Carried(j)'
<1> USE DEF Set, Goes, user, control, process, pipes, buffers, queues, shared, ghosts
<1>1. /\ at[j] = "fork" /\ at'[j] \in {"wait", "close", "feed"}
      /\ stage[j] > 1 /\ kind[j] \in {"shm", "queue"} => at'[j] = "feed"
      /\ stage[j] = 1 => at'[j] = "wait"
      /\ kind' = kind /\ stage' = stage /\ rest' = rest /\ text' = text /\ shown' = shown /\ queue' = queue
      /\ box' = box /\ qid' = qid /\ mem' = mem /\ seg' = seg /\ due' = due /\ wrote' = wrote
      /\ right' = right
      /\ proc'[j] \in {"read", "think"} /\ (stage[j] = 1 => proc'[j] = "think")
      /\ stage[j] > 1 => proc'[j] = "read"
      /\ inp'[j] = Input(j) /\ ~eof'[j]
      /\ kind[j] = "fanout" => out'[j] = <<>>
      /\ kind[j] \notin {"pipe", "fanout"} => out'[j] = out[j]
      /\ kind[j] = "cluster" /\ stage[j] > 1 => helper'[j] = "read"
      /\ kind[j] # "cluster" \/ stage[j] = 1 => helper'[j] = helper[j]
  BY PipelineConstantsOK DEF PipelineConstants, Fork, AfterFork, ForkPipes, Ready, Sound, TypeOK, ControlType, TextType, Texts, Habits
<1>2. Carried(j) /\ Course(j) /\ right'[j] /\ stage[j] \in 1..(Stages + 3) /\ Stages \in Nat
  BY <1>1, PipelineConstantsOK DEF Ready, Sound, TypeOK, ControlType, Carried, PipelineConstants
<1>3. kind[j] \notin {"none", "pipe"} /\ proc'[j] = "think" => out'[j] = <<>>
  <2>1. CASE stage[j] = 1
    BY <1>1, <1>2, <2>1 DEF Carried, Written
  <2>2. CASE stage[j] > 1
    BY <1>1, <2>2
  <2> QED BY <1>2, <2>1, <2>2
<1>4. kind'[j] \notin {"none", "pipe"} => Written(j)'
  BY <1>1, <1>2, <1>3 DEF Carried, Written, Over, Terminal, Taken, Course, Idle, Running
<1>5. kind'[j] = "shm" => ByMemory(j)'
  BY <1>1, <1>2 DEF Carried, ByMemory, Course, Idle, Running
<1>6. kind'[j] = "queue" => ByQueue(j)'
  BY <1>1, <1>2 DEF Carried, ByQueue, Live, Course, Idle, Running
<1>7. kind'[j] = "fanout" => ByTwoPipes(j)'
  BY <1>1, <1>2 DEF Carried, ByTwoPipes, Live, Course, Idle, Running, Last, Input
<1>8. kind'[j] = "cluster" => ByHelper(j)'
  BY <1>1, <1>2 DEF Carried, ByHelper, Course, Idle, Running, Input
<1> QED BY <1>1, <1>2, <1>4, <1>5, <1>6, <1>7, <1>8 DEF Carried, Over

LEMMA CarriedClose ==
    ASSUME Ready, NEW j \in Jobs, Close(j)
    PROVE  Carried(j)'
<1> USE DEF Set, Goes, user, control, process, pipes, buffers, queues, shared, ghosts
<1>1. /\ at[j] = "close" /\ at'[j] = "wait"
      /\ kind' = kind /\ stage' = stage /\ proc' = proc /\ inp' = inp /\ rest' = rest /\ text' = text
      /\ shown' = shown /\ out' = out /\ helper' = helper /\ queue' = queue /\ box' = box /\ qid' = qid
      /\ mem' = mem /\ seg' = seg /\ due' = due /\ wrote' = wrote /\ right' = right
      /\ eof'[j]
  BY DEF Close, Ready, Sound, TypeOK, ControlType
<1>2. Carried(j) /\ Course(j) /\ right'[j] /\ stage[j] \in 1..(Stages + 3) /\ Stages \in Nat
  BY <1>1, PipelineConstantsOK DEF Ready, Sound, TypeOK, ControlType, Carried, PipelineConstants
<1>4. kind'[j] \notin {"none", "pipe"} => Written(j)'
  BY <1>1, <1>2 DEF Carried, Written, Over, Terminal, Taken, Course, Idle, Running
<1>5. kind'[j] = "shm" => ByMemory(j)'
  BY <1>1, <1>2 DEF Carried, ByMemory, Course, Idle, Running
<1>6. kind'[j] = "queue" => ByQueue(j)'
  BY <1>1, <1>2 DEF Carried, ByQueue, Live, Course, Idle, Running
<1>7. kind'[j] = "fanout" => ByTwoPipes(j)'
  BY <1>1, <1>2 DEF Carried, ByTwoPipes, Live, Course, Idle, Running, Last
<1>8. kind'[j] = "cluster" => ByHelper(j)'
  BY <1>1, <1>2 DEF Carried, ByHelper, Course, Idle, Running
<1> QED BY <1>1, <1>2, <1>4, <1>5, <1>6, <1>7, <1>8 DEF Carried, Over

LEMMA CarriedFeed ==
    ASSUME Ready, NEW j \in Jobs, Feed(j)
    PROVE  Carried(j)'
<1> USE DEF Set, Goes, user, control, process, pipes, buffers, queues, shared, ghosts
<1>1. /\ at[j] = "feed" /\ at'[j] \in {"wait", "unlink"} /\ (kind[j] # "shm" => at'[j] = "wait")
      /\ kind' = kind /\ stage' = stage /\ proc' = proc /\ rest' = rest /\ text' = text /\ shown' = shown
      /\ out' = out /\ helper' = helper /\ queue' = queue /\ box' = box /\ qid' = qid /\ mem' = mem
      /\ seg' = seg /\ due' = due /\ wrote' = wrote /\ right' = right
      /\ inp'[j] = Filled(text[j]) /\ eof'[j]
  <2>1. at[j] = "feed" /\ ~Unread(j)
    BY DEF Feed, Unread, Owned, Listens, Ready, NoneLost
  <2> QED BY <2>1 DEF Feed, Ready, Sound, TypeOK, ControlType, TextType, Texts
<1>2. Carried(j) /\ Course(j) /\ right'[j] /\ stage[j] \in 1..(Stages + 3) /\ Stages \in Nat
  BY <1>1, PipelineConstantsOK DEF Ready, Sound, TypeOK, ControlType, Carried, PipelineConstants
<1>4. kind'[j] \notin {"none", "pipe"} => Written(j)'
  BY <1>1, <1>2 DEF Carried, Written, Over, Terminal, Taken, Course, Idle, Running
<1>5. kind'[j] = "shm" => ByMemory(j)'
  BY <1>1, <1>2 DEF Carried, ByMemory, Course, Idle, Running
<1>6. kind'[j] = "queue" => ByQueue(j)'
  BY <1>1, <1>2 DEF Carried, ByQueue, Live, Course, Idle, Running
<1>7. kind'[j] = "fanout" => ByTwoPipes(j)'
  BY <1>1, <1>2 DEF Carried, ByTwoPipes, Live, Course, Idle, Running, Last
<1>8. kind'[j] = "cluster" => ByHelper(j)'
  BY <1>1, <1>2 DEF Carried, ByHelper, Course, Idle, Running
<1> QED BY <1>1, <1>2, <1>4, <1>5, <1>6, <1>7, <1>8 DEF Carried, Over

LEMMA CarriedUnlink ==
    ASSUME Ready, NEW j \in Jobs, Unlink(j) \/ Open(j)
    PROVE  Carried(j)'
<1> USE DEF Set, Goes, user, control, process, pipes, buffers, queues, shared, ghosts
<1>1. /\ at[j] \in {"unlink", "open"} /\ at'[j] \in {"open", "wait"} /\ kind[j] = "shm"
      /\ kind' = kind /\ stage' = stage /\ proc' = proc /\ inp' = inp /\ eof' = eof /\ rest' = rest
      /\ text' = text /\ shown' = shown /\ out' = out /\ helper' = helper /\ queue' = queue /\ box' = box
      /\ qid' = qid /\ mem' = mem /\ due' = due /\ wrote' = wrote /\ right' = right
  BY DEF Unlink, Open, Course, Ready, Sound, TypeOK, ControlType
<1>2. Carried(j) /\ Course(j) /\ right'[j] /\ stage[j] \in 1..(Stages + 3) /\ Stages \in Nat
  BY <1>1, PipelineConstantsOK DEF Ready, Sound, TypeOK, ControlType, Carried, PipelineConstants
<1>4. kind'[j] \notin {"none", "pipe"} => Written(j)'
  BY <1>1, <1>2 DEF Carried, Written, Over, Terminal, Taken, Course, Idle, Running
<1>5. kind'[j] = "shm" => ByMemory(j)'
  BY <1>1, <1>2 DEF Carried, ByMemory, Course, Idle, Running
<1>6. kind'[j] = "queue" => ByQueue(j)'
  BY <1>1, <1>2 DEF Carried, ByQueue, Live, Course, Idle, Running
<1>7. kind'[j] = "fanout" => ByTwoPipes(j)'
  BY <1>1, <1>2 DEF Carried, ByTwoPipes, Live, Course, Idle, Running, Last
<1>8. kind'[j] = "cluster" => ByHelper(j)'
  BY <1>1, <1>2 DEF Carried, ByHelper, Course, Idle, Running
<1> QED BY <1>1, <1>2, <1>4, <1>5, <1>6, <1>7, <1>8 DEF Carried, Over

LEMMA CarriedType ==
    ASSUME Ready, NEW j \in Jobs, kind[j] = "none", kind'[j] # "none", at'[j] = "begin",
           UNCHANGED <<stage, proc, helper, out, right>>
    PROVE  Carried(j)'
<1> USE DEF Set, Goes, user, control, process, pipes, buffers, queues, shared, ghosts
<1>1. kind[j] = "none" /\ at'[j] = "begin" /\ kind'[j] # "none"
      /\ stage' = stage /\ proc' = proc /\ helper' = helper /\ out' = out /\ right' = right
  OBVIOUS
<1>2. Carried(j) /\ Course(j) /\ right'[j] /\ stage[j] \in 1..(Stages + 3) /\ Stages \in Nat
  BY <1>1, PipelineConstantsOK DEF Ready, Sound, TypeOK, ControlType, Carried, PipelineConstants
<1>3. out[j] = <<>> /\ at[j] = "none"
  BY <1>1, <1>2 DEF Ready, Flow, Course
<1>4. kind'[j] \notin {"none", "pipe"} => Written(j)'
  BY <1>1, <1>2, <1>3 DEF Carried, Written, Over, Terminal, Taken, Course, Idle, Running
<1>5. kind'[j] = "shm" => ByMemory(j)'
  BY <1>1, <1>2, <1>3 DEF Carried, ByMemory, Course, Idle, Running
<1>6. kind'[j] = "queue" => ByQueue(j)'
  BY <1>1, <1>2, <1>3 DEF Carried, ByQueue, Live, Course, Idle, Running
<1>7. kind'[j] = "fanout" => ByTwoPipes(j)'
  BY <1>1, <1>2, <1>3 DEF Carried, ByTwoPipes, Live, Course, Idle, Running, Last
<1>8. kind'[j] = "cluster" => ByHelper(j)'
  BY <1>1, <1>2, <1>3 DEF Carried, ByHelper, Course, Idle, Running
<1> QED BY <1>1, <1>2, <1>4, <1>5, <1>6, <1>7, <1>8 DEF Carried, Over

LEMMA CarriedReap ==
    ASSUME Ready, NEW j \in Jobs, Reap(j)
    PROVE  Carried(j)'
<1> USE DEF Set, Goes, user, control, process, pipes, buffers, queues, shared, ghosts
<1>1. /\ at[j] = "zombie" /\ at'[j] = "gone"
      /\ kind' = kind /\ stage' = stage /\ proc' = proc /\ helper' = helper /\ right' = right
      /\ shown'[j] = <<>> /\ wrote'[j] = <<>>
  BY DEF Reap, Ready, Sound, TypeOK, ControlType, TextType, Texts
<1>2. Carried(j) /\ Course(j) /\ right'[j] /\ stage[j] \in 1..(Stages + 3) /\ Stages \in Nat
  BY <1>1, PipelineConstantsOK DEF Ready, Sound, TypeOK, ControlType, Carried, PipelineConstants
<1>3. kind[j] \notin {"none", "pipe"} => proc[j] = "none" /\ helper[j] = "none"
  BY <1>1, <1>2 DEF Carried, Written, Over, Course
<1>4. kind'[j] \notin {"none", "pipe"} => Written(j)'
  BY <1>1, <1>2 DEF Carried, Written, Over, Terminal, Taken, Course, Idle, Running
<1>5. kind'[j] = "shm" => ByMemory(j)'
  BY <1>1, <1>2, <1>3 DEF Carried, ByMemory, Course, Idle, Running
<1>6. kind'[j] = "queue" => ByQueue(j)'
  BY <1>1, <1>2, <1>3 DEF Carried, ByQueue, Live, Course, Idle, Running
<1>7. kind'[j] = "fanout" => ByTwoPipes(j)'
  BY <1>1, <1>2, <1>3 DEF Carried, ByTwoPipes, Live, Course, Idle, Running, Last
<1>8. kind'[j] = "cluster" => ByHelper(j)'
  BY <1>1, <1>2, <1>3 DEF Carried, ByHelper, Course, Idle, Running
<1> QED BY <1>1, <1>2, <1>4, <1>5, <1>6, <1>7, <1>8 DEF Carried, Over

LEMMA CarriedWait ==
    ASSUME Ready, NEW j \in Jobs, Wait(j)
    PROVE  Carried(j)'
<1> USE DEF Set, Goes, user, control, process, pipes, buffers, queues, shared, ghosts
<1>1. /\ at[j] = "wait" /\ proc[j] = "ended" /\ proc'[j] = "none" /\ helper'[j] = "none"
      /\ kind' = kind /\ inp' = inp /\ eof' = eof /\ rest' = rest /\ text' = text /\ shown' = shown
      /\ out' = out /\ queue' = queue /\ box' = box /\ qid' = qid /\ mem' = mem /\ seg' = seg
      /\ wrote' = wrote /\ right' = right
      /\ due'[j] = IF kind[j] = "fanout" /\ stage[j] > 1 THEN due[j] ELSE wrote[j]
      /\ kind[j] \notin {"pipe", "cluster", "fanout"} => at'[j] = "collect" /\ stage'[j] = stage[j]
      /\ kind[j] = "fanout" =>
            IF stage[j] > 1 THEN IF stage[j] < 3 THEN at'[j] = "prepare" /\ stage'[j] = stage[j] + 1
                                 ELSE at'[j] = "zombie" /\ stage'[j] = stage[j]
            ELSE at'[j] = "collect" /\ stage'[j] = stage[j]
      /\ kind[j] = "cluster" => \/ at'[j] = "prepare" /\ stage'[j] = stage[j] + 1
                                \/ at'[j] = "show" /\ stage'[j] = stage[j]
  BY DEF Wait, Advance, Last, Course, Ready, Sound, TypeOK, ControlType, TextType, Texts
<1>2. Carried(j) /\ Course(j) /\ right'[j] /\ stage[j] \in 1..(Stages + 3) /\ Stages \in Nat
  BY <1>1, PipelineConstantsOK DEF Ready, Sound, TypeOK, ControlType, Carried, PipelineConstants
<1>3. kind[j] \notin {"none", "pipe"} =>
         IF Terminal(j) THEN out[j] = <<>> ELSE out[j] = wrote[j] /\ Len(wrote[j]) <= Taken(j)
  <2>1. rest[j] = <<>> => out[j] \o rest[j] = out[j]
    BY ConcatEmptySeq DEF Ready, Sound, TypeOK
  <2> QED BY <1>1, <1>2, <2>1 DEF Carried, Written
<1>4. kind'[j] \notin {"none", "pipe"} => Written(j)'
  BY <1>1, <1>2, <1>3 DEF Carried, Written, Over, Terminal, Taken, Course, Idle, Running, Terminal
<1>5. kind'[j] = "shm" => ByMemory(j)'
  BY <1>1, <1>2, <1>3 DEF Carried, ByMemory, Course, Idle, Running
<1>6. kind'[j] = "queue" => ByQueue(j)'
  BY <1>1, <1>2, <1>3 DEF Carried, ByQueue, Live, Course, Idle, Running
<1>7. kind'[j] = "fanout" => ByTwoPipes(j)'
  BY <1>1, <1>2, <1>3 DEF Carried, ByTwoPipes, Live, Course, Idle, Running, Last, Terminal
<1>8. kind'[j] = "cluster" => ByHelper(j)'
  BY <1>1, <1>2, <1>3 DEF Carried, ByHelper, Course, Idle, Running, Terminal, Taken
<1> QED BY <1>1, <1>2, <1>4, <1>5, <1>6, <1>7, <1>8 DEF Carried, Over

\* What the job fetches is all that the stage wrote.
LEMMA TakesAll ==
    ASSUME Ready, NEW j \in Jobs, Len(out[j]) <= Taken(j)
    PROVE  First(out[j], Taken(j)) = out[j] /\ Rest(out[j], Taken(j)) = <<>>
<1>1. out[j] \in Seq(Units) /\ Taken(j) \in Nat
  BY PipelineConstantsOK DEF Ready, Sound, TypeOK, TextType, Texts, Taken, PipelineConstants
<1> QED BY <1>1, WholeText

LEMMA CarriedCollect ==
    ASSUME Ready, NEW j \in Jobs, Collect(j)
    PROVE  Carried(j)'
<1> USE DEF Set, Goes, user, control, process, pipes, buffers, queues, shared, ghosts
<1>1. /\ at[j] = "collect" /\ Advance(j, "collect", "show")
      /\ kind' = kind /\ proc' = proc /\ inp' = inp /\ eof' = eof /\ helper' = helper /\ shown' = shown
      /\ queue' = queue /\ qid' = qid /\ name' = name /\ seg' = seg /\ due' = due /\ wrote' = wrote
      /\ right' = right
      /\ LET got == First(out[j], Taken(j)) IN
            /\ mem' = IF kind[j] = "shm" THEN [mem EXCEPT ![seg[j]] = Append(got, Newline)] ELSE mem
            /\ box' = IF kind[j] = "queue" /\ queue = qid[j] THEN Append(box, got) ELSE box
            /\ text' = IF kind[j] = "fanout" THEN Set(text, j, got) ELSE text
            /\ out' = Set(out, j, Rest(out[j], Taken(j)) \o (IF kind[j] = "fanout" THEN got ELSE <<>>))
  BY DEF Collect, Advance, Taken
<1>2. Carried(j) /\ Course(j) /\ right'[j] /\ stage[j] \in 1..(Stages + 3) /\ Stages \in Nat
  BY <1>1, PipelineConstantsOK DEF Ready, Sound, TypeOK, ControlType, Carried, PipelineConstants
<1>3. out[j] \in Seq(Units) /\ out[j] = due[j] /\ Len(out[j]) <= Taken(j) /\ due[j] = wrote[j]
      /\ kind[j] \in {"shm", "queue", "fanout"} /\ proc[j] = "none" /\ helper[j] = "none"
  BY <1>1, <1>2 DEF Carried, Written, Course, Idle, Ready, Sound, TypeOK, TextType, Texts
<1>9. /\ kind[j] = "shm" => mem'[seg[j]] = Append(due[j], Newline)
      /\ kind[j] = "queue" => box' = <<due[j]>>
      /\ kind[j] = "fanout" => text'[j] = due[j]
      /\ out'[j] = IF kind[j] = "fanout" THEN due[j] ELSE <<>>
  <2>1. First(out[j], Taken(j)) = due[j] /\ Rest(out[j], Taken(j)) = <<>>
    BY <1>3, TakesAll
  <2>2. kind[j] = "shm" => mem'[seg[j]] = Append(due[j], Newline)
    BY <1>1, <1>2, <2>1 DEF Course, Ready, Sound, TypeOK, SharedType
  <2>3. kind[j] = "queue" => box' = <<due[j]>>
    <3>1. kind[j] = "queue" => queue = qid[j] /\ box = <<>>
      BY <1>1, <1>2 DEF Carried, ByQueue, Live
    <3> QED BY <1>1, <2>1, <3>1
  <2>4. kind[j] = "fanout" => text'[j] = due[j]
    BY <1>1, <2>1 DEF Ready, Sound, TypeOK, TextType, Texts
  <2>5. out'[j] = <<>> \o (IF kind[j] = "fanout" THEN due[j] ELSE <<>>)
    BY <1>1, <2>1 DEF Ready, Sound, TypeOK, TextType, Texts
  <2>6. <<>> \o out[j] = out[j] /\ <<>> \o <<>> = <<>>
    BY <1>3, ConcatEmptySeq
  <2> QED BY <1>3, <2>2, <2>3, <2>4, <2>5, <2>6
<1>10. \/ at'[j] = "prepare" /\ stage'[j] > 1 /\ stage'[j] <= Last(j) /\ (kind[j] = "fanout" => stage'[j] = 2)
       \/ at'[j] = "show" /\ stage'[j] = stage[j] /\ kind[j] # "fanout"
  BY <1>1, <1>2, <1>3 DEF Advance, Last, Course, Ready, Sound, TypeOK, ControlType
<1>4. kind'[j] \notin {"none", "pipe"} => Written(j)'
  BY <1>1, <1>2, <1>3, <1>9, <1>10 DEF Carried, Written, Over, Terminal, Taken, Course, Idle, Running
<1>5. kind'[j] = "shm" => ByMemory(j)'
  BY <1>1, <1>2, <1>3, <1>9, <1>10 DEF Carried, ByMemory, Course, Idle, Running
<1>6. kind'[j] = "queue" => ByQueue(j)'
  BY <1>1, <1>2, <1>3, <1>9, <1>10 DEF Carried, ByQueue, Live, Course, Idle, Running
<1>7. kind'[j] = "fanout" => ByTwoPipes(j)'
  BY <1>1, <1>2, <1>3, <1>9, <1>10 DEF Carried, ByTwoPipes, Live, Course, Idle, Running, Last
<1>8. kind'[j] = "cluster" => ByHelper(j)'
  BY <1>1, <1>2, <1>3, <1>9, <1>10 DEF Carried, ByHelper, Course, Idle, Running
<1> QED BY <1>1, <1>2, <1>4, <1>5, <1>6, <1>7, <1>8, <1>3, <1>9, <1>10 DEF Carried, Over

LEMMA CarriedShow ==
    ASSUME Ready, NEW j \in Jobs, Show(j)
    PROVE  Carried(j)'
<1> USE DEF Set, Goes, user, control, process, pipes, buffers, queues, shared, ghosts
<1>1. /\ at[j] = "show" /\ kind[j] \in {"shm", "queue", "cluster"}
      /\ kind' = kind /\ stage' = stage /\ proc' = proc /\ inp' = inp /\ eof' = eof /\ helper' = helper
      /\ text' = text /\ queue' = queue /\ qid' = qid /\ mem' = mem /\ seg' = seg /\ due' = due
      /\ wrote' = wrote /\ right' = right
      /\ at'[j] = IF kind[j] = "queue" THEN "remove" ELSE "zombie"
  BY ShowCases DEF Show, Ready, Sound, TypeOK, ControlType
<1>2. Carried(j) /\ Course(j) /\ right'[j] /\ stage[j] \in 1..(Stages + 3) /\ Stages \in Nat
  BY <1>1, PipelineConstantsOK DEF Ready, Sound, TypeOK, ControlType, Carried, PipelineConstants
<1>3. proc[j] = "none" /\ helper[j] = "none"
  BY <1>1, <1>2 DEF Course, Idle
<1>9. shown'[j] = Displayed(j) /\ (kind[j] = "queue" => box' = <<>> /\ queue # NoJob /\ queue = qid[j])
  <2>1. due[j] = wrote[j]
    BY <1>1, <1>2 DEF Carried, Written
  <2>2. CASE kind[j] = "shm"
    <3>1. mem[seg[j]] = Displayed(j)
      BY <1>1, <1>2, <2>1, <2>2 DEF Displayed, Carried, ByMemory
    <3>2. shown' = Set(shown, j, mem[seg[j]])
      BY <2>2, ShowCases DEF Ready
    <3> QED BY <2>2, <3>1, <3>2 DEF Ready, Sound, TypeOK, TextType, Texts
  <2>3. CASE kind[j] = "queue"
    <3>1. box = <<due[j]>> /\ queue = qid[j] /\ queue # NoJob
      BY <1>1, <1>2, <2>3 DEF Carried, ByQueue, Live
    <3>2. shown' = Set(shown, j, Head(box)) /\ box' = Tail(box)
      BY <2>3, <3>1, ShowCases DEF Ready
    <3>3. Displayed(j) = due[j]
      BY <2>1, <2>3 DEF Displayed
    <3> QED BY <3>1, <3>2, <3>3, OneMessage DEF Ready, Sound, TypeOK, TextType, Texts
  <2>4. CASE kind[j] = "cluster"
    <3>1. out[j] = due[j] /\ Len(out[j]) <= Taken(j) /\ Taken(j) = MaxSize
      BY <1>1, <1>2, <2>4 DEF Carried, ByHelper, Taken
    <3> QED BY <2>1, <2>4, <3>1, TakesAll, ShowCases DEF Displayed, Ready, Sound, TypeOK, TextType, Texts
  <2> QED BY <1>1, <2>2, <2>3, <2>4
<1>4. kind'[j] \notin {"none", "pipe"} => Written(j)'
  BY <1>1, <1>2, <1>3, <1>9 DEF Carried, Written, Over, Terminal, Taken, Course, Idle, Running
<1>5. kind'[j] = "shm" => ByMemory(j)'
  BY <1>1, <1>2, <1>3, <1>9 DEF Carried, ByMemory, Course, Idle, Running
<1>6. kind'[j] = "queue" => ByQueue(j)'
  BY <1>1, <1>2, <1>3, <1>9 DEF Carried, ByQueue, Live, Course, Idle, Running, Displayed
<1>7. kind'[j] = "fanout" => ByTwoPipes(j)'
  BY <1>1, <1>2, <1>3, <1>9 DEF Carried, ByTwoPipes, Live, Course, Idle, Running, Last
<1>8. kind'[j] = "cluster" => ByHelper(j)'
  BY <1>1, <1>2, <1>3, <1>9 DEF Carried, ByHelper, Course, Idle, Running
<1> QED BY <1>1, <1>2, <1>4, <1>5, <1>6, <1>7, <1>8, <1>3, <1>9 DEF Carried, Over, Displayed

LEMMA CarriedRemove ==
    ASSUME Ready, NEW j \in Jobs, Remove(j)
    PROVE  Carried(j)'
<1> USE DEF Set, Goes, user, control, process, pipes, buffers, queues, shared, ghosts
<1>1. /\ at[j] = "remove" /\ at'[j] = "zombie" /\ kind[j] = "queue"
      /\ kind' = kind /\ stage' = stage /\ proc' = proc /\ helper' = helper /\ shown' = shown /\ wrote' = wrote
      /\ right' = right
  BY DEF Remove, Course, Ready, Sound, TypeOK, ControlType
<1>2. Carried(j) /\ Course(j) /\ right'[j] /\ stage[j] \in 1..(Stages + 3) /\ Stages \in Nat
  BY <1>1, PipelineConstantsOK DEF Ready, Sound, TypeOK, ControlType, Carried, PipelineConstants
<1>3. proc[j] = "none" /\ helper[j] = "none" /\ shown[j] = wrote[j]
  BY <1>1, <1>2 DEF Course, Idle, Carried, ByQueue
<1>4. kind'[j] \notin {"none", "pipe"} => Written(j)'
  BY <1>1, <1>2, <1>3 DEF Carried, Written, Over, Terminal, Taken, Course, Idle, Running
<1>5. kind'[j] = "shm" => ByMemory(j)'
  BY <1>1, <1>2 DEF Carried, ByMemory, Course, Idle, Running
<1>6. kind'[j] = "queue" => ByQueue(j)'
  BY <1>1, <1>2, <1>3 DEF Carried, ByQueue, Live, Course, Idle, Running
<1>7. kind'[j] = "fanout" => ByTwoPipes(j)'
  BY <1>1, <1>2 DEF Carried, ByTwoPipes, Live, Course, Idle, Running, Last
<1>8. kind'[j] = "cluster" => ByHelper(j)'
  BY <1>1, <1>2 DEF Carried, ByHelper, Course, Idle, Running
<1> QED BY <1>1, <1>2, <1>4, <1>5, <1>6, <1>7, <1>8, <1>3 DEF Carried, Over, Displayed

LEMMA CarriedHear ==
    ASSUME Ready, NEW j \in Jobs, Hear(j)
    PROVE  Carried(j)'
<1> USE DEF Set, Goes, user, control, process, pipes, buffers, queues, shared, ghosts
<1>1. /\ proc[j] = "read" /\ eof[j] /\ proc'[j] = "think"
      /\ kind' = kind /\ at' = at /\ stage' = stage /\ rest' = rest /\ eof' = eof /\ out' = out
      /\ helper' = helper /\ text' = text /\ shown' = shown /\ queue' = queue /\ box' = box /\ qid' = qid
      /\ mem' = mem /\ seg' = seg /\ due' = due /\ wrote' = wrote
  BY DEF Hear, Ready, Sound, TypeOK, ControlType
<1>2. Carried(j) /\ Course(j) /\ right[j] /\ stage[j] \in 1..(Stages + 3) /\ Stages \in Nat
  BY <1>1, PipelineConstantsOK DEF Ready, Sound, TypeOK, ControlType, Carried, PipelineConstants
<1>3. at[j] \in Running
  BY <1>1, <1>2 DEF Ready, Sound, TypeOK, ControlType, Course, Idle, Running, Over, Places
<1>9. out[j] = <<>> /\ inp[j] = Handed(j)
  <2>1. CASE kind[j] = "pipe"
    BY <1>1, <2>1 DEF Handed, Ready, Flow, NoneLost
  <2>2. CASE kind[j] = "shm"
    BY <1>1, <1>2, <2>2 DEF Handed, Carried, ByMemory
  <2>3. CASE kind[j] = "queue"
    BY <1>1, <1>2, <2>3 DEF Handed, Carried, ByQueue
  <2>4. CASE kind[j] = "fanout"
    BY <1>1, <1>2, <2>4 DEF Handed, Carried, ByTwoPipes
  <2>5. CASE kind[j] = "cluster"
    BY <1>1, <1>2, <2>5 DEF Handed, Carried, ByHelper
  <2>6. kind[j] \in Kinds
    BY <1>1, <1>2 DEF Course, Idle, Ready, Sound, TypeOK, ControlType
  <2> QED BY <2>1, <2>2, <2>3, <2>4, <2>5, <2>6 DEF Kinds
<1>10. right'[j]
  BY <1>2, <1>9 DEF Hear, Ready, Sound, TypeOK, ControlType
<1>4. kind'[j] \notin {"none", "pipe"} => Written(j)'
  BY <1>1, <1>2, <1>3, <1>9 DEF Carried, Written, Over, Terminal, Taken, Course, Idle, Running
<1>5. kind'[j] = "shm" => ByMemory(j)'
  BY <1>1, <1>2, <1>3, <1>9 DEF Carried, ByMemory, Course, Idle, Running
<1>6. kind'[j] = "queue" => ByQueue(j)'
  BY <1>1, <1>2, <1>3, <1>9 DEF Carried, ByQueue, Live, Course, Idle, Running
<1>7. kind'[j] = "fanout" => ByTwoPipes(j)'
  BY <1>1, <1>2, <1>3, <1>9 DEF Carried, ByTwoPipes, Live, Course, Idle, Running, Last
<1>8. kind'[j] = "cluster" => ByHelper(j)'
  BY <1>1, <1>2, <1>3, <1>9 DEF Carried, ByHelper, Course, Idle, Running
<1> QED BY <1>1, <1>2, <1>4, <1>5, <1>6, <1>7, <1>8, <1>3, <1>10 DEF Carried, Over, Running

LEMMA CarriedThink ==
    ASSUME Ready, NEW j \in Jobs, Think(j)
    PROVE  Carried(j)'
<1> USE DEF Set, Goes, user, control, process, pipes, buffers, queues, shared, ghosts
<1>1. /\ proc[j] = "think" /\ proc'[j] = "write"
      /\ kind' = kind /\ at' = at /\ stage' = stage /\ inp' = inp /\ eof' = eof /\ out' = out
      /\ helper' = helper /\ text' = text /\ shown' = shown /\ queue' = queue /\ box' = box /\ qid' = qid
      /\ mem' = mem /\ seg' = seg /\ due' = due /\ right' = right
  BY DEF Think, Ready, Sound, TypeOK, ControlType
<1>2. Carried(j) /\ Course(j) /\ right'[j] /\ stage[j] \in 1..(Stages + 3) /\ Stages \in Nat
  BY <1>1, PipelineConstantsOK DEF Ready, Sound, TypeOK, ControlType, Carried, PipelineConstants
<1>3. at[j] \in Running
  BY <1>1, <1>2 DEF Ready, Sound, TypeOK, ControlType, Course, Idle, Running, Over, Places
<1>9. kind[j] \notin {"none", "pipe"} /\ ~Terminal(j) => out'[j] \o rest'[j] = wrote'[j] /\ Len(wrote'[j]) <= Taken(j)
  <2>1. PICK n \in Lengths : /\ Fits(j, n)
                             /\ rest'[j] = Output(j, n) /\ wrote'[j] = Output(j, n)
    BY DEF Think, Habits, Ready, Sound, TypeOK, TextType, Texts
  <2>2. n \in Nat /\ Output(j, n) \in Seq(Units) /\ Len(Output(j, n)) = n
    BY OutputType, PipelineConstantsOK DEF PipelineConstants, Ready, Sound, Output
  <2>3. <<>> \o Output(j, n) = Output(j, n)
    BY <2>2, ConcatEmptySeq
  <2>4. kind[j] \notin {"none", "pipe"} /\ ~Terminal(j) => n <= Taken(j)
    BY <2>1, <2>2, PipelineConstantsOK DEF Fits, Taken, PipelineConstants
  <2>5. kind[j] \notin {"none", "pipe"} => out[j] = <<>>
    BY <1>1, <1>2 DEF Carried, Written
  <2> QED BY <1>1, <2>1, <2>2, <2>3, <2>4, <2>5
<1>4. kind'[j] \notin {"none", "pipe"} => Written(j)'
  BY <1>1, <1>2, <1>3, <1>9 DEF Carried, Written, Over, Terminal, Taken, Course, Idle, Running
<1>5. kind'[j] = "shm" => ByMemory(j)'
  BY <1>1, <1>2, <1>3, <1>9 DEF Carried, ByMemory, Course, Idle, Running
<1>6. kind'[j] = "queue" => ByQueue(j)'
  BY <1>1, <1>2, <1>3, <1>9 DEF Carried, ByQueue, Live, Course, Idle, Running
<1>7. kind'[j] = "fanout" => ByTwoPipes(j)'
  BY <1>1, <1>2, <1>3, <1>9 DEF Carried, ByTwoPipes, Live, Course, Idle, Running, Last
<1>8. kind'[j] = "cluster" => ByHelper(j)'
  BY <1>1, <1>2, <1>3, <1>9 DEF Carried, ByHelper, Course, Idle, Running
<1> QED BY <1>1, <1>2, <1>4, <1>5, <1>6, <1>7, <1>8, <1>3 DEF Carried, Over, Running

LEMMA CarriedWrite ==
    ASSUME Ready, NEW j \in Jobs, Write(j)
    PROVE  Carried(j)'
<1> USE DEF Set, Goes, user, control, process, pipes, buffers, queues, shared, ghosts
<1>1. /\ proc[j] = "write" /\ (Terminal(j) => out' = out)
      /\ kind' = kind /\ at' = at /\ stage' = stage /\ proc' = proc /\ inp' = inp /\ eof' = eof
      /\ helper' = helper /\ text' = text /\ queue' = queue /\ box' = box /\ qid' = qid /\ mem' = mem
      /\ seg' = seg /\ due' = due /\ wrote' = wrote /\ right' = right
  BY DEF Write
<1>2. Carried(j) /\ Course(j) /\ right'[j] /\ stage[j] \in 1..(Stages + 3) /\ Stages \in Nat
  BY <1>1, PipelineConstantsOK DEF Ready, Sound, TypeOK, ControlType, Carried, PipelineConstants
<1>3. at[j] \in Running
  BY <1>1, <1>2 DEF Ready, Sound, TypeOK, ControlType, Course, Idle, Running, Over, Places
<1>9. ~Terminal(j) => out'[j] \o rest'[j] = out[j] \o rest[j]
  BY WritingKeeps DEF Ready
<1>4. kind'[j] \notin {"none", "pipe"} => Written(j)'
  BY <1>1, <1>2, <1>3, <1>9 DEF Carried, Written, Over, Terminal, Taken, Course, Idle, Running
<1>5. kind'[j] = "shm" => ByMemory(j)'
  BY <1>1, <1>2, <1>3, <1>9 DEF Carried, ByMemory, Course, Idle, Running
<1>6. kind'[j] = "queue" => ByQueue(j)'
  BY <1>1, <1>2, <1>3, <1>9 DEF Carried, ByQueue, Live, Course, Idle, Running
<1>7. kind'[j] = "fanout" => ByTwoPipes(j)'
  BY <1>1, <1>2, <1>3, <1>9 DEF Carried, ByTwoPipes, Live, Course, Idle, Running, Last
<1>8. kind'[j] = "cluster" => ByHelper(j)'
  BY <1>1, <1>2, <1>3, <1>9 DEF Carried, ByHelper, Course, Idle, Running
<1> QED BY <1>1, <1>2, <1>4, <1>5, <1>6, <1>7, <1>8, <1>3 DEF Carried, Over, Running

LEMMA CarriedEnd ==
    ASSUME Ready, NEW j \in Jobs, End(j)
    PROVE  Carried(j)'
<1> USE DEF Set, Goes, user, control, process, pipes, buffers, queues, shared, ghosts
<1>1. /\ proc[j] = "write" /\ rest[j] = <<>> /\ proc'[j] = "ended"
      /\ kind' = kind /\ at' = at /\ stage' = stage /\ rest' = rest /\ inp' = inp /\ eof' = eof
      /\ out' = out /\ helper' = helper /\ text' = text /\ shown' = shown /\ queue' = queue /\ box' = box
      /\ qid' = qid /\ mem' = mem /\ seg' = seg /\ due' = due /\ wrote' = wrote /\ right' = right
  BY DEF End, Ready, Sound, TypeOK, ControlType
<1>2. Carried(j) /\ Course(j) /\ right'[j] /\ stage[j] \in 1..(Stages + 3) /\ Stages \in Nat
  BY <1>1, PipelineConstantsOK DEF Ready, Sound, TypeOK, ControlType, Carried, PipelineConstants
<1>3. at[j] \in Running
  BY <1>1, <1>2 DEF Ready, Sound, TypeOK, ControlType, Course, Idle, Running, Over, Places
<1>4. kind'[j] \notin {"none", "pipe"} => Written(j)'
  BY <1>1, <1>2, <1>3 DEF Carried, Written, Over, Terminal, Taken, Course, Idle, Running
<1>5. kind'[j] = "shm" => ByMemory(j)'
  BY <1>1, <1>2, <1>3 DEF Carried, ByMemory, Course, Idle, Running
<1>6. kind'[j] = "queue" => ByQueue(j)'
  BY <1>1, <1>2, <1>3 DEF Carried, ByQueue, Live, Course, Idle, Running
<1>7. kind'[j] = "fanout" => ByTwoPipes(j)'
  BY <1>1, <1>2, <1>3 DEF Carried, ByTwoPipes, Live, Course, Idle, Running, Last
<1>8. kind'[j] = "cluster" => ByHelper(j)'
  BY <1>1, <1>2, <1>3 DEF Carried, ByHelper, Course, Idle, Running
<1> QED BY <1>1, <1>2, <1>4, <1>5, <1>6, <1>7, <1>8, <1>3 DEF Carried, Over, Running

LEMMA CarriedHelp ==
    ASSUME Ready, NEW j \in Jobs, Help(j)
    PROVE  Carried(j)'
<1> USE DEF Set, Goes, user, control, process, pipes, buffers, queues, shared, ghosts
<1>1. /\ helper[j] = "read" /\ helper'[j] = "ended" /\ kind[j] = "cluster" /\ at[j] = "wait"
      /\ kind' = kind /\ at' = at /\ stage' = stage /\ proc' = proc /\ rest' = rest /\ text' = text
      /\ shown' = shown /\ queue' = queue /\ box' = box /\ qid' = qid /\ mem' = mem /\ seg' = seg
      /\ due' = due /\ wrote' = wrote /\ right' = right
      /\ inp'[j] = First(out[j], MaxSize) /\ eof'[j] /\ out'[j] = Rest(out[j], MaxSize)
  BY DEF Help, Course, Ready, Sound, TypeOK, ControlType, TextType, Texts
<1>2. Carried(j) /\ Course(j) /\ right'[j] /\ stage[j] \in 1..(Stages + 3) /\ Stages \in Nat
  BY <1>1, PipelineConstantsOK DEF Ready, Sound, TypeOK, ControlType, Carried, PipelineConstants
<1>3. proc[j] = "read" /\ out[j] = due[j] /\ Len(out[j]) <= Taken(j) /\ Taken(j) = MaxSize
  BY <1>1, <1>2 DEF Carried, ByHelper, Taken
<1>9. inp'[j] = due[j] /\ out'[j] = <<>>
  BY <1>1, <1>3, TakesAll
<1>4. kind'[j] \notin {"none", "pipe"} => Written(j)'
  BY <1>1, <1>2, <1>3, <1>9 DEF Carried, Written, Over, Terminal, Taken, Course, Idle, Running
<1>5. kind'[j] = "shm" => ByMemory(j)'
  BY <1>1, <1>2 DEF Carried, ByMemory, Course, Idle, Running
<1>6. kind'[j] = "queue" => ByQueue(j)'
  BY <1>1, <1>2 DEF Carried, ByQueue, Live, Course, Idle, Running
<1>7. kind'[j] = "fanout" => ByTwoPipes(j)'
  BY <1>1, <1>2 DEF Carried, ByTwoPipes, Live, Course, Idle, Running, Last
<1>8. kind'[j] = "cluster" => ByHelper(j)'
  BY <1>1, <1>2, <1>3, <1>9 DEF Carried, ByHelper, Course, Idle, Running
<1> QED BY <1>1, <1>2, <1>4, <1>5, <1>6, <1>7, <1>8 DEF Carried, Over

LEMMA CarriedKept ==
    ASSUME Ready, NEW j \in Jobs,
           \/ \E k \in Programs[program], back \in BOOLEAN : Type(j, k, back)
           \/ Reap(j) \/ Works(j) \/ Runs(j) \/ Help(j)
    PROVE  Carried(j)'
<1>1. ASSUME NEW k \in Programs[program], NEW back \in BOOLEAN, Type(j, k, back) PROVE Carried(j)'
  <2>1. /\ kind[j] = "none" /\ kind'[j] # "none" /\ at'[j] = "begin"
        /\ UNCHANGED <<stage, proc, helper, out, right>>
    BY <1>1 DEF Type, Free, Set, Programs, process, pipes, buffers, ghosts, Ready, Sound, TypeOK, ControlType
  <2> QED BY <2>1, CarriedType
<1> QED BY <1>1, CarriedReap, CarriedBegin, CarriedPrepare, CarriedFork, CarriedClose, CarriedFeed, CarriedUnlink,
           CarriedWait, CarriedCollect, CarriedShow, CarriedRemove, CarriedHear, CarriedThink, CarriedWrite,
           CarriedEnd, CarriedHelp DEF Works, Runs

\* Those who are not busy have nothing that another could disturb.
LEMMA CarriedAtRest ==
    ASSUME Ready, NEW i \in Jobs, NEW j \in Jobs \ {i}, Others(j), ~Busy(i)
    PROVE  Carried(i)'
<1>1. Carried(i) /\ Course(i)
  BY DEF Ready, Sound
<1>2. kind[i] \notin {"none", "pipe"} => proc[i] = "none" /\ helper[i] = "none" /\ at[i] = "gone"
  BY <1>1 DEF Carried, Written, Over, Course, Busy
<1> QED BY <1>1, <1>2 DEF Others, Carried, Written, ByMemory, ByQueue, ByTwoPipes, ByHelper, Live, Over

\* Only a job that has begun does anything, and only when no other has.
LEMMA OthersAtRest ==
    ASSUME Ready, NEW i \in Jobs, NEW j \in Jobs \ {i},
           \/ \E k \in Programs[program], back \in BOOLEAN : Type(j, k, back)
           \/ Reap(j) \/ Works(j) \/ Runs(j) \/ Help(j)
    PROVE  ~Busy(i)
<1> USE DEF Ready, Sound, TypeOK, ControlType, Course, Idle, Running, Alone, Busy, Goes
<1>1. CASE \E k \in Programs[program], back \in BOOLEAN : Type(j, k, back)
  BY <1>1 DEF Type
<1>2. CASE Reap(j)
  BY <1>2 DEF Reap
<1>3. CASE Works(j)
  BY <1>3 DEF Works, Begin, Prepare, Fork, Close, Feed, Unlink, Open, Wait, Collect, Show, Remove, Advance
<1>4. CASE Runs(j) \/ Help(j)
  <2>1. proc[j] \notin {"none", "ended"} \/ helper[j] # "none"
    BY <1>4 DEF Runs, Hear, Think, Write, End, Help
  <2> QED BY <2>1 DEF Over, NoneLost
<1> QED BY <1>1, <1>2, <1>3, <1>4

LEMMA ReadyKept ==
    ASSUME Ready, [Next]_vars
    PROVE  Ready'
<1>1. Sound' /\ Owned' /\ NoQueue' /\ Alone' /\ NoneLost'
  BY NextSound, OwnedKept, NoQueueKept, AloneKept, NoneLostKept DEF Ready, Habits
<1>2. avoids' = avoids
  BY AvoidsKept
<1>3. CASE UNCHANGED vars
  <2>1. ASSUME NEW i \in Jobs PROVE Flow(i)' /\ Carried(i)'
    <3>1. Flow(i) /\ Carried(i)
      BY DEF Ready
    <3> USE <1>3 DEF vars, control, process, pipes, buffers, queues, shared, ghosts, Over
    <3>2. Flow(i)'
      BY <3>1 DEF Flow
    <3>3. Carried(i)'
      <4>1. (Written(i) => Written(i)') /\ (ByMemory(i) => ByMemory(i)') /\ (ByQueue(i) => ByQueue(i)')
        BY DEF Written, ByMemory, ByQueue, Live, Taken, Terminal
      <4>2. (ByTwoPipes(i) => ByTwoPipes(i)') /\ (ByHelper(i) => ByHelper(i)')
        BY DEF ByTwoPipes, ByHelper, Live
      <4> QED BY <3>1, <4>1, <4>2 DEF Carried, Displayed
    <3> QED BY <3>2, <3>3
  <2> QED BY <1>1, <1>2, <2>1 DEF Ready
<1>4. ASSUME NEW j \in Jobs,
             \/ \E k \in Programs[program], back \in BOOLEAN : Type(j, k, back)
             \/ Reap(j) \/ Works(j) \/ Runs(j) \/ Help(j)
      PROVE  Ready'
  <2>1. Flow(j)' /\ Carried(j)'
    BY <1>4, FlowKept, CarriedKept DEF Ready
  <2>2. ASSUME NEW i \in Jobs \ {j} PROVE Flow(i)' /\ Carried(i)'
    <3>1. Others(j) /\ ~Busy(i)
      BY <1>4, OfOne, OthersAtRest DEF Ready
    <3>2. Flow(i)'
      <4>1. Flow(i)
        BY DEF Ready
      <4> QED BY <3>1, <4>1 DEF Others, Flow, Over
    <3> QED BY <3>1, <3>2, CarriedAtRest
  <2> QED BY <1>1, <1>2, <2>1, <2>2 DEF Ready
<1> QED BY <1>3, <1>4, ReadySteps

LEMMA InitReady ==
    ASSUME Init, avoids = Habits
    PROVE  Ready
<1>1. Sound
  BY InitSound
<1>2. Owned /\ NoQueue /\ Alone /\ NoneLost
  BY DEF Init, NoneLost, Owned, Listens, QueueOwned, NameOwned, NoQueue, Alone, Busy
<1>3. \A j \in Jobs : Flow(j) /\ Carried(j)
  BY DEF Init, Flow, Carried, Over
<1> QED BY <1>1, <1>2, <1>3 DEF Ready

\* A user who types existing commands and starts no line in the background, and
\* whose stages read their input and write neither nothing nor too much, gets
\* from |, S, # and ##, and from a pipeline of the cluster shell, what they
\* promise: each stage reads just what the one before wrote, as its sign hands it
\* on, the terminal shows the text of the last, and the prompt is not back before.
THEOREM PipelinesCompose == Spec => []Composes
<1> DEFINE Inv == avoids = Habits => Ready
<1>1. Init => Inv
  BY InitReady
<1>2. Inv /\ [Next]_vars => Inv'
  BY AvoidsKept, ReadyKept
<1>3. Inv => Composes
  BY DEF Ready, Alone, Busy, Carried, Composes, Kinds, Sound, TypeOK, ControlType, Course, Over
<1> QED BY <1>1, <1>2, <1>3, PTL DEF Spec

=============================================================================
