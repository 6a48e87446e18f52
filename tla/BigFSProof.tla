----------------------------- MODULE BigFSProof -----------------------------
(***************************************************************************)
(* Theorems about BigFS, for every value of the constants: the types, the  *)
(* names in the directory, and the two conversations of the client, with   *)
(* the data servers and, up to the command that breaks it off, with the    *)
(* name server, whatever the user types.                                   *)
(***************************************************************************)
EXTENDS BigFS, SequenceTheorems, FiniteSetTheorems, TLAPS

-----------------------------------------------------------------------------
(* Strings, blocks and messages have the types their names say.            *)

LEMMA NumeralType == ASSUME NEW i \in Nat PROVE <<Num(i)>> \in String
BY DEF Num, String, Token

LEMMA WordType == ASSUME NEW w \in Words PROVE Word(w) \in String
BY DEF Word, String, Token

LEMMA EmptyString == <<>> \in String
BY DEF String

LEMMA ChunkPathType ==
    ASSUME NEW loc \in String, NEW i \in Nat
    PROVE  ChunkPath(loc, i) \in String
<1>1. Num(i) \in Token BY DEF Num, Token
<1> QED BY <1>1, AppendProperties DEF ChunkPath, String

LEMMA VariantType ==
    ASSUME NEW loc \in String, NEW i \in Nat
    PROVE  Variant(loc, i) \in String
<1>1. Dup(i) \in Token BY DEF Dup, Token
<1> QED BY <1>1, AppendProperties DEF Variant, String

LEMMA AtoiType == ASSUME NEW str \in String PROVE Atoi(str) \in Nat
BY DEF Atoi, String, Token

LEMMA EmptyType == Empty \in Block
BY DEF Empty, Block

LEMMA ServerType ==
    ASSUME NEW i \in Nat PROVE Server(i) \in Servers /\ Count(i) \in Nat
BY BigFSConstants DEF Server, Servers, Count, ConstantsOK

LEMMA PutRequestType ==
    ASSUME NEW loc \in String, NEW i \in Nat, NEW b \in Block
    PROVE  PutRequest(loc, i, b) \in Request
BY EmptyString, ServerType DEF PutRequest, Request

LEMMA ChunkRequestType ==
    ASSUME NEW op \in {"cat", "rm", "cp"}, NEW loc \in String, NEW i \in Nat,
           NEW to \in String
    PROVE  ChunkRequest(op, loc, i, to) \in Request
BY EmptyType DEF ChunkRequest, Request

LEMMA AnswerTypes ==
    /\ \A p \in String : Located(p) \in Answer
    /\ \A b \in Block : Segment(b) \in Answer
    /\ EndOfChunk \in Answer
BY EmptyString, EmptyType DEF Located, Segment, EndOfChunk, Answer

LEMMA IdleType == Idle \in Job
BY EmptyString DEF Idle, Job

LEMMA DeliveredType == ASSUME NEW j \in Job PROVE Delivered(j) \in Delivery
BY DEF Job, Delivered, Delivery

\* The two commands that fetch a file, by the word they send.
Fetch(op, n) == (op = "cat" /\ StartCat(n)) \/ (op = "frombigfs" /\ StartGet(n))

LEMMA FetchWords ==
    ASSUME NEW n
    PROVE  (StartCat(n) => Fetch("cat", n)) /\ (StartGet(n) => Fetch("frombigfs", n))
BY DEF Fetch

LEMMA NoNodeType == NoNode \in Node
BY EmptyString DEF NoNode, Node

LEMMA LocalTextType ==
    ASSUME NEW u \in Nat, NEW n \in Nat, NEW t
    PROVE  LocalText(u, n, t) \in Seq(Block)
<1>1. \A k \in 1..n : (IF k = n /\ t THEN Empty ELSE <<u, k>>) \in Block
  BY DEF Empty, Block
<1> QED BY <1>1 DEF LocalText

-----------------------------------------------------------------------------
(* What sending and receiving do to the types of the wires.                *)

LEMMA StringsOnWire ==
    /\ \A s, t \in Seq(String) : s \o t \in Seq(String)
    /\ \A s \in Seq(String) : s # <<>> =>
            Head(s) \in String /\ Tail(s) \in Seq(String)
    /\ \A s \in Seq(String) : \A k \in 1..Len(s) : s[k] \in String
    /\ \A s \in Seq(String), k \in Nat :
            SubSeq(s, k + 1, Len(s)) \in Seq(String)
<1>1. ASSUME NEW s \in Seq(String), NEW k \in Nat
      PROVE  SubSeq(s, k + 1, Len(s)) \in Seq(String)
  <2>1. \A i \in (k + 1)..Len(s) : s[i] \in String
    BY LenProperties, ElementOfSeq
  <2> QED BY <2>1, LenProperties, SubSeqProperties
<1> QED BY <1>1, ConcatProperties, HeadTailProperties, ElementOfSeq

LEMMA SendDataType ==
    ASSUME c2d \in [Servers -> Seq(Request)], NEW s \in Servers,
           NEW req \in Request, SendData(s, req)
    PROVE  c2d' \in [Servers -> Seq(Request)]
<1>1. Append(c2d[s], req) \in Seq(Request) BY AppendProperties
<1> QED BY <1>1 DEF SendData

LEMMA ReadAnswerType ==
    ASSUME d2c \in [Servers -> Seq(Answer)], NEW s \in Servers, d2c[s] # <<>>
    PROVE  /\ Head(d2c[s]) \in Answer
           /\ [d2c EXCEPT ![s] = Tail(@)] \in [Servers -> Seq(Answer)]
<1>1. d2c[s] \in Seq(Answer) OBVIOUS
<1>2. Head(d2c[s]) \in Answer /\ Tail(d2c[s]) \in Seq(Answer)
  BY <1>1, HeadTailProperties
<1> QED BY <1>2

LEMMA ReadRequestType ==
    ASSUME c2d \in [Servers -> Seq(Request)], NEW s \in Servers, NEW op,
           Requested(s, op)
    PROVE  /\ Head(c2d[s]) \in Request
           /\ c2d' \in [Servers -> Seq(Request)]
<1>1. c2d[s] \in Seq(Request) /\ c2d[s] # <<>> BY DEF Requested
<1>2. Head(c2d[s]) \in Request /\ Tail(c2d[s]) \in Seq(Request)
  BY <1>1, HeadTailProperties
<1> QED BY <1>2 DEF Requested

LEMMA AnswersType ==
    ASSUME d2c \in [Servers -> Seq(Answer)], NEW s \in Servers,
           NEW strings \in Seq(Answer), Answers(s, strings)
    PROVE  d2c' \in [Servers -> Seq(Answer)]
<1>1. d2c[s] \o strings \in Seq(Answer) BY ConcatProperties
<1> QED BY <1>1 DEF Answers

\* Data directories stay functions from strings to blocks.
LEMMA PutType ==
    ASSUME NEW d, Directory(d), NEW p \in String, NEW b \in Block
    PROVE  Directory(Put(d, p, b))
BY DEF Put, Directory

LEMMA DropType == ASSUME NEW d, Directory(d), NEW S PROVE Directory(Drop(d, S))
BY DEF Drop, Directory

-----------------------------------------------------------------------------
(* Type correctness: Spec => []TypeOK.                                     *)

LEMMA KeptType ==
    ASSUME NEW s \in Servers, NEW loc \in String, NEW text \in Seq(Block)
    PROVE  \A x \in Kept(s, loc, text) : x[1] \in String /\ x[2] \in Block
<1>1. \A i \in 0..(Len(text) - 1) :
         ChunkPath(loc, i) \in String /\ text[i + 1] \in Block
  BY ChunkPathType, LenProperties, ElementOfSeq
<1> QED BY <1>1, EmptyType DEF Kept

LEMMA InitType == Init => TypeOK
<1> SUFFICES ASSUME Init PROVE TypeOK OBVIOUS
<1> USE DEF Init
<1>1. ClientType
  BY IdleType, DeliveredType, BigFSConstants DEF ClientType, ConstantsOK
<1>2. NameType
  BY NoNodeType DEF NameType
<1>3. WireType
  BY DEF WireType
<1>4. DataType
  <2>1. ASSUME NEW s \in Servers PROVE Directory(disk[s])
    <3>1. \A x \in OldPairs(s) : x[1] \in String /\ x[2] \in Block
      BY KeptType, BigFSConstants DEF OldPairs, ConstantsOK
    <3>2. ASSUME NEW p \in {x[1] : x \in OldPairs(s)}
          PROVE  (CHOOSE x \in OldPairs(s) : x[1] = p)[2] \in Block
      BY <3>1
    <3> QED BY <3>1, <3>2 DEF Directory
  <2> QED BY <2>1 DEF DataType
<1> QED BY <1>1, <1>2, <1>3, <1>4 DEF TypeOK

LEMMA StartTypes ==
    ASSUME TypeOK, User PROVE TypeOK'
<1>1. NameType' /\ DataType'
  BY DEF TypeOK, User, StartPut, StartCat, StartGet, StartRm, StartCp, StartMv,
         nameVars, dataVars, NameType, DataType
<1>2. \A n \in Names : n \in String
  BY BigFSConstants DEF ConstantsOK
<1>3. \A text \in Texts : text \in Seq(Block)
  <2>1. writes + 1 \in Nat /\ \A n \in 1..MaxChunks : n \in Nat
    BY BigFSConstants DEF TypeOK, ClientType, ConstantsOK
  <2>2. \A n \in 1..MaxChunks, t \in Tails :
            LocalText(writes + 1, n, t) \in Seq(Block)
    BY <2>1, LocalTextType
  <2>3. <<>> \in Seq(Block)
    OBVIOUS
  <2>4. ASSUME NEW text \in Texts PROVE text \in Seq(Block)
    <3>1. CASE text \in {LocalText(writes + 1, n, t) :
                            n \in 1..MaxChunks, t \in Tails}
      <4>1. PICK n \in 1..MaxChunks, t \in Tails :
                text = LocalText(writes + 1, n, t)
        BY <3>1
      <4>2. LocalText(writes + 1, n, t) \in Seq(Block)
        BY <2>2
      <4> QED BY <4>1, <4>2
    <3>2. text \in {LocalText(writes + 1, n, t) :
                      n \in 1..MaxChunks, t \in Tails} \/ text = <<>>
      BY <2>4 DEF Texts
    <3>3. CASE text = <<>>
      BY <3>3, <2>3
    <3> QED BY <3>1, <3>2, <3>3
  <2> QED BY <2>4
<1>w. writes < MaxWrites => writes + 1 \in 0..MaxWrites
  BY BigFSConstants DEF TypeOK, ClientType, ConstantsOK
<1>5. CASE \E n \in Names, text \in Texts : StartPut(n, text)
  <2> PICK n \in Names, text \in Texts : StartPut(n, text) BY <1>5
  <2>1. ClientType'
    BY <1>2, <1>3, <1>w, IdleType
       DEF StartPut, Await, ClientType, TypeOK, Job
  <2>2. WireType'
    BY <1>2, WordType, StringsOnWire
       DEF StartPut, SendName, WireType, TypeOK, Words
  <2> QED BY <1>1, <2>1, <2>2 DEF TypeOK
<1>6. CASE \E n \in Names : StartCat(n) \/ StartGet(n)
  <2> PICK n \in Names : StartCat(n) \/ StartGet(n) BY <1>6
  <2>1. ClientType'
    <3>1. [Idle EXCEPT !.name = n] \in Job /\ [Idle EXCEPT !.name = n, !.nul = 1] \in Job
      BY <1>2, IdleType DEF Job
    <3> QED BY <3>1 DEF StartCat, StartGet, Await, ClientType, TypeOK
  <2>2. WireType'
    <3>1. PICK w \in Words : SendName(<<Word(w), n>>) /\ UNCHANGED <<n2c, c2d, d2c>>
      BY DEF StartCat, StartGet, Words
    <3> QED BY <1>2, <3>1, WordType, StringsOnWire DEF SendName, WireType, TypeOK
  <2> QED BY <1>1, <2>1, <2>2 DEF TypeOK
<1>7. CASE \E n \in Names : StartRm(n)
  <2> PICK n \in Names : StartRm(n) BY <1>7
  <2>1. ClientType'
    BY <1>2, IdleType DEF StartRm, Await, ClientType, TypeOK, Job
  <2>2. WireType'
    BY <1>2, WordType, StringsOnWire
       DEF StartRm, SendName, WireType, TypeOK, Words
  <2> QED BY <1>1, <2>1, <2>2 DEF TypeOK
<1>8. CASE \E a, b \in Names : StartCp(a, b)
  <2> PICK a \in Names, b \in Names : StartCp(a, b) BY <1>8
  <2>1. ClientType'
    BY <1>2, <1>w, IdleType DEF StartCp, Await, ClientType, TypeOK, Job
  <2>2. WireType'
    BY <1>2, WordType, StringsOnWire
       DEF StartCp, SendName, WireType, TypeOK, Words
  <2> QED BY <1>1, <2>1, <2>2 DEF TypeOK
<1>9. CASE \E a, b \in Names : StartMv(a, b)
  <2> PICK a \in Names, b \in Names : StartMv(a, b) BY <1>9
  <2>1. ClientType'
    BY <1>2, IdleType DEF StartMv, Await, ClientType, TypeOK, Job
  <2>2. WireType'
    BY <1>2, WordType, StringsOnWire
       DEF StartMv, SendName, WireType, TypeOK, Words
  <2> QED BY <1>1, <2>1, <2>2 DEF TypeOK
<1> QED BY <1>5, <1>6, <1>7, <1>8, <1>9 DEF User

LEMMA JobUpdates ==
    ASSUME NEW j \in Job, NEW loc \in String, NEW k \in Nat
    PROVE  [j EXCEPT !.loc = loc, !.i = k] \in Job
BY DEF Job

LEMMA NextChunk ==
    ASSUME NEW j \in Job
    PROVE  [j EXCEPT !.i = @ + 1] \in Job /\ [j EXCEPT !.i = 0] \in Job
BY DEF Job

LEMMA AnswerBack ==
    ASSUME TypeOK, Client
    PROVE  NameType' /\ DataType'
BY DEF TypeOK, Client, PutRefused, PutAccepted, PutLocated, NotFound, Found,
       CatSend, CatData, RmSend, CpAccepted, CpLocated, CpSend,
       MvDoneOrCpRefused, nameVars, dataVars, NameType, DataType

LEMMA ClientPutTypes ==
    ASSUME TypeOK, PutRefused \/ PutAccepted \/ PutLocated
    PROVE  ClientType' /\ WireType'
<1> USE DEF TypeOK, ClientType, WireType
<1>1. CASE PutRefused
  BY <1>1, IdleType, StringsOnWire DEF PutRefused, Prompt
<1>2. CASE PutAccepted
  <2>1. job.text \in Seq(Block) /\ Len(job.text) \in Nat /\ job.name \in String
    BY LenProperties DEF Job
  <2>2. Len(job.text) # 0 /\ job.text[1] \in Block
    BY <1>2, <2>1, EmptySeq, ElementOfSeq DEF PutAccepted
  <2>3. ClientType'
    BY <1>2, <2>1 DEF PutAccepted, Await, Job
  <2>4. c2d' \in [Servers -> Seq(Request)]
    <3>1. PutRequest(job.name, 0, job.text[1]) \in Request
      BY <2>1, <2>2, PutRequestType
    <3> QED BY <1>2, <3>1, ServerType, SendDataType DEF PutAccepted
  <2>5. c2n' \in Seq(String) /\ n2c' \in Seq(String)
    <3>1. << <<Num(Len(job.text))>> >> \in Seq(String)
      BY <2>1, NumeralType
    <3> QED BY <1>2, <3>1, StringsOnWire DEF PutAccepted, SendName
  <2> QED BY <1>2, <2>3, <2>4, <2>5 DEF PutAccepted
<1>3. CASE PutLocated
  <2> DEFINE s    == Server(job.i)
             loc  == IF job.i = 0 THEN Head(d2c[s]).loc ELSE job.loc
             next == job.i + 1
  <2>1. job \in Job /\ job.i \in Nat /\ next \in Nat /\ s \in Servers
    <3>1. job \in Job OBVIOUS
    <3>2. job.i \in Nat BY <3>1 DEF Job
    <3>3. Server(job.i) \in Servers BY <3>2, ServerType
    <3>4. job.i + 1 \in Nat BY <3>2
    <3> QED BY <3>1, <3>2, <3>3, <3>4
  <2>2. Head(d2c[s]) \in Answer /\ d2c' \in [Servers -> Seq(Answer)]
    BY <1>3, <2>1, ReadAnswerType DEF PutLocated
  <2>3. loc \in String
    BY <2>1, <2>2 DEF Answer, Job
  <2>4. (IF job.i = 0 THEN <<loc>> ELSE <<>>) \in Seq(String)
    BY <2>3
  <2> HIDE DEF loc
  <2>5. c2n' \in Seq(String)
    BY <1>3, <2>4, StringsOnWire DEF PutLocated, SendName, loc
  <2>6. CASE next < job.chunks
    <3>1. [job EXCEPT !.loc = loc, !.i = next] \in Job
      BY <2>1, <2>3, JobUpdates
    <3>2. ClientType'
      BY <1>3, <2>6, <3>1 DEF PutLocated, Await, Job, loc
    <3>3. job.text[next + 1] \in Block
      BY <1>3, <2>1, <2>6, ElementOfSeq, LenProperties DEF PutLocated, Job
    <3>4. PutRequest(loc, next, job.text[next + 1]) \in Request
      BY <2>1, <2>3, <3>3, PutRequestType
    <3>5. c2d' \in [Servers -> Seq(Request)]
      BY <1>3, <2>1, <2>6, <3>4, ServerType, SendDataType DEF PutLocated, loc
    <3> QED BY <1>3, <2>2, <2>5, <3>2, <3>5 DEF PutLocated
  <2>7. CASE ~(next < job.chunks)
    BY <1>3, <2>2, <2>5, <2>7, IdleType DEF PutLocated, Prompt
  <2> QED BY <2>6, <2>7
<1> QED BY <1>1, <1>2, <1>3

\* The three strings that answer cat, frombigfs, rm and cp.
LEMMA ThreeStrings ==
    ASSUME TypeOK, Len(n2c) >= 3
    PROVE  /\ n2c[2] \in String /\ Atoi(n2c[3]) \in Nat
           /\ SubSeq(n2c, 4, Len(n2c)) \in Seq(String)
<1>1. Len(n2c) \in Nat /\ n2c \in Seq(String)
  BY LenProperties DEF TypeOK, WireType
<1>2. 2 \in 1..Len(n2c) /\ 3 \in 1..Len(n2c)
  BY <1>1
<1>3. n2c[2] \in String /\ n2c[3] \in String
  BY <1>1, <1>2, StringsOnWire
<1>4. SubSeq(n2c, 3 + 1, Len(n2c)) \in Seq(String)
  BY <1>1, StringsOnWire
<1> QED BY <1>3, <1>4, AtoiType

LEMMA ClientReadTypes ==
    ASSUME TypeOK, NotFound \/ Found \/ CatSend \/ CatData \/ RmSend
    PROVE  ClientType' /\ WireType'
<1> USE DEF TypeOK, ClientType, WireType
<1>0. /\ job \in Job /\ job.i \in Nat /\ job.i + 1 \in Nat
      /\ job.loc \in String /\ job.name \in String /\ job.got \in Seq(Block)
      /\ Server(job.i) \in Servers
  <2>1. job \in Job OBVIOUS
  <2>2. job.i \in Nat /\ job.loc \in String /\ job.name \in String
        /\ job.got \in Seq(Block)
    BY <2>1 DEF Job
  <2>3. Server(job.i) \in Servers BY <2>2, ServerType
  <2> QED BY <2>1, <2>2, <2>3
<1>1. CASE NotFound
  BY <1>1, IdleType, StringsOnWire DEF NotFound, Prompt
<1>2. CASE Found
  <2>1. Len(n2c) >= 3 BY <1>2 DEF Found
  <2>2. /\ n2c[2] \in String /\ Atoi(n2c[3]) \in Nat
        /\ SubSeq(n2c, 4, Len(n2c)) \in Seq(String)
    BY <2>1, ThreeStrings
  <2>3. job' \in Job
    BY <1>0, <1>2, <2>2, IdleType DEF Found, Prompt, Await, Job
  <2>4. shown' \in Delivery
    BY <1>0, <1>2, DeliveredType DEF Found
  <2> QED BY <1>2, <2>2, <2>3, <2>4 DEF Found, Prompt, Await
<1>3. CASE CatSend
  <2>1. ChunkRequest("cat", job.loc, job.i, <<>>) \in Request
    BY <1>0, ChunkRequestType, EmptyString
  <2>2. c2d' \in [Servers -> Seq(Request)]
    BY <1>0, <1>3, <2>1, SendDataType DEF CatSend
  <2>3. job' \in Job
    BY <1>0, <1>3, NextChunk DEF CatSend, Await
  <2> QED BY <1>3, <2>2, <2>3 DEF CatSend, Await
<1>4. CASE CatData
  <2> DEFINE s == Server(job.i)
             x == Head(d2c[s])
  <2>1. x \in Answer /\ d2c' \in [Servers -> Seq(Answer)]
    BY <1>0, <1>4, ReadAnswerType DEF CatData
  <2>2. Append(job.got, x.data) \in Seq(Block)
    BY <1>0, <2>1, AppendProperties DEF Answer
  <2> HIDE DEF x
  <2>3. job' \in Job
    <3>1. [job EXCEPT !.got = Append(@, x.data)] \in Job
      BY <1>0, <2>2 DEF Job
    <3>2. [job EXCEPT !.i = @ + 1] \in Job
      BY <1>0 DEF Job
    <3>3. \/ job' = [job EXCEPT !.got = Append(@, x.data)]
          \/ job' = [job EXCEPT !.i = @ + 1]
          \/ job' = Idle
      BY <1>4 DEF CatData, Await, Prompt, x
    <3> QED BY <3>1, <3>2, <3>3, IdleType
  <2>4. shown' \in Delivery
    BY <1>0, <1>4, DeliveredType DEF CatData
  <2> QED BY <1>4, <2>1, <2>3, <2>4 DEF CatData, Await, Prompt
<1>5. CASE RmSend
  <2>1. ChunkRequest("rm", job.loc, job.i, <<>>) \in Request
    BY <1>0, ChunkRequestType, EmptyString
  <2>2. c2d' \in [Servers -> Seq(Request)]
    BY <1>0, <1>5, <2>1, SendDataType DEF RmSend
  <2>3. job' \in Job
    BY <1>0, <1>5, NextChunk, IdleType DEF RmSend, Await, Prompt
  <2> QED BY <1>5, <2>2, <2>3 DEF RmSend, Await, Prompt
<1> QED BY <1>1, <1>2, <1>3, <1>4, <1>5

LEMMA ClientCopyTypes ==
    ASSUME TypeOK, CpAccepted \/ CpLocated \/ CpSend \/ MvDoneOrCpRefused
    PROVE  ClientType' /\ WireType'
<1> USE DEF TypeOK, ClientType, WireType
<1>0. /\ job \in Job /\ job.i \in Nat /\ job.i + 1 \in Nat
      /\ job.loc \in String /\ job.to \in String
      /\ Server(job.i) \in Servers /\ Server(0) \in Servers
  <2>1. job \in Job OBVIOUS
  <2>2. job.i \in Nat /\ job.loc \in String /\ job.to \in String
    BY <2>1 DEF Job
  <2>3. Server(job.i) \in Servers /\ Server(0) \in Servers
    BY <2>2, ServerType
  <2> QED BY <2>1, <2>2, <2>3
<1>1. CASE CpAccepted
  <2>1. Len(n2c) >= 3 BY <1>1 DEF CpAccepted
  <2>2. /\ n2c[2] \in String /\ Atoi(n2c[3]) \in Nat
        /\ SubSeq(n2c, 4, Len(n2c)) \in Seq(String)
    BY <2>1, ThreeStrings
  <2>3. job' \in Job
    BY <1>0, <1>1, <2>2, IdleType DEF CpAccepted, Prompt, Await, Job
  <2>4. c2d' \in [Servers -> Seq(Request)]
    <3>1. ChunkRequest("cp", n2c[2], 0, <<>>) \in Request
      BY <2>2, ChunkRequestType, EmptyString
    <3> QED BY <1>0, <1>1, <3>1, SendDataType DEF CpAccepted
  <2> QED BY <1>1, <2>2, <2>3, <2>4 DEF CpAccepted, Prompt, Await
<1>2. CASE CpLocated
  <2> DEFINE loca == Head(d2c[Server(0)]).loc
  <2>1. loca \in String /\ d2c' \in [Servers -> Seq(Answer)]
    BY <1>0, <1>2, ReadAnswerType DEF CpLocated, Answer
  <2> HIDE DEF loca
  <2>2. c2n' \in Seq(String)
    BY <1>2, <2>1, StringsOnWire DEF CpLocated, SendName, loca
  <2>3. job' \in Job
    <3>1. [job EXCEPT !.to = loca, !.i = 1] \in Job
      BY <1>0, <2>1 DEF Job
    <3> QED BY <1>2, <3>1, IdleType DEF CpLocated, Await, Prompt, loca
  <2> QED BY <1>2, <2>1, <2>2, <2>3 DEF CpLocated, Await, Prompt
<1>3. CASE CpSend
  <2>1. ChunkRequest("cp", job.loc, job.i, job.to) \in Request
    BY <1>0, ChunkRequestType
  <2>2. c2d' \in [Servers -> Seq(Request)]
    BY <1>0, <1>3, <2>1, SendDataType DEF CpSend
  <2>3. job' \in Job
    BY <1>0, <1>3, NextChunk, IdleType DEF CpSend, Await, Prompt
  <2> QED BY <1>3, <2>2, <2>3 DEF CpSend, Await, Prompt
<1>4. CASE MvDoneOrCpRefused
  BY <1>4, IdleType, StringsOnWire DEF MvDoneOrCpRefused, Prompt
<1> QED BY <1>1, <1>2, <1>3, <1>4

\* The name server: what it reads, what it replies, what it links.
LEMMA TakesType ==
    ASSUME TypeOK, NEW word, NEW k \in Nat, Takes(word, k)
    PROVE  c2n' \in Seq(String) /\ \A i \in 1..k : c2n[i] \in String
<1>1. Len(c2n) \in Nat /\ c2n \in Seq(String)
  BY LenProperties DEF TypeOK, WireType
<1>2. \A i \in 1..k : i \in 1..Len(c2n)
  BY <1>1 DEF Takes
<1> QED BY <1>1, <1>2, StringsOnWire DEF Takes

LEMMA ReplyType ==
    ASSUME TypeOK, NEW strings \in Seq(String), Reply(strings)
    PROVE  n2c' \in Seq(String)
BY StringsOnWire DEF TypeOK, WireType, Reply

LEMMA NodeTypes ==
    ASSUME TypeOK, NEW k \in DOMAIN dir
    PROVE  /\ k \in 1..Len(dir) /\ Len(dir) \in Nat
           /\ dir[k] \in Node
           /\ << <<Num(1)>>, dir[k].loc, <<Num(dir[k].chunks)>> >> \in Seq(String)
           /\ << <<Num(0)>>, dir[k].loc, <<Num(dir[k].chunks)>> >> \in Seq(String)
<1>1. dir \in Seq(Node) /\ k \in 1..Len(dir) /\ Len(dir) \in Nat
  BY LenProperties DEF TypeOK, NameType
<1>2. dir[k] \in Node
  BY <1>1, ElementOfSeq
<1>3. dir[k].loc \in String /\ dir[k].chunks \in Nat
  BY <1>2 DEF Node
<1> QED BY <1>1, <1>2, <1>3, NumeralType

LEMMA UnlinkType ==
    ASSUME TypeOK, NEW k \in DOMAIN dir
    PROVE  /\ Unlink(k) \in Seq(Node)
           /\ Len(Unlink(k)) = Len(dir) - 1
           /\ \A i \in 1..(Len(dir) - 1) :
                Unlink(k)[i] = IF i < k THEN dir[i] ELSE dir[i + 1]
<1>1. dir \in Seq(Node) /\ k \in 1..Len(dir) /\ Len(dir) \in Nat
      /\ \A i \in 1..Len(dir) : dir[i] \in Node
  BY LenProperties, ElementOfSeq DEF TypeOK, NameType
<1> DEFINE a == SubSeq(dir, 1, k - 1)
           b == SubSeq(dir, k + 1, Len(dir))
<1>2. /\ a \in Seq(Node) /\ Len(a) = k - 1
      /\ \A i \in 1..(k - 1) : a[i] = dir[i]
  <2>1. \A i \in 1..(k - 1) : dir[i] \in Node BY <1>1
  <2> QED BY <1>1, <2>1, SubSeqProperties
<1>3. /\ b \in Seq(Node) /\ Len(b) = Len(dir) - k
      /\ \A i \in 1..(Len(dir) - k) : b[i] = dir[k + i]
  <2>1. \A i \in (k + 1)..Len(dir) : dir[i] \in Node BY <1>1
  <2> QED BY <1>1, <2>1, SubSeqProperties
<1> HIDE DEF a, b
<1>4. /\ a \o b \in Seq(Node) /\ Len(a \o b) = Len(a) + Len(b)
      /\ \A i \in 1..(Len(a) + Len(b)) :
            (a \o b)[i] = IF i <= Len(a) THEN a[i] ELSE b[i - Len(a)]
  BY <1>2, <1>3, ConcatProperties
<1>5. ASSUME NEW i \in 1..(Len(dir) - 1)
      PROVE  (a \o b)[i] = IF i < k THEN dir[i] ELSE dir[i + 1]
  <2>1. i \in 1..(Len(a) + Len(b)) BY <1>1, <1>2, <1>3, <1>5
  <2>2. CASE i < k
    <3>1. i <= Len(a) /\ a[i] = dir[i] BY <1>1, <1>2, <1>5, <2>2
    <3> QED BY <1>4, <2>1, <2>2, <3>1
  <2>3. CASE ~(i < k)
    <3>1. ~(i <= Len(a)) /\ i - Len(a) \in 1..(Len(dir) - k)
          /\ k + (i - Len(a)) = i + 1
      BY <1>1, <1>2, <1>5, <2>3
    <3> QED BY <1>3, <1>4, <2>1, <2>3, <3>1
  <2> QED BY <2>2, <2>3
<1>6. Len(a \o b) = Len(dir) - 1
  BY <1>1, <1>2, <1>3, <1>4
<1> QED BY <1>4, <1>5, <1>6 DEF Unlink, a, b

LEMMA PartsNode ==
    ASSUME NEW x \in Node, NEW k \in Nat
    PROVE  [x EXCEPT !.chunks = k,
               !.text = IF Len(@) = k THEN @ ELSE <<>>] \in Node
<1>1. (IF Len(x.text) = k THEN x.text ELSE <<>>) \in Seq(Block)
  BY DEF Node
<1> QED BY <1>1 DEF Node

LEMMA NameServerTypes ==
    ASSUME TypeOK, NameServer PROVE TypeOK'
<1>1. ClientType' /\ DataType'
  BY DEF TypeOK, NameServer, NameToBigFS, NameParts, NameLocation, NameCat,
         NameRm, NameCp, NameMv, NameIgnores, clientVars, dataVars,
         ClientType, DataType
<1>2. c2d' \in [Servers -> Seq(Request)] /\ d2c' \in [Servers -> Seq(Answer)]
  BY DEF TypeOK, WireType, NameServer, NameToBigFS, NameParts, NameLocation,
         NameCat, NameRm, NameCp, NameMv, NameIgnores
<1>3. SUFFICES NameType' /\ c2n' \in Seq(String) /\ n2c' \in Seq(String)
  BY <1>1, <1>2 DEF TypeOK, WireType
<1>4. << <<Num(0)>> >> \in Seq(String) /\ << <<Num(1)>> >> \in Seq(String)
  BY NumeralType
<1>5. CASE NameToBigFS
  <2>1. c2n' \in Seq(String) /\ c2n[2] \in String
    BY <1>5, TakesType DEF NameToBigFS
  <2>2. n2c' \in Seq(String)
    BY <1>4, <1>5, ReplyType DEF NameToBigFS
  <2>3. [NoNode EXCEPT !.name = c2n[2], !.text = job.text] \in Node
    BY <2>1, NoNodeType DEF Node, TypeOK, ClientType, Job
  <2> QED BY <1>5, <2>1, <2>2, <2>3 DEF NameToBigFS, NameType, TypeOK, nameVars
<1>6. CASE NameParts
  <2>1. Head(c2n) \in String /\ c2n' \in Seq(String) /\ n2c' \in Seq(String)
    BY <1>6, StringsOnWire DEF NameParts, TypeOK, WireType
  <2> DEFINE parts == Atoi(Head(c2n))
             new   == [nsnew EXCEPT !.chunks = parts,
                         !.text = IF Len(@) = parts THEN @ ELSE <<>>]
  <2>2. parts \in Nat
    BY <2>1, AtoiType
  <2> HIDE DEF parts
  <2>4. new \in Node
    BY <2>2, PartsNode DEF TypeOK, NameType
  <2>5. dir' = Append(dir, new)
    BY <1>6 DEF NameParts, parts
  <2>6. dir' \in Seq(Node)
    BY <2>4, <2>5, AppendProperties DEF TypeOK, NameType
  <2> QED BY <1>6, <2>1, <2>6, NoNodeType DEF NameParts, NameType, TypeOK
<1>7. CASE NameLocation
  <2>1. Head(c2n) \in String /\ c2n' \in Seq(String) /\ n2c' \in Seq(String)
    BY <1>7, StringsOnWire DEF NameLocation, TypeOK, WireType
  <2>2. dir \in Seq(Node) /\ Len(dir) \in Nat /\ DOMAIN dir = 1..Len(dir)
    BY LenProperties DEF TypeOK, NameType
  <2>3. CASE Len(dir) \in 1..Len(dir)
    <3>0. dir[Len(dir)] \in Node
      BY <2>2, <2>3, ElementOfSeq
    <3>1. [dir[Len(dir)] EXCEPT !.loc = Head(c2n)] \in Node
      BY <2>1, <3>0 DEF Node
    <3>2. dir' \in Seq(Node)
      BY <1>7, <2>2, <2>3, <3>1, ExceptSeq DEF NameLocation
    <3> QED BY <1>7, <2>1, <3>2 DEF NameLocation, NameType, TypeOK
  <2>4. CASE Len(dir) \notin 1..Len(dir)
    <3>1. dir' = dir
      BY <1>7, <2>2, <2>4 DEF NameLocation
    <3> QED BY <1>7, <2>1, <2>2, <3>1 DEF NameLocation, NameType, TypeOK
  <2> QED BY <2>3, <2>4
<1>8. CASE NameCat("cat") \/ NameCat("frombigfs")
  <2> PICK op \in {"cat", "frombigfs"} : NameCat(op) BY <1>8
  <2>1. c2n' \in Seq(String)
    BY TakesType DEF NameCat
  <2>2. n2c' \in Seq(String)
    BY <1>4, NodeTypes, ReplyType DEF NameCat
  <2> QED BY <2>1, <2>2 DEF NameCat, NameType, TypeOK
<1>9. CASE NameRm
  <2>1. c2n' \in Seq(String)
    BY <1>9, TakesType DEF NameRm
  <2>2. n2c' \in Seq(String)
    BY <1>4, <1>9, NodeTypes, ReplyType DEF NameRm
  <2>3. dir' \in Seq(Node)
    BY <1>9, UnlinkType DEF NameRm, TypeOK, NameType
  <2> QED BY <1>9, <2>1, <2>2, <2>3 DEF NameRm, NameType, TypeOK
<1>10. CASE NameCp
  <2>1. c2n' \in Seq(String) /\ c2n[3] \in String
    <3>1. Takes("cp", 3) BY <1>10 DEF NameCp
    <3> QED BY <3>1, TakesType
  <2>2. n2c' \in Seq(String)
    BY <1>4, <1>10, NodeTypes, ReplyType DEF NameCp
  <2>3. ASSUME NEW k \in DOMAIN dir
        PROVE  Append([dir EXCEPT ![k].linked = TRUE],
                      [dir[k] EXCEPT !.name = c2n[3], !.loc = <<>>,
                                     !.linked = FALSE]) \in Seq(Node)
    <3>1. dir \in Seq(Node) /\ k \in 1..Len(dir) /\ dir[k] \in Node
      BY NodeTypes, <2>3 DEF TypeOK, NameType
    <3>2. [dir[k] EXCEPT !.linked = TRUE] \in Node
      BY <3>1 DEF Node
    <3>3. [dir EXCEPT ![k].linked = TRUE] \in Seq(Node)
      BY <3>1, <3>2, ExceptSeq
    <3>4. [dir[k] EXCEPT !.name = c2n[3], !.loc = <<>>, !.linked = FALSE]
            \in Node
      BY <2>1, <3>1, EmptyString DEF Node
    <3> QED BY <3>3, <3>4, AppendProperties
  <2>4. dir' \in Seq(Node)
    BY <1>10, <2>3 DEF NameCp, TypeOK, NameType
  <2> QED BY <1>10, <2>1, <2>2, <2>4 DEF NameCp, NameType, TypeOK
<1>11. CASE NameMv
  <2>1. c2n' \in Seq(String) /\ c2n[3] \in String
    BY <1>11, TakesType DEF NameMv
  <2>2. n2c' \in Seq(String)
    BY <1>4, <1>11, ReplyType DEF NameMv, TypeOK, WireType
  <2>3. ASSUME NEW k \in DOMAIN dir
        PROVE  Append(Unlink(k), [dir[k] EXCEPT !.name = c2n[3]]) \in Seq(Node)
    <3>1. [dir[k] EXCEPT !.name = c2n[3]] \in Node
      BY <2>1, <2>3, NodeTypes DEF Node
    <3> QED BY <2>3, <3>1, UnlinkType, AppendProperties
  <2>4. dir' \in Seq(Node)
    BY <1>11, <2>3, UnlinkType DEF NameMv, TypeOK, NameType
  <2> QED BY <1>11, <2>1, <2>2, <2>4 DEF NameMv, NameType, TypeOK
<1>12. CASE NameIgnores
  BY <1>12, StringsOnWire
     DEF NameIgnores, TypeOK, WireType, NameType, nameVars
<1> QED BY <1>5, <1>6, <1>7, <1>8, <1>9, <1>10, <1>11, <1>12 DEF NameServer

\* The data servers: what they answer and what they keep.
LEMMA RequestTypes ==
    ASSUME TypeOK, NEW s \in Servers, NEW op, Requested(s, op)
    PROVE  LET req == Head(c2d[s]) IN
           /\ req \in Request /\ req.loc \in String /\ req.to \in String
           /\ req.data \in Block
           /\ ChunkPath(req.loc, req.num) \in String
           /\ \A q \in String : ChunkPath(q, req.num) \in String
           /\ \A q \in Candidates(req.loc) : q \in String
           /\ c2d' \in [Servers -> Seq(Request)]
<1>1. Head(c2d[s]) \in Request /\ c2d' \in [Servers -> Seq(Request)]
  BY ReadRequestType DEF TypeOK, WireType
<1>2. \A i \in 0..MaxWrites : i \in Nat
  OBVIOUS
<1> QED BY <1>1, <1>2, ChunkPathType, VariantType DEF Request, Candidates

LEMMA DiskUpdate ==
    ASSUME TypeOK, NEW s \in Servers, NEW d, Directory(d),
           disk' = [disk EXCEPT ![s] = d], dsup' \in [Servers -> BOOLEAN]
    PROVE  DataType'
BY DEF TypeOK, DataType

LEMMA DataServerTypes ==
    ASSUME TypeOK, NEW s \in Servers, DataServer(s) PROVE TypeOK'
<1>1. ClientType' /\ NameType' /\ c2n' \in Seq(String) /\ n2c' \in Seq(String)
  BY DEF TypeOK, DataServer, DataToBigFS, DataCat, DataRm, DataCp, clientVars,
         nameVars, ClientType, NameType, WireType
<1>2. SUFFICES /\ DataType' /\ c2d' \in [Servers -> Seq(Request)]
               /\ d2c' \in [Servers -> Seq(Answer)]
  BY <1>1 DEF TypeOK, WireType
<1>3. Directory(disk[s]) /\ d2c \in [Servers -> Seq(Answer)]
      /\ dsup \in [Servers -> BOOLEAN]
  BY DEF TypeOK, DataType, WireType
<1> DEFINE req  == Head(c2d[s])
           path == ChunkPath(req.loc, req.num)
<1>4. CASE DataToBigFS(s)
  <2>1. Requested(s, "tobigfs") /\ UNCHANGED dsup BY <1>4 DEF DataToBigFS
  <2>2. PICK q \in Candidates(req.loc) :
          /\ disk' = [disk EXCEPT ![s] =
                        Put(Put(@, q, Empty), ChunkPath(q, req.num), req.data)]
          /\ Answers(s, <<Located(q)>>)
    BY <1>4 DEF DataToBigFS
  <2>3. q \in String /\ ChunkPath(q, req.num) \in String /\ req.data \in Block
        /\ c2d' \in [Servers -> Seq(Request)]
    BY <2>1, <2>2, RequestTypes
  <2>4. Directory(Put(Put(disk[s], q, Empty), ChunkPath(q, req.num), req.data))
    BY <1>3, <2>3, PutType, EmptyType
  <2>5. DataType'
    BY <1>3, <2>1, <2>2, <2>4, DiskUpdate
  <2>6. <<Located(q)>> \in Seq(Answer)
    BY <2>3, AnswerTypes
  <2> QED BY <1>3, <2>2, <2>3, <2>5, <2>6, AnswersType
<1>5. CASE DataCat(s)
  <2>1. Requested(s, "cat") /\ UNCHANGED disk BY <1>5 DEF DataCat
  <2>2. c2d' \in [Servers -> Seq(Request)]
    BY <2>1, RequestTypes
  <2>3. CASE path \in DOMAIN disk[s] /\ UNCHANGED dsup
             /\ Answers(s, IF disk[s][path] = Empty THEN <<>>
                           ELSE <<Segment(disk[s][path]), EndOfChunk>>)
    <3>1. disk[s][path] \in Block
      BY <1>3, <2>3 DEF Directory
    <3>2. (IF disk[s][path] = Empty THEN <<>>
           ELSE <<Segment(disk[s][path]), EndOfChunk>>) \in Seq(Answer)
      BY <3>1, AnswerTypes
    <3>3. d2c' \in [Servers -> Seq(Answer)]
      BY <1>3, <2>3, <3>2, AnswersType
    <3> QED BY <2>1, <2>2, <2>3, <3>3 DEF TypeOK, DataType
  <2>4. CASE dsup' = [dsup EXCEPT ![s] = FALSE] /\ UNCHANGED d2c
    BY <1>3, <2>1, <2>2, <2>4 DEF TypeOK, DataType
  <2> QED BY <1>5, <2>3, <2>4 DEF DataCat
<1>6. CASE DataRm(s)
  <2>1. Requested(s, "rm") /\ UNCHANGED <<dsup, d2c>> BY <1>6 DEF DataRm
  <2>2. c2d' \in [Servers -> Seq(Request)]
    BY <2>1, RequestTypes
  <2>3. Directory(Drop(disk[s], {req.loc, path}))
    BY <1>3, DropType
  <2>4. DataType'
    BY <1>3, <1>6, <2>1, <2>3, DiskUpdate DEF DataRm
  <2> QED BY <1>3, <2>1, <2>2, <2>4
<1>7. CASE DataCp(s)
  <2>1. Requested(s, "cp") BY <1>7 DEF DataCp
  <2>2. PICK q \in Candidates(req.loc) \cup {req.to} :
          /\ Answers(s, IF req.num = 0 THEN <<Located(q)>> ELSE <<>>)
          /\ \/ /\ path \in DOMAIN disk[s]
                /\ disk' = [disk EXCEPT ![s] =
                     Put(Put(@, q, Empty), ChunkPath(q, req.num), @[path])]
                /\ UNCHANGED dsup
             \/ /\ path \notin DOMAIN disk[s]
                /\ dsup' = [dsup EXCEPT ![s] = FALSE] /\ UNCHANGED disk
    BY <1>7 DEF DataCp
  <2>3. q \in String /\ ChunkPath(q, req.num) \in String
        /\ c2d' \in [Servers -> Seq(Request)]
    BY <2>1, <2>2, RequestTypes
  <2>4. d2c' \in [Servers -> Seq(Answer)]
    <3>1. (IF req.num = 0 THEN <<Located(q)>> ELSE <<>>) \in Seq(Answer)
      BY <2>3, AnswerTypes
    <3> QED BY <1>3, <2>2, <3>1, AnswersType
  <2>5. CASE path \in DOMAIN disk[s] /\ UNCHANGED dsup /\
             disk' = [disk EXCEPT ![s] =
                        Put(Put(@, q, Empty), ChunkPath(q, req.num), @[path])]
    <3>1. disk[s][path] \in Block
      BY <1>3, <2>5 DEF Directory
    <3>2. Directory(Put(Put(disk[s], q, Empty), ChunkPath(q, req.num),
                        disk[s][path]))
      BY <1>3, <2>3, <3>1, PutType, EmptyType
    <3> QED BY <1>3, <2>3, <2>4, <2>5, <3>2, DiskUpdate
  <2>6. CASE dsup' = [dsup EXCEPT ![s] = FALSE] /\ UNCHANGED disk
    BY <1>3, <2>3, <2>4, <2>6 DEF TypeOK, DataType
  <2> QED BY <2>2, <2>5, <2>6
<1> QED BY <1>4, <1>5, <1>6, <1>7 DEF DataServer

LEMMA StutterTypes == ASSUME TypeOK, UNCHANGED vars PROVE TypeOK'
BY DEF TypeOK, vars, clientVars, nameVars, dataVars, wires, ClientType,
       NameType, DataType, WireType

LEMMA StepTypes == ASSUME TypeOK, [Next]_vars PROVE TypeOK'
<1>1. CASE User
  BY <1>1, StartTypes
<1>2. CASE Client
  <2>1. ClientType' /\ WireType'
    BY <1>2, ClientPutTypes, ClientReadTypes, ClientCopyTypes DEF Client
  <2> QED BY <1>2, <2>1, AnswerBack DEF TypeOK
<1>3. CASE NameServer
  BY <1>3, NameServerTypes
<1>4. CASE \E s \in Servers : DataServer(s)
  BY <1>4, DataServerTypes
<1>5. CASE UNCHANGED vars
  BY <1>5, StutterTypes
<1> QED BY <1>1, <1>2, <1>3, <1>4, <1>5 DEF Next

\* Type correctness: at every step of every run, each variable of the client,
\* the name server, the data servers and the connections has its type.
THEOREM TypeCorrect == Spec => []TypeOK
BY InitType, StepTypes, PTL DEF Spec

-----------------------------------------------------------------------------
(* Names are unique: Spec => []UniqueNames.  tobigfs looks the name up in  *)
(* one step and links the node in a later one, so the invariant has to     *)
(* remember that the name that was promised is still free.                 *)

PromisedNameFree == nspc = "parts" => ~Exists(nsnew.name)

NamesInv == TypeOK /\ UniqueNames /\ PromisedNameFree

\* Linking a node whose name is free keeps names unique.
LEMMA AppendKeepsUnique ==
    ASSUME NEW d \in Seq(Node), NEW x \in Node,
           \A k, h \in DOMAIN d : d[k].name = d[h].name => k = h,
           \A k \in DOMAIN d : d[k].name # x.name
    PROVE  \A k, h \in DOMAIN Append(d, x) :
                Append(d, x)[k].name = Append(d, x)[h].name => k = h
<1>1. /\ Append(d, x) \in Seq(Node) /\ Len(Append(d, x)) = Len(d) + 1
      /\ \A i \in 1..Len(d) : Append(d, x)[i] = d[i]
      /\ Append(d, x)[Len(d) + 1] = x
  BY AppendProperties
<1>2. Len(d) \in Nat /\ DOMAIN d = 1..Len(d)
      /\ DOMAIN Append(d, x) = 1..(Len(d) + 1)
  BY <1>1, LenProperties
<1> QED BY <1>1, <1>2

\* Unlinking a node keeps names unique, and forgets only its own name.
LEMMA UnlinkKeepsUnique ==
    ASSUME TypeOK, UniqueNames, NEW k \in DOMAIN dir
    PROVE  /\ \A i, h \in DOMAIN Unlink(k) :
                Unlink(k)[i].name = Unlink(k)[h].name => i = h
           /\ \A i \in DOMAIN Unlink(k) :
                \E h \in DOMAIN dir \ {k} : Unlink(k)[i] = dir[h]
<1>1. /\ dir \in Seq(Node) /\ Len(dir) \in Nat /\ DOMAIN dir = 1..Len(dir)
      /\ k \in 1..Len(dir)
  BY LenProperties DEF TypeOK, NameType
<1>2. /\ DOMAIN Unlink(k) = 1..(Len(dir) - 1)
      /\ \A i \in 1..(Len(dir) - 1) :
            Unlink(k)[i] = IF i < k THEN dir[i] ELSE dir[i + 1]
  BY UnlinkType, LenProperties
<1> DEFINE old(i) == IF i < k THEN i ELSE i + 1
<1>3. \A i \in DOMAIN Unlink(k) :
        old(i) \in DOMAIN dir \ {k} /\ Unlink(k)[i] = dir[old(i)]
  BY <1>1, <1>2
<1>4. \A i, h \in DOMAIN Unlink(k) : old(i) = old(h) => i = h
  BY <1>1, <1>2
<1> HIDE DEF old
<1> QED BY <1>3, <1>4 DEF UniqueNames

LEMMA NameServerKeepsNames ==
    ASSUME NamesInv, NameServer PROVE UniqueNames' /\ PromisedNameFree'
<1>0. /\ TypeOK /\ UniqueNames /\ dir \in Seq(Node)
      /\ nsnew \in Node /\ (nspc = "parts" => ~Exists(nsnew.name))
  BY DEF NamesInv, TypeOK, NameType, PromisedNameFree
<1>1. CASE NameToBigFS
  <2>1. dir' = dir
    BY <1>1 DEF NameToBigFS
  <2>2. CASE Exists(c2n[2])
    BY <1>0, <1>1, <2>1, <2>2
       DEF NameToBigFS, UniqueNames, PromisedNameFree, Exists
  <2>3. CASE ~Exists(c2n[2])
    <3>1. nsnew'.name = c2n[2]
      BY <1>1, <2>3, NoNodeType DEF NameToBigFS, Node
    <3> QED BY <1>0, <2>1, <2>3, <3>1 DEF UniqueNames, PromisedNameFree, Exists
  <2> QED BY <2>2, <2>3
<1>2. CASE NameParts
  <2> DEFINE new == [nsnew EXCEPT !.chunks = Atoi(Head(c2n)),
                        !.text = IF Len(@) = Atoi(Head(c2n)) THEN @ ELSE <<>>]
  <2>1. dir' = Append(dir, new) /\ nspc' = "location" /\ nspc = "parts"
    BY <1>2 DEF NameParts
  <2>2. new \in Node
    <3>1. Atoi(Head(c2n)) \in Nat
      BY <1>0, <1>2, StringsOnWire, AtoiType DEF NameParts, TypeOK, WireType
    <3> QED BY <1>0, <3>1, PartsNode
  <2>3. new.name = nsnew.name
    BY <1>0 DEF Node
  <2>4. \A k \in DOMAIN dir : dir[k].name # new.name
    BY <1>0, <2>1, <2>3 DEF Exists
  <2> HIDE DEF new
  <2>5. UniqueNames'
    BY <1>0, <2>1, <2>2, <2>4, AppendKeepsUnique DEF UniqueNames
  <2> QED BY <2>1, <2>5 DEF PromisedNameFree
<1>3. CASE NameLocation
  <2>1. \A k \in DOMAIN dir : dir'[k].name = dir[k].name
    BY <1>0, <1>3, NodeTypes DEF NameLocation, Node
  <2>2. DOMAIN dir' = DOMAIN dir /\ nspc' = "command"
    BY <1>3 DEF NameLocation
  <2> QED BY <1>0, <2>1, <2>2 DEF UniqueNames, PromisedNameFree
<1>4. CASE NameCat("cat") \/ NameCat("frombigfs") \/ NameIgnores
  BY <1>0, <1>4
     DEF NameCat, NameIgnores, nameVars, UniqueNames, PromisedNameFree, Exists
<1>5. CASE NameRm
  <2>1. nspc' = "command"
    BY <1>5 DEF NameRm, Takes
  <2>2. dir' = dir \/ \E k \in DOMAIN dir : dir' = Unlink(k)
    BY <1>5 DEF NameRm
  <2>3. UniqueNames'
    BY <1>0, <2>2, UnlinkKeepsUnique DEF UniqueNames
  <2> QED BY <2>1, <2>3 DEF PromisedNameFree
<1>6. CASE NameCp
  <2>1. nspc' # "parts"
    BY <1>6 DEF NameCp, Takes
  <2>2. CASE dir' = dir
    BY <1>0, <2>1, <2>2 DEF UniqueNames, PromisedNameFree
  <2>3. ASSUME NEW k \in DOMAIN dir, ~Exists(c2n[3]),
               dir' = Append([dir EXCEPT ![k].linked = TRUE],
                             [dir[k] EXCEPT !.name = c2n[3], !.loc = <<>>,
                                            !.linked = FALSE])
        PROVE  UniqueNames'
    <3> DEFINE d   == [dir EXCEPT ![k].linked = TRUE]
               new == [dir[k] EXCEPT !.name = c2n[3], !.loc = <<>>,
                                     !.linked = FALSE]
    <3>1. dir[k] \in Node /\ k \in 1..Len(dir) /\ c2n[3] \in String
      <4>1. Takes("cp", 3)
        BY <1>6 DEF NameCp
      <4>2. c2n[3] \in String
        BY <1>0, <4>1, TakesType
      <4> QED BY <1>0, <2>3, <4>2, NodeTypes
    <3>2. new \in Node /\ new.name = c2n[3]
      BY <3>1, EmptyString DEF Node
    <3>3. d \in Seq(Node)
      <4>1. [dir[k] EXCEPT !.linked = TRUE] \in Node
        BY <3>1 DEF Node
      <4> QED BY <1>0, <3>1, <4>1, ExceptSeq
    <3>4. DOMAIN d = DOMAIN dir /\ \A h \in DOMAIN dir : d[h].name = dir[h].name
      BY <1>0, <3>1, NodeTypes DEF Node
    <3> HIDE DEF d, new
    <3>5. /\ \A i, h \in DOMAIN d : d[i].name = d[h].name => i = h
          /\ \A i \in DOMAIN d : d[i].name # new.name
      BY <1>0, <2>3, <3>2, <3>4 DEF UniqueNames, Exists
    <3>6. dir' = Append(d, new)
      BY <2>3 DEF d, new
    <3> QED BY <3>2, <3>3, <3>5, <3>6, AppendKeepsUnique DEF UniqueNames
  <2> QED BY <1>6, <2>1, <2>2, <2>3 DEF NameCp, PromisedNameFree
<1>7. CASE NameMv
  <2>1. nspc' # "parts"
    BY <1>7 DEF NameMv, Takes
  <2>2. CASE dir' = dir
    BY <1>0, <2>1, <2>2 DEF UniqueNames, PromisedNameFree
  <2>3. CASE \E k \in DOMAIN dir : dir' = Unlink(k)
    <3>1. UniqueNames'
      BY <1>0, <2>3, UnlinkKeepsUnique DEF UniqueNames
    <3> QED BY <2>1, <3>1 DEF PromisedNameFree
  <2>4. ASSUME NEW k \in DOMAIN dir,
               ~\E h \in DOMAIN dir \ {k} : dir[h].name = c2n[3],
               dir' = Append(Unlink(k), [dir[k] EXCEPT !.name = c2n[3]])
        PROVE  UniqueNames'
    <3> DEFINE d   == Unlink(k)
               new == [dir[k] EXCEPT !.name = c2n[3]]
    <3>1. new \in Node /\ new.name = c2n[3]
      <4>1. Takes("mv", 3)
        BY <1>7 DEF NameMv
      <4>2. c2n[3] \in String
        BY <1>0, <4>1, TakesType
      <4> QED BY <1>0, <2>4, <4>2, NodeTypes DEF Node
    <3>2. d \in Seq(Node)
      BY <1>0, <2>4, UnlinkType
    <3>3. /\ \A i, h \in DOMAIN d : d[i].name = d[h].name => i = h
          /\ \A i \in DOMAIN d : d[i].name # new.name
      BY <1>0, <2>4, <3>1, UnlinkKeepsUnique
    <3>4. dir' = Append(d, new)
      BY <2>4
    <3> HIDE DEF d, new
    <3> QED BY <3>1, <3>2, <3>3, <3>4, AppendKeepsUnique DEF UniqueNames
  <2> QED BY <1>7, <2>1, <2>2, <2>3, <2>4 DEF NameMv, PromisedNameFree
<1> QED BY <1>1, <1>2, <1>3, <1>4, <1>5, <1>6, <1>7 DEF NameServer

\* However long the transfer of a file takes and whatever the user types, no
\* two nodes of the directory ever have the same name.
THEOREM NamesStayUnique == Spec => []UniqueNames
<1>1. Init => NamesInv
  BY InitType DEF Init, NamesInv, UniqueNames, PromisedNameFree
<1>2. ASSUME NamesInv, TypeOK', [Next]_vars PROVE NamesInv'
  <2>1. CASE NameServer
    BY <1>2, <2>1, NameServerKeepsNames DEF NamesInv
  <2>2. CASE User \/ Client \/ \E s \in Servers : DataServer(s)
    <3>1. UNCHANGED nameVars
      BY <2>2 DEF User, Client, DataServer, StartPut, StartCat, StartGet, StartRm,
         StartCp, StartMv, PutRefused, PutAccepted, PutLocated, NotFound,
         Found, CatSend, CatData, RmSend, CpAccepted, CpLocated, CpSend,
         MvDoneOrCpRefused, DataToBigFS, DataCat, DataRm, DataCp
    <3> QED BY <1>2, <3>1 DEF NamesInv, UniqueNames, PromisedNameFree,
            Exists, nameVars
  <2>3. CASE UNCHANGED vars
    BY <1>2, <2>3 DEF vars, nameVars, NamesInv, UniqueNames,
       PromisedNameFree, Exists
  <2> QED BY <1>2, <2>1, <2>2, <2>3 DEF Next
<1>3. NamesInv => UniqueNames
  BY DEF NamesInv
<1> QED BY <1>1, <1>2, <1>3, TypeCorrect, PTL DEF Spec

-----------------------------------------------------------------------------
(* How many elements of a sequence are of a kind.                          *)

Number(q, K) == Cardinality({p \in 1..Len(q) : q[p] \in K})

LEMMA NumberType ==
    ASSUME NEW T, NEW q \in Seq(T), NEW K
    PROVE  /\ IsFiniteSet({p \in 1..Len(q) : q[p] \in K})
           /\ Number(q, K) \in Nat /\ Number(q, K) <= Len(q)
<1> DEFINE A == {p \in 1..Len(q) : q[p] \in K}
<1>1. Len(q) \in Nat /\ Len(q) \in Int /\ 1 \in Int
  BY LenProperties
<1>2. IsFiniteSet(1..Len(q)) /\ Cardinality(1..Len(q)) = Len(q)
  BY <1>1, FS_Interval
<1>3. A \in SUBSET (1..Len(q))
  OBVIOUS
<1>4. IsFiniteSet(A) /\ Cardinality(A) <= Len(q)
  <2> HIDE DEF A
  <2>1. \A S, B : IsFiniteSet(S) /\ B \in SUBSET S => IsFiniteSet(B) /\ Cardinality(B) <= Cardinality(S)
    BY FS_Subset
  <2> QED BY <1>2, <1>3, <2>1
<1>5. Cardinality(A) \in Nat
  BY <1>4, FS_CardinalityType
<1> QED BY <1>4, <1>5 DEF Number

LEMMA NoLength == ASSUME NEW T, NEW q \in Seq(T) PROVE Len(q) = 0 <=> q = <<>>
BY EmptySeq

LEMMA NumberOfNone == \A K : Number(<<>>, K) = 0
BY FS_EmptySet DEF Number

LEMMA NumberAppend ==
    ASSUME NEW T, NEW q \in Seq(T), NEW x \in T, NEW K
    PROVE  Number(Append(q, x), K) = Number(q, K) + IF x \in K THEN 1 ELSE 0
<1> DEFINE A == {p \in 1..Len(q) : q[p] \in K}
           B == {p \in 1..Len(Append(q, x)) : Append(q, x)[p] \in K}
<1>1. IsFiniteSet(A) /\ Cardinality(A) \in Nat
  BY NumberType DEF Number
<1>2. B = IF x \in K THEN A \cup {Len(q) + 1} ELSE A
  BY AppendProperties
<1>3. Len(q) + 1 \notin A
  BY LenProperties
<1>4. Number(q, K) = Cardinality(A) /\ Number(Append(q, x), K) = Cardinality(B)
  BY DEF Number
<1> HIDE DEF A, B
<1>5. Cardinality(A \cup {Len(q) + 1}) = Cardinality(A) + 1
  BY <1>1, <1>3, FS_AddElement
<1> QED BY <1>1, <1>2, <1>4, <1>5

LEMMA NumberTail ==
    ASSUME NEW T, NEW q \in Seq(T), q # <<>>, NEW K
    PROVE  Number(q, K) = Number(Tail(q), K) + IF Head(q) \in K THEN 1 ELSE 0
<1> DEFINE A == {p \in 1..Len(q) : q[p] \in K}
           B == {p \in 1..Len(Tail(q)) : Tail(q)[p] \in K}
           shift == [p \in B |-> p + 1]
<1>1. IsFiniteSet(A) /\ IsFiniteSet(B) /\ Cardinality(A) \in Nat
  <2>1. Tail(q) \in Seq(T)
    BY HeadTailProperties
  <2> QED BY <2>1, NumberType DEF Number
<1>2. Len(q) \in Nat /\ Len(Tail(q)) = Len(q) - 1 /\ 1 \in 1..Len(q) /\ Head(q) = q[1]
  BY HeadTailProperties, LenProperties
<1>3. \A p \in 1..Len(Tail(q)) : Tail(q)[p] = q[p + 1]
  BY HeadTailProperties
<1>4. shift \in Bijection(B, A \ {1})
  <2>1. \A p \in B : shift[p] \in A \ {1}
    BY <1>2, <1>3
  <2>2. \A p, r \in B : shift[p] = shift[r] => p = r
    OBVIOUS
  <2>3. ASSUME NEW r \in A \ {1} PROVE \E p \in B : shift[p] = r
    <3>1. r - 1 \in B /\ shift[r - 1] = r
      BY <1>2, <1>3
    <3> QED BY <3>1
  <2> QED BY <2>1, <2>2, <2>3 DEF Bijection, Injection, Surjection, IsInjective
<1> HIDE DEF shift
<1>5. Cardinality(A \ {1}) = Cardinality(B)
  BY <1>1, <1>4, FS_Bijection, Zenon DEF ExistsBijection
<1>6. 1 \in A <=> Head(q) \in K
  BY <1>2
<1>7. Number(q, K) = Cardinality(A) /\ Number(Tail(q), K) = Cardinality(B)
  BY DEF Number
<1> HIDE DEF A, B
<1>8. Cardinality(A \ {1}) = IF 1 \in A THEN Cardinality(A) - 1 ELSE Cardinality(A)
  BY <1>1, FS_RemoveElement
<1> QED BY <1>1, <1>5, <1>6, <1>7, <1>8


-----------------------------------------------------------------------------
(* The conversation with the data servers.                                 *)

AskRequests == {r \in Request : Asks(r)}
CatRequests == {r \in Request : r.op = "cat"}
Locations   == {x \in Answer : x.kind = "loc"}
Ends        == {x \in Answer : x.kind = "end"}

Asked(s)   == Number(c2d[s], AskRequests)
Wanted(s)  == Number(c2d[s], CatRequests)
Placed(s) == Number(d2c[s], Locations)
Ended(s)   == Number(d2c[s], Ends)

\* No server has been asked for anything, and none has anything to say.
Silent(s) == Asked(s) = 0 /\ Wanted(s) = 0 /\ d2c[s] = <<>>

\* The server that keeps the present chunk, and no other, has been asked where
\* it stores it, or has answered.
Storing(s) == /\ Wanted(s) = 0
              /\ Asked(s) + Len(d2c[s]) <= IF s = Server(job.i) THEN 1 ELSE 0

\* The chunks of server s that the client has asked for and not read yet.
Owed(s) == {i \in IF pc = "cat_send" THEN 0..(job.i - 1) ELSE job.i..(job.chunks - 1) :
                Server(i) = s}

\* Each of them is still to be read from the disk, or has its end in the answers
\* (or was empty and is never answered); the answers end with the end of one.
Reading(s) == /\ Asked(s) = 0 /\ Placed(s) = 0
              /\ Wanted(s) + Ended(s) <= Cardinality(Owed(s))
              /\ d2c[s] # <<>> => d2c[s][Len(d2c[s])].kind = "end"

Talks == {"put_loc", "cp_loc", "cat_send", "cat_data"}

Counters ==
    /\ pc \in {"prompt", "put_ack", "cat_ack", "rm_ack", "cp_ack", "mv_ack", "cp_loc"} => job.i = 0
    /\ pc = "cp_send" => job.i # 0
    /\ pc = "cat_send" => job.i < job.chunks

Dialogue(s) ==
    /\ pc \in {"put_loc", "cp_loc"} => Storing(s)
    /\ pc \in {"cat_send", "cat_data"} => Reading(s)
    /\ pc \notin Talks => Silent(s)

Talk == TypeOK /\ Counters /\ \A s \in Servers : Dialogue(s)

LEMMA WireCounts ==
    ASSUME TypeOK, NEW s \in Servers
    PROVE  /\ Asked(s) \in Nat /\ Wanted(s) \in Nat /\ Ended(s) \in Nat /\ Placed(s) \in Nat
           /\ Len(d2c[s]) \in Nat /\ Placed(s) <= Len(d2c[s])
           /\ c2d[s] \in Seq(Request) /\ d2c[s] \in Seq(Answer)
<1>1. c2d[s] \in Seq(Request) /\ d2c[s] \in Seq(Answer)
  BY DEF TypeOK, WireType
<1> QED BY <1>1, NumberType, LenProperties DEF Asked, Wanted, Ended, Placed

LEMMA OwedCounts ==
    ASSUME TypeOK, NEW s \in Servers
    PROVE  IsFiniteSet(Owed(s)) /\ Cardinality(Owed(s)) \in Nat
<1> DEFINE I == IF pc = "cat_send" THEN 0..(job.i - 1) ELSE job.i..(job.chunks - 1)
<1>1. job.i \in Int /\ job.i - 1 \in Int /\ job.chunks - 1 \in Int /\ 0 \in Int
  BY DEF TypeOK, ClientType, Job
<1>2. IsFiniteSet(0..(job.i - 1)) /\ IsFiniteSet(job.i..(job.chunks - 1))
  BY <1>1, FS_Interval
<1>3. IsFiniteSet(I) /\ Owed(s) \in SUBSET I
  BY <1>2 DEF Owed
<1> HIDE DEF I
<1>4. IsFiniteSet(Owed(s))
  BY <1>3, FS_Subset, Zenon
<1> QED BY <1>4, FS_CardinalityType

\* What a request of the client adds.
LEMMA SendCounts ==
    ASSUME TypeOK, NEW s \in Servers, NEW req \in Request, SendData(s, req), NEW t \in Servers
    PROVE  /\ Asked(t)' = Asked(t) + IF t = s /\ Asks(req) THEN 1 ELSE 0
           /\ Wanted(t)' = Wanted(t) + IF t = s /\ req.op = "cat" THEN 1 ELSE 0
<1>1. c2d'[t] = IF t = s THEN Append(c2d[s], req) ELSE c2d[t]
  BY DEF SendData, TypeOK, WireType
<1>2. \A K : Number(Append(c2d[s], req), K) = Number(c2d[s], K) + IF req \in K THEN 1 ELSE 0
  BY WireCounts, NumberAppend
<1>3. /\ Number(Append(c2d[s], req), AskRequests) = Asked(s) + IF Asks(req) THEN 1 ELSE 0
      /\ Number(Append(c2d[s], req), CatRequests) = Wanted(s) + IF req.op = "cat" THEN 1 ELSE 0
  BY <1>2 DEF Asked, Wanted, AskRequests, CatRequests
<1> QED BY <1>1, <1>3, WireCounts DEF Asked, Wanted

\* What the client's reading of an answer leaves.
LEMMA ReadCounts ==
    ASSUME TypeOK, NEW s \in Servers, d2c[s] # <<>>, d2c' = [d2c EXCEPT ![s] = Tail(@)],
           NEW t \in Servers
    PROVE  /\ t # s => d2c'[t] = d2c[t]
           /\ d2c'[s] = Tail(d2c[s])
           /\ Len(d2c'[s]) = Len(d2c[s]) - 1
           /\ Ended(s) = Ended(s)' + IF Head(d2c[s]).kind = "end" THEN 1 ELSE 0
           /\ Placed(s) = Placed(s)' + IF Head(d2c[s]).kind = "loc" THEN 1 ELSE 0
           /\ d2c'[s] # <<>> => d2c'[s][Len(d2c'[s])] = d2c[s][Len(d2c[s])]
           /\ d2c'[s] = <<>> => Head(d2c[s]) = d2c[s][Len(d2c[s])]
<1>1. (t # s => d2c'[t] = d2c[t]) /\ d2c'[s] = Tail(d2c[s])
  BY DEF TypeOK, WireType
<1>2. d2c[s] \in Seq(Answer)
  BY WireCounts
<1>3. /\ Head(d2c[s]) \in Answer /\ Len(Tail(d2c[s])) = Len(d2c[s]) - 1
      /\ Tail(d2c[s]) \in Seq(Answer)
      /\ \A i \in 1..Len(Tail(d2c[s])) : Tail(d2c[s])[i] = d2c[s][i + 1]
  BY <1>2, HeadTailProperties
<1>4. /\ Number(d2c[s], Ends) = Number(Tail(d2c[s]), Ends) + IF Head(d2c[s]).kind = "end" THEN 1 ELSE 0
      /\ Number(d2c[s], Locations) = Number(Tail(d2c[s]), Locations) + IF Head(d2c[s]).kind = "loc" THEN 1 ELSE 0
  BY <1>2, <1>3, NumberTail DEF Ends, Locations
<1>5. Len(d2c[s]) \in Nat /\ (Tail(d2c[s]) # <<>> => Len(Tail(d2c[s])) \in 1..Len(Tail(d2c[s])))
  BY <1>2, <1>3, LenProperties
<1>6. Tail(d2c[s]) = <<>> => Head(d2c[s]) = d2c[s][Len(d2c[s])]
  <2>1. Tail(d2c[s]) = <<>> => Len(d2c[s]) = 1
    <3>1. Tail(d2c[s]) = <<>> => Len(Tail(d2c[s])) = 0
      BY <1>3, NoLength, Zenon
    <3> QED BY <1>3, <1>5, <3>1
  <2>2. Head(d2c[s]) = d2c[s][1]
    BY <1>2
  <2> QED BY <2>1, <2>2
<1>7. Tail(d2c[s]) # <<>> => Tail(d2c[s])[Len(Tail(d2c[s]))] = d2c[s][Len(d2c[s])]
  BY <1>3, <1>5
<1> QED BY <1>1, <1>3, <1>4, <1>6, <1>7 DEF Ended, Placed

\* What a data server's reading of a request leaves.
LEMMA RequestCounts ==
    ASSUME TypeOK, NEW s \in Servers, NEW op, Requested(s, op), NEW t \in Servers
    PROVE  LET req == Head(c2d[s]) IN
           /\ req \in Request /\ req.op = op
           /\ Asked(t) = Asked(t)' + IF t = s /\ Asks(req) THEN 1 ELSE 0
           /\ Wanted(t) = Wanted(t)' + IF t = s /\ op = "cat" THEN 1 ELSE 0
           /\ Asked(t)' \in Nat /\ Wanted(t)' \in Nat
<1> DEFINE req == Head(c2d[s])
<1>1. c2d[s] \in Seq(Request) /\ c2d[s] # <<>> /\ req.op = op
  BY WireCounts DEF Requested
<1>2. req \in Request /\ Tail(c2d[s]) \in Seq(Request)
  BY <1>1, HeadTailProperties
<1>3. c2d'[t] = IF t = s THEN Tail(c2d[s]) ELSE c2d[t]
  BY DEF Requested, TypeOK, WireType
<1>4. /\ Asked(s) = Number(Tail(c2d[s]), AskRequests) + IF Asks(req) THEN 1 ELSE 0
      /\ Wanted(s) = Number(Tail(c2d[s]), CatRequests) + IF op = "cat" THEN 1 ELSE 0
  BY <1>1, <1>2, NumberTail DEF Asked, Wanted, AskRequests, CatRequests
<1>5. Number(Tail(c2d[s]), AskRequests) \in Nat /\ Number(Tail(c2d[s]), CatRequests) \in Nat
  BY <1>2, NumberType
<1> QED BY <1>1, <1>2, <1>3, <1>4, <1>5, WireCounts DEF Asked, Wanted

-----------------------------------------------------------------------------
(* The commands keep up the conversation.                                  *)

\* Nobody was talking and nobody begins to.
LEMMA StillSilent ==
    ASSUME Talk, pc \notin Talks, pc' \notin Talks, UNCHANGED <<c2d, d2c>>, NEW s \in Servers
    PROVE  Dialogue(s)'
BY DEF Talk, Dialogue, Silent, Asked, Wanted, Talks

LEMMA QuietTalk ==
    ASSUME Talk, TypeOK'
    PROVE  /\ \A n \in Names, text \in Texts : StartPut(n, text) => Talk'
           /\ \A n \in Names, op \in {"cat", "frombigfs"} : Fetch(op, n) => Talk'
           /\ \A n \in Names : StartRm(n) => Talk'
           /\ \A a, b \in Names : StartCp(a, b) => Talk'
           /\ \A a, b \in Names : StartMv(a, b) => Talk'
           /\ PutRefused \/ NotFound \/ MvDoneOrCpRefused => Talk'
<1>1. ASSUME pc \notin Talks, pc' \notin Talks \cup {"cp_send"}, job'.i = 0, UNCHANGED <<c2d, d2c>>
      PROVE  Talk'
  BY <1>1, StillSilent DEF Talk, Counters, Talks
<1>2. Idle.i = 0
  BY DEF Idle
<1>3. ASSUME NEW n \in Names, NEW text \in Texts, StartPut(n, text) PROVE Talk'
  BY <1>1, <1>2, <1>3 DEF StartPut, Await, nameVars, dataVars, Talks
<1>4. ASSUME NEW n \in Names, NEW op \in {"cat", "frombigfs"}, Fetch(op, n) PROVE Talk'
  <2>1. job'.i = 0
    BY <1>4 DEF Fetch, StartCat, StartGet, Await, Idle
  <2> QED BY <1>1, <1>4, <2>1 DEF Fetch, StartCat, StartGet, Await, nameVars, dataVars, Talks
<1>5. ASSUME NEW n \in Names, StartRm(n) PROVE Talk'
  BY <1>1, <1>2, <1>5 DEF StartRm, Await, nameVars, dataVars, Talks
<1>6. ASSUME NEW a \in Names, NEW b \in Names, StartCp(a, b) PROVE Talk'
  BY <1>1, <1>2, <1>6 DEF StartCp, Await, nameVars, dataVars, Talks
<1>7. ASSUME NEW a \in Names, NEW b \in Names, StartMv(a, b) PROVE Talk'
  BY <1>1, <1>2, <1>7 DEF StartMv, Await, nameVars, dataVars, Talks
<1>8. ASSUME PutRefused \/ NotFound \/ MvDoneOrCpRefused PROVE Talk'
  BY <1>1, <1>2, <1>8 DEF PutRefused, NotFound, MvDoneOrCpRefused, Prompt, nameVars, dataVars, Talks
<1> QED BY <1>3, <1>4, <1>5, <1>6, <1>7, <1>8

\* The first request of tobigfs and of cp.
LEMMA FirstAsked ==
    ASSUME Talk, TypeOK', pc \in {"put_ack", "cp_ack"}, pc' \in {"put_loc", "cp_loc"}, job'.i = 0,
           NEW req \in Request, SendData(Server(0), req), req.op # "cat", d2c' = d2c
    PROVE  Talk'
<1>1. Server(0) \in Servers
  BY ServerType
<1>2. ASSUME NEW t \in Servers PROVE Storing(t)'
  <2>1. Asked(t) = 0 /\ Wanted(t) = 0 /\ d2c[t] = <<>>
    BY DEF Talk, Dialogue, Silent, Talks
  <2>2. /\ Asked(t)' = Asked(t) + IF t = Server(0) /\ Asks(req) THEN 1 ELSE 0
        /\ Wanted(t)' = Wanted(t) + IF t = Server(0) /\ req.op = "cat" THEN 1 ELSE 0
    BY <1>1, SendCounts DEF Talk
  <2> QED BY <2>1, <2>2 DEF Storing
<1> QED BY <1>2 DEF Talk, Counters, Dialogue, Talks

LEMMA PutAcceptedTalk == ASSUME Talk, TypeOK', PutAccepted PROVE Talk'
<1>1. job.text[1] \in Block /\ job.name \in String /\ job.i = 0 /\ 0 \in Nat
  BY DEF PutAccepted, Talk, TypeOK, ClientType, Job, Counters
<1>2. PutRequest(job.name, 0, job.text[1]) \in Request
  BY <1>1, PutRequestType
<1> QED BY <1>1, <1>2, FirstAsked DEF PutAccepted, Await, nameVars, dataVars, PutRequest

LEMMA CpAcceptedTalk == ASSUME Talk, TypeOK', CpAccepted PROVE Talk'
<1>1. CASE Atoi(n2c[3]) = 0
  <2>1. pc \notin Talks /\ pc' \notin Talks /\ job'.i = 0 /\ pc' = "prompt" /\ UNCHANGED <<c2d, d2c>>
    BY <1>1 DEF CpAccepted, Prompt, nameVars, dataVars, Talks, Idle
  <2> QED BY <2>1, StillSilent DEF Talk, Counters
<1>2. CASE Atoi(n2c[3]) # 0
  <2>1. n2c[2] \in String
    BY StringsOnWire DEF CpAccepted, Talk, TypeOK, WireType
  <2>2. ChunkRequest("cp", n2c[2], 0, <<>>) \in Request
    BY <2>1, EmptyString, ChunkRequestType
  <2>3. job'.i = 0
    BY <1>2 DEF CpAccepted, Await, Talk, Counters, TypeOK, ClientType, Job
  <2> QED BY <1>2, <2>2, <2>3, FirstAsked DEF CpAccepted, Await, nameVars, dataVars, ChunkRequest
<1> QED BY <1>1, <1>2

\* The answer comes from the only server that was asked, and is all it says.
LEMMA AnswerTaken ==
    ASSUME Talk, pc \in {"put_loc", "cp_loc"}, d2c[Server(job.i)] # <<>>,
           d2c' = [d2c EXCEPT ![Server(job.i)] = Tail(@)], NEW t \in Servers
    PROVE  Asked(t) = 0 /\ Wanted(t) = 0 /\ d2c'[t] = <<>>
<1> DEFINE s == Server(job.i)
<1>1. s \in Servers
  BY ServerType DEF Talk, TypeOK, ClientType, Job
<1>2. Storing(t) /\ Asked(t) \in Nat /\ d2c[t] \in Seq(Answer) /\ Len(d2c[t]) \in Nat
  BY WireCounts DEF Talk, Dialogue
<1>3. CASE t = s
  <2>1. Len(d2c[t]) # 0
    BY <1>2, <1>3, EmptySeq
  <2>2. Asked(t) = 0 /\ Len(d2c[t]) = 1
    <3>1. Asked(t) + Len(d2c[t]) <= 1
      BY <1>2, <1>3 DEF Storing
    <3>2. \A a, b \in Nat : a + b <= 1 /\ b # 0 => a = 0 /\ b = 1
      OBVIOUS
    <3> QED BY <1>2, <2>1, <3>1, <3>2, Zenon
  <2>3. Len(d2c'[t]) = Len(d2c[t]) - 1 /\ d2c'[t] = Tail(d2c[t])
    BY <1>1, <1>3, ReadCounts DEF Talk
  <2>4. Tail(d2c[t]) \in Seq(Answer)
    BY <1>2, <1>3, HeadTailProperties
  <2>5. d2c'[t] = <<>>
    <3>1. Len(Tail(d2c[t])) = 0
      BY <2>2, <2>3
    <3> QED BY <2>3, <2>4, <3>1, NoLength
  <2> QED BY <1>2, <2>2, <2>5 DEF Storing
<1>4. CASE t # s
  <2>1. Asked(t) = 0 /\ Len(d2c[t]) = 0 /\ d2c'[t] = d2c[t]
    BY <1>1, <1>2, <1>4, ReadCounts DEF Storing, Talk
  <2> QED BY <1>2, <2>1, EmptySeq DEF Storing
<1> QED BY <1>3, <1>4

LEMMA PutLocatedTalk == ASSUME Talk, TypeOK', PutLocated PROVE Talk'
<1> DEFINE next == job.i + 1
           loc  == IF job.i = 0 THEN Head(d2c[Server(job.i)]).loc ELSE job.loc
<1>1. \A t \in Servers : Asked(t) = 0 /\ Wanted(t) = 0 /\ d2c'[t] = <<>>
  BY AnswerTaken DEF PutLocated
<1>2. CASE next < job.chunks
  <2> DEFINE req == PutRequest(loc, next, job.text[next + 1])
  <2>1. next \in Nat /\ Server(next) \in Servers
    <3>1. next \in Nat
      BY DEF Talk, TypeOK, ClientType, Job
    <3> QED BY <3>1, ServerType
  <2>2. req \in Request
    <3>1. job.text[next + 1] \in Block
      <4>1. job.text \in Seq(Block) /\ job.chunks = Len(job.text)
        BY DEF Talk, TypeOK, ClientType, Job, PutLocated
      <4>2. next + 1 \in 1..Len(job.text)
        BY <1>2, <2>1, <4>1
      <4> QED BY <4>1, <4>2, ElementOfSeq
    <3>2. loc \in String
      <4>1. Server(job.i) \in Servers
        BY ServerType DEF Talk, TypeOK, ClientType, Job
      <4>2. Head(d2c[Server(job.i)]).loc \in String
        BY <4>1, ReadAnswerType DEF Talk, TypeOK, WireType, PutLocated, Answer
      <4> QED BY <4>2 DEF Talk, TypeOK, ClientType, Job
    <3> QED BY <2>1, <3>1, <3>2, PutRequestType
  <2>3. SendData(Server(next), req) /\ pc' = "put_loc" /\ job'.i = next
    BY <1>2 DEF PutLocated, Await, Talk, TypeOK, ClientType, Job
  <2>4. ASSUME NEW t \in Servers PROVE Storing(t)'
    <3>1. /\ Asked(t)' = Asked(t) + IF t = Server(next) /\ Asks(req) THEN 1 ELSE 0
          /\ Wanted(t)' = Wanted(t) + IF t = Server(next) /\ req.op = "cat" THEN 1 ELSE 0
      BY <2>1, <2>2, <2>3, SendCounts DEF Talk
    <3>2. req.op = "tobigfs"
      BY DEF PutRequest
    <3>3. Len(d2c'[t]) = 0
      BY <1>1
    <3> QED BY <1>1, <2>3, <3>1, <3>2, <3>3 DEF Storing
  <2> QED BY <2>3, <2>4 DEF Talk, Counters, Dialogue, Talks
<1>3. CASE ~(next < job.chunks)
  <2>1. pc' = "prompt" /\ job'.i = 0 /\ c2d' = c2d
    BY <1>3 DEF PutLocated, Prompt, Idle
  <2> QED BY <1>1, <2>1 DEF Talk, Counters, Dialogue, Silent, Asked, Wanted, Talks
<1> QED BY <1>2, <1>3

LEMMA CpLocatedTalk == ASSUME Talk, TypeOK', CpLocated PROVE Talk'
<1>1. job.i = 0 /\ pc = "cp_loc" /\ c2d' = c2d
  BY DEF Talk, Counters, CpLocated
<1>2. \A t \in Servers : Asked(t) = 0 /\ Wanted(t) = 0 /\ d2c'[t] = <<>>
  BY <1>1, AnswerTaken DEF CpLocated
<1>3. \/ pc' = "cp_send" /\ job'.i = 1
      \/ pc' = "prompt" /\ job'.i = 0
  <2>1. job \in Job
    BY DEF Talk, TypeOK, ClientType
  <2>2. CASE job.chunks > 1
    <3>1. job' = [job EXCEPT !.to = Head(d2c[Server(0)]).loc, !.i = 1] /\ pc' = "cp_send"
      BY <2>2 DEF CpLocated, Await
    <3> QED BY <2>1, <3>1 DEF Job
  <2>3. CASE ~(job.chunks > 1)
    BY <2>3 DEF CpLocated, Prompt, Idle
  <2> QED BY <2>2, <2>3
<1> QED BY <1>1, <1>2, <1>3 DEF Talk, Counters, Dialogue, Silent, Asked, Wanted, Talks

\* Requests that nobody waits for.
LEMMA Unasked ==
    ASSUME Talk, pc \notin Talks, pc' \notin Talks, NEW s \in Servers, NEW req \in Request,
           SendData(s, req), ~Asks(req), req.op # "cat", d2c' = d2c, NEW t \in Servers
    PROVE  Dialogue(t)'
<1>1. Asked(t) = 0 /\ Wanted(t) = 0 /\ d2c[t] = <<>>
  BY DEF Talk, Dialogue, Silent
<1>2. /\ Asked(t)' = Asked(t) + IF t = s /\ Asks(req) THEN 1 ELSE 0
      /\ Wanted(t)' = Wanted(t) + IF t = s /\ req.op = "cat" THEN 1 ELSE 0
  BY SendCounts DEF Talk
<1> QED BY <1>1, <1>2 DEF Dialogue, Silent, Talks

LEMMA CpSendTalk == ASSUME Talk, TypeOK', CpSend PROVE Talk'
<1> DEFINE req == ChunkRequest("cp", job.loc, job.i, job.to)
<1>1. job.i \in Nat /\ job.i # 0 /\ Server(job.i) \in Servers /\ req \in Request
  BY ServerType, ChunkRequestType DEF Talk, Counters, CpSend, TypeOK, ClientType, Job
<1>2. ~Asks(req) /\ req.op # "cat"
  BY <1>1 DEF Asks, ChunkRequest
<1>3. \/ pc' = "cp_send" /\ job'.i = job.i + 1
      \/ pc' = "prompt" /\ job'.i = 0
  BY DEF CpSend, Await, Prompt, Idle, Talk, TypeOK, ClientType, Job
<1>4. \A t \in Servers : Dialogue(t)'
  BY <1>1, <1>2, <1>3, Unasked DEF CpSend, Talks
<1> QED BY <1>1, <1>3, <1>4 DEF Talk, Counters

LEMMA RmSendTalk == ASSUME Talk, TypeOK', RmSend PROVE Talk'
<1> DEFINE req == ChunkRequest("rm", job.loc, job.i, <<>>)
<1>1. job.i \in Nat /\ Server(job.i) \in Servers /\ req \in Request
  BY ServerType, ChunkRequestType, EmptyString DEF Talk, TypeOK, ClientType, Job
<1>2. ~Asks(req) /\ req.op # "cat"
  BY <1>1 DEF Asks, ChunkRequest
<1>3. \/ pc' = "rm_send"
      \/ pc' = "prompt" /\ job'.i = 0
  BY DEF RmSend, Await, Prompt, Idle
<1>4. \A t \in Servers : Dialogue(t)'
  BY <1>1, <1>2, <1>3, Unasked DEF RmSend, Talks
<1> QED BY <1>1, <1>3, <1>4 DEF Talk, Counters

LEMMA FoundTalk == ASSUME Talk, TypeOK', Found PROVE Talk'
<1> DEFINE chunks == Atoi(n2c[3])
<1>1. c2d' = c2d /\ d2c' = d2c /\ job.i = 0 /\ pc \in {"cat_ack", "rm_ack"}
  BY DEF Talk, Counters, Found
<1>2. CASE chunks = 0
  <2>1. pc' = "prompt" /\ job'.i = 0
    BY <1>2 DEF Found, Prompt, Idle
  <2> QED BY <1>1, <2>1, StillSilent DEF Talk, Counters, Talks
<1>3. CASE chunks # 0
  <2>1. chunks \in Nat /\ job'.i = 0 /\ job'.chunks = chunks /\ pc' \in {"cat_send", "rm_send"}
    <3>1. n2c[3] \in String
      BY StringsOnWire DEF Found, Talk, TypeOK, WireType
    <3> QED BY <1>1, <1>3, <3>1, AtoiType DEF Found, Await, Talk, TypeOK, ClientType, Job
  <2>2. Counters'
    BY <1>3, <2>1 DEF Counters
  <2>3. ASSUME NEW s \in Servers, pc' = "cat_send" PROVE Reading(s)'
    <3>1. Asked(s) = 0 /\ Wanted(s) = 0 /\ d2c[s] = <<>>
      BY <1>1 DEF Talk, Dialogue, Silent, Talks
    <3>2. Placed(s)' = 0 /\ Ended(s)' = 0 /\ Asked(s)' = 0 /\ Wanted(s)' = 0
      BY <1>1, <3>1, NumberOfNone DEF Placed, Ended, Asked, Wanted
    <3>3. Owed(s)' = {}
      BY <2>1, <2>3 DEF Owed
    <3>4. Cardinality(Owed(s)') = 0
      BY <3>3, FS_EmptySet
    <3> QED BY <1>1, <3>1, <3>2, <3>4 DEF Reading
  <2>4. ASSUME NEW s \in Servers PROVE Dialogue(s)'
    BY <1>1, <2>1, <2>3, StillSilent DEF Dialogue, Talks
  <2> QED BY <2>2, <2>4 DEF Talk
<1> QED BY <1>2, <1>3

\* Answers that end with the end of a chunk, and hold none, are none.
LEMMA NoEnds ==
    ASSUME NEW q \in Seq(Answer), q # <<>> => q[Len(q)].kind = "end", Number(q, Ends) = 0
    PROVE  q = <<>>
<1> SUFFICES ASSUME q # <<>> PROVE FALSE
  OBVIOUS
<1> DEFINE A == {p \in 1..Len(q) : q[p] \in Ends}
<1>1. Len(q) \in 1..Len(q)
  BY EmptySeq
<1>2. q[Len(q)] \in Answer
  BY <1>1, ElementOfSeq
<1>3. Len(q) \in A
  BY <1>1, <1>2 DEF Ends
<1>4. IsFiniteSet(A) /\ Cardinality(A) = 0
  BY NumberType DEF Number
<1> HIDE DEF A
<1> QED BY <1>3, <1>4, FS_EmptySet

LEMMA CatSendTalk == ASSUME Talk, TypeOK', CatSend PROVE Talk'
<1> DEFINE s   == Server(job.i)
           req == ChunkRequest("cat", job.loc, job.i, <<>>)
<1>1. /\ pc = "cat_send" /\ SendData(s, req) /\ d2c' = d2c
      /\ job.i \in Nat /\ job.chunks \in Nat /\ job.i < job.chunks /\ job \in Job
  BY DEF CatSend, Talk, Counters, TypeOK, ClientType, Job
<1>2. s \in Servers /\ req \in Request /\ req.op = "cat" /\ ~Asks(req)
  <2>1. s \in Servers /\ req \in Request
    BY <1>1, ServerType, ChunkRequestType, EmptyString DEF Job
  <2> QED BY <2>1 DEF ChunkRequest, Asks
<1>3. \/ pc' = "cat_send" /\ job'.i = job.i + 1 /\ job'.chunks = job.chunks /\ job.i + 1 < job.chunks
      \/ pc' = "cat_data" /\ job'.i = 0 /\ job'.chunks = job.chunks /\ job.chunks = job.i + 1
  <2>1. CASE job.i + 1 < job.chunks
    BY <1>1, <2>1 DEF CatSend, Await, Job
  <2>2. CASE ~(job.i + 1 < job.chunks)
    <3>1. job.chunks = job.i + 1
      BY <1>1, <2>2
    <3> QED BY <1>1, <2>2, <3>1 DEF CatSend, Await, Job
  <2> QED BY <2>1, <2>2
<1>4. ASSUME NEW t \in Servers PROVE Reading(t)'
  <2>1. Reading(t)
    BY <1>1 DEF Talk, Dialogue
  <2>2. Asked(t)' = 0 /\ Wanted(t)' = Wanted(t) + IF t = s THEN 1 ELSE 0
    <3>1. /\ Asked(t)' = Asked(t) + IF t = s /\ Asks(req) THEN 1 ELSE 0
          /\ Wanted(t)' = Wanted(t) + IF t = s /\ req.op = "cat" THEN 1 ELSE 0
      BY <1>1, <1>2, SendCounts DEF Talk
    <3> QED BY <1>2, <2>1, <3>1 DEF Reading
  <2>3. Ended(t)' = Ended(t) /\ Placed(t)' = Placed(t)
    BY <1>1 DEF Ended, Placed
  <2>4. Owed(t)' = IF t = s THEN Owed(t) \cup {job.i} ELSE Owed(t)
    BY <1>1, <1>3 DEF Owed
  <2>5. job.i \notin Owed(t)
    BY <1>1 DEF Owed
  <2>6. IsFiniteSet(Owed(t)) /\ Cardinality(Owed(t)) \in Nat
    BY OwedCounts DEF Talk
  <2>7. Cardinality(Owed(t)') = Cardinality(Owed(t)) + IF t = s THEN 1 ELSE 0
    <3>1. CASE t = s
      <4>1. Cardinality(Owed(t) \cup {job.i}) = Cardinality(Owed(t)) + 1
        BY <2>5, <2>6, FS_AddElement
      <4> QED BY <2>4, <3>1, <4>1
    <3>2. CASE t # s
      BY <2>4, <2>6, <3>2
    <3> QED BY <3>1, <3>2
  <2>8. Wanted(t) \in Nat /\ Ended(t) \in Nat
    BY WireCounts DEF Talk
  <2> QED BY <1>1, <2>1, <2>2, <2>3, <2>6, <2>7, <2>8 DEF Reading
<1> QED BY <1>1, <1>3, <1>4 DEF Talk, Counters, Dialogue, Talks

LEMMA CatDataTalk == ASSUME Talk, TypeOK', CatData PROVE Talk'
<1> DEFINE s == Server(job.i)
<1>1. /\ pc = "cat_data" /\ d2c[s] # <<>> /\ d2c' = [d2c EXCEPT ![s] = Tail(@)] /\ c2d' = c2d
      /\ job.i \in Nat /\ job.chunks \in Nat /\ job \in Job
  BY DEF CatData, Talk, TypeOK, ClientType, Job
<1>2. s \in Servers /\ s = Server(job.i)
  BY <1>1, ServerType
<1>3. ASSUME NEW t \in Servers
      PROVE  /\ Reading(t) /\ Asked(t)' = Asked(t) /\ Wanted(t)' = Wanted(t)
             /\ Wanted(t) \in Nat /\ Ended(t) \in Nat /\ Ended(t)' \in Nat
             /\ IsFiniteSet(Owed(t)) /\ Cardinality(Owed(t)) \in Nat
             /\ Placed(t)' = 0
             /\ Ended(t) = Ended(t)' + IF t = s /\ Head(d2c[s]).kind = "end" THEN 1 ELSE 0
             /\ d2c'[t] # <<>> => d2c'[t][Len(d2c'[t])].kind = "end"
  <2>1. Reading(t)
    BY <1>1 DEF Talk, Dialogue
  <2>2. Asked(t)' = Asked(t) /\ Wanted(t)' = Wanted(t)
    BY <1>1 DEF Asked, Wanted
  <2>3. /\ Wanted(t) \in Nat /\ Ended(t) \in Nat /\ Ended(t)' \in Nat
        /\ Placed(t) \in Nat /\ Placed(t)' \in Nat
    <3>1. d2c'[t] \in Seq(Answer)
      BY DEF TypeOK, WireType
    <3> QED BY <3>1, WireCounts, NumberType DEF Talk, Ended, Placed
  <2>4. CASE t = s
    <3>1. /\ Ended(t) = Ended(t)' + IF Head(d2c[t]).kind = "end" THEN 1 ELSE 0
          /\ Placed(t) = Placed(t)' + IF Head(d2c[t]).kind = "loc" THEN 1 ELSE 0
          /\ d2c'[t] # <<>> => d2c'[t][Len(d2c'[t])] = d2c[t][Len(d2c[t])]
      BY <1>1, <2>4, ReadCounts DEF Talk
    <3>2. Placed(t)' = 0
      BY <2>1, <2>3, <2>4, <3>1 DEF Reading
    <3>3. d2c'[t] # <<>> => d2c'[t][Len(d2c'[t])].kind = "end"
      BY <1>1, <2>1, <2>4, <3>1 DEF Reading
    <3>4. IsFiniteSet(Owed(t)) /\ Cardinality(Owed(t)) \in Nat
      BY OwedCounts DEF Talk
    <3> QED BY <2>1, <2>2, <2>3, <2>4, <3>1, <3>2, <3>3, <3>4
  <2>5. CASE t # s
    <3>1. d2c'[t] = d2c[t]
      BY <1>1, <1>2, <2>5, ReadCounts DEF Talk
    <3>2. Placed(t)' = Placed(t) /\ Ended(t)' = Ended(t)
      BY <3>1 DEF Placed, Ended
    <3> QED BY <2>1, <2>2, <2>3, <2>5, <3>1, <3>2, OwedCounts DEF Talk, Reading
  <2> QED BY <2>4, <2>5
<1>4. CASE Head(d2c[s]).kind # "end"
  <2>1. pc' = "cat_data" /\ job'.i = job.i /\ job'.chunks = job.chunks
    BY <1>1, <1>4 DEF CatData, Await, Job
  <2>2. ASSUME NEW t \in Servers PROVE Reading(t)'
    <3>1. Owed(t)' = Owed(t)
      BY <1>1, <2>1 DEF Owed
    <3> QED BY <1>3, <1>4, <3>1 DEF Reading
  <2> QED BY <2>1, <2>2 DEF Talk, Counters, Dialogue, Talks
<1>5. CASE Head(d2c[s]).kind = "end" /\ job.i + 1 < job.chunks
  <2>1. pc' = "cat_data" /\ job'.i = job.i + 1 /\ job'.chunks = job.chunks
    BY <1>1, <1>5 DEF CatData, Await, Job
  <2>2. ASSUME NEW t \in Servers PROVE Reading(t)'
    <3>1. Owed(t)' = Owed(t) \ {job.i} /\ (job.i \in Owed(t) => t = s)
      BY <1>1, <2>1 DEF Owed
    <3>2. /\ IsFiniteSet(Owed(t) \ {job.i})
          /\ Cardinality(Owed(t) \ {job.i}) = IF job.i \in Owed(t) THEN Cardinality(Owed(t)) - 1 ELSE Cardinality(Owed(t))
      BY <1>3, FS_RemoveElement
    <3>3. Cardinality(Owed(t)') >= Cardinality(Owed(t)) - (IF t = s THEN 1 ELSE 0)
      BY <1>3, <3>1, <3>2
    <3>4. Cardinality(Owed(t)') \in Nat
      BY <3>1, <3>2, FS_CardinalityType
    <3> QED BY <1>3, <1>5, <3>3, <3>4 DEF Reading
  <2> QED BY <2>1, <2>2 DEF Talk, Counters, Dialogue, Talks
<1>6. CASE Head(d2c[s]).kind = "end" /\ ~(job.i + 1 < job.chunks)
  <2>1. pc' = "prompt" /\ job'.i = 0
    BY <1>6 DEF CatData, Prompt, Idle
  <2>2. ASSUME NEW t \in Servers PROVE Silent(t)'
    <3>1. Owed(t) \subseteq IF t = s THEN {job.i} ELSE {}
      BY <1>1, <1>6 DEF Owed
    <3>2. Cardinality(Owed(t)) <= IF t = s THEN 1 ELSE 0
      <4>1. CASE t = s
        <5>1. IsFiniteSet({job.i}) /\ Cardinality({job.i}) = 1
          BY FS_Singleton
        <5>2. Owed(t) \in SUBSET {job.i}
          BY <3>1, <4>1
        <5>3. Cardinality(Owed(t)) <= Cardinality({job.i})
          BY <5>1, <5>2, FS_Subset, Zenon
        <5> QED BY <4>1, <5>1, <5>3
      <4>2. CASE t # s
        BY <3>1, <4>2, FS_EmptySet
      <4> QED BY <4>1, <4>2
    <3>3. Wanted(t)' = 0 /\ Ended(t)' = 0 /\ Asked(t)' = 0
      BY <1>3, <1>6, <3>2 DEF Reading
    <3>4. d2c'[t] \in Seq(Answer)
      BY DEF TypeOK, WireType
    <3>5. d2c'[t] = <<>>
      BY <1>3, <3>3, <3>4, NoEnds DEF Ended
    <3> QED BY <3>3, <3>5 DEF Silent
  <2> QED BY <2>1, <2>2 DEF Talk, Counters, Dialogue, Talks
<1> QED BY <1>4, <1>5, <1>6

\* A request that needs no answer, or is not answered, only shortens a queue.
LEMMA Unanswered ==
    ASSUME Talk, UNCHANGED <<pc, job, d2c>>, NEW s \in Servers, NEW op, Requested(s, op),
           ~Asks(Head(c2d[s])), NEW t \in Servers
    PROVE  Dialogue(t)'
<1>1. /\ Asked(t)' = Asked(t) /\ Wanted(t)' <= Wanted(t)
      /\ Asked(t)' \in Nat /\ Wanted(t)' \in Nat /\ Wanted(t) \in Nat /\ Ended(t) \in Nat
  BY RequestCounts, WireCounts DEF Talk
<1>2. Ended(t)' = Ended(t) /\ Placed(t)' = Placed(t) /\ Owed(t)' = Owed(t) /\ Cardinality(Owed(t)) \in Nat
  BY OwedCounts DEF Ended, Placed, Owed, Talk
<1>3. /\ pc \in {"put_loc", "cp_loc"} => Storing(t)
      /\ pc \in {"cat_send", "cat_data"} => Reading(t)
      /\ pc \notin Talks => Silent(t)
  BY DEF Talk, Dialogue
<1>4. Storing(t) => Storing(t)'
  BY <1>1 DEF Storing
<1>5. Reading(t) => Reading(t)'
  BY <1>1, <1>2 DEF Reading
<1>6. Silent(t) => Silent(t)'
  BY <1>1 DEF Silent
<1> QED BY <1>3, <1>4, <1>5, <1>6 DEF Dialogue

\* Who answers where it stores a chunk has been asked.
LEMMA OneAnswer ==
    ASSUME Talk, UNCHANGED <<pc, job>>, NEW s \in Servers, NEW op, Requested(s, op),
           Asks(Head(c2d[s])), NEW x \in Answer, Answers(s, <<x>>), NEW t \in Servers
    PROVE  Dialogue(t)'
<1>1. Asks(Head(c2d[s])) => op # "cat"
  BY DEF Requested, Asks
<1>2. /\ Asked(t) = Asked(t)' + IF t = s THEN 1 ELSE 0
      /\ Wanted(t) = Wanted(t)' /\ Asked(t)' \in Nat
      /\ Asked(s) # 0
  BY <1>1, RequestCounts DEF Talk
<1>3. d2c[s] \in Seq(Answer) /\ Len(d2c[s]) \in Nat
  BY WireCounts DEF Talk
<1>4. t # s => d2c'[t] = d2c[t]
  BY DEF Answers, Talk, TypeOK, WireType
<1>5. d2c'[s] = d2c[s] \o <<x>>
  BY DEF Answers, Talk, TypeOK, WireType
<1>6. Len(d2c'[s]) = Len(d2c[s]) + 1
  <2>1. <<x>> \in Seq(Answer) /\ Len(<<x>>) = 1
    OBVIOUS
  <2> QED BY <1>3, <1>5, <2>1, ConcatProperties
<1>7. pc \in {"put_loc", "cp_loc"}
  BY <1>2 DEF Talk, Dialogue, Silent, Reading, Talks
<1>8. Storing(t)
  BY <1>7 DEF Talk, Dialogue
<1>9. Storing(t)'
  BY <1>2, <1>3, <1>4, <1>6, <1>8 DEF Storing
<1> QED BY <1>7, <1>9 DEF Dialogue, Talks

LEMMA DataToBigFSTalk ==
    ASSUME Talk, TypeOK', NEW s \in Servers, DataToBigFS(s)
    PROVE  Talk'
<1> DEFINE req == Head(c2d[s])
<1>1. Requested(s, "tobigfs") /\ UNCHANGED <<pc, job>>
  BY DEF DataToBigFS, clientVars
<1>2. req \in Request /\ req.op = "tobigfs" /\ Asks(req)
  BY <1>1, RequestCounts DEF Talk, Asks
<1>3. PICK q \in Candidates(req.loc) : Answers(s, <<Located(q)>>)
  BY DEF DataToBigFS
<1>4. Located(q) \in Answer
  <2>1. q \in String
    BY <1>2, VariantType DEF Candidates, Request
  <2> QED BY <2>1, AnswerTypes
<1>5. \A t \in Servers : Dialogue(t)'
  BY <1>1, <1>2, <1>3, <1>4, OneAnswer
<1> QED BY <1>1, <1>5 DEF Talk, Counters

LEMMA DataRmTalk == ASSUME Talk, TypeOK', NEW s \in Servers, DataRm(s) PROVE Talk'
<1>1. Requested(s, "rm") /\ UNCHANGED <<pc, job, d2c>>
  BY DEF DataRm, clientVars
<1>2. ~Asks(Head(c2d[s]))
  BY <1>1 DEF Requested, Asks
<1>3. \A t \in Servers : Dialogue(t)'
  BY <1>1, <1>2, Unanswered
<1> QED BY <1>1, <1>3 DEF Talk, Counters

LEMMA DataCpTalk == ASSUME Talk, TypeOK', NEW s \in Servers, DataCp(s) PROVE Talk'
<1> DEFINE req == Head(c2d[s])
<1>1. Requested(s, "cp") /\ UNCHANGED <<pc, job>>
  BY DEF DataCp, clientVars
<1>2. req \in Request /\ req.op = "cp"
  BY <1>1, RequestCounts DEF Talk
<1>3. PICK q \in Candidates(req.loc) \cup {req.to} :
          Answers(s, IF req.num = 0 THEN <<Located(q)>> ELSE <<>>)
  BY DEF DataCp
<1>4. CASE req.num = 0
  <2>1. q \in String
    BY <1>2, VariantType DEF Candidates, Request
  <2>2. \A t \in Servers : Dialogue(t)'
    BY <1>1, <1>2, <1>3, <1>4, <2>1, AnswerTypes, OneAnswer DEF Asks
  <2> QED BY <1>1, <2>2 DEF Talk, Counters
<1>5. CASE req.num # 0
  <2>1. d2c' = d2c
    <3>1. d2c[s] \o <<>> = d2c[s]
      BY WireCounts, ConcatEmptySeq DEF Talk
    <3> QED BY <1>3, <1>5, <3>1 DEF Answers, Talk, TypeOK, WireType
  <2>2. \A t \in Servers : Dialogue(t)'
    BY <1>1, <1>2, <1>5, <2>1, Unanswered DEF Asks
  <2> QED BY <1>1, <2>2 DEF Talk, Counters
<1> QED BY <1>4, <1>5

\* A chunk that is read is one less to read, and its answer has one end.
LEMMA DataCatTalk == ASSUME Talk, TypeOK', NEW s \in Servers, DataCat(s) PROVE Talk'
<1> DEFINE path == ChunkPath(Head(c2d[s]).loc, Head(c2d[s]).num)
           b    == disk[s][path]
<1>1. Requested(s, "cat") /\ UNCHANGED <<pc, job>>
  BY DEF DataCat, clientVars
<1>2. ~Asks(Head(c2d[s])) /\ d2c[s] \in Seq(Answer)
  BY <1>1, WireCounts DEF Requested, Asks, Talk
<1>3. CASE d2c' = d2c
  <2>1. \A t \in Servers : Dialogue(t)'
    BY <1>1, <1>2, <1>3, Unanswered
  <2> QED BY <1>1, <2>1 DEF Talk, Counters
<1>4. CASE path \in DOMAIN disk[s] /\ b # Empty
  <2>1. Segment(b) \in Answer /\ EndOfChunk \in Answer
    BY <1>4, AnswerTypes DEF Talk, TypeOK, DataType, Directory
  <2>2. d2c' = [d2c EXCEPT ![s] = @ \o <<Segment(b), EndOfChunk>>]
    BY <1>4 DEF DataCat, Answers
  <2> DEFINE one == Append(d2c[s], Segment(b))
             two == Append(one, EndOfChunk)
  <2>3. d2c[s] \o <<Segment(b), EndOfChunk>> = two
    BY <1>2, <2>1
  <2>4. \A t \in Servers : d2c'[t] = IF t = s THEN two ELSE d2c[t]
    BY <2>2, <2>3 DEF Talk, TypeOK, WireType
  <2>5. one \in Seq(Answer) /\ two \in Seq(Answer) /\ two # <<>> /\ two[Len(two)] = EndOfChunk
    BY <1>2, <2>1, AppendProperties
  <2>6. \A K : Number(two, K) = Number(d2c[s], K) + (IF Segment(b) \in K THEN 1 ELSE 0)
                                                 + (IF EndOfChunk \in K THEN 1 ELSE 0)
    <3>1. \A K : Number(one, K) = Number(d2c[s], K) + IF Segment(b) \in K THEN 1 ELSE 0
      BY <1>2, <2>1, NumberAppend
    <3>2. \A K : Number(two, K) = Number(one, K) + IF EndOfChunk \in K THEN 1 ELSE 0
      <4> HIDE DEF one
      <4> QED BY <2>1, <2>5, NumberAppend
    <3> QED BY <3>1, <3>2
  <2>7. /\ Segment(b) \notin Ends /\ Segment(b) \notin Locations
        /\ EndOfChunk \in Ends /\ EndOfChunk \notin Locations
    BY <2>1 DEF Segment, EndOfChunk, Ends, Locations
  <2>8. Number(two, Ends) = Ended(s) + 1 /\ Number(two, Locations) = Placed(s)
    <3>1. Ended(s) \in Nat /\ Placed(s) \in Nat
      BY WireCounts DEF Talk
    <3> QED BY <2>6, <2>7, <3>1 DEF Ended, Placed
  <2> HIDE DEF one, two
  <2>9. ASSUME NEW t \in Servers PROVE Reading(t)'
    <3>1. /\ Asked(t)' = Asked(t) /\ Asked(t)' \in Nat /\ Wanted(t)' \in Nat
          /\ Wanted(t) = Wanted(t)' + IF t = s THEN 1 ELSE 0
          /\ Wanted(s) # 0
      BY <1>1, <1>2, RequestCounts DEF Talk
    <3>2. Reading(t) /\ Owed(t)' = Owed(t)
      BY <1>1, <3>1 DEF Talk, Dialogue, Silent, Storing, Talks, Owed
    <3>3. Ended(t)' = Ended(t) + (IF t = s THEN 1 ELSE 0) /\ Placed(t)' = Placed(t) /\ Ended(t) \in Nat
      BY <2>4, <2>8, WireCounts DEF Ended, Placed, Talk
    <3>4. d2c'[t] # <<>> => d2c'[t][Len(d2c'[t])].kind = "end"
      BY <2>4, <2>5, <3>2 DEF Reading, EndOfChunk
    <3>5. Cardinality(Owed(t)) \in Nat
      BY OwedCounts DEF Talk
    <3> QED BY <3>1, <3>2, <3>3, <3>4, <3>5 DEF Reading
  <2>10. pc \in {"cat_send", "cat_data"}
    BY <1>1, RequestCounts DEF Talk, Dialogue, Silent, Storing, Talks
  <2> QED BY <1>1, <2>9, <2>10 DEF Talk, Counters, Dialogue, Talks
<1>5. CASE path \in DOMAIN disk[s] /\ b = Empty
  <2>1. d2c[s] \o <<>> = d2c[s]
    BY <1>2, ConcatEmptySeq
  <2>2. d2c' = d2c
    BY <1>5, <2>1 DEF DataCat, Answers, Talk, TypeOK, WireType
  <2> QED BY <1>3, <2>2
<1>6. CASE path \notin DOMAIN disk[s]
  BY <1>3, <1>6 DEF DataCat
<1> QED BY <1>4, <1>5, <1>6

LEMMA InitTalk == Init => Talk
<1> SUFFICES ASSUME Init PROVE Talk
  OBVIOUS
<1>1. TypeOK
  BY InitType
<1>2. ASSUME NEW s \in Servers PROVE Silent(s)
  <2>1. c2d[s] = <<>> /\ d2c[s] = <<>>
    BY DEF Init
  <2> QED BY <2>1, NumberOfNone DEF Silent, Asked, Wanted
<1> QED BY <1>1, <1>2 DEF Init, Talk, Counters, Dialogue, Talks, Idle

LEMMA StepTalk == ASSUME Talk, [Next]_vars PROVE Talk'
<1>1. TypeOK'
  BY StepTypes DEF Talk
<1>2. ASSUME UNCHANGED <<pc, job, c2d, d2c>> PROVE Talk'
  <2>1. ASSUME NEW s \in Servers PROVE Dialogue(s)'
    BY <1>2 DEF Talk, Dialogue, Silent, Storing, Reading, Asked, Wanted, Ended, Placed, Owed
  <2> QED BY <1>1, <1>2, <2>1 DEF Talk, Counters
<1>3. CASE User
  BY <1>1, <1>3, QuietTalk, FetchWords DEF User
<1>4. CASE Client
  BY <1>1, <1>4, QuietTalk, PutAcceptedTalk, PutLocatedTalk, FoundTalk, CatSendTalk, CatDataTalk,
     RmSendTalk, CpAcceptedTalk, CpLocatedTalk, CpSendTalk DEF Client
<1>5. CASE NameServer
  BY <1>2, <1>5
     DEF NameServer, NameToBigFS, NameParts, NameLocation, NameCat, NameRm, NameCp, NameMv, NameIgnores,
         clientVars
<1>6. CASE \E s \in Servers : DataServer(s)
  BY <1>1, <1>6, DataToBigFSTalk, DataCatTalk, DataRmTalk, DataCpTalk DEF DataServer
<1>7. CASE UNCHANGED vars
  BY <1>2, <1>7 DEF vars, clientVars, wires
<1> QED BY <1>3, <1>4, <1>5, <1>6, <1>7 DEF Next

\* Whatever the user types, at most one answer with a location is asked for or
\* under way, for all data servers together: transfertoBigFS and copyfile take
\* each for that of the chunk they are at, without looking.
THEOREM OneLocationAtATime == Spec => []StopAndWait
<1>1. ASSUME Talk PROVE StopAndWait
  <2>1. ASSUME NEW s \in Servers PROVE Pending(s) = Asked(s) + Placed(s)
    <3>1. c2d[s] \in Seq(Request) /\ d2c[s] \in Seq(Answer)
      BY <1>1, WireCounts DEF Talk
    <3>2. /\ \A p \in 1..Len(c2d[s]) : c2d[s][p] \in Request
          /\ \A p \in 1..Len(d2c[s]) : d2c[s][p] \in Answer
      BY <3>1, ElementOfSeq
    <3>3. {p \in DOMAIN c2d[s] : Asks(c2d[s][p])} = {p \in 1..Len(c2d[s]) : c2d[s][p] \in AskRequests}
      BY <3>1, <3>2 DEF AskRequests
    <3>4. {p \in DOMAIN d2c[s] : d2c[s][p].kind = "loc"} = {p \in 1..Len(d2c[s]) : d2c[s][p] \in Locations}
      BY <3>1, <3>2 DEF Locations
    <3> QED BY <3>3, <3>4 DEF Pending, Asked, Placed, Number
  <2>2. ASSUME NEW s \in Servers
        PROVE  /\ Pending(s) <= IF pc \in {"put_loc", "cp_loc"} /\ s = Server(job.i) THEN 1 ELSE 0
               /\ Pending(s) \in Nat
    <3>1. /\ Asked(s) \in Nat /\ Placed(s) \in Nat /\ Len(d2c[s]) \in Nat
          /\ Placed(s) <= Len(d2c[s])
      BY <1>1, WireCounts DEF Talk
    <3>2. CASE pc \in {"put_loc", "cp_loc"}
      BY <1>1, <2>1, <3>1, <3>2 DEF Talk, Dialogue, Storing
    <3>3. CASE pc \in {"cat_send", "cat_data"}
      BY <1>1, <2>1, <3>1, <3>3 DEF Talk, Dialogue, Reading
    <3>4. CASE pc \notin Talks
      <4>1. Placed(s) = 0 /\ Asked(s) = 0
        BY <1>1, <3>4, NumberOfNone DEF Talk, Dialogue, Silent, Placed
      <4> QED BY <2>1, <3>4, <4>1 DEF Talks
    <3> QED BY <3>2, <3>3, <3>4 DEF Talks
  <2> QED BY <2>2 DEF StopAndWait
<1> QED BY <1>1, InitTalk, StepTalk, PTL DEF Spec

-----------------------------------------------------------------------------
(* The conversation with the name server, which still reads the strings of *)
(* one command when the next is on its way.                                *)

\* How many strings of the command before the name server has still to read.
Needs == CASE nspc = "command" -> 0 [] nspc = "parts" -> 2 [] nspc = "location" -> 1

Calls == {"put_ack", "cat_ack", "rm_ack", "cp_ack", "mv_ack"}

\* The word the client has sent for the answer it waits for, and its arguments.
Says(w) ==
    \/ pc = "put_ack" /\ w = "tobigfs"
    \/ pc = "cat_ack" /\ w \in {"cat", "frombigfs"}
    \/ pc = "rm_ack" /\ w = "rm"
    \/ pc = "cp_ack" /\ w = "cp"
    \/ pc = "mv_ack" /\ w = "mv"
Args == IF pc \in {"cp_ack", "mv_ack"} THEN 2 ELSE 1

\* The client's command stands behind the rest of the one before.
Waits ==
    /\ n2c = <<>> /\ Len(c2n) = Needs + 1 + Args
    /\ \E w \in Words : Says(w) /\ c2n[Needs + 1] = Word(w)
    /\ c2n[Needs + 2] = job.name
    /\ Args = 2 => c2n[Needs + 3] = job.to

\* The answer is there, and is as long as the client will think it is.
Served ==
    /\ c2n = <<>>
    /\ pc = "put_ack" =>
          /\ Len(n2c) = 1
          /\ nspc = IF n2c[1] = <<Num(1)>> THEN "command" ELSE "parts"
    /\ pc \in {"cat_ack", "rm_ack"} =>
          /\ Len(n2c) = IF n2c[1] = <<Num(0)>> THEN 1 ELSE 3
          /\ nspc = "command"
    /\ pc = "cp_ack" =>
          IF n2c[1] = <<Num(1)>> THEN Len(n2c) = 1 /\ nspc = "command"
          ELSE Len(n2c) = 3 /\ Atoi(n2c[3]) # 0 /\ nspc = "location"
    /\ pc = "mv_ack" => Len(n2c) = 1 /\ nspc = "command"

\* The location of a new file is what the client has still to send.
Owing == pc = "cp_loc" \/ (pc = "put_loc" /\ job.i = 0)

\* Files have chunks, and so has the one whose number is on the way.
HaveChunks(d) == \A k \in DOMAIN d : d[k].chunks # 0
SomeParts == nspc = "parts" /\ c2n # <<>> => Atoi(c2n[1]) # 0

InCall ==
    /\ pc \in Calls => Waits \/ Served
    /\ pc \notin Calls => n2c = <<>> /\ Len(c2n) = IF Owing THEN Needs - 1 ELSE Needs

Sync == Talk /\ HaveChunks(dir) /\ SomeParts /\ InCall

\* The user has stored a file that is not there: the name server waits for the
\* number of its chunks.
Astray == pc = "prompt" /\ nspc = "parts" /\ c2n = <<>> /\ n2c = <<>>

\* No answer will come: the name server died of an mv, or takes the words of
\* the command for a number and a location.
Stuck ==
    /\ pc \in Calls /\ n2c = <<>>
    /\ \/ ~nsup
       \/ (nspc = "parts" /\ Len(c2n) <= 3)
       \/ (nspc = "location" /\ Len(c2n) <= 2)
       \/ (nspc = "command" /\ Len(c2n) <= 1)

Course == Talk /\ (Sync \/ Astray \/ Stuck)

LEMMA Strings ==
    ASSUME TypeOK
    PROVE  /\ c2n \in Seq(String) /\ n2c \in Seq(String) /\ dir \in Seq(Node)
           /\ Len(c2n) \in Nat /\ Len(n2c) \in Nat /\ Needs \in 0..2
           /\ Needs = 0 <=> nspc = "command"
           /\ Needs = 2 <=> nspc = "parts"
BY LenProperties DEF TypeOK, WireType, NameType, Needs

\* A command is sent when all strings of those before are.
LEMMA StartSync ==
    ASSUME Sync, Talk', pc = "prompt", pc' \in Calls, NEW w \in Words, Says(w)',
           NEW more \in Seq(String), Len(more) = 1 + Args', more[1] = Word(w), more[2] = job'.name,
           Args' = 2 => more[3] = job'.to, SendName(more), UNCHANGED <<nspc, n2c, dir>>
    PROVE  Sync'
<1>1. /\ c2n \in Seq(String) /\ Len(c2n) = Needs /\ n2c = <<>> /\ Needs \in 0..2
      /\ Needs = 2 <=> nspc = "parts"
  BY Strings DEF Sync, Talk, InCall, Calls, Owing
<1>2. Needs' = Needs
  BY DEF Needs
<1>3. Args' \in 1..2
  BY DEF Args
<1>5. /\ Len(c2n \o more) = Needs + 1 + Args'
      /\ \A i \in 1..(Needs + 1 + Args') : (c2n \o more)[i] = IF i <= Needs THEN c2n[i] ELSE more[i - Needs]
  <2>1. /\ Len(c2n \o more) = Len(c2n) + Len(more)
        /\ \A i \in 1..(Len(c2n) + Len(more)) : (c2n \o more)[i] = IF i <= Len(c2n) THEN c2n[i] ELSE more[i - Len(c2n)]
    BY <1>1, ConcatProperties
  <2>2. Len(c2n) = Needs /\ Len(more) = 1 + Args' /\ Needs + (1 + Args') = Needs + 1 + Args'
    BY <1>1, <1>3
  <2> QED BY <2>1, <2>2
<1>6. c2n' = c2n \o more
  BY DEF SendName
<1>7. /\ c2n'[Needs + 1] = Word(w) /\ c2n'[Needs + 2] = job'.name
      /\ Args' = 2 => c2n'[Needs + 3] = job'.to
      /\ nspc = "parts" => c2n'[1] = c2n[1] /\ c2n # <<>>
  <2>1. \A a \in 0..2, b \in 1..2 :
            /\ a + 1 \in 1..(a + 1 + b) /\ ~(a + 1 <= a) /\ (a + 1) - a = 1
            /\ a + 2 \in 1..(a + 1 + b) /\ ~(a + 2 <= a) /\ (a + 2) - a = 2
            /\ b = 2 => a + 3 \in 1..(a + 1 + b) /\ ~(a + 3 <= a) /\ (a + 3) - a = 3
            /\ a = 2 => 1 \in 1..(a + 1 + b) /\ 1 <= a
    OBVIOUS
  <2>2. nspc = "parts" => c2n # <<>>
    <3>1. nspc = "parts" => Len(c2n) # 0
      BY <1>1
    <3>2. Len(c2n) = 0 <=> c2n = <<>>
      BY <1>1, NoLength
    <3> QED BY <3>1, <3>2
  <2>3. c2n'[Needs + 1] = more[1] /\ c2n'[Needs + 2] = more[2] /\ (Args' = 2 => c2n'[Needs + 3] = more[3])
    <3> DEFINE n == Needs
               b == Args'
    <3>1. n \in 0..2 /\ b \in 1..2
      BY <1>1, <1>3
    <3>2. \A i \in 1..(n + 1 + b) : c2n'[i] = IF i <= n THEN c2n[i] ELSE more[i - n]
      BY <1>5, <1>6
    <3> HIDE DEF n, b
    <3>3. c2n'[n + 1] = more[1]
      BY <2>1, <3>1, <3>2
    <3>4. c2n'[n + 2] = more[2]
      BY <2>1, <3>1, <3>2
    <3>5. b = 2 => c2n'[n + 3] = more[3]
      BY <2>1, <3>1, <3>2
    <3> QED BY <3>3, <3>4, <3>5 DEF n, b
  <2>4. nspc = "parts" => c2n'[1] = c2n[1]
    BY <1>1, <1>3, <1>5, <1>6, <2>1
  <2> QED BY <2>2, <2>3, <2>4
<1>8. Waits'
  BY <1>1, <1>2, <1>5, <1>6, <1>7 DEF Waits
<1>9. SomeParts'
  BY <1>7 DEF Sync, SomeParts
<1> QED BY <1>8, <1>9 DEF Sync, InCall, HaveChunks

LEMMA UserSync == ASSUME Sync, Talk', User PROVE Sync'
<1>1. ASSUME NEW n \in Names, NEW text \in Texts, StartPut(n, text) PROVE Sync'
  <2>1. /\ pc = "prompt" /\ pc' = "put_ack" /\ job'.name = n
        /\ SendName(<<Word("tobigfs"), n>>) /\ UNCHANGED <<nspc, n2c, dir>>
    BY <1>1 DEF StartPut, Await, nameVars, Idle
  <2>2. Says("tobigfs")' /\ Args' = 1 /\ "tobigfs" \in Words
    BY <2>1 DEF Says, Args, Words
  <2>3. Word("tobigfs") \in String /\ n \in String
    BY <2>2, WordType, BigFSConstants DEF ConstantsOK
  <2> DEFINE more == <<Word("tobigfs"), n>>
  <2>4. more \in Seq(String) /\ Len(more) = 1 + Args' /\ more[1] = Word("tobigfs") /\ more[2] = n
    BY <2>2, <2>3
  <2>5. pc' \in Calls /\ SendName(more) /\ Args' # 2
    BY <2>1, <2>2 DEF Calls
  <2> HIDE DEF more
  <2> QED BY <2>1, <2>2, <2>4, <2>5, StartSync
<1>2. ASSUME NEW n \in Names, NEW op \in {"cat", "frombigfs"}, Fetch(op, n) PROVE Sync'
  <2>1. /\ pc = "prompt" /\ pc' = "cat_ack" /\ job'.name = n
        /\ SendName(<<Word(op), n>>) /\ UNCHANGED <<nspc, n2c, dir>>
    BY <1>2 DEF Fetch, StartCat, StartGet, Await, nameVars, Idle
  <2>2. Says(op)' /\ Args' = 1 /\ op \in Words
    BY <2>1 DEF Says, Args, Words
  <2>3. Word(op) \in String /\ n \in String
    BY <2>2, WordType, BigFSConstants DEF ConstantsOK
  <2> DEFINE more == <<Word(op), n>>
  <2>4. more \in Seq(String) /\ Len(more) = 1 + Args' /\ more[1] = Word(op) /\ more[2] = n
    BY <2>2, <2>3
  <2>5. pc' \in Calls /\ SendName(more) /\ Args' # 2
    BY <2>1, <2>2 DEF Calls
  <2> HIDE DEF more
  <2> QED BY <2>1, <2>2, <2>4, <2>5, StartSync
<1>3. ASSUME NEW n \in Names, StartRm(n) PROVE Sync'
  <2>1. /\ pc = "prompt" /\ pc' = "rm_ack" /\ job'.name = n
        /\ SendName(<<Word("rm"), n>>) /\ UNCHANGED <<nspc, n2c, dir>>
    BY <1>3 DEF StartRm, Await, nameVars, Idle
  <2>2. Says("rm")' /\ Args' = 1 /\ "rm" \in Words
    BY <2>1 DEF Says, Args, Words
  <2>3. Word("rm") \in String /\ n \in String
    BY <2>2, WordType, BigFSConstants DEF ConstantsOK
  <2> DEFINE more == <<Word("rm"), n>>
  <2>4. more \in Seq(String) /\ Len(more) = 1 + Args' /\ more[1] = Word("rm") /\ more[2] = n
    BY <2>2, <2>3
  <2>5. pc' \in Calls /\ SendName(more) /\ Args' # 2
    BY <2>1, <2>2 DEF Calls
  <2> HIDE DEF more
  <2> QED BY <2>1, <2>2, <2>4, <2>5, StartSync
<1>4. ASSUME NEW a \in Names, NEW b \in Names, StartCp(a, b) PROVE Sync'
  <2>1. /\ pc = "prompt" /\ pc' = "cp_ack" /\ job'.name = a /\ job'.to = b
        /\ SendName(<<Word("cp"), a, b>>) /\ UNCHANGED <<nspc, n2c, dir>>
    BY <1>4 DEF StartCp, Await, nameVars, Idle
  <2>2. Says("cp")' /\ Args' = 2 /\ "cp" \in Words
    BY <2>1 DEF Says, Args, Words
  <2>3. Word("cp") \in String /\ a \in String /\ b \in String
    BY <2>2, WordType, BigFSConstants DEF ConstantsOK
  <2> DEFINE more == <<Word("cp"), a, b>>
  <2>4. more \in Seq(String) /\ Len(more) = 1 + Args' /\ more[1] = Word("cp") /\ more[2] = a /\ more[3] = b
    BY <2>2, <2>3
  <2>5. pc' \in Calls /\ SendName(more) /\ job'.to = more[3]
    BY <2>1, <2>2, <2>4 DEF Calls
  <2> HIDE DEF more
  <2> QED BY <2>1, <2>2, <2>4, <2>5, StartSync
<1>5. ASSUME NEW a \in Names, NEW b \in Names, StartMv(a, b) PROVE Sync'
  <2>1. /\ pc = "prompt" /\ pc' = "mv_ack" /\ job'.name = a /\ job'.to = b
        /\ SendName(<<Word("mv"), a, b>>) /\ UNCHANGED <<nspc, n2c, dir>>
    BY <1>5 DEF StartMv, Await, nameVars, Idle
  <2>2. Says("mv")' /\ Args' = 2 /\ "mv" \in Words
    BY <2>1 DEF Says, Args, Words
  <2>3. Word("mv") \in String /\ a \in String /\ b \in String
    BY <2>2, WordType, BigFSConstants DEF ConstantsOK
  <2> DEFINE more == <<Word("mv"), a, b>>
  <2>4. more \in Seq(String) /\ Len(more) = 1 + Args' /\ more[1] = Word("mv") /\ more[2] = a /\ more[3] = b
    BY <2>2, <2>3
  <2>5. pc' \in Calls /\ SendName(more) /\ job'.to = more[3]
    BY <2>1, <2>2, <2>4 DEF Calls
  <2> HIDE DEF more
  <2> QED BY <2>1, <2>2, <2>4, <2>5, StartSync
<1> QED BY <1>1, <1>2, <1>3, <1>4, <1>5, FetchWords DEF User

\* Whoever reads an answer has been served.
LEMMA IsServed ==
    ASSUME Sync, pc \in Calls, n2c # <<>>
    PROVE  Served /\ c2n = <<>> /\ Len(n2c) \in Nat
<1>1. Waits \/ Served
  BY DEF Sync, InCall
<1>2. ~Waits
  BY DEF Waits
<1>3. Len(n2c) \in Nat
  BY Strings DEF Sync, Talk
<1> QED BY <1>1, <1>2, <1>3 DEF Served

\* Back at the prompt, or at the data servers, with nothing left to read.
LEMMA SettledSync ==
    ASSUME Sync, Talk', n2c' = <<>>, c2n' = c2n, UNCHANGED <<nspc, dir>>,
           pc' \notin Calls, ~Owing', Len(c2n) = Needs
    PROVE  Sync'
BY DEF Sync, HaveChunks, SomeParts, InCall, Needs, Calls

\* The user is told that the local file is not there, and the name server is not.
LEMMA PutRefusedSync == ASSUME Sync, Talk', PutRefused PROVE Sync' \/ (job.text = <<>> /\ Astray')
<1>1. Served /\ c2n = <<>> /\ pc = "put_ack" /\ c2n' = c2n /\ UNCHANGED <<nspc, dir>> /\ pc' = "prompt"
  BY IsServed DEF PutRefused, Calls, Sync, InCall, Prompt, nameVars
<1>2. Len(n2c) = 1 /\ n2c[1] = Head(n2c) /\ n2c \in Seq(String)
  BY <1>1, Strings DEF PutRefused, Served, Sync, Talk
<1>3. n2c' = <<>>
  BY <1>2 DEF PutRefused
<1>4. CASE Head(n2c) = <<Num(1)>>
  <2>1. Len(c2n) = Needs
    BY <1>1, <1>2, <1>4 DEF Needs, Served
  <2>2. pc' \notin Calls /\ ~Owing'
    BY <1>1 DEF Calls, Owing
  <2> QED BY <1>1, <1>3, <2>1, <2>2, SettledSync
<1>5. CASE Head(n2c) # <<Num(1)>>
  BY <1>1, <1>2, <1>3, <1>5 DEF Served, Astray, PutRefused
<1> QED BY <1>4, <1>5

LEMMA PutSync == ASSUME Sync, Talk', PutAccepted \/ PutLocated PROVE Sync'
<1>2. CASE PutAccepted
  <2>1. Served /\ c2n = <<>> /\ pc = "put_ack" /\ job.text # <<>> /\ job.i = 0
    BY <1>2, IsServed DEF PutAccepted, Calls, Sync, InCall, Talk, Counters
  <2>2. Len(n2c) = 1 /\ Head(n2c) # <<Num(1)>> /\ n2c[1] = Head(n2c) /\ n2c \in Seq(String)
    BY <1>2, <2>1, Strings DEF PutAccepted, Served, Sync, Talk
  <2>3. nspc = "parts"
    BY <2>1, <2>2 DEF Served
  <2>4. n2c' = <<>>
    BY <1>2, <2>2 DEF PutAccepted
  <2>5. c2n' = << <<Num(Len(job.text))>> >>
    BY <1>2, <2>1 DEF PutAccepted, SendName
  <2>6. Atoi(<<Num(Len(job.text))>>) # 0
    <3>1. job.text \in Seq(Block)
      BY DEF Sync, Talk, TypeOK, ClientType, Job
    <3> QED BY <2>1, <3>1, EmptySeq DEF Atoi, Num
  <2>7. pc' = "put_loc" /\ job'.i = 0 /\ UNCHANGED <<nspc, dir>>
    BY <1>2, <2>1 DEF PutAccepted, Await, nameVars, Sync, Talk, TypeOK, ClientType, Job
  <2>8. SomeParts' /\ Len(c2n') = 1 /\ Owing' /\ Needs' = 2
    BY <2>3, <2>5, <2>6, <2>7 DEF SomeParts, Owing, Needs
  <2> QED BY <2>4, <2>7, <2>8 DEF Sync, InCall, HaveChunks, Calls
<1>3. CASE PutLocated
  <2> DEFINE loc == Head(d2c[Server(job.i)]).loc
  <2>1. pc = "put_loc" /\ n2c' = <<>> /\ UNCHANGED <<nspc, dir>> /\ pc' \in {"put_loc", "prompt"} /\ job.i \in Nat
    BY <1>3 DEF PutLocated, Await, Prompt, nameVars, Sync, InCall, Calls, Talk, TypeOK, ClientType, Job
  <2>2. c2n' = IF job.i = 0 THEN c2n \o <<loc>> ELSE c2n
    BY <1>3, Strings DEF PutLocated, SendName, Sync, Talk
  <2>3. ~Owing'
    <3>1. pc' = "put_loc" => job'.i = job.i + 1
      BY <1>3, <2>1 DEF PutLocated, Await, Prompt, Sync, Talk, TypeOK, ClientType, Job
    <3> QED BY <2>1, <3>1 DEF Owing
  <2>4. CASE job.i # 0
    BY <2>1, <2>2, <2>3, <2>4, SettledSync DEF Sync, InCall, Owing, Calls
  <2>5. CASE job.i = 0
    <3>1. c2n \in Seq(String) /\ Len(c2n) = Needs - 1 /\ Needs \in 1..2 /\ (Needs = 2 <=> nspc = "parts")
      BY <2>1, <2>5, Strings DEF Sync, Talk, InCall, Owing, Calls
    <3>2. loc \in String
      <4>1. Server(job.i) \in Servers /\ d2c[Server(job.i)] # <<>>
        BY <1>3, <2>1, ServerType DEF PutLocated
      <4> QED BY <4>1, ReadAnswerType DEF Sync, Talk, TypeOK, WireType, Answer
    <3>3. Len(c2n \o <<loc>>) = Len(c2n) + 1 /\ (c2n # <<>> => (c2n \o <<loc>>)[1] = c2n[1])
      BY <3>1, <3>2
    <3>4. SomeParts'
      <4>1. nspc = "parts" => c2n # <<>>
        BY <3>1
      <4> QED BY <2>1, <2>2, <2>5, <3>3, <4>1 DEF Sync, SomeParts
    <3>5. Len(c2n') = Needs'
      <4>1. Needs' = Needs
        BY <2>1 DEF Needs
      <4>2. Len(c2n) + 1 = Needs
        BY <3>1
      <4> QED BY <2>2, <2>5, <3>3, <4>1, <4>2
    <3> QED BY <2>1, <2>3, <3>4, <3>5 DEF Sync, InCall, HaveChunks, Calls
  <2> QED BY <2>4, <2>5
<1> QED BY <1>2, <1>3

LEMMA ReadSync ==
    ASSUME Sync, Talk', NotFound \/ Found \/ MvDoneOrCpRefused
    PROVE  Sync'
<1>1. /\ pc \in Calls \ {"put_ack"} /\ n2c # <<>> /\ UNCHANGED <<c2n, nspc, dir>>
      /\ pc' \in {"prompt", "cat_send", "rm_send"}
  BY DEF NotFound, Found, MvDoneOrCpRefused, Await, Prompt, nameVars, Calls
<1>2. Served /\ c2n = <<>>
  BY <1>1, IsServed
<1>3. n2c \in Seq(String) /\ n2c[1] = Head(n2c) /\ Len(n2c) \in Nat
  BY <1>1, Strings DEF Sync, Talk
<1>4. nspc = "command" /\ n2c' = <<>>
  <2>1. CASE NotFound
    <3>1. Len(n2c) = 1 /\ nspc = "command"
      BY <1>2, <1>3, <2>1 DEF NotFound, Served
    <3> QED BY <1>3, <2>1, <3>1 DEF NotFound
  <2>2. CASE Found
    <3>1. Len(n2c) = 3 /\ nspc = "command"
      BY <1>2, <1>3, <2>2 DEF Found, Served
    <3>2. n2c' = SubSeq(n2c, 4, 3)
      BY <2>2, <3>1 DEF Found
    <3> QED BY <1>3, <3>1, <3>2, SubSeqEmpty
  <2>3. CASE MvDoneOrCpRefused
    <3>1. Len(n2c) = 1 /\ nspc = "command"
      BY <1>2, <1>3, <2>3 DEF MvDoneOrCpRefused, Served
    <3> QED BY <1>3, <2>3, <3>1 DEF MvDoneOrCpRefused
  <2> QED BY <2>1, <2>2, <2>3
<1>5. Len(c2n) = Needs
  BY <1>2, <1>4 DEF Needs
<1> QED BY <1>1, <1>4, <1>5, SettledSync DEF Calls, Owing

LEMMA CpSync == ASSUME Sync, Talk', CpAccepted \/ CpLocated PROVE Sync'
<1>1. CASE CpAccepted
  <2>1. /\ pc = "cp_ack" /\ Len(n2c) >= 3 /\ n2c \in Seq(String) /\ n2c # <<>>
        /\ n2c[1] = Head(n2c) /\ Head(n2c) # <<Num(1)>> /\ UNCHANGED <<c2n, nspc, dir>>
    BY <1>1, Strings DEF CpAccepted, nameVars, Sync, Talk
  <2>2. Served /\ c2n = <<>>
    BY <2>1, IsServed DEF Calls
  <2>3. Len(n2c) = 3 /\ Atoi(n2c[3]) # 0 /\ nspc = "location"
    BY <2>1, <2>2 DEF Served
  <2>4. n2c' = <<>>
    <3>1. n2c' = SubSeq(n2c, 4, 3)
      BY <1>1, <2>3 DEF CpAccepted
    <3> QED BY <2>1, <3>1, SubSeqEmpty
  <2>5. pc' = "cp_loc"
    BY <1>1, <2>3 DEF CpAccepted, Await
  <2>6. Owing' /\ Needs' = 1 /\ Len(c2n') = 0 /\ SomeParts'
    BY <2>1, <2>2, <2>3, <2>5 DEF Owing, Needs, SomeParts
  <2> QED BY <2>1, <2>4, <2>5, <2>6 DEF Sync, InCall, HaveChunks, Calls
<1>2. CASE CpLocated
  <2> DEFINE loc == Head(d2c[Server(0)]).loc
  <2>1. /\ pc = "cp_loc" /\ n2c' = <<>> /\ UNCHANGED <<nspc, dir>> /\ pc' \in {"cp_send", "prompt"}
        /\ c2n' = c2n \o <<loc>>
    BY <1>2 DEF CpLocated, SendName, Await, Prompt, nameVars, Sync, InCall, Calls
  <2>2. c2n \in Seq(String) /\ Len(c2n) = Needs - 1 /\ Needs \in 1..2 /\ (Needs = 2 <=> nspc = "parts")
    BY <2>1, Strings DEF Sync, Talk, InCall, Owing, Calls
  <2>3. loc \in String
    <3>1. Server(0) \in Servers /\ d2c[Server(0)] # <<>>
      BY <1>2, ServerType DEF CpLocated
    <3> QED BY <3>1, ReadAnswerType DEF Sync, Talk, TypeOK, WireType, Answer
  <2>4. Len(c2n \o <<loc>>) = Len(c2n) + 1 /\ (c2n # <<>> => (c2n \o <<loc>>)[1] = c2n[1])
    BY <2>2, <2>3
  <2>5. SomeParts'
    <3>1. nspc = "parts" => c2n # <<>>
      BY <2>2
    <3> QED BY <2>1, <2>4, <3>1 DEF Sync, SomeParts
  <2>6. Len(c2n') = Needs' /\ ~Owing'
    <3>1. Needs' = Needs /\ ~Owing'
      BY <2>1 DEF Needs, Owing
    <3>2. Len(c2n) + 1 = Needs
      BY <2>2
    <3> QED BY <2>1, <2>4, <3>1, <3>2
  <2> QED BY <2>1, <2>5, <2>6 DEF Sync, InCall, HaveChunks, Calls
<1> QED BY <1>1, <1>2

LEMMA ClientSync == ASSUME Sync, Talk', Client PROVE Sync' \/ (PutRefused /\ job.text = <<>> /\ Astray')
<1>1. CASE CatSend \/ CatData \/ RmSend \/ CpSend
  <2>1. /\ pc \notin Calls /\ ~Owing /\ pc' \notin Calls /\ ~Owing' /\ UNCHANGED <<c2n, n2c, nspc, dir>>
    BY <1>1 DEF CatSend, CatData, RmSend, CpSend, Await, Prompt, nameVars, Calls, Owing
  <2> QED BY <2>1, SettledSync DEF Sync, InCall
<1> QED BY <1>1, PutRefusedSync, PutSync, ReadSync, CpSync DEF Client

Arity(w) == IF w \in {"cp", "mv"} THEN 3 ELSE 2

\* A command the name server takes is the one the client waits for, whole.
LEMMA TakesCommand ==
    ASSUME Sync, NEW w \in Words, Takes(w, Arity(w))
    PROVE  /\ pc \in Calls /\ Says(w) /\ n2c = <<>> /\ c2n' = <<>> /\ nspc = "command"
           /\ Waits /\ Needs = 0 /\ c2n[2] = job.name /\ (Arity(w) = 3 => c2n[3] = job.to)
<1>1. /\ nspc = "command" /\ Len(c2n) >= Arity(w) /\ Head(c2n) = Word(w)
      /\ c2n' = SubSeq(c2n, Arity(w) + 1, Len(c2n)) /\ c2n \in Seq(String) /\ Needs = 0
      /\ Len(c2n) \in Nat /\ Arity(w) \in 2..3
  BY Strings DEF Takes, Sync, Talk, Arity
<1>2. Len(c2n) # 0 /\ c2n # <<>> /\ Head(c2n) = c2n[1]
  <2>1. Len(c2n) # 0
    BY <1>1
  <2>2. c2n # <<>>
    BY <1>1, <2>1, NoLength
  <2> QED BY <1>1, <2>1, <2>2
<1>3. pc \in Calls
  <2>1. pc \notin Calls => Len(c2n) \in {0, 0 - 1}
    BY <1>1 DEF Sync, InCall
  <2> QED BY <1>1, <1>2, <2>1
<1>4. Waits
  BY <1>2, <1>3 DEF Sync, InCall, Served
<1>5. Len(c2n) = 1 + Args /\ n2c = <<>>
  BY <1>1, <1>4 DEF Waits, Args
<1>6. PICK v \in Words : Says(v) /\ c2n[1] = Word(v)
  BY <1>1, <1>4 DEF Waits
<1>7. v = w
  BY <1>1, <1>2, <1>6 DEF Word
<1>8. Arity(w) = 1 + Args
  BY <1>6, <1>7 DEF Arity, Args, Says
<1>9. c2n' = <<>>
  BY <1>1, <1>5, <1>8, SubSeqEmpty
<1>10. Needs + 2 = 2 /\ Needs + 3 = 3 /\ (Arity(w) = 3 => Args = 2)
  BY <1>1, <1>8 DEF Args
<1>11. c2n[2] = job.name /\ (Arity(w) = 3 => c2n[3] = job.to)
  BY <1>4, <1>10 DEF Waits
<1> QED BY <1>1, <1>3, <1>4, <1>5, <1>6, <1>7, <1>9, <1>11

\* What a reply leaves for the client to read.
LEMMA ReplySync ==
    ASSUME Sync, Talk', pc \in Calls, UNCHANGED <<pc, job>>, c2n' = <<>>, HaveChunks(dir'), Served'
    PROVE  Sync'
BY DEF Sync, SomeParts, InCall

LEMMA NewReply ==
    ASSUME n2c = <<>>, NEW strings \in Seq(String), Reply(strings)
    PROVE  n2c' = strings
BY ConcatEmptySeq DEF Reply

LEMMA Chunks ==
    ASSUME Sync, NEW k \in DOMAIN dir
    PROVE  /\ dir[k].chunks \in Nat /\ dir[k].chunks # 0 /\ dir[k].loc \in String
           /\ <<Num(dir[k].chunks)>> \in String /\ Atoi(<<Num(dir[k].chunks)>>) = dir[k].chunks
<1>1. dir[k] \in Node
  BY DEF Sync, Talk, TypeOK, NameType
<1> QED BY <1>1, NumeralType DEF Sync, HaveChunks, Node, Atoi, Num

LEMMA NodesLeft ==
    ASSUME Sync, NEW k \in DOMAIN dir
    PROVE  HaveChunks(Unlink(k)) /\ Unlink(k) \in Seq(Node)
<1>1. dir \in Seq(Node) /\ Unlink(k) \in Seq(Node)
  <2>1. TypeOK
    BY DEF Sync, Talk
  <2>2. Unlink(k) \in Seq(Node)
    BY <2>1, UnlinkType
  <2> QED BY <2>1, <2>2 DEF TypeOK, NameType
<1>2. ASSUME NEW i \in DOMAIN Unlink(k) PROVE \E j \in DOMAIN dir : Unlink(k)[i] = dir[j]
  <2>1. /\ Len(dir) \in Nat /\ DOMAIN dir = 1..Len(dir) /\ Len(Unlink(k)) = Len(dir) - 1
        /\ \A h \in 1..(Len(dir) - 1) : Unlink(k)[h] = IF h < k THEN dir[h] ELSE dir[h + 1]
    BY <1>1, LenProperties, UnlinkType DEF Sync, Talk
  <2>2. i \in 1..(Len(dir) - 1)
    BY <1>1, <2>1
  <2>3. i \in DOMAIN dir /\ i + 1 \in DOMAIN dir
    BY <2>1, <2>2
  <2> QED BY <2>1, <2>2, <2>3
<1> QED BY <1>1, <1>2 DEF Sync, HaveChunks

LEMMA AppendHasChunks ==
    ASSUME NEW d \in Seq(Node), HaveChunks(d), NEW x \in Node, x.chunks # 0
    PROVE  HaveChunks(Append(d, x))
BY AppendProperties DEF HaveChunks

LEMMA NameToBigFSSync == ASSUME Sync, Talk', NameToBigFS PROVE Sync'
<1>1. pc = "put_ack" /\ pc \in Calls /\ n2c = <<>> /\ c2n' = <<>> /\ nspc = "command" /\ UNCHANGED <<pc, job>>
  BY TakesCommand DEF NameToBigFS, Arity, Says, Words, clientVars
<1>2. \/ n2c' = << <<Num(1)>> >> /\ nspc' = "command"
      \/ n2c' = << <<Num(0)>> >> /\ nspc' = "parts"
  <2>1. << <<Num(0)>> >> \in Seq(String) /\ << <<Num(1)>> >> \in Seq(String)
    BY NumeralType
  <2> QED BY <1>1, <2>1, NewReply DEF NameToBigFS
<1>3. Served'
  BY <1>1, <1>2 DEF Served, Num
<1>4. dir' = dir
  BY DEF NameToBigFS
<1> QED BY <1>1, <1>3, <1>4, ReplySync DEF Sync

\* The answers to the other commands: one string, or three.
LEMMA NameCatSync ==
    ASSUME Sync, Talk', NEW op \in {"cat", "frombigfs"}, NameCat(op)
    PROVE  Sync'
<1>1. /\ pc = "cat_ack" /\ pc \in Calls /\ n2c = <<>> /\ c2n' = <<>> /\ nspc' = "command"
      /\ UNCHANGED <<pc, job, dir>>
  BY TakesCommand DEF NameCat, Arity, Says, Words, clientVars
<1>2. \/ n2c' = << <<Num(0)>> >>
      \/ \E k \in DOMAIN dir : n2c' = << <<Num(1)>>, dir[k].loc, <<Num(dir[k].chunks)>> >>
  <2>1. << <<Num(0)>> >> \in Seq(String)
    BY NumeralType
  <2> QED BY <1>1, <2>1, NodeTypes, NewReply DEF NameCat, Sync, Talk
<1>3. Served'
  BY <1>1, <1>2 DEF Served, Num
<1> QED BY <1>1, <1>3, ReplySync DEF Sync

LEMMA NameRmSync == ASSUME Sync, Talk', NameRm PROVE Sync'
<1>1. /\ pc = "rm_ack" /\ pc \in Calls /\ n2c = <<>> /\ c2n' = <<>> /\ nspc' = "command"
      /\ UNCHANGED <<pc, job>>
  BY TakesCommand DEF NameRm, Arity, Says, Words, clientVars
<1>2. \/ n2c' = << <<Num(0)>> >>
      \/ \E k \in DOMAIN dir : n2c' = << <<Num(1)>>, dir[k].loc, <<Num(dir[k].chunks)>> >>
  <2>1. << <<Num(0)>> >> \in Seq(String)
    BY NumeralType
  <2> QED BY <1>1, <2>1, NodeTypes, NewReply DEF NameRm, Sync, Talk
<1>3. Served'
  BY <1>1, <1>2 DEF Served, Num
<1>4. HaveChunks(dir')
  BY NodesLeft DEF NameRm, Sync
<1> QED BY <1>1, <1>3, <1>4, ReplySync

LEMMA NameCpSync == ASSUME Sync, Talk', NameCp PROVE Sync'
<1>1. /\ pc = "cp_ack" /\ pc \in Calls /\ n2c = <<>> /\ c2n' = <<>> /\ nspc = "command"
      /\ UNCHANGED <<pc, job>>
  BY TakesCommand DEF NameCp, Arity, Says, Words, clientVars
<1>2. ASSUME NEW k \in DOMAIN dir,
             dir' = Append([dir EXCEPT ![k].linked = TRUE],
                           [dir[k] EXCEPT !.name = c2n[3], !.loc = <<>>, !.linked = FALSE]),
             Reply(<< <<Num(0)>>, dir[k].loc, <<Num(dir[k].chunks)>> >>), nspc' = "location"
      PROVE  Sync'
  <2>1. n2c' = << <<Num(0)>>, dir[k].loc, <<Num(dir[k].chunks)>> >>
    BY <1>1, <1>2, NodeTypes, NewReply DEF Sync, Talk
  <2>2. Atoi(<<Num(dir[k].chunks)>>) # 0
    BY Chunks
  <2>3. Served'
    BY <1>1, <1>2, <2>1, <2>2 DEF Served, Num
  <2>4. dir \in Seq(Node) /\ dir[k] \in Node /\ k \in 1..Len(dir)
    BY NodeTypes DEF Sync, Talk, TypeOK, NameType
  <2> DEFINE old == [dir EXCEPT ![k].linked = TRUE]
             new == [dir[k] EXCEPT !.name = c2n[3], !.loc = <<>>, !.linked = FALSE]
  <2>5. old \in Seq(Node) /\ HaveChunks(old)
    <3>1. [dir[k] EXCEPT !.linked = TRUE] \in Node
      BY <2>4 DEF Node
    <3>2. old \in Seq(Node)
      BY <2>4, <3>1, ExceptSeq
    <3>3. \A i \in DOMAIN old : i \in DOMAIN dir /\ old[i].chunks = dir[i].chunks
      BY <2>4 DEF Node
    <3> QED BY <3>2, <3>3 DEF Sync, HaveChunks
  <2>6. new \in Node /\ new.chunks # 0
    <3>1. c2n[3] \in String
      <4>1. Takes("cp", 3)
        BY DEF NameCp
      <4> QED BY <4>1, TakesType DEF Sync, Talk
    <3> QED BY <2>4, <3>1, Chunks, EmptyString DEF Node
  <2> HIDE DEF old, new
  <2>7. dir' = Append(old, new)
    BY <1>2 DEF old, new
  <2>8. HaveChunks(dir')
    BY <2>5, <2>6, <2>7, AppendHasChunks
  <2> QED BY <1>1, <2>3, <2>8, ReplySync
<1>3. ASSUME Reply(<< <<Num(1)>> >>), UNCHANGED <<nspc, dir>> PROVE Sync'
  <2>1. << <<Num(1)>> >> \in Seq(String)
    BY NumeralType
  <2>2. n2c' = << <<Num(1)>> >>
    BY <1>1, <1>3, <2>1, NewReply
  <2>3. Served'
    BY <1>1, <1>3, <2>2 DEF Served
  <2> QED BY <1>1, <1>3, <2>3, ReplySync DEF Sync
<1> QED BY <1>2, <1>3 DEF NameCp

LEMMA NameMvSync == ASSUME Sync, Talk', NameMv PROVE Sync' \/ (Stuck' /\ ~nsup')
<1>1. /\ pc = "mv_ack" /\ pc \in Calls /\ n2c = <<>> /\ c2n' = <<>> /\ nspc' = "command"
      /\ UNCHANGED <<pc, job>>
  BY TakesCommand DEF NameMv, Arity, Says, Words, clientVars
<1>2. ASSUME HaveChunks(dir'), NEW i \in {0, 1}, Reply(<< <<Num(i)>> >>) PROVE Sync'
  <2>1. << <<Num(i)>> >> \in Seq(String)
    BY NumeralType
  <2>2. n2c' = << <<Num(i)>> >>
    BY <1>1, <1>2, <2>1, NewReply
  <2>3. Served'
    BY <1>1, <2>2 DEF Served
  <2> QED BY <1>1, <1>2, <2>3, ReplySync
<1>3. ASSUME NEW k \in DOMAIN dir, dir' = Append(Unlink(k), [dir[k] EXCEPT !.name = c2n[3]])
      PROVE  HaveChunks(dir')
  <2>1. c2n[3] \in String
    <3>1. Takes("mv", 3)
      BY DEF NameMv
    <3> QED BY <3>1, TakesType DEF Sync, Talk
  <2>2. [dir[k] EXCEPT !.name = c2n[3]] \in Node /\ [dir[k] EXCEPT !.name = c2n[3]].chunks # 0
    <3>1. dir[k] \in Node
      BY NodeTypes DEF Sync, Talk
    <3> QED BY <2>1, <3>1, Chunks DEF Node
  <2> QED BY <1>3, <2>2, NodesLeft, AppendHasChunks
<1>4. ASSUME NEW k \in DOMAIN dir,
             IF \E h \in DOMAIN dir \ {k} : dir[h].name = c2n[3]
             THEN dir' = Unlink(k) /\ Reply(<< <<Num(1)>> >>)
             ELSE /\ dir' = Append(Unlink(k), [dir[k] EXCEPT !.name = c2n[3]])
                  /\ Reply(<< <<Num(0)>> >>)
      PROVE  Sync'
  BY <1>2, <1>3, <1>4, NodesLeft
<1>5. ASSUME nsup' = FALSE, UNCHANGED <<dir, n2c>> PROVE Stuck' /\ ~nsup'
  BY <1>1, <1>5 DEF Stuck
<1>6. ASSUME Reply(<< <<Num(1)>> >>), UNCHANGED dir PROVE Sync'
  BY <1>2, <1>6 DEF Sync
<1> QED BY <1>4, <1>5, <1>6 DEF NameMv

\* The rest of tobigfs and cp: one string less to read, and one less to come.
LEMMA RestSync ==
    ASSUME Sync, Talk', c2n # <<>>, c2n' = Tail(c2n), UNCHANGED <<pc, job, n2c>>, HaveChunks(dir'),
           nspc' # "parts", Needs' = Needs - 1
    PROVE  Sync'
<1>1. /\ c2n \in Seq(String) /\ Len(c2n) \in Nat /\ Len(c2n') = Len(c2n) - 1 /\ Needs \in 0..2
      /\ \A i \in 1..(Len(c2n) - 1) : c2n'[i] = c2n[i + 1]
  <2>1. c2n \in Seq(String) /\ Needs \in 0..2 /\ Len(c2n) \in Nat
    BY Strings DEF Sync, Talk
  <2> QED BY <2>1, HeadTailProperties
<1>2. SomeParts' /\ (Owing' <=> Owing) /\ Args' = Args /\ Args \in 1..2 /\ \A w : Says(w)' <=> Says(w)
  BY DEF SomeParts, Owing, Args, Says
<1>3. CASE pc \in Calls
  <2>1. Waits
    <3>1. ~Served
      BY DEF Served
    <3> QED BY <1>3, <3>1 DEF Sync, InCall
  <2>2. Needs' \in 0..1
    <3>1. Needs' \in 0..2
      BY DEF Needs, Talk, TypeOK, NameType
    <3> QED BY <1>1, <3>1
  <2>3. /\ Needs' + 1 \in 1..(Len(c2n) - 1) /\ (Needs' + 1) + 1 = Needs + 1 /\ Len(c2n') = Needs' + 1 + Args
        /\ Needs' + 2 \in 1..(Len(c2n) - 1) /\ (Needs' + 2) + 1 = Needs + 2
        /\ Args = 2 => Needs' + 3 \in 1..(Len(c2n) - 1) /\ (Needs' + 3) + 1 = Needs + 3
    BY <1>1, <1>2, <2>1, <2>2 DEF Waits
  <2>4. /\ c2n'[Needs' + 1] = c2n[Needs + 1] /\ c2n'[Needs' + 2] = c2n[Needs + 2]
        /\ Args = 2 => c2n'[Needs' + 3] = c2n[Needs + 3]
    BY <1>1, <2>3
  <2>5. Waits'
    BY <1>2, <2>1, <2>3, <2>4 DEF Waits
  <2> QED BY <1>2, <2>5 DEF Sync, InCall
<1>4. CASE pc \notin Calls
  BY <1>1, <1>2, <1>4 DEF Sync, InCall, Calls
<1> QED BY <1>3, <1>4

LEMMA NamePartsSync == ASSUME Sync, Talk', NameParts PROVE Sync'
<1> DEFINE parts == Atoi(Head(c2n))
           new   == [nsnew EXCEPT !.chunks = parts, !.text = IF Len(@) = parts THEN @ ELSE <<>>]
<1>1. /\ c2n # <<>> /\ c2n' = Tail(c2n) /\ UNCHANGED <<pc, job, n2c>> /\ nspc = "parts" /\ nspc' = "location"
      /\ c2n \in Seq(String) /\ Head(c2n) = c2n[1] /\ dir \in Seq(Node)
  BY Strings DEF NameParts, clientVars, Sync, Talk
<1>2. parts \in Nat /\ parts # 0
  <2>1. Head(c2n) \in String
    BY <1>1, HeadTailProperties
  <2> QED BY <1>1, <2>1, AtoiType DEF Sync, SomeParts
<1>3. new \in Node /\ new.chunks # 0
  <2> HIDE DEF parts
  <2>1. nsnew \in Node
    BY DEF Sync, Talk, TypeOK, NameType
  <2> QED BY <1>2, <2>1, PartsNode DEF Node
<1>4. HaveChunks(dir')
  <2>1. dir' = Append(dir, new)
    BY DEF NameParts
  <2> HIDE DEF new
  <2> QED BY <1>1, <1>3, <2>1, AppendHasChunks DEF Sync
<1>5. Needs' = Needs - 1
  BY <1>1 DEF Needs
<1> QED BY <1>1, <1>4, <1>5, RestSync

LEMMA NameLocationSync == ASSUME Sync, Talk', NameLocation PROVE Sync'
<1>1. /\ c2n # <<>> /\ c2n' = Tail(c2n) /\ UNCHANGED <<pc, job, n2c>> /\ nspc = "location" /\ nspc' = "command"
      /\ dir \in Seq(Node) /\ dir' = [dir EXCEPT ![Len(dir)].loc = Head(c2n)]
  BY Strings DEF NameLocation, clientVars, Sync, Talk
<1>2. \A i \in DOMAIN dir : dir[i] \in Node
  BY <1>1
<1>3. DOMAIN dir' = DOMAIN dir /\ \A i \in DOMAIN dir : dir'[i].chunks = dir[i].chunks
  BY <1>1, <1>2 DEF Node
<1>4. HaveChunks(dir')
  BY <1>3 DEF Sync, HaveChunks
<1>5. Needs' = Needs - 1
  BY <1>1 DEF Needs
<1> QED BY <1>1, <1>4, <1>5, RestSync

\* A command's word is never dropped: it is where the name server expects it.
LEMMA NothingIgnored == ASSUME Sync, NameIgnores PROVE FALSE
<1>1. nspc = "command" /\ c2n # <<>> /\ Head(c2n) \notin Commands /\ Needs = 0 /\ c2n \in Seq(String) /\ Head(c2n) = c2n[1]
  BY Strings DEF NameIgnores, Sync, Talk
<1>2. Len(c2n) \in Nat /\ Len(c2n) # 0
  BY <1>1, EmptySeq
<1>3. pc \in Calls
  <2>1. pc \notin Calls => Len(c2n) \in {0, 0 - 1}
    BY <1>1 DEF Sync, InCall
  <2> QED BY <1>2, <2>1
<1>4. Waits
  BY <1>1, <1>3 DEF Sync, InCall, Served
<1> QED BY <1>1, <1>4 DEF Waits, Commands

LEMMA InitSync == Init => Sync
<1> SUFFICES ASSUME Init PROVE Sync
  OBVIOUS
<1>1. Talk
  BY InitTalk
<1> QED BY <1>1 DEF Init, Sync, HaveChunks, SomeParts, InCall, Needs, Owing, Calls

\* A step keeps the conversation with the name server in order, but for the
\* refusal of a file that is not there and the death of the name server.
LEMMA StepSync ==
    ASSUME Sync, [Next]_vars
    PROVE  Sync' \/ (PutRefused /\ job.text = <<>> /\ Astray') \/ (Stuck' /\ ~nsup')
<1>1. Talk'
  BY StepTalk DEF Sync
<1>2. ASSUME UNCHANGED <<pc, job, c2n, n2c, nspc, dir>> PROVE Sync'
  BY <1>1, <1>2 DEF Sync, SomeParts, InCall, Waits, Served, Owing, Needs, Args, Says
<1>3. CASE User
  BY <1>1, <1>3, UserSync
<1>4. CASE Client
  BY <1>1, <1>4, ClientSync
<1>5. CASE NameServer
  BY <1>1, <1>5, NameToBigFSSync, NamePartsSync, NameLocationSync, NameCatSync, NameRmSync, NameCpSync,
     NameMvSync, NothingIgnored DEF NameServer
<1>6. CASE \E s \in Servers : DataServer(s)
  BY <1>2, <1>6 DEF DataServer, DataToBigFS, DataCat, DataRm, DataCp, clientVars, nameVars
<1>7. CASE UNCHANGED vars
  BY <1>2, <1>7 DEF vars, clientVars, nameVars, wires
<1> QED BY <1>3, <1>4, <1>5, <1>6, <1>7 DEF Next

\* Out of step, the next command is never answered.
LEMMA UserAstray == ASSUME Talk, Astray, User PROVE Stuck'
<1>1. ASSUME NEW more \in Seq(String), Len(more) <= 3, SendName(more), UNCHANGED <<n2c, nspc>>, pc' \in Calls
      PROVE  Stuck'
  <2>1. c2n' = more
    BY <1>1, ConcatEmptySeq DEF Astray, SendName
  <2> QED BY <1>1, <2>1 DEF Astray, Stuck
<1>2. ASSUME NEW w \in Words, NEW a \in Names, NEW b \in Names
      PROVE  /\ <<Word(w), a>> \in Seq(String) /\ Len(<<Word(w), a>>) <= 3
             /\ <<Word(w), a, b>> \in Seq(String) /\ Len(<<Word(w), a, b>>) <= 3
  BY WordType, BigFSConstants DEF ConstantsOK
<1>3. ASSUME NEW n \in Names, NEW text \in Texts, StartPut(n, text) PROVE Stuck'
  <2>1. SendName(<<Word("tobigfs"), n>>) /\ UNCHANGED <<n2c, nspc>> /\ pc' \in Calls /\ "tobigfs" \in Words
    BY <1>3 DEF StartPut, Await, nameVars, Calls, Words
  <2> QED BY <1>1, <1>2, <2>1
<1>4. ASSUME NEW n \in Names, NEW op \in {"cat", "frombigfs"}, Fetch(op, n) PROVE Stuck'
  <2>1. SendName(<<Word(op), n>>) /\ UNCHANGED <<n2c, nspc>> /\ pc' \in Calls /\ op \in Words
    BY <1>4 DEF Fetch, StartCat, StartGet, Await, nameVars, Calls, Words
  <2> QED BY <1>1, <1>2, <2>1
<1>5. ASSUME NEW n \in Names, StartRm(n) PROVE Stuck'
  <2>1. SendName(<<Word("rm"), n>>) /\ UNCHANGED <<n2c, nspc>> /\ pc' \in Calls /\ "rm" \in Words
    BY <1>5 DEF StartRm, Await, nameVars, Calls, Words
  <2> QED BY <1>1, <1>2, <2>1
<1>6. ASSUME NEW a \in Names, NEW b \in Names, StartCp(a, b) PROVE Stuck'
  <2>1. SendName(<<Word("cp"), a, b>>) /\ UNCHANGED <<n2c, nspc>> /\ pc' \in Calls /\ "cp" \in Words
    BY <1>6 DEF StartCp, Await, nameVars, Calls, Words
  <2> QED BY <1>1, <1>2, <2>1
<1>7. ASSUME NEW a \in Names, NEW b \in Names, StartMv(a, b) PROVE Stuck'
  <2>1. SendName(<<Word("mv"), a, b>>) /\ UNCHANGED <<n2c, nspc>> /\ pc' \in Calls /\ "mv" \in Words
    BY <1>7 DEF StartMv, Await, nameVars, Calls, Words
  <2> QED BY <1>1, <1>2, <2>1
<1> QED BY <1>3, <1>4, <1>5, <1>6, <1>7, FetchWords DEF User

LEMMA ClientStuck == ASSUME Talk, Astray \/ Stuck, Client PROVE FALSE
<1>1. n2c = <<>> /\ pc \in Calls \cup {"prompt"} /\ Len(n2c) = 0
  BY DEF Astray, Stuck
<1> QED BY <1>1 DEF Client, PutRefused, PutAccepted, PutLocated, NotFound, Found, CatSend, CatData, RmSend,
     CpAccepted, CpLocated, CpSend, MvDoneOrCpRefused, Calls

LEMMA NameServerStuck == ASSUME Talk, Astray \/ Stuck, NameServer PROVE Stuck'
<1>1. c2n \in Seq(String) /\ Len(c2n) \in Nat /\ nsup /\ (c2n = <<>> => Len(c2n) = 0)
  BY Strings DEF Talk, NameServer, NameToBigFS, NameParts, NameLocation, NameCat, NameRm, NameCp, NameMv,
     NameIgnores, Takes
<1>2. \A w, k : k \in {2, 3} => ~Takes(w, k)
  BY <1>1 DEF Takes, Astray, Stuck
<1>3. NameParts \/ NameLocation \/ NameIgnores
  BY <1>2 DEF NameServer, NameToBigFS, NameCat, NameRm, NameCp, NameMv
<1>4. c2n # <<>> /\ c2n' = Tail(c2n) /\ UNCHANGED <<pc, n2c>>
  BY <1>3 DEF NameParts, NameLocation, NameIgnores, clientVars
<1>5. Len(c2n') = Len(c2n) - 1
  BY <1>1, <1>4, HeadTailProperties
<1>6. Stuck
  BY <1>4 DEF Astray
<1>7. CASE NameParts
  BY <1>1, <1>4, <1>5, <1>6, <1>7 DEF Stuck, NameParts
<1>8. CASE NameLocation
  BY <1>1, <1>4, <1>5, <1>6, <1>8 DEF Stuck, NameLocation
<1>9. CASE NameIgnores
  BY <1>1, <1>4, <1>5, <1>6, <1>9 DEF Stuck, NameIgnores, nameVars
<1> QED BY <1>3, <1>7, <1>8, <1>9

LEMMA StepStuck ==
    ASSUME Talk, Astray \/ Stuck, [Next]_vars
    PROVE  Astray' \/ Stuck'
<1>1. ASSUME UNCHANGED <<pc, c2n, n2c, nspc, nsup>> PROVE Astray' \/ Stuck'
  BY <1>1 DEF Astray, Stuck
<1>2. CASE User
  <2>1. Astray
    BY <1>2 DEF User, StartPut, StartCat, StartGet, StartRm, StartCp, StartMv, Stuck, Calls
  <2> QED BY <1>2, <2>1, UserAstray
<1>3. CASE Client
  BY <1>3, ClientStuck
<1>4. CASE NameServer
  BY <1>4, NameServerStuck
<1>5. CASE \E s \in Servers : DataServer(s)
  BY <1>1, <1>5 DEF DataServer, DataToBigFS, DataCat, DataRm, DataCp, clientVars, nameVars
<1>6. CASE UNCHANGED vars
  BY <1>1, <1>6 DEF vars, clientVars, nameVars, wires
<1> QED BY <1>2, <1>3, <1>4, <1>5, <1>6 DEF Next

LEMMA StuckStays ==
    ASSUME Talk, Stuck, [Next]_vars
    PROVE  ~Astray'
<1>1. Astray' \/ Stuck'
  BY StepStuck
<1>2. pc' = pc
  <2>1. ~User
    BY DEF User, StartPut, StartCat, StartGet, StartRm, StartCp, StartMv, Stuck, Calls
  <2>2. ~Client
    BY ClientStuck
  <2> QED BY <2>1, <2>2 DEF Next, NameServer, NameToBigFS, NameParts, NameLocation, NameCat, NameRm, NameCp,
         NameMv, NameIgnores, DataServer, DataToBigFS, DataCat, DataRm, DataCp, clientVars, vars
<1> QED BY <1>1, <1>2 DEF Stuck, Astray, Calls

\* Whatever the user types, client and name server agree on what is under way
\* between them, until the upload of a missing file leaves the name server
\* waiting for a number, or mv kills it; what each then waits for is known too.
THEOREM CourseAlways == Spec => []Course
<1>1. Init => Course
  BY InitSync DEF Course, Sync
<1>2. Course /\ [Next]_vars => Course'
  BY StepTalk, StepSync, StepStuck DEF Course, Sync
<1> QED BY <1>1, <1>2, PTL DEF Spec

\* A careful user is never led astray.
OnCourse == Course /\ ~Astray /\ (pc = "put_ack" => job.text # <<>>)

LEMMA StepOnCourse == ASSUME Careful, OnCourse, [Next]_vars PROVE OnCourse'
<1>1. Course'
  BY StepTalk, StepSync, StepStuck DEF OnCourse, Course, Sync
<1>2. pc' = "put_ack" => job'.text # <<>>
  <2>1. CASE User
    BY <2>1 DEF User, StartPut, StartCat, StartGet, StartRm, StartCp, StartMv, Await, Idle
  <2>2. CASE Client
    BY <2>2 DEF Client, PutRefused, PutAccepted, PutLocated, NotFound, Found, CatSend, CatData, RmSend,
       CpAccepted, CpLocated, CpSend, MvDoneOrCpRefused, Await, Prompt
  <2>3. ASSUME UNCHANGED <<pc, job>> PROVE pc' = "put_ack" => job'.text # <<>>
    BY <2>3 DEF OnCourse
  <2>4. CASE NameServer
    BY <2>3, <2>4 DEF NameServer, NameToBigFS, NameParts, NameLocation, NameCat, NameRm, NameCp, NameMv,
       NameIgnores, clientVars
  <2>5. CASE \E s \in Servers : DataServer(s)
    BY <2>3, <2>5 DEF DataServer, DataToBigFS, DataCat, DataRm, DataCp, clientVars
  <2>6. CASE UNCHANGED vars
    BY <2>3, <2>6 DEF vars, clientVars
  <2> QED BY <2>1, <2>2, <2>4, <2>5, <2>6 DEF Next
<1>3. ~Astray'
  <2>1. CASE Sync
    <3>1. ~(PutRefused /\ job.text = <<>>)
      BY DEF OnCourse, PutRefused
    <3>2. Sync' \/ Stuck'
      BY <2>1, <3>1, StepSync
    <3>3. Stuck' => ~Astray'
      BY DEF Stuck, Astray, Calls
    <3>4. Sync' => ~Astray'
      <4>1. (pc = "prompt")' => (pc \notin Calls)' /\ ~Owing'
        BY DEF Calls, Owing
      <4>2. (nspc = "parts")' => Needs' = 2
        BY DEF Needs
      <4> QED BY <4>1, <4>2 DEF Sync, InCall, Astray
    <3> QED BY <3>2, <3>3, <3>4
  <2>2. CASE Stuck
    BY <2>2, StepStuck, StuckStays DEF OnCourse, Course
  <2> QED BY <2>1, <2>2 DEF OnCourse, Course
<1> QED BY <1>1, <1>2, <1>3 DEF OnCourse

\* If the user never stores a file that is not there, then at every prompt no
\* answer is left over, and what the name server has still to read of the last
\* tobigfs or cp is what it waits for: the number and the location never pass
\* for a command, nor a command for them.
THEOREM AlwaysInStep == Careful => (Spec => []InSync)
<1> SUFFICES ASSUME Careful PROVE Spec => []InSync
  OBVIOUS
<1>1. ASSUME OnCourse PROVE InSync
  <2> SUFFICES ASSUME pc = "prompt"
               PROVE  /\ n2c = <<>> /\ \A s \in Servers : d2c[s] = <<>>
                      /\ \/ nspc = "command" /\ c2n = <<>>
                         \/ nspc = "parts" /\ Len(c2n) = 2
                         \/ nspc = "location" /\ Len(c2n) = 1
    BY DEF InSync
  <2>0. Sync
    BY <1>1 DEF OnCourse, Course, Stuck, Calls
  <2>1. n2c = <<>> /\ Len(c2n) = Needs
    BY <2>0 DEF Sync, InCall, Calls, Owing
  <2>2. \A s \in Servers : d2c[s] = <<>>
    BY <2>0 DEF Sync, Talk, Dialogue, Silent, Talks
  <2>3. nspc \in {"command", "parts", "location"} /\ c2n \in Seq(String)
    BY <2>0 DEF Sync, Talk, TypeOK, NameType, WireType
  <2>4. nspc = "command" => c2n = <<>>
    BY <2>1, <2>3, NoLength DEF Needs
  <2> QED BY <2>1, <2>2, <2>3, <2>4 DEF Needs
<1>2. OnCourse /\ [Next]_vars => OnCourse'
  BY StepOnCourse
<1>3. Init => OnCourse
  BY InitSync DEF OnCourse, Course, Sync, Init, Astray
<1> QED BY <1>1, <1>2, <1>3, PTL DEF Spec

=============================================================================
