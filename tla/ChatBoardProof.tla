--------------------------- MODULE ChatBoardProof ---------------------------
(* Proofs about ChatBoard: with one group a host, the table never has two  *)
(* entries for a course, and never a rumour.                               *)
EXTENDS ChatBoard, TLAPS

\* At most one receiver of a host has passed bind().
Exclusive == \A c, d \in Bound : HostOf[c] = HostOf[d] => c = d

\* What a receiver knows of the slots it has passed, and of the one it is at.
Searched ==
    \A c \in Clients :
        LET r == receiver[c] IN
        /\ r.at \in {"look", "name"} =>
            \A i \in 1..Slots : i < r.pos => Table(c)[i].name \notin {NoName, r.course}
        /\ r.at = "name" => Table(c)[r.pos].name = NoName
        /\ r.at = "flag" => Table(c)[r.pos].name = r.course

\* The message a receiver has in hand was sent.
InHand ==
    \A c \in Clients :
        LET r == receiver[c] IN
        r.at \in {"look", "name", "flag"} =>
            \E m \in sent : m.kind = r.kind /\ m.course = r.course

\* A free slot has no flag.
FreeIsBlank ==
    \A h \in Hosts : \A i \in 1..Slots :
        board[h][i].name = NoName => ~board[h][i].send /\ ~board[h][i].recv

-----------------------------------------------------------------------------
(* Types.                                                                  *)

LEMMA JobType ==
    ASSUME TypeOK, NEW c \in Clients, receiver[c].at \in {"look", "name", "flag"}
    PROVE  /\ receiver[c] \in Jobs
           /\ receiver[c].at \in {"name", "flag"} => receiver[c].pos \in 1..Slots
<1>1. receiver[c] \in Jobs \cup {Doing("off"), Doing("starting"), Doing("idle")}
  BY DEF TypeOK
<1>2. receiver[c] \in Jobs
  BY <1>1 DEF Doing
<1> QED BY <1>2, ChatConstantsOK DEF Jobs, TypeOK, ChatConstants

LEMMA TalkType ==
    ASSUME TypeOK, NEW c \in Clients, sender[c].at \in {"scan", "confirm", "send"}
    PROVE  sender[c] \in Talks
BY DEF TypeOK, Doing

LEMMA TableType ==
    ASSUME TypeOK, NEW c \in Clients
    PROVE  HostOf[c] \in Hosts /\ Table(c) \in [1..Slots -> Entries]
BY ChatConstantsOK DEF TypeOK, Table, ChatConstants

LEMMA NamedEntry ==
    ASSUME NEW f \in Entries, NEW x \in Courses
    PROVE  /\ [f EXCEPT !.name = x] \in Entries
           /\ [f EXCEPT !.name = x].name = x
           /\ [f EXCEPT !.name = x].send = f.send
           /\ [f EXCEPT !.name = x].recv = f.recv
BY DEF Entries

LEMMA NotedEntry ==
    ASSUME NEW f \in Entries, NEW kind \in Kinds
    PROVE  /\ Noted(f, kind) \in Entries
           /\ Noted(f, kind).name = f.name
           /\ \A k \in Kinds : Flag(Noted(f, kind), k) <=> Flag(f, k) \/ k = kind
BY DEF Entries, Noted, Flag, Kinds

\* Writing an entry of the table changes nothing else.
LEMMA WriteType ==
    ASSUME TypeOK, NEW c \in Clients, NEW e \in Entries,
           receiver[c].at \in {"name", "flag"}, Write(c, e)
    PROVE  /\ board' \in [Hosts -> [1..Slots -> Entries]]
           /\ \A h \in Hosts, i \in 1..Slots :
                board'[h][i] = IF h = HostOf[c] /\ i = receiver[c].pos THEN e
                               ELSE board[h][i]
BY JobType, TableType DEF Write, TypeOK

ReceiverKinds == Jobs \cup {Doing("off"), Doing("starting"), Doing("idle")}
SenderKinds   == Talks \cup {Doing("off"), Doing("menu")}

LEMMA ReceiverType ==
    ASSUME TypeOK, NEW c \in Clients, NEW r \in ReceiverKinds, ReceiverTo(c, r),
           r.at \in {"name", "flag"} => r.pos <= Slots
    PROVE  /\ receiver' \in [Clients -> ReceiverKinds]
           /\ \A d \in Clients : receiver'[d] = IF d = c THEN r ELSE receiver[d]
           /\ \A d \in Clients :
                receiver'[d].at \in {"name", "flag"} => receiver'[d].pos <= Slots
BY DEF TypeOK, ReceiverTo, ReceiverKinds

LEMMA SenderType ==
    ASSUME TypeOK, NEW c \in Clients, NEW s \in SenderKinds, SenderTo(c, s)
    PROVE  sender' \in [Clients -> SenderKinds]
BY DEF TypeOK, SenderTo, SenderKinds

LEMMA BindType ==
    ASSUME TypeOK, NEW c \in Clients, Bind(c)
    PROVE  TypeOK'
<1> DEFINE r == Doing(IF Rivals(c) = {} THEN "idle" ELSE "off")
<1>1. r \in ReceiverKinds /\ r.at \notin {"name", "flag"} /\ ReceiverTo(c, r)
  BY DEF Bind, ReceiverKinds, Doing
<1> HIDE DEF r
<1> QED BY <1>1, ReceiverType DEF Bind, TypeOK, ReceiverKinds

LEMMA ReceiveType ==
    ASSUME TypeOK, NEW c \in Clients, Receive(c)
    PROVE  TypeOK'
<1>1. PICK m \in sent : ReceiverTo(c, [at |-> "look", kind |-> m.kind,
                                       course |-> m.course, pos |-> 1])
  BY DEF Receive
<1> DEFINE r == [at |-> "look", kind |-> m.kind, course |-> m.course, pos |-> 1]
<1>2. r \in Jobs /\ r.at = "look"
  BY ChatConstantsOK DEF TypeOK, Messages, Jobs, ChatConstants
<1> HIDE DEF r
<1>3. ReceiverTo(c, r)
  BY <1>1 DEF r
<1> QED BY <1>2, <1>3, ReceiverType DEF Receive, TypeOK, ReceiverKinds

\* What a round of the receiver's loop does.
LEMMA LookStep ==
    ASSUME TypeOK, NEW c \in Clients, Look(c)
    PROVE  LET r == receiver[c] IN
           /\ r \in Jobs /\ r.at = "look"
           /\ \/ r.pos > Slots /\ ReceiverTo(c, Doing("idle"))
              \/ /\ r.pos \in 1..Slots /\ Table(c)[r.pos].name = NoName
                 /\ ReceiverTo(c, [r EXCEPT !.at = "name"])
              \/ /\ r.pos \in 1..Slots /\ Table(c)[r.pos].name = r.course
                 /\ ReceiverTo(c, [r EXCEPT !.at = "flag"])
              \/ /\ r.pos \in 1..Slots
                 /\ Table(c)[r.pos].name \notin {NoName, r.course}
                 /\ ReceiverTo(c, [r EXCEPT !.pos = r.pos + 1])
<1>1. receiver[c] \in Jobs /\ receiver[c].at = "look"
  BY JobType DEF Look
<1>2. receiver[c].pos > Slots \/ receiver[c].pos \in 1..Slots
  BY <1>1, ChatConstantsOK DEF Jobs, ChatConstants
<1> QED BY <1>1, <1>2, ChatConstantsOK DEF Look, Jobs, ChatConstants

LEMMA LookType ==
    ASSUME TypeOK, NEW c \in Clients, Look(c)
    PROVE  TypeOK'
<1> DEFINE r == receiver[c]
<1> USE ChatConstantsOK DEF ChatConstants
<1>1. r \in Jobs /\ r.at = "look"
  BY LookStep
<1>2. ASSUME NEW q \in ReceiverKinds, ReceiverTo(c, q),
             q.at \in {"name", "flag"} => q.pos <= Slots
      PROVE  TypeOK'
  BY <1>2, ReceiverType DEF Look, TypeOK, ReceiverKinds
<1>3. Doing("idle") \in ReceiverKinds /\ Doing("idle").at = "idle"
  BY DEF ReceiverKinds, Doing
<1>4. ASSUME r.pos \in 1..Slots, NEW at \in {"name", "flag"}
      PROVE  [r EXCEPT !.at = at] \in Jobs /\ [r EXCEPT !.at = at].pos <= Slots
  BY <1>1, <1>4 DEF Jobs
<1>5. ASSUME r.pos \in 1..Slots
      PROVE  [r EXCEPT !.pos = r.pos + 1] \in Jobs
             /\ [r EXCEPT !.pos = r.pos + 1].at = "look"
  BY <1>1, <1>5 DEF Jobs
<1> QED BY <1>2, <1>3, <1>4, <1>5, LookStep DEF ReceiverKinds

LEMMA NameType ==
    ASSUME TypeOK, NEW c \in Clients, WriteName(c)
    PROVE  TypeOK'
<1> DEFINE r == receiver[c]
           q == [r EXCEPT !.at = "flag"]
           e == [Table(c)[r.pos] EXCEPT !.name = r.course]
<1>1. r \in Jobs /\ r.at = "name" /\ r.pos \in 1..Slots
  BY JobType DEF WriteName
<1>2. e \in Entries
  <2>1. Table(c)[r.pos] \in Entries /\ r.course \in Courses
    BY <1>1, TableType DEF Jobs
  <2> QED BY <2>1, NamedEntry
<1>3. q \in Jobs /\ q.at = "flag" /\ q.pos = r.pos
  BY <1>1 DEF Jobs
<1>4. Write(c, e) /\ ReceiverTo(c, q)
  BY DEF WriteName
<1> HIDE DEF e, q
<1>5. board' \in [Hosts -> [1..Slots -> Entries]]
  BY <1>1, <1>2, <1>4, WriteType
<1>6. q.at \in {"name", "flag"} => q.pos <= Slots
  BY <1>1, <1>3, ChatConstantsOK DEF ChatConstants
<1>7. /\ receiver' \in [Clients -> ReceiverKinds]
      /\ \A d \in Clients :
            receiver'[d].at \in {"name", "flag"} => receiver'[d].pos <= Slots
  BY <1>3, <1>4, <1>6, ReceiverType DEF ReceiverKinds
<1> QED BY <1>5, <1>7 DEF WriteName, TypeOK, ReceiverKinds

LEMMA FlagType ==
    ASSUME TypeOK, NEW c \in Clients, WriteFlag(c)
    PROVE  TypeOK'
<1> DEFINE r == receiver[c]
           e == Noted(Table(c)[r.pos], r.kind)
<1>1. r \in Jobs /\ r.at = "flag" /\ r.pos \in 1..Slots
  BY JobType DEF WriteFlag
<1>2. e \in Entries
  <2>1. Table(c)[r.pos] \in Entries /\ r.kind \in Kinds
    BY <1>1, TableType DEF Jobs
  <2> QED BY <2>1, NotedEntry
<1>3. Write(c, e) /\ ReceiverTo(c, Doing("idle"))
  BY DEF WriteFlag
<1> HIDE DEF e
<1>4. board' \in [Hosts -> [1..Slots -> Entries]]
  BY <1>1, <1>2, <1>3, WriteType
<1>5. Doing("idle") \in ReceiverKinds /\ Doing("idle").at = "idle"
  BY DEF ReceiverKinds, Doing
<1>6. /\ receiver' \in [Clients -> ReceiverKinds]
      /\ \A d \in Clients :
            receiver'[d].at \in {"name", "flag"} => receiver'[d].pos <= Slots
  BY <1>3, <1>5, ReceiverType
<1> QED BY <1>4, <1>6 DEF WriteFlag, TypeOK, ReceiverKinds

\* A step of the sender that writes neither the table nor the receiver.
LEMMA SenderStepType ==
    ASSUME TypeOK, NEW c \in Clients, NEW s \in SenderKinds, SenderTo(c, s),
           UNCHANGED <<board, receiver>>, sent' \subseteq Messages
    PROVE  TypeOK'
BY SenderType DEF TypeOK, SenderKinds

LEMMA ChooseType ==
    ASSUME TypeOK, NEW c \in Clients, Choose(c)
    PROVE  TypeOK'
<1>1. PICK kind \in Kinds, x \in Courses :
        SenderTo(c, [at |-> "scan", kind |-> kind, course |-> x, pos |-> 1,
                     known |-> \E i \in 1..Slots : Table(c)[i].name = x
                                                   /\ Seen(Table(c)[i], kind),
                     warned |-> FALSE])
  BY DEF Choose
<1> DEFINE k == \E i \in 1..Slots : Table(c)[i].name = x /\ Seen(Table(c)[i], kind)
<1>2. k \in BOOLEAN
  OBVIOUS
<1> HIDE DEF k
<1>3. [at |-> "scan", kind |-> kind, course |-> x, pos |-> 1, known |-> k,
       warned |-> FALSE] \in SenderKinds
  BY <1>2, ChatConstantsOK DEF SenderKinds, Talks, ChatConstants
<1>4. SenderTo(c, [at |-> "scan", kind |-> kind, course |-> x, pos |-> 1,
                   known |-> k, warned |-> FALSE])
  BY <1>1 DEF k
<1>5. UNCHANGED <<board, receiver>> /\ sent' \subseteq Messages
  BY DEF Choose, TypeOK
<1> QED BY <1>3, <1>4, <1>5, SenderStepType

LEMMA DecidedType ==
    ASSUME NEW s \in Talks, NEW flag \in BOOLEAN
    PROVE  Decided(s, flag) \in Talks
<1>1. 1 \in 1..(Slots + 1)
  BY ChatConstantsOK DEF ChatConstants
<1> QED BY <1>1 DEF Decided, Talks

LEMMA ScanType ==
    ASSUME TypeOK, NEW c \in Clients, Scan(c)
    PROVE  TypeOK'
<1> DEFINE s == sender[c]
<1> USE ChatConstantsOK DEF ChatConstants
<1>1. s \in Talks
  BY TalkType DEF Scan
<1>2. UNCHANGED <<board, receiver>> /\ sent' \subseteq Messages
  BY DEF Scan, TypeOK
<1>3. Decided(s, TRUE) \in SenderKinds /\ Decided(s, FALSE) \in SenderKinds
  BY <1>1, DecidedType DEF SenderKinds
<1>4. ~(s.pos > Slots) => [s EXCEPT !.pos = s.pos + 1] \in SenderKinds
  BY <1>1 DEF Talks, SenderKinds
<1>5. \/ SenderTo(c, Decided(s, FALSE)) \/ SenderTo(c, Decided(s, TRUE))
      \/ ~(s.pos > Slots) /\ SenderTo(c, [s EXCEPT !.pos = s.pos + 1])
  BY DEF Scan
<1> QED BY <1>2, <1>3, <1>4, <1>5, SenderStepType

LEMMA ConfirmType ==
    ASSUME TypeOK, NEW c \in Clients, Confirm(c)
    PROVE  TypeOK'
<1>1. sender[c] \in Talks
  BY TalkType DEF Confirm
<1>2. [sender[c] EXCEPT !.at = "send"] \in SenderKinds /\ Doing("menu") \in SenderKinds
  BY <1>1 DEF Talks, SenderKinds
<1>3. UNCHANGED <<board, receiver>> /\ sent' \subseteq Messages
  BY DEF Confirm, TypeOK
<1>4. \/ SenderTo(c, [sender[c] EXCEPT !.at = "send"])
      \/ SenderTo(c, Doing("menu"))
  BY DEF Confirm
<1> QED BY <1>2, <1>3, <1>4, SenderStepType

LEMMA SendType ==
    ASSUME TypeOK, NEW c \in Clients, Send(c)
    PROVE  TypeOK'
<1>1. sender[c] \in Talks
  BY TalkType DEF Send
<1>2. PICK kind \in {sender[c].kind, "ask"} :
        sent' = sent \cup {[port |-> PortOf[c], kind |-> kind,
                            course |-> sender[c].course]}
  BY DEF Send, Sending
<1>3. sent' \subseteq Messages
  BY <1>1, <1>2, ChatConstantsOK DEF TypeOK, Messages, Talks, Kinds, ChatConstants
<1>4. Doing("menu") \in SenderKinds
  BY DEF SenderKinds
<1>5. UNCHANGED <<board, receiver>> /\ SenderTo(c, Doing("menu"))
  BY DEF Send
<1> QED BY <1>3, <1>4, <1>5, SenderStepType

LEMMA StartType ==
    ASSUME TypeOK, NEW c \in Clients, Start(c)
    PROVE  TypeOK'
<1>1. sender' \in [Clients -> SenderKinds]
  BY SenderType DEF Start, SenderKinds
<1>2. CASE UNCHANGED receiver
  BY <1>1, <1>2 DEF Start, TypeOK, SenderKinds
<1>3. CASE ReceiverTo(c, Doing("starting"))
  <2>1. Doing("starting") \in ReceiverKinds /\ Doing("starting").at = "starting"
    BY DEF ReceiverKinds, Doing
  <2>2. /\ receiver' \in [Clients -> ReceiverKinds]
        /\ \A d \in Clients :
              receiver'[d].at \in {"name", "flag"} => receiver'[d].pos <= Slots
    BY <1>3, <2>1, ReceiverType
  <2> QED BY <1>1, <2>2 DEF Start, TypeOK, SenderKinds, ReceiverKinds
<1> QED BY <1>2, <1>3 DEF Start

LEMMA QuitType ==
    ASSUME TypeOK, NEW c \in Clients, Quit(c)
    PROVE  TypeOK'
<1>1. Doing("off") \in SenderKinds /\ SenderTo(c, Doing("off"))
  BY DEF Quit, SenderKinds
<1>2. UNCHANGED <<board, receiver>> /\ sent' \subseteq Messages
  BY DEF Quit, TypeOK
<1> QED BY <1>1, <1>2, SenderStepType

LEMMA InterruptType ==
    ASSUME TypeOK, NEW c \in Clients, Interrupt(c)
    PROVE  TypeOK'
<1>1. Doing("off") \in ReceiverKinds /\ Doing("off").at = "off"
      /\ Doing("off") \in SenderKinds
  BY DEF ReceiverKinds, SenderKinds, Doing
<1>2. sender' \in [Clients -> SenderKinds]
  BY <1>1, SenderType DEF Interrupt
<1>3. /\ receiver' \in [Clients -> ReceiverKinds]
      /\ \A d \in Clients :
            receiver'[d].at \in {"name", "flag"} => receiver'[d].pos <= Slots
  BY <1>1, ReceiverType DEF Interrupt
<1> QED BY <1>2, <1>3 DEF Interrupt, TypeOK, SenderKinds, ReceiverKinds

LEMMA TypeStep ==
    ASSUME TypeOK, [Next]_vars
    PROVE  TypeOK'
<1>1. CASE Elsewhere
  BY <1>1 DEF Elsewhere, Sending, TypeOK
<1>2. CASE UNCHANGED vars
  BY <1>2 DEF vars, TypeOK
<1> QED
  BY <1>1, <1>2, BindType, ReceiveType, LookType, NameType, FlagType, ChooseType,
     ScanType, ConfirmType, SendType, StartType, QuitType, InterruptType DEF Next

LEMMA TypeInit == Init => TypeOK
<1> SUFFICES ASSUME Init PROVE TypeOK
  OBVIOUS
<1>1. board \in [Hosts -> [1..Slots -> Entries]]
  BY DEF Init, Free, Entries
<1> QED BY <1>1 DEF Init, TypeOK, Doing

\* Every step keeps the types, for any number of hosts, clients, groups and
\* slots; in particular no receiver writes behind the end of the table.
THEOREM BoardTypeCorrect == Spec => []TypeOK
<1> QED BY TypeInit, TypeStep, PTL DEF Spec

-----------------------------------------------------------------------------
(* Slots.                                                                  *)

\* What holds of the table and of what the receivers know of it.
BoardInv == Exclusive /\ Searched /\ FreeIsBlank /\ InOrder
Rumours  == InHand /\ NoRumours

LEMMA BoardFrame ==
    ASSUME BoardInv, UNCHANGED <<board, receiver>>
    PROVE  BoardInv'
BY DEF BoardInv, Exclusive, Searched, FreeIsBlank, InOrder, Bound, Table

\* A receiver that lets go of its message, or of its port, knows nothing.
LEMMA LetGo ==
    ASSUME TypeOK, BoardInv, NEW c \in Clients, UNCHANGED board,
           NEW at \in {"off", "starting", "idle"}, ReceiverTo(c, Doing(at)),
           at = "idle" => c \in Bound
    PROVE  BoardInv'
<1>1. Doing(at) \in ReceiverKinds /\ Doing(at).at = at
  BY DEF ReceiverKinds, Doing
<1>2. \A d \in Clients : receiver'[d] = IF d = c THEN Doing(at) ELSE receiver[d]
  BY <1>1, ReceiverType
<1>3. Exclusive'
  BY <1>1, <1>2 DEF BoardInv, Exclusive, Bound
<1>4. Searched'
  BY <1>1, <1>2 DEF BoardInv, Searched, Table
<1> QED BY <1>3, <1>4 DEF BoardInv, FreeIsBlank, InOrder

LEMMA BindBoard ==
    ASSUME TypeOK, BoardInv, OneGroup, NEW c \in Clients, Bind(c)
    PROVE  BoardInv'
<1>1. CASE Rivals(c) # {}
  <2>1. ReceiverTo(c, Doing("off")) /\ UNCHANGED board
    BY <1>1 DEF Bind
  <2> QED BY <2>1, LetGo
<1>2. CASE Rivals(c) = {}
  <2>1. Doing("idle") \in ReceiverKinds /\ Doing("idle").at = "idle"
    BY DEF ReceiverKinds, Doing
  <2>2. \A d \in Clients : receiver'[d] = IF d = c THEN Doing("idle") ELSE receiver[d]
    BY <1>2, <2>1, ReceiverType DEF Bind
  <2>3. \A d \in Bound : HostOf[d] # HostOf[c]
    BY <1>2 DEF Rivals, OneGroup, Bound
  <2>4. Exclusive'
    BY <2>1, <2>2, <2>3 DEF BoardInv, Exclusive, Bound
  <2>5. Searched'
    BY <2>1, <2>2 DEF BoardInv, Searched, Table, Bind
  <2> QED BY <2>4, <2>5 DEF BoardInv, FreeIsBlank, InOrder, Bind
<1> QED BY <1>1, <1>2

\* A receiver that holds a message and knows what Searched says it knows.
LEMMA Informed ==
    ASSUME TypeOK, BoardInv, NEW c \in Clients, c \in Bound, UNCHANGED board,
           NEW r \in Jobs, ReceiverTo(c, r), r.at \in {"name", "flag"} => r.pos <= Slots,
           r.at \in {"look", "name"} =>
               \A i \in 1..Slots : i < r.pos => Table(c)[i].name \notin {NoName, r.course},
           r.at = "name" => Table(c)[r.pos].name = NoName,
           r.at = "flag" => Table(c)[r.pos].name = r.course
    PROVE  BoardInv'
<1>1. r \in ReceiverKinds /\ r.at \notin {"off", "starting"}
  BY DEF ReceiverKinds, Jobs
<1>2. \A d \in Clients : receiver'[d] = IF d = c THEN r ELSE receiver[d]
  BY <1>1, ReceiverType
<1>3. Exclusive'
  BY <1>1, <1>2 DEF BoardInv, Exclusive, Bound
<1>4. Searched'
  BY <1>2 DEF BoardInv, Searched, Table
<1> QED BY <1>3, <1>4 DEF BoardInv, FreeIsBlank, InOrder

LEMMA ReceiveBoard ==
    ASSUME TypeOK, BoardInv, NEW c \in Clients, Receive(c)
    PROVE  BoardInv'
<1>1. PICK m \in sent : ReceiverTo(c, [at |-> "look", kind |-> m.kind,
                                       course |-> m.course, pos |-> 1])
  BY DEF Receive
<1> DEFINE r == [at |-> "look", kind |-> m.kind, course |-> m.course, pos |-> 1]
<1>2. r \in Jobs /\ r.at = "look" /\ r.pos = 1
  BY ChatConstantsOK DEF TypeOK, Messages, Jobs, ChatConstants
<1> HIDE DEF r
<1>3. ReceiverTo(c, r) /\ UNCHANGED board /\ c \in Bound
  BY <1>1 DEF r, Receive, Bound
<1>4. \A i \in 1..Slots : ~(i < r.pos)
  BY <1>2, ChatConstantsOK DEF ChatConstants
<1> QED BY <1>2, <1>3, <1>4, Informed

LEMMA LookBoard ==
    ASSUME TypeOK, BoardInv, NEW c \in Clients, Look(c)
    PROVE  BoardInv'
<1> DEFINE r == receiver[c]
<1> USE ChatConstantsOK DEF ChatConstants
<1>1. r \in Jobs /\ r.at = "look" /\ c \in Bound /\ UNCHANGED board
  BY LookStep DEF Look, Bound
<1>2. \A i \in 1..Slots : i < r.pos => Table(c)[i].name \notin {NoName, r.course}
  BY <1>1 DEF BoardInv, Searched
<1>3. CASE ReceiverTo(c, Doing("idle"))
  BY <1>1, <1>3, LetGo
<1>4. ASSUME r.pos \in 1..Slots, Table(c)[r.pos].name = NoName,
             ReceiverTo(c, [r EXCEPT !.at = "name"])
      PROVE  BoardInv'
  <2> DEFINE q == [r EXCEPT !.at = "name"]
  <2>1. q \in Jobs /\ q.at = "name" /\ q.pos = r.pos /\ q.course = r.course
    BY <1>1 DEF Jobs
  <2>2. ReceiverTo(c, q)
    BY <1>4
  <2> HIDE DEF q
  <2>3. q.pos <= Slots /\ Table(c)[q.pos].name = NoName
    BY <1>4, <2>1
  <2>4. \A i \in 1..Slots : i < q.pos => Table(c)[i].name \notin {NoName, q.course}
    BY <1>2, <2>1
  <2> QED BY <1>1, <2>1, <2>2, <2>3, <2>4, Informed
<1>5. ASSUME r.pos \in 1..Slots, Table(c)[r.pos].name = r.course,
             ReceiverTo(c, [r EXCEPT !.at = "flag"])
      PROVE  BoardInv'
  <2> DEFINE q == [r EXCEPT !.at = "flag"]
  <2>1. q \in Jobs /\ q.at = "flag" /\ q.pos = r.pos /\ q.course = r.course
    BY <1>1 DEF Jobs
  <2>2. ReceiverTo(c, q)
    BY <1>5
  <2> HIDE DEF q
  <2>3. q.pos <= Slots /\ Table(c)[q.pos].name = q.course
    BY <1>5, <2>1
  <2> QED BY <1>1, <2>1, <2>2, <2>3, Informed
<1>6. ASSUME r.pos \in 1..Slots, Table(c)[r.pos].name \notin {NoName, r.course},
             ReceiverTo(c, [r EXCEPT !.pos = r.pos + 1])
      PROVE  BoardInv'
  <2> DEFINE q == [r EXCEPT !.pos = r.pos + 1]
  <2>1. q \in Jobs /\ q.at = "look" /\ q.pos = r.pos + 1 /\ q.course = r.course
    BY <1>1, <1>6 DEF Jobs
  <2>2. ReceiverTo(c, q)
    BY <1>6
  <2> HIDE DEF q
  <2>3. \A i \in 1..Slots : i < q.pos => i < r.pos \/ i = r.pos
    BY <1>6, <2>1
  <2>4. \A i \in 1..Slots : i < q.pos => Table(c)[i].name \notin {NoName, q.course}
    BY <1>2, <1>6, <2>1, <2>3
  <2> QED BY <1>1, <2>1, <2>2, <2>4, Informed
<1> QED BY <1>3, <1>4, <1>5, <1>6, LookStep

\* What the receiver knows when it writes, and what the table is afterwards.
LEMMA NameStep ==
    ASSUME TypeOK, BoardInv, NEW c \in Clients, WriteName(c)
    PROVE  LET r == receiver[c] h == HostOf[c] IN
           /\ r \in Jobs /\ r.at = "name" /\ r.pos \in 1..Slots /\ h \in Hosts
           /\ board[h][r.pos].name = NoName
           /\ \A i \in 1..Slots : i < r.pos => board[h][i].name \notin {NoName, r.course}
           /\ \A g \in Hosts, i \in 1..Slots :
                /\ board'[g][i].name = IF g = h /\ i = r.pos THEN r.course
                                       ELSE board[g][i].name
                /\ board'[g][i].send = board[g][i].send
                /\ board'[g][i].recv = board[g][i].recv
           /\ \A d \in Clients : receiver'[d] = IF d = c THEN [r EXCEPT !.at = "flag"]
                                                ELSE receiver[d]
<1> DEFINE r == receiver[c]
           h == HostOf[c]
           q == [r EXCEPT !.at = "flag"]
           e == [Table(c)[r.pos] EXCEPT !.name = r.course]
<1>1. r \in Jobs /\ r.at = "name" /\ r.pos \in 1..Slots /\ h \in Hosts
  BY JobType, TableType DEF WriteName
<1>2. /\ board[h][r.pos].name = NoName
      /\ \A i \in 1..Slots : i < r.pos => board[h][i].name \notin {NoName, r.course}
  BY <1>1 DEF BoardInv, Searched, Table
<1>3. Table(c)[r.pos] \in Entries /\ r.course \in Courses
  BY <1>1, TableType DEF Jobs
<1>4. /\ e \in Entries /\ e.name = r.course
      /\ e.send = board[h][r.pos].send /\ e.recv = board[h][r.pos].recv
  BY <1>3, NamedEntry DEF Table
<1>5. q \in Jobs /\ q.at = "flag" /\ q.pos = r.pos
  BY <1>1 DEF Jobs
<1>6. Write(c, e) /\ ReceiverTo(c, q)
  BY DEF WriteName
<1> HIDE DEF e, q
<1>7. \A g \in Hosts, i \in 1..Slots :
        board'[g][i] = IF g = h /\ i = r.pos THEN e ELSE board[g][i]
  BY <1>1, <1>4, <1>6, WriteType
<1>8. q \in ReceiverKinds /\ q.pos <= Slots
  BY <1>1, <1>5, ChatConstantsOK DEF ReceiverKinds, ChatConstants
<1>9. \A d \in Clients : receiver'[d] = IF d = c THEN q ELSE receiver[d]
  BY <1>6, <1>8, ReceiverType
<1>10. \A g \in Hosts, i \in 1..Slots :
        /\ board'[g][i].name = IF g = h /\ i = r.pos THEN r.course
                               ELSE board[g][i].name
        /\ board'[g][i].send = board[g][i].send
        /\ board'[g][i].recv = board[g][i].recv
  BY <1>4, <1>7
<1>11. \A d \in Clients : receiver'[d] = IF d = c THEN [r EXCEPT !.at = "flag"]
                                         ELSE receiver[d]
  BY <1>9 DEF q
<1> QED BY <1>1, <1>2, <1>10, <1>11

LEMMA NameBoard ==
    ASSUME TypeOK, BoardInv, NEW c \in Clients, WriteName(c)
    PROVE  BoardInv'
<1> DEFINE r == receiver[c]
           h == HostOf[c]
           q == [r EXCEPT !.at = "flag"]
<1>1. r \in Jobs /\ r.at = "name" /\ r.pos \in 1..Slots /\ h \in Hosts /\ c \in Bound
  BY NameStep DEF Bound
<1>2. /\ board[h][r.pos].name = NoName
      /\ \A i \in 1..Slots : i < r.pos => board[h][i].name \notin {NoName, r.course}
  BY NameStep
<1>3. \A g \in Hosts, i \in 1..Slots :
        /\ board'[g][i].name = IF g = h /\ i = r.pos THEN r.course
                               ELSE board[g][i].name
        /\ board'[g][i].send = board[g][i].send
        /\ board'[g][i].recv = board[g][i].recv
  BY NameStep
<1>4. q.at = "flag" /\ q.pos = r.pos /\ q.course = r.course /\ r.course # NoName
  BY <1>1, ChatConstantsOK DEF Jobs, ChatConstants
<1>5. \A d \in Clients : receiver'[d] = IF d = c THEN q ELSE receiver[d]
  BY NameStep
<1> HIDE DEF q
<1>6. Exclusive'
  BY <1>1, <1>4, <1>5 DEF BoardInv, Exclusive, Bound
<1>7. ASSUME NEW d \in Clients
      PROVE  Searched!(d)'
  <2>1. CASE d = c
    BY <2>1, <1>1, <1>3, <1>4, <1>5 DEF Table
  <2>2. CASE d # c /\ d \in Bound
    <3>1. HostOf[d] # h /\ HostOf[d] \in Hosts /\ receiver'[d] = receiver[d]
      BY <2>2, <1>1, <1>5, TableType DEF BoardInv, Exclusive
    <3>2. \A i \in 1..Slots : Table(d)'[i].name = Table(d)[i].name
      BY <3>1, <1>3 DEF Table
    <3>3. receiver[d].at \in {"name", "flag"} => receiver[d].pos \in 1..Slots
      BY JobType
    <3> QED BY <3>1, <3>2, <3>3 DEF BoardInv, Searched
  <2>3. CASE d # c /\ d \notin Bound
    BY <2>3, <1>5 DEF Bound
  <2> QED BY <2>1, <2>2, <2>3
<1>8. Searched'
  BY <1>7 DEF Searched
<1>9. FreeIsBlank'
  BY <1>3, <1>4 DEF BoardInv, FreeIsBlank
<1>10. ASSUME NEW g \in Hosts, NEW i \in 1..Slots, NEW j \in 1..Slots,
              i < j, board'[g][j].name # NoName
       PROVE  board'[g][i].name \notin {NoName, board'[g][j].name}
  <2>1. CASE g = h /\ j = r.pos
    BY <2>1, <1>2, <1>3, <1>10
  <2>2. CASE g = h /\ i = r.pos
    <3>1. j # r.pos
      BY <2>2, <1>10
    <3>2. board[h][j].name # NoName
      BY <2>2, <3>1, <1>3, <1>10
    <3> QED BY <2>2, <3>2, <1>2, <1>10 DEF BoardInv, InOrder
  <2>3. CASE g # h \/ (i # r.pos /\ j # r.pos)
    BY <2>3, <1>3, <1>10 DEF BoardInv, InOrder
  <2> QED BY <2>1, <2>2, <2>3
<1>11. InOrder'
  BY <1>10 DEF InOrder
<1> QED BY <1>6, <1>8, <1>9, <1>11 DEF BoardInv

LEMMA FlagStep ==
    ASSUME TypeOK, BoardInv, NEW c \in Clients, WriteFlag(c)
    PROVE  LET r == receiver[c] h == HostOf[c] IN
           /\ r \in Jobs /\ r.at = "flag" /\ r.pos \in 1..Slots /\ h \in Hosts
           /\ board[h][r.pos].name = r.course
           /\ \A g \in Hosts, i \in 1..Slots :
                /\ board'[g][i].name = board[g][i].name
                /\ (g = h /\ i = r.pos) \/ board'[g][i] = board[g][i]
                /\ \A k \in Kinds : Flag(board'[g][i], k) <=>
                        Flag(board[g][i], k) \/ (g = h /\ i = r.pos /\ k = r.kind)
           /\ \A d \in Clients : receiver'[d] = IF d = c THEN Doing("idle")
                                                ELSE receiver[d]
<1> DEFINE r == receiver[c]
           h == HostOf[c]
           e == Noted(Table(c)[r.pos], r.kind)
<1>1. r \in Jobs /\ r.at = "flag" /\ r.pos \in 1..Slots /\ h \in Hosts
  BY JobType, TableType DEF WriteFlag
<1>2. board[h][r.pos].name = r.course
  BY <1>1 DEF BoardInv, Searched, Table
<1>3. Table(c)[r.pos] \in Entries /\ r.kind \in Kinds
  BY <1>1, TableType DEF Jobs
<1>4. /\ e \in Entries /\ e.name = board[h][r.pos].name
      /\ \A k \in Kinds : Flag(e, k) <=> Flag(board[h][r.pos], k) \/ k = r.kind
  BY <1>3, NotedEntry DEF Table
<1>5. Write(c, e) /\ ReceiverTo(c, Doing("idle"))
  BY DEF WriteFlag
<1> HIDE DEF e
<1>6. \A g \in Hosts, i \in 1..Slots :
        board'[g][i] = IF g = h /\ i = r.pos THEN e ELSE board[g][i]
  BY <1>1, <1>4, <1>5, WriteType
<1>7. Doing("idle") \in ReceiverKinds /\ Doing("idle").at = "idle"
  BY DEF ReceiverKinds, Doing
<1>8. \A d \in Clients : receiver'[d] = IF d = c THEN Doing("idle") ELSE receiver[d]
  BY <1>5, <1>7, ReceiverType
<1>9. \A g \in Hosts, i \in 1..Slots :
        /\ board'[g][i].name = board[g][i].name
        /\ (g = h /\ i = r.pos) \/ board'[g][i] = board[g][i]
        /\ \A k \in Kinds : Flag(board'[g][i], k) <=>
                Flag(board[g][i], k) \/ (g = h /\ i = r.pos /\ k = r.kind)
  BY <1>4, <1>6
<1> QED BY <1>1, <1>2, <1>8, <1>9

LEMMA FlagBoard ==
    ASSUME TypeOK, BoardInv, NEW c \in Clients, WriteFlag(c)
    PROVE  BoardInv'
<1> DEFINE r == receiver[c]
           h == HostOf[c]
<1>1. r \in Jobs /\ r.at = "flag" /\ r.pos \in 1..Slots /\ h \in Hosts /\ c \in Bound
      /\ board[h][r.pos].name = r.course
  BY FlagStep DEF Bound
<1>2. \A g \in Hosts, i \in 1..Slots :
        /\ board'[g][i].name = board[g][i].name
        /\ (g = h /\ i = r.pos) \/ board'[g][i] = board[g][i]
  BY FlagStep
<1>3. \A d \in Clients : receiver'[d] = IF d = c THEN Doing("idle") ELSE receiver[d]
  BY FlagStep
<1>4. Doing("idle").at = "idle"
  BY DEF Doing
<1>5. Exclusive'
  BY <1>1, <1>3, <1>4 DEF BoardInv, Exclusive, Bound
<1>6. ASSUME NEW d \in Clients
      PROVE  Searched!(d)'
  <2>1. CASE d = c
    BY <2>1, <1>3, <1>4
  <2>2. CASE d # c
    <3>1. \A i \in 1..Slots : Table(d)'[i].name = Table(d)[i].name
      BY <1>2, TableType DEF Table
    <3>2. receiver[d].at \in {"name", "flag"} => receiver[d].pos \in 1..Slots
      BY JobType
    <3> QED BY <2>2, <3>1, <3>2, <1>3 DEF BoardInv, Searched
  <2> QED BY <2>1, <2>2
<1>7. Searched'
  BY <1>6 DEF Searched
<1>8. r.course # NoName
  BY <1>1, ChatConstantsOK DEF Jobs, ChatConstants
<1>9. FreeIsBlank'
  BY <1>1, <1>2, <1>8 DEF BoardInv, FreeIsBlank
<1>10. InOrder'
  BY <1>2 DEF BoardInv, InOrder
<1> QED BY <1>5, <1>7, <1>9, <1>10 DEF BoardInv

LEMMA StartBoard ==
    ASSUME TypeOK, BoardInv, NEW c \in Clients, Start(c)
    PROVE  BoardInv'
<1>1. CASE UNCHANGED receiver
  BY <1>1, BoardFrame DEF Start
<1>2. CASE ReceiverTo(c, Doing("starting"))
  BY <1>2, LetGo DEF Start
<1> QED BY <1>1, <1>2 DEF Start

LEMMA InterruptBoard ==
    ASSUME TypeOK, BoardInv, NEW c \in Clients, Interrupt(c)
    PROVE  BoardInv'
BY LetGo DEF Interrupt

LEMMA BoardStep ==
    ASSUME TypeOK, BoardInv, OneGroup, [Next]_vars
    PROVE  BoardInv'
<1>1. ASSUME NEW c \in Clients, Choose(c) \/ Scan(c) \/ Confirm(c) \/ Send(c) \/ Quit(c)
      PROVE  BoardInv'
  BY <1>1, BoardFrame DEF Choose, Scan, Confirm, Send, Quit
<1>2. CASE Elsewhere \/ UNCHANGED vars
  BY <1>2, BoardFrame DEF Elsewhere, vars
<1> QED
  BY <1>1, <1>2, BindBoard, ReceiveBoard, LookBoard, NameBoard, FlagBoard,
     StartBoard, InterruptBoard DEF Next

LEMMA BoardInit == Init => BoardInv
BY ChatConstantsOK DEF Init, BoardInv, Exclusive, Searched, FreeIsBlank, InOrder,
   Bound, Table, Free, Doing, ChatConstants

\* On a host that serves one group the table never has two entries for one
\* course, and no gap that would hide an entry from the loops.
THEOREM NoCourseTwice == OneGroup => (Spec => []InOrder)
<1> SUFFICES ASSUME OneGroup PROVE Spec => []InOrder
  OBVIOUS
<1>1. Init => TypeOK /\ BoardInv
  BY TypeInit, BoardInit
<1>2. TypeOK /\ BoardInv /\ [Next]_vars => TypeOK' /\ BoardInv'
  BY TypeStep, BoardStep
<1>3. BoardInv => InOrder
  BY DEF BoardInv
<1> QED BY <1>1, <1>2, <1>3, PTL DEF Spec

-----------------------------------------------------------------------------
(* Rumours.                                                                *)

\* What is known of a message stays true when more are sent.
LEMMA RumourFrame ==
    ASSUME Rumours, UNCHANGED <<board, receiver>>, sent \subseteq sent'
    PROVE  Rumours'
BY DEF Rumours, InHand, NoRumours

LEMMA LetGoRumour ==
    ASSUME TypeOK, Rumours, NEW c \in Clients, UNCHANGED <<board, sent>>,
           NEW at \in {"off", "starting", "idle"}, ReceiverTo(c, Doing(at))
    PROVE  Rumours'
<1>1. Doing(at) \in ReceiverKinds /\ Doing(at).at = at
  BY DEF ReceiverKinds, Doing
<1>2. \A d \in Clients : receiver'[d] = IF d = c THEN Doing(at) ELSE receiver[d]
  BY <1>1, ReceiverType
<1> QED BY <1>1, <1>2 DEF Rumours, InHand, NoRumours

LEMMA ReceiveRumour ==
    ASSUME TypeOK, Rumours, NEW c \in Clients, Receive(c)
    PROVE  Rumours'
<1>1. PICK m \in sent : ReceiverTo(c, [at |-> "look", kind |-> m.kind,
                                       course |-> m.course, pos |-> 1])
  BY DEF Receive
<1> DEFINE r == [at |-> "look", kind |-> m.kind, course |-> m.course, pos |-> 1]
<1>2. r \in Jobs /\ r.at = "look" /\ r.kind = m.kind /\ r.course = m.course
  BY ChatConstantsOK DEF TypeOK, Messages, Jobs, ChatConstants
<1> HIDE DEF r
<1>3. ReceiverTo(c, r) /\ UNCHANGED <<board, sent>>
  BY <1>1 DEF r, Receive
<1>4. \A d \in Clients : receiver'[d] = IF d = c THEN r ELSE receiver[d]
  BY <1>2, <1>3, ReceiverType DEF ReceiverKinds
<1> QED BY <1>2, <1>3, <1>4 DEF Rumours, InHand, NoRumours

\* A receiver that goes on with the message it has.
LEMMA SameMessage ==
    ASSUME Rumours, NEW c \in Clients, UNCHANGED sent, NEW q,
           receiver[c].at \in {"look", "name", "flag"},
           q.kind = receiver[c].kind, q.course = receiver[c].course,
           \A d \in Clients : receiver'[d] = IF d = c THEN q ELSE receiver[d]
    PROVE  InHand'
BY DEF Rumours, InHand

LEMMA LookRumour ==
    ASSUME TypeOK, Rumours, NEW c \in Clients, Look(c)
    PROVE  Rumours'
<1> DEFINE r == receiver[c]
<1> USE ChatConstantsOK DEF ChatConstants
<1>1. r \in Jobs /\ r.at = "look" /\ UNCHANGED <<board, sent>>
  BY LookStep DEF Look
<1>2. CASE ReceiverTo(c, Doing("idle"))
  BY <1>1, <1>2, LetGoRumour
<1>3. ASSUME NEW q \in Jobs, ReceiverTo(c, q), q.pos <= Slots \/ q.at = "look",
             q.kind = r.kind, q.course = r.course
      PROVE  Rumours'
  <2>1. \A d \in Clients : receiver'[d] = IF d = c THEN q ELSE receiver[d]
    BY <1>3, ReceiverType DEF ReceiverKinds
  <2>2. InHand'
    BY <1>1, <1>3, <2>1, SameMessage
  <2> QED BY <1>1, <2>2 DEF Rumours, NoRumours
<1>4. ASSUME r.pos \in 1..Slots, NEW at \in {"name", "flag"}
      PROVE  LET q == [r EXCEPT !.at = at] IN
             q \in Jobs /\ q.pos <= Slots /\ q.kind = r.kind /\ q.course = r.course
  BY <1>1, <1>4 DEF Jobs
<1>5. ASSUME r.pos \in 1..Slots
      PROVE  LET q == [r EXCEPT !.pos = r.pos + 1] IN
             q \in Jobs /\ q.at = "look" /\ q.kind = r.kind /\ q.course = r.course
  BY <1>1, <1>5 DEF Jobs
<1> QED BY <1>2, <1>3, <1>4, <1>5, LookStep

LEMMA NameRumour ==
    ASSUME TypeOK, BoardInv, Rumours, NEW c \in Clients, WriteName(c)
    PROVE  Rumours'
<1> DEFINE r == receiver[c]
           h == HostOf[c]
           q == [r EXCEPT !.at = "flag"]
<1>1. r \in Jobs /\ r.at = "name" /\ r.pos \in 1..Slots /\ h \in Hosts
      /\ board[h][r.pos].name = NoName /\ UNCHANGED sent
  BY NameStep DEF WriteName
<1>2. \A g \in Hosts, i \in 1..Slots :
        /\ board'[g][i].name = IF g = h /\ i = r.pos THEN r.course
                               ELSE board[g][i].name
        /\ board'[g][i].send = board[g][i].send
        /\ board'[g][i].recv = board[g][i].recv
  BY NameStep
<1>3. q.kind = r.kind /\ q.course = r.course
  BY <1>1 DEF Jobs
<1>4. \A d \in Clients : receiver'[d] = IF d = c THEN q ELSE receiver[d]
  BY NameStep
<1> HIDE DEF q
<1>5. InHand'
  BY <1>1, <1>3, <1>4, SameMessage
<1>6. ~board[h][r.pos].send /\ ~board[h][r.pos].recv
  BY <1>1 DEF BoardInv, FreeIsBlank
<1>7. NoRumours'
  BY <1>1, <1>2, <1>6 DEF Rumours, NoRumours, Flag
<1> QED BY <1>5, <1>7 DEF Rumours

LEMMA FlagRumour ==
    ASSUME TypeOK, BoardInv, Rumours, NEW c \in Clients, WriteFlag(c)
    PROVE  Rumours'
<1> DEFINE r == receiver[c]
           h == HostOf[c]
<1>1. r \in Jobs /\ r.at = "flag" /\ r.pos \in 1..Slots /\ h \in Hosts
      /\ board[h][r.pos].name = r.course /\ UNCHANGED sent
  BY FlagStep DEF WriteFlag
<1>2. \A g \in Hosts, i \in 1..Slots :
        /\ board'[g][i].name = board[g][i].name
        /\ \A k \in Kinds : Flag(board'[g][i], k) <=>
                Flag(board[g][i], k) \/ (g = h /\ i = r.pos /\ k = r.kind)
  BY FlagStep
<1>3. \A d \in Clients : receiver'[d] = IF d = c THEN Doing("idle") ELSE receiver[d]
  BY FlagStep
<1>4. InHand'
  BY <1>1, <1>3 DEF Rumours, InHand, Doing
<1>5. \E m \in sent : m.kind = r.kind /\ m.course = r.course
  BY <1>1 DEF Rumours, InHand
<1>6. ASSUME NEW g \in Hosts, NEW i \in 1..Slots, NEW k \in Kinds,
             Flag(board'[g][i], k)
      PROVE  \E m \in sent' : m.kind = k /\ m.course = board'[g][i].name
  BY <1>1, <1>2, <1>5, <1>6 DEF Rumours, NoRumours
<1> QED BY <1>4, <1>6 DEF Rumours, NoRumours

LEMMA RumourStep ==
    ASSUME TypeOK, BoardInv, Rumours, [Next]_vars
    PROVE  Rumours'
<1>1. ASSUME NEW c \in Clients, Choose(c) \/ Scan(c) \/ Confirm(c) \/ Send(c) \/ Quit(c)
      PROVE  Rumours'
  BY <1>1, RumourFrame DEF Choose, Scan, Confirm, Send, Quit, Sending
<1>2. CASE Elsewhere \/ UNCHANGED vars
  BY <1>2, RumourFrame DEF Elsewhere, Sending, vars
<1>3. ASSUME NEW c \in Clients, Bind(c) PROVE Rumours'
  BY <1>3, LetGoRumour DEF Bind
<1>4. ASSUME NEW c \in Clients, Start(c) PROVE Rumours'
  BY <1>4, LetGoRumour, RumourFrame DEF Start
<1>5. ASSUME NEW c \in Clients, Interrupt(c) PROVE Rumours'
  BY <1>5, LetGoRumour DEF Interrupt
<1> QED
  BY <1>1, <1>2, <1>3, <1>4, <1>5, ReceiveRumour, LookRumour, NameRumour,
     FlagRumour DEF Next

LEMMA RumourInit == Init => Rumours
BY DEF Init, Rumours, InHand, NoRumours, Free, Flag, Doing

\* On a host that serves one group the table never says of a course that it was
\* asked for, or answered, if no such message was sent, however the receivers
\* are started, stopped and interrupted.
THEOREM TableTellsTruth == OneGroup => (Spec => []NoRumours)
<1> SUFFICES ASSUME OneGroup PROVE Spec => []NoRumours
  OBVIOUS
<1>1. Init => TypeOK /\ BoardInv /\ Rumours
  BY TypeInit, BoardInit, RumourInit
<1>2. TypeOK /\ BoardInv /\ Rumours /\ [Next]_vars => TypeOK' /\ BoardInv' /\ Rumours'
  BY TypeStep, BoardStep, RumourStep
<1>3. Rumours => NoRumours
  BY DEF Rumours
<1> QED BY <1>1, <1>2, <1>3, PTL DEF Spec

-----------------------------------------------------------------------------
(* Memory.                                                                 *)

LEMMA GrowStep ==
    ASSUME TypeOK, BoardInv, [Next]_vars
    PROVE  Grow
<1>1. CASE UNCHANGED board
  BY <1>1 DEF Grow
<1>2. ASSUME NEW c \in Clients, WriteName(c) PROVE Grow
  <2> DEFINE r == receiver[c]
             h == HostOf[c]
  <2>1. board[h][r.pos].name = NoName
    BY <1>2, NameStep
  <2>2. \A g \in Hosts, i \in 1..Slots :
          /\ board'[g][i].name = IF g = h /\ i = r.pos THEN r.course
                                 ELSE board[g][i].name
          /\ board'[g][i].send = board[g][i].send
          /\ board'[g][i].recv = board[g][i].recv
    BY <1>2, NameStep
  <2> QED BY <2>1, <2>2 DEF Grow
<1>3. ASSUME NEW c \in Clients, WriteFlag(c) PROVE Grow
  <2>1. \A g \in Hosts, i \in 1..Slots :
          /\ board'[g][i].name = board[g][i].name
          /\ \A k \in Kinds : Flag(board[g][i], k) => Flag(board'[g][i], k)
    BY <1>3, FlagStep
  <2> QED BY <2>1 DEF Grow, Flag, Kinds
<1>4. ASSUME NEW c \in Clients,
             Bind(c) \/ Receive(c) \/ Look(c) \/ Choose(c) \/ Scan(c) \/ Confirm(c)
             \/ Send(c) \/ Start(c) \/ Quit(c) \/ Interrupt(c)
      PROVE  UNCHANGED board
  BY <1>4 DEF Bind, Receive, Look, Choose, Scan, Confirm, Send, Start, Quit, Interrupt
<1>5. CASE Elsewhere \/ UNCHANGED vars
  BY <1>1, <1>5 DEF Elsewhere, vars
<1> QED BY <1>1, <1>2, <1>3, <1>4, <1>5 DEF Next

\* On a host that serves one group no name and no flag ever leaves the table.
THEOREM TableRemembers == OneGroup => (Spec => Remembers)
<1> SUFFICES ASSUME OneGroup PROVE Spec => Remembers
  OBVIOUS
<1>1. Init => TypeOK /\ BoardInv
  BY TypeInit, BoardInit
<1>2. TypeOK /\ BoardInv /\ [Next]_vars => TypeOK' /\ BoardInv'
  BY TypeStep, BoardStep
<1>3. TypeOK /\ BoardInv /\ [Next]_vars => [Grow]_vars
  BY GrowStep
<1> QED BY <1>1, <1>2, <1>3, PTL DEF Spec, Remembers

-----------------------------------------------------------------------------
(* What the senders know and what the receivers leave.                     *)

\* What the table knew is still ahead of the loop; who was warned confirms; who
\* goes on without a warning has seen no reason for one.
Told(c) ==
    LET s == sender[c] IN
    /\ s.at = "scan" /\ s.known =>
          \E i \in s.pos..Slots : Table(c)[i].name = s.course /\ Seen(Table(c)[i], s.kind)
    /\ s.at = "confirm" => s.warned
    /\ s.at = "send" /\ ~s.warned =>
          IF s.kind = "ask" THEN ~s.known
          ELSE \E m \in sent : m.kind = "ask" /\ m.course = s.course

\* Neither the table nor the messages forget, so what a sender knows stays true.
LEMMA ToldFrame ==
    ASSUME TypeOK, Grow, sent \subseteq sent', NEW c \in Clients, Told(c), sender'[c] = sender[c]
    PROVE  Told(c)'
<1> DEFINE s == sender[c]
<1>1. ASSUME s.at = "scan", s.known
      PROVE  \E i \in s.pos..Slots : Table(c)'[i].name = s.course /\ Seen(Table(c)'[i], s.kind)
  <2>1. s \in Talks
    BY <1>1, TalkType
  <2>2. PICK i \in s.pos..Slots : Table(c)[i].name = s.course /\ Seen(Table(c)[i], s.kind)
    BY <1>1 DEF Told
  <2>3. i \in 1..Slots /\ HostOf[c] \in Hosts /\ s.course # NoName
    BY <2>1, <2>2, TableType, ChatConstantsOK DEF Talks, ChatConstants
  <2>4. Table(c)'[i].name = s.course /\ Seen(Table(c)'[i], s.kind)
    BY <2>2, <2>3 DEF Grow, Table, Seen
  <2> QED BY <2>4
<1> QED BY <1>1 DEF Told

LEMMA ChooseTold ==
    ASSUME TypeOK, NEW c \in Clients, Choose(c)
    PROVE  Told(c)'
<1>1. PICK kind \in Kinds, x \in Courses :
        SenderTo(c, [at |-> "scan", kind |-> kind, course |-> x, pos |-> 1,
                     known |-> \E i \in 1..Slots : Table(c)[i].name = x
                                                   /\ Seen(Table(c)[i], kind),
                     warned |-> FALSE])
  BY DEF Choose
<1> DEFINE k == \E i \in 1..Slots : Table(c)[i].name = x /\ Seen(Table(c)[i], kind)
<1>2. /\ sender'[c].at = "scan" /\ sender'[c].kind = kind /\ sender'[c].course = x
      /\ sender'[c].pos = 1 /\ sender'[c].known = k
  BY <1>1 DEF TypeOK, SenderTo
<1>3. UNCHANGED board
  BY DEF Choose
<1> QED BY <1>2, <1>3 DEF Told, Table

LEMMA ScanStep ==
    ASSUME NEW c \in Clients, Scan(c)
    PROVE  LET s == sender[c] e == Table(c)[s.pos] IN
           /\ ~(s.pos > Slots) /\ e.name # NoName /\ e.name = s.course /\ Seen(e, s.kind)
                => SenderTo(c, Decided(s, TRUE))
           /\ ~(s.pos > Slots) /\ e.name # NoName /\ ~(e.name = s.course /\ Seen(e, s.kind))
                => SenderTo(c, [s EXCEPT !.pos = s.pos + 1])
BY Zenon DEF Scan

LEMMA ScanTold ==
    ASSUME TypeOK, BoardInv, NoRumours, NEW c \in Clients, Told(c), Scan(c)
    PROVE  Told(c)'
<1> DEFINE s == sender[c]
           e == Table(c)[s.pos]
<1>1. s \in Talks /\ s.at = "scan" /\ s.course # NoName /\ UNCHANGED <<board, sent>>
  BY TalkType, ChatConstantsOK DEF Scan, Talks, ChatConstants
<1>2. HostOf[c] \in Hosts /\ Table(c) \in [1..Slots -> Entries] /\ Slots \in Nat
  BY TableType, ChatConstantsOK DEF ChatConstants
<1>3. \A t : SenderTo(c, t) => sender'[c] = t
  BY DEF TypeOK, SenderTo
<1>4. ASSUME SenderTo(c, Decided(s, FALSE)), s.kind = "ask" => ~s.known PROVE Told(c)'
  <2>1. sender'[c] = Decided(s, FALSE)
    BY <1>3, <1>4
  <2>2. CASE s.kind = "ask"
    BY <1>1, <1>4, <2>1, <2>2 DEF Decided, Told, Talks
  <2>3. CASE s.kind # "ask"
    BY <1>1, <2>1, <2>3 DEF Decided, Told, Talks
  <2> QED BY <2>2, <2>3
<1>5. CASE s.pos > Slots
  <2>1. ~s.known
    BY <1>1, <1>2, <1>5 DEF Told, Talks
  <2> QED BY <1>4, <1>5, <2>1 DEF Scan
<1>6. CASE s.pos <= Slots /\ e.name = NoName
  <2>1. s.pos \in 1..Slots
    BY <1>1, <1>2, <1>6 DEF Talks
  <2>2. ASSUME NEW i \in s.pos..Slots PROVE Table(c)[i].name # s.course
    <3>1. CASE i = s.pos
      BY <1>1, <1>6, <3>1
    <3>2. CASE i # s.pos
      <4>1. i \in 1..Slots /\ s.pos < i
        BY <1>2, <2>1, <3>2
      <4> QED BY <1>1, <1>2, <1>6, <2>1, <4>1 DEF BoardInv, InOrder, Table
    <3> QED BY <3>1, <3>2
  <2>3. ~s.known
    BY <1>1, <2>2 DEF Told
  <2> QED BY <1>1, <1>2, <1>4, <1>6, <2>3 DEF Scan, Talks
<1>7. CASE s.pos <= Slots /\ e.name = s.course /\ Seen(e, s.kind)
  <2>1. s.pos \in 1..Slots
    BY <1>1, <1>2, <1>7 DEF Talks
  <2>2. sender'[c] = Decided(s, TRUE)
    <3>1. ~(s.pos > Slots)
      BY <1>1, <1>2, <1>7 DEF Talks
    <3>2. SenderTo(c, Decided(s, TRUE))
      BY <1>1, <1>7, <3>1, ScanStep, Zenon
    <3> QED BY <1>3, <3>2
  <2>3. CASE s.kind = "ask"
    BY <1>1, <2>2, <2>3 DEF Decided, Told, Talks
  <2>4. CASE s.kind # "ask"
    <3>1. Flag(e, "ask")
      BY <1>7, <2>4 DEF Seen, Flag
    <3>2. \E m \in sent : m.kind = "ask" /\ m.course = s.course
      BY <1>2, <1>7, <2>1, <3>1 DEF NoRumours, Kinds, Table
    <3> QED BY <1>1, <2>2, <2>4, <3>2 DEF Decided, Told, Talks
  <2> QED BY <2>3, <2>4
<1>8. CASE s.pos <= Slots /\ e.name # NoName /\ ~(e.name = s.course /\ Seen(e, s.kind))
  <2>1. sender'[c] = [s EXCEPT !.pos = s.pos + 1]
    <3>1. ~(s.pos > Slots)
      BY <1>1, <1>2, <1>8 DEF Talks
    <3>2. SenderTo(c, [s EXCEPT !.pos = s.pos + 1])
      BY <1>1, <1>8, <3>1, ScanStep, Zenon
    <3> QED BY <1>3, <3>2
  <2>2. s.known => \E i \in (s.pos + 1)..Slots : Table(c)[i].name = s.course /\ Seen(Table(c)[i], s.kind)
    <3>1. ASSUME s.known PROVE \E i \in s.pos..Slots : Table(c)[i].name = s.course /\ Seen(Table(c)[i], s.kind)
      BY <1>1, <3>1 DEF Told
    <3>2. \A i \in s.pos..Slots : i = s.pos \/ i \in (s.pos + 1)..Slots
      BY <1>1, <1>2 DEF Talks
    <3> QED BY <1>8, <3>1, <3>2
  <2> QED BY <1>1, <2>1, <2>2 DEF Told, Talks, Table
<1>9. s.pos > Slots \/ s.pos <= Slots
  BY <1>1, <1>2 DEF Talks
<1> QED BY <1>5, <1>6, <1>7, <1>8, <1>9

LEMMA ToldStep ==
    ASSUME TypeOK, BoardInv, NoRumours, \A c \in Clients : Told(c), [Next]_vars
    PROVE  \A c \in Clients : Told(c)'
<1> SUFFICES ASSUME NEW d \in Clients PROVE Told(d)'
  OBVIOUS
<1>1. Grow
  BY GrowStep
<1>2. sent \subseteq sent'
  BY DEF Next, vars, Bind, Receive, Look, WriteName, WriteFlag, Choose, Scan, Confirm, Send, Start, Quit,
         Interrupt, Elsewhere, Sending
<1>3. CASE sender'[d] = sender[d]
  BY <1>1, <1>2, <1>3, ToldFrame
<1>4. ASSUME NEW s, SenderTo(d, s), s.at \in {"off", "menu"} PROVE Told(d)'
  <2>1. sender'[d] = s
    BY <1>4 DEF TypeOK, SenderTo
  <2> QED BY <1>4, <2>1 DEF Told
<1>5. ASSUME NEW c \in Clients, c # d, NEW s, SenderTo(c, s) PROVE sender'[d] = sender[d]
  BY <1>5 DEF SenderTo, TypeOK
<1>6. ASSUME NEW c \in Clients, Choose(c) PROVE Told(d)'
  BY <1>3, <1>5, <1>6, ChooseTold DEF Choose
<1>7. ASSUME NEW c \in Clients, Scan(c) PROVE Told(d)'
  BY <1>3, <1>5, <1>7, ScanTold DEF Scan
<1>8. ASSUME NEW c \in Clients, Confirm(c) PROVE Told(d)'
  <2>1. CASE c = d /\ SenderTo(d, [sender[d] EXCEPT !.at = "send"])
    <3>1. sender[d] \in Talks /\ sender[d].warned
      BY <1>8, <2>1, TalkType DEF Confirm, Told
    <3>2. sender'[d] = [sender[d] EXCEPT !.at = "send"]
      BY <2>1 DEF TypeOK, SenderTo
    <3> QED BY <3>1, <3>2 DEF Told, Talks
  <2>2. CASE c = d /\ SenderTo(d, Doing("menu"))
    BY <1>4, <2>2 DEF Doing
  <2>3. CASE c # d
    BY <1>3, <1>5, <1>8, <2>3 DEF Confirm
  <2> QED BY <1>8, <2>1, <2>2, <2>3 DEF Confirm
<1>9. ASSUME NEW c \in Clients, Send(c) \/ Start(c) \/ Quit(c) \/ Interrupt(c) PROVE Told(d)'
  <2>1. \E at \in {"off", "menu"} : SenderTo(c, Doing(at))
    BY <1>9 DEF Send, Start, Quit, Interrupt
  <2> QED BY <1>3, <1>4, <1>5, <2>1 DEF Doing
<1>10. ASSUME NEW c \in Clients, Bind(c) \/ Receive(c) \/ Look(c) \/ WriteName(c) \/ WriteFlag(c)
       PROVE  Told(d)'
  BY <1>3, <1>10 DEF Bind, Receive, Look, WriteName, WriteFlag
<1>11. CASE Elsewhere \/ UNCHANGED vars
  BY <1>3, <1>11 DEF Elsewhere, vars
<1> QED BY <1>6, <1>7, <1>8, <1>9, <1>10, <1>11 DEF Next

\* On a host that serves one group nobody asks, unwarned, what the table knew to
\* be answered when he began, whatever the receivers write while the loop of the
\* sender runs, and nobody answers unwarned what was never asked.
THEOREM SendersAreWarned == OneGroup => (Spec => []Warned)
<1> SUFFICES ASSUME OneGroup PROVE Spec => []Warned
  OBVIOUS
<1> DEFINE Inv == TypeOK /\ BoardInv /\ Rumours /\ \A c \in Clients : Told(c)
<1>1. Init => Inv
  BY TypeInit, BoardInit, RumourInit DEF Init, Told, Doing
<1>2. Inv /\ [Next]_vars => Inv'
  BY TypeStep, BoardStep, RumourStep, ToldStep DEF Rumours
<1>3. Inv => Warned
  BY DEF Told, Warned
<1> QED BY <1>1, <1>2, <1>3, PTL DEF Spec

\* The step of Recorded.
Record ==
    \A c \in Clients :
        LET r == receiver[c] t == Table(c)' IN
        r.at \in {"look", "flag"} /\ receiver'[c].at = "idle" =>
            \/ \E i \in 1..Slots : t[i].name = r.course /\ Flag(t[i], r.kind)
            \/ \A i \in 1..Slots : t[i].name \notin {NoName, r.course}

LEMMA RecordStep ==
    ASSUME TypeOK, BoardInv, [Next]_vars
    PROVE  Record
<1> SUFFICES ASSUME NEW d \in Clients, receiver[d].at \in {"look", "flag"}, receiver'[d].at = "idle"
             PROVE  LET r == receiver[d] t == Table(d)' IN
                    \/ \E i \in 1..Slots : t[i].name = r.course /\ Flag(t[i], r.kind)
                    \/ \A i \in 1..Slots : t[i].name \notin {NoName, r.course}
  BY DEF Record
<1>1. receiver' # receiver /\ \A c \in Clients \ {d} : \A r : ~ReceiverTo(c, r)
  BY DEF ReceiverTo, TypeOK
<1>2. \A r : ReceiverTo(d, r) => r.at = "idle"
  BY DEF ReceiverTo, TypeOK
<1>3. CASE WriteFlag(d)
  <2>1. /\ receiver[d] \in Jobs /\ receiver[d].pos \in 1..Slots /\ HostOf[d] \in Hosts
        /\ board'[HostOf[d]][receiver[d].pos].name = receiver[d].course
        /\ Flag(board'[HostOf[d]][receiver[d].pos], receiver[d].kind)
    BY <1>3, FlagStep DEF Jobs
  <2> QED BY <2>1 DEF Table
<1>4. CASE Look(d)
  <2>1. receiver[d] \in Jobs /\ receiver[d].at = "look" /\ UNCHANGED board
    BY <1>4, LookStep DEF Look
  <2>2. receiver[d].pos > Slots
    <3>1. \/ receiver[d].pos > Slots
          \/ \E at \in {"name", "flag"} : ReceiverTo(d, [receiver[d] EXCEPT !.at = at])
          \/ ReceiverTo(d, [receiver[d] EXCEPT !.pos = receiver[d].pos + 1])
      BY <1>4, LookStep
    <3>2. \A at \in {"name", "flag"} : ~ReceiverTo(d, [receiver[d] EXCEPT !.at = at])
      BY <1>2, <2>1 DEF Jobs
    <3>3. ~ReceiverTo(d, [receiver[d] EXCEPT !.pos = receiver[d].pos + 1])
      BY <1>2, <2>1 DEF Jobs
    <3> QED BY <3>1, <3>2, <3>3
  <2>3. \A i \in 1..Slots : i < receiver[d].pos
    BY <2>1, <2>2, ChatConstantsOK DEF Jobs, ChatConstants
  <2> QED BY <2>1, <2>3 DEF BoardInv, Searched, Table
<1>5. ~Elsewhere /\ ~UNCHANGED vars
  BY <1>1 DEF Elsewhere, vars
<1>6. ASSUME NEW c \in Clients, Choose(c) \/ Scan(c) \/ Confirm(c) \/ Send(c) \/ Quit(c) PROVE FALSE
  BY <1>1, <1>6 DEF Choose, Scan, Confirm, Send, Quit
<1>7. ASSUME NEW c \in Clients, Bind(c) \/ Receive(c) \/ WriteName(c) \/ Start(c) \/ Interrupt(c) PROVE FALSE
  <2>1. c = d /\ receiver[d].at \notin {"starting", "idle", "name", "off"}
    BY <1>1, <1>7 DEF Bind, Receive, WriteName, Start, Interrupt
  <2>2. ~ReceiverTo(d, Doing("off"))
    BY <1>2 DEF Doing
  <2> QED BY <1>1, <1>7, <2>1, <2>2 DEF Bind, Receive, WriteName, Start, Interrupt
<1>8. ASSUME NEW c \in Clients, Look(c) \/ WriteFlag(c) PROVE c = d
  BY <1>1, <1>8 DEF Look, WriteFlag
<1> QED BY <1>3, <1>4, <1>5, <1>6, <1>7, <1>8 DEF Next

\* On a host that serves one group a receiver lets go of no message that is not
\* on the table, unless other courses fill it.
THEOREM MessagesAreRecorded == OneGroup => (Spec => Recorded)
<1> SUFFICES ASSUME OneGroup PROVE Spec => Recorded
  OBVIOUS
<1>1. Init => TypeOK /\ BoardInv
  BY TypeInit, BoardInit
<1>2. TypeOK /\ BoardInv /\ [Next]_vars => TypeOK' /\ BoardInv'
  BY TypeStep, BoardStep
<1>3. TypeOK /\ BoardInv /\ [Next]_vars => [Record]_vars
  BY RecordStep
<1> QED BY <1>1, <1>2, <1>3, PTL DEF Spec, Recorded, Record

=============================================================================
