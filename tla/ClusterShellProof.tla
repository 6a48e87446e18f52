-------------------------- MODULE ClusterShellProof --------------------------
(* Proofs about ClusterShell: whatever people do, no node executes a       *)
(* command twice or out of order; among orderly people client and servers  *)
(* stay in step, and what was sent is executed.                            *)
EXTENDS ClusterShell, SequenceTheorems, TLAPS

-----------------------------------------------------------------------------
(* Streams.                                                                *)

\* Every message consists of units, of which only a command's first is a token.
LEMMA MessageType ==
    /\ Home \in Seq(Units) /\ Input \in Seq(Units)
    /\ \A p \in BOOLEAN : Flag(p) \in Seq(Units)
    /\ \A n \in Count : Command(n) \in Seq(Units)
BY DEF Home, Input, Flag, Command, Buffer, Units

\* What is left of a stream after a read.
LEMMA RestProperties ==
    ASSUME NEW S, NEW s \in Seq(S), NEW n \in Nat
    PROVE  /\ Rest(s, n) \in Seq(S)
           /\ \A k \in 1..Len(Rest(s, n)) : k + n \in 1..Len(s) /\ Rest(s, n)[k] = s[k + n]
<1>1. \A i \in (n + 1)..Len(s) : s[i] \in S
  OBVIOUS
<1>2. /\ SubSeq(s, n + 1, Len(s)) \in Seq(S)
      /\ Len(SubSeq(s, n + 1, Len(s))) = IF n + 1 <= Len(s) THEN Len(s) - (n + 1) + 1 ELSE 0
      /\ \A i \in 1..(Len(s) - (n + 1) + 1) :
           SubSeq(s, n + 1, Len(s))[i] = s[(n + 1) + i - 1]
  BY <1>1, SubSeqProperties
<1> QED BY <1>2 DEF Rest

LEMMA ZeroCount == 0 \in Count
BY ClusterConstantsOK DEF Count, ClusterConstants

LEMMA RanProperties ==
    ASSUME TypeOK, NEW i \in Nodes, NEW n \in Count,
           ran' = [ran EXCEPT ![i] = Append(@, n)]
    PROVE  /\ ran' \in [Nodes -> Seq(Count)]
           /\ \A j \in Nodes \ {i} : ran'[j] = ran[j]
           /\ Len(ran'[i]) = Len(ran[i]) + 1 /\ ran'[i][Len(ran[i]) + 1] = n
           /\ \A a \in 1..Len(ran[i]) : ran'[i][a] = ran[i][a]
<1>1. ran \in [Nodes -> Seq(Count)] /\ ran[i] \in Seq(Count)
  BY DEF TypeOK
<1>2. ran'[i] = Append(ran[i], n)
  BY <1>1
<1>3. /\ Append(ran[i], n) \in Seq(Count) /\ Len(Append(ran[i], n)) = Len(ran[i]) + 1
      /\ Append(ran[i], n)[Len(ran[i]) + 1] = n
      /\ \A a \in 1..Len(ran[i]) : Append(ran[i], n)[a] = ran[i][a]
  BY <1>1, AppendProperties
<1>4. ran' \in [Nodes -> Seq(Count)]
  BY <1>1, <1>3
<1>5. \A j \in Nodes \ {i} : ran'[j] = ran[j]
  BY <1>1
<1> QED BY <1>2, <1>3, <1>4, <1>5

-----------------------------------------------------------------------------
(* Types.                                                                  *)

LEMMA DialType ==
    ASSUME TypeOK, NEW i \in Nodes, Dial(i)
    PROVE  TypeOK'
BY ClusterConstantsOK, EmptySeq DEF TypeOK, Dial, Connect, Listeners, Set, servers, ghosts, Nodes

LEMMA SendType ==
    ASSUME TypeOK, NEW i \in Nodes, NEW units \in Seq(Units), Send(i, units)
    PROVE  inbox' \in [Nodes -> Seq(Units)]
<1>1. inbox[i] \o units \in Seq(Units)
  BY ConcatProperties DEF TypeOK
<1> QED BY <1>1 DEF TypeOK, Send

LEMMA TakeType ==
    ASSUME TypeOK, NEW i \in Nodes, NEW n \in Nat, Take(i, n)
    PROVE  inbox' \in [Nodes -> Seq(Units)]
<1>1. Rest(inbox[i], n) \in Seq(Units)
  BY RestProperties DEF TypeOK
<1> QED BY <1>1 DEF TypeOK, Take, Set

LEMMA EndType ==
    ASSUME TypeOK, ClientEnds,
           UNCHANGED <<line, node, typed, servers, avoids>>,
           told' \in [Nodes -> BOOLEAN], deaths' \in 0..MaxDeaths
    PROVE  TypeOK'
<1>1. <<>> \in Seq(Units)
  OBVIOUS
<1>2. inbox' \in [Nodes -> Seq(Units)]
  BY <1>1 DEF TypeOK, ClientEnds
<1>3. link' \in [Nodes -> {"none", "queued", "held", "stale", "shut"}]
  BY DEF TypeOK, ClientEnds
<1> QED BY <1>2, <1>3, ClusterConstantsOK DEF TypeOK, ClientEnds, servers, ClusterConstants

\* The messages of the client are written to the node that runcommand is at.
LEMMA WritesType ==
    ASSUME TypeOK, NEW units \in Seq(Units), NEW to \in {"command", "input", "read"},
           shell \in {"next", "command", "input"}, node \in Nodes, Writes(units, to),
           told' \in [Nodes -> BOOLEAN]
    PROVE  TypeOK'
<1>1. inbox' \in [Nodes -> Seq(Units)]
  BY SendType DEF Writes
<1> QED BY <1>1 DEF Writes, TypeOK, servers, Count

\* A server that reads changes its stream, and what it knows.
LEMMA ReadType ==
    ASSUME TypeOK, NEW i \in Nodes, NEW n \in Nat, Take(i, n),
           UNCHANGED <<client, link, reply, stale, ghosts>>,
           srv' \in [Nodes -> {"flag", "command", "input", "run", "close"} \cup {srv[j] : j \in Nodes}],
           flag' \in [Nodes -> BOOLEAN], job' \in [Nodes -> Count], ran' \in [Nodes -> Seq(Count)]
    PROVE  TypeOK'
<1>1. inbox' \in [Nodes -> Seq(Units)]
  BY TakeType
<1>2. srv' \in [Nodes -> {"down", "starting", "first", "again", "home", "flag",
                          "command", "input", "run", "wait", "close"}]
  BY DEF TypeOK
<1> QED BY <1>1, <1>2 DEF TypeOK, client, ghosts

LEMMA HeadType ==
    ASSUME TypeOK, NEW i \in Nodes, Ours(i)
    PROVE  /\ Len(inbox[i]) >= 1 /\ inbox[i][1] = Head(inbox[i])
           /\ Head(inbox[i])[2] \in Count
<1>1. inbox[i] \in Seq(Units) /\ inbox[i] # <<>> /\ Head(inbox[i])[1] = "command"
  BY DEF TypeOK, Ours
<1>2. Head(inbox[i]) \in Units /\ inbox[i][1] = Head(inbox[i]) /\ Len(inbox[i]) >= 1
  BY <1>1, EmptySeq, HeadTailProperties
<1> QED BY <1>1, <1>2 DEF Units

LEMMA DieType ==
    ASSUME TypeOK, NEW i \in Nodes, Die(i), deaths' \in 0..MaxDeaths,
           UNCHANGED <<client, reply, ran, avoids>>
    PROVE  TypeOK'
<1> USE DEF TypeOK, Die, Set
<1>1. srv' \in [Nodes -> {"down", "starting", "first", "again", "home", "flag",
                          "command", "input", "run", "wait", "close"}]
  OBVIOUS
<1>2. stale' \in [Nodes -> BOOLEAN] /\ flag' \in [Nodes -> BOOLEAN] /\ told' \in [Nodes -> BOOLEAN]
  OBVIOUS
<1>3. link' \in [Nodes -> {"none", "queued", "held", "stale", "shut"}]
  BY DEF Open
<1>4. inbox' \in [Nodes -> Seq(Units)]
  BY EmptySeq
<1>5. job' \in [Nodes -> Count]
  BY ZeroCount DEF Set
<1> QED BY <1>1, <1>2, <1>3, <1>4, <1>5 DEF client

LEMMA CommandType ==
    ASSUME TypeOK, NEW i \in Nodes, ReadCommand(i)
    PROVE  TypeOK'
<1>1. CASE Ours(i) /\ Take(i, TextLimit)
  <2>1. Head(inbox[i])[2] \in Count
    BY <1>1, HeadType
  <2>2. job' = Set(job, i, Head(inbox[i])[2]) /\ job' \in [Nodes -> Count]
    <3>1. job' = Set(job, i, Head(inbox[i])[2])
      BY <1>1 DEF ReadCommand, Die, Ours
    <3> QED BY <3>1, <2>1 DEF TypeOK, Set
  <2>3. ran' \in [Nodes -> Seq(Count)]
    <3>1. ran' = ran \/ ran' = [ran EXCEPT ![i] = Append(@, Head(inbox[i])[2])]
      BY <1>1 DEF ReadCommand, Ours
    <3> QED BY <3>1, <2>1, RanProperties DEF TypeOK
  <2>4. srv' \in [Nodes -> {"input", "run", "close"} \cup {srv[j] : j \in Nodes}]
    BY <1>1 DEF ReadCommand, At, Set, TypeOK
  <2>5. UNCHANGED <<client, link, reply, flag, stale, ghosts>>
    BY <1>1 DEF ReadCommand, ghosts
  <2>6. flag' \in [Nodes -> BOOLEAN]
    BY <2>5 DEF TypeOK
  <2> QED BY <1>1, <2>2, <2>3, <2>4, <2>5, <2>6, ReadType DEF TextLimit
<1>2. CASE ~Ours(i) /\ Take(i, TextLimit) /\ At(i, "command", IF flag[i] THEN "input" ELSE "run")
           /\ job' = Set(job, i, 0) /\ UNCHANGED <<link, flag, stale, ran, told>>
  <2>1. job' \in [Nodes -> Count]
    BY <1>2, ZeroCount DEF TypeOK, Set
  <2>2. srv' \in [Nodes -> {"input", "run"} \cup {srv[j] : j \in Nodes}]
    BY <1>2 DEF At, Set, TypeOK
  <2>3. UNCHANGED <<client, link, reply, flag, stale, ran, ghosts>>
    BY <1>2 DEF ReadCommand, ghosts
  <2>4. flag' \in [Nodes -> BOOLEAN] /\ ran' \in [Nodes -> Seq(Count)]
    BY <2>3 DEF TypeOK
  <2> QED BY <1>2, <2>1, <2>2, <2>3, <2>4, ReadType DEF TextLimit
<1>3. CASE Die(i) /\ UNCHANGED ran
  <2>1. deaths' \in 0..MaxDeaths /\ UNCHANGED <<client, reply, ran, avoids>>
    BY <1>3 DEF ReadCommand, TypeOK
  <2> QED BY <1>3, <2>1, DieType
<1> QED BY <1>1, <1>2, <1>3 DEF ReadCommand

LEMMA UserType ==
    ASSUME TypeOK, User
    PROVE  TypeOK'
<1> USE ClusterConstantsOK DEF ClusterConstants, Nodes, TypeOK, Count, links, servers, ghosts
<1>1. ASSUME NEW first \in 1..(N + 1), NEW last \in 0..N, NEW kind \in Kinds, Type(first, last, kind)
      PROVE  TypeOK'
  BY <1>1 DEF Type
<1>2. ASSUME Return PROVE TypeOK'
  BY <1>2 DEF Return, NoLine, Kinds
<1>5. ASSUME Abort PROVE TypeOK'
  <2>1. deaths' \in 0..MaxDeaths
    BY <1>5 DEF Abort
  <2> HIDE DEF TypeOK
  <2> QED BY <1>5, <2>1, EndType DEF Abort
<1>3. 1 \in 1..(N + 1) /\ 0 \in 0..N /\ N \in 0..N /\ \A i \in Nodes : i \in 1..(N + 1) /\ i \in 0..N
  BY DEF Nodes
<1>4. {"run", "piped", "cd", "exit"} \subseteq Kinds
  BY DEF Kinds
<1> HIDE DEF TypeOK
<1> QED BY <1>1, <1>2, <1>3, <1>4, <1>5 DEF User

LEMMA HandlerType ==
    ASSUME TypeOK, Handler
    PROVE  TypeOK'
<1>1. CASE Interrupt
  <2>1. CASE line.kind = "exit"
    BY <1>1, <2>1, EndType DEF Interrupt, TypeOK, ghosts
  <2>2. CASE line.kind # "exit"
    <3>1. shell = "typed" /\ shell' = "next"
          /\ UNCHANGED <<loop, spot, active, links, line, node, typed, servers, ghosts>>
      BY <1>1, <2>2 DEF Interrupt
    <3> QED BY <3>1 DEF TypeOK, links, servers, ghosts
  <2> QED BY <2>1, <2>2
<1>2. CASE Skip
  BY <1>2, ClusterConstantsOK DEF Skip, TypeOK, links, servers, ghosts, Count, ClusterConstants
<1>3. CASE Finish
  BY <1>3, ClusterConstantsOK DEF Finish, TypeOK, NoLine, Kinds, links, servers, Count, ClusterConstants
<1>4. CASE SendFlag
  <2>1. node \in Nodes
    <3>1. node <= line.last /\ line \in [kind : Kinds, last : 0..N] /\ node \in 0..(N + 1)
      BY <1>4 DEF SendFlag, TypeOK
    <3>2. line.last \in 0..N
      BY <3>1
    <3>3. node # 0
      BY <1>4 DEF SendFlag, TypeOK
    <3> QED BY <3>1, <3>2, <3>3, ClusterConstantsOK DEF Nodes, ClusterConstants
  <2> QED BY <1>4, <2>1, WritesType, MessageType DEF SendFlag, TypeOK
<1>5. CASE SendCommand
  <2>1. node \in Nodes /\ typed \in Count /\ told' \in [Nodes -> BOOLEAN]
    BY <1>5 DEF SendCommand, TypeOK, Set, Open
  <2> QED BY <1>5, <2>1, WritesType, MessageType DEF SendCommand
<1>6. CASE SendInput
  <2>1. node \in Nodes /\ told' \in [Nodes -> BOOLEAN]
    BY <1>6 DEF SendInput, TypeOK
  <2> QED BY <1>6, <2>1, WritesType, MessageType DEF SendInput
<1>7. CASE ReadReply
  BY <1>7 DEF ReadReply, TypeOK, links, servers, ghosts, Count
<1>8. CASE Redial
  <2>1. node \in Nodes
    BY <1>8 DEF Redial, TypeOK
  <2>2. PICK l \in {"none", "queued", "stale"} : Connect(node, l)
    BY <1>8 DEF Redial, Listeners
  <2>3. /\ link' \in [Nodes -> {"none", "queued", "held", "stale", "shut"}]
        /\ inbox' \in [Nodes -> Seq(Units)] /\ reply' \in [Nodes -> BOOLEAN]
    BY <2>1, <2>2, EmptySeq DEF Connect, Set, TypeOK
  <2>4. active' \in [Nodes -> BOOLEAN]
    BY <1>8, <2>1 DEF Redial, Set, TypeOK
  <2>5. node' \in 0..(N + 1) /\ node' # 0
    BY <1>8, <2>1, ClusterConstantsOK DEF Redial, Nodes, ClusterConstants
  <2>6. shell' = "next" /\ UNCHANGED <<loop, spot, line, typed, servers, ghosts>>
    BY <1>8 DEF Redial
  <2> QED BY <2>3, <2>4, <2>5, <2>6 DEF TypeOK, servers, ghosts
<1> QED BY <1>1, <1>2, <1>3, <1>4, <1>5, <1>6, <1>7, <1>8 DEF Handler

LEMMA DiallerType ==
    ASSUME TypeOK, Dialler
    PROVE  TypeOK'
<1>1. CASE Mark
  BY <1>1 DEF Mark, Set, TypeOK, links, servers, ghosts, Count
<1>2. CASE Greet
  <2>1. CASE ClientEnds
    BY <1>2, <2>1, EndType DEF Greet, TypeOK, ghosts
  <2>2. CASE Send(spot, Home) /\ loop' = "scan" /\ spot' = 0 /\ UNCHANGED <<active, shell, link, reply>>
    <3>1. inbox' \in [Nodes -> Seq(Units)]
      BY <1>2, <2>2, SendType, MessageType DEF Greet, TypeOK
    <3> QED BY <1>2, <2>2, <3>1, ClusterConstantsOK DEF Greet, TypeOK, servers, ghosts, Count, ClusterConstants
  <2> QED BY <1>2, <2>1, <2>2 DEF Greet
<1>3. ASSUME NEW i \in Nodes, Dial(i) PROVE TypeOK'
  BY <1>3, DialType
<1> QED BY <1>1, <1>2, <1>3 DEF Dialler

LEMMA ServerType ==
    ASSUME TypeOK, NEW i \in Nodes, Server(i) \/ Output(i) \/ Start(i) \/ Kill(i)
    PROVE  TypeOK'
<1>1. CASE Listen(i) \/ Start(i) \/ WaitPid(i)
  BY <1>1 DEF Listen, Start, WaitPid, At, Set, TypeOK, client, links, ghosts, Count
<1>2. CASE Accept(i)
  BY <1>2 DEF Accept, At, Set, TypeOK, client, ghosts, Count
<1>3. CASE ReadHome(i) \/ ReadInput(i)
  <2>1. PICK n \in Nat : Take(i, n)
    BY <1>3 DEF ReadHome, ReadInput, HomeLimit, TextLimit
  <2>2. /\ UNCHANGED <<client, link, reply, flag, job, stale, ran, ghosts>>
        /\ srv' = Set(srv, i, "flag") \/ srv' = Set(srv, i, "run")
    BY <1>3 DEF ReadHome, ReadInput, At
  <2>3. srv' \in [Nodes -> {"flag", "run"} \cup {srv[j] : j \in Nodes}]
    BY <2>2 DEF Set, TypeOK
  <2> QED BY <2>1, <2>2, <2>3, ReadType DEF TypeOK
<1>4. CASE ReadFlag(i)
  BY <1>4, ReadType DEF ReadFlag, FlagLimit, At, Set, TypeOK, client, ghosts
<1>5. CASE Restart(i)
  BY <1>5 DEF Restart, At, Set, TypeOK, client, ghosts, Count
<1>6. CASE ReadCommand(i)
  BY <1>6, CommandType
<1>7. CASE Run(i)
  <2>1. ran' \in [Nodes -> Seq(Count)]
    BY <1>7 DEF Run, TypeOK
  <2> QED BY <1>7, <2>1 DEF Run, At, Set, TypeOK, client, links, ghosts
<1>8. CASE Output(i)
  BY <1>8 DEF Output, Set, TypeOK, client, servers, ghosts, Count
<1>9. CASE Close(i)
  BY <1>9, ClusterConstantsOK, EmptySeq
     DEF Close, At, Set, TypeOK, client, ghosts, Count, ClusterConstants
<1>10. CASE Kill(i)
  <2>1. deaths' \in 0..MaxDeaths
    BY <1>10, ClusterConstantsOK DEF Kill, TypeOK, ClusterConstants
  <2> QED BY <1>10, <2>1, DieType DEF Kill
<1> QED BY <1>1, <1>2, <1>3, <1>4, <1>5, <1>6, <1>7, <1>8, <1>9, <1>10 DEF Server

\* Every variable of the client, the servers and their connections keeps its
\* type, for any number of nodes and any manners.
THEOREM ShellTypeCorrect == Spec => []TypeOK
<1>1. Init => TypeOK
  BY ClusterConstantsOK, EmptySeq
     DEF Init, TypeOK, NoLine, Kinds, Nodes, Count, ClusterConstants
<1>2. TypeOK /\ [Next]_vars => TypeOK'
  <2> SUFFICES ASSUME TypeOK, [Next]_vars PROVE TypeOK'
    OBVIOUS
  <2>1. CASE Next
    BY <2>1, UserType, HandlerType, DiallerType, ServerType DEF Next
  <2>2. CASE UNCHANGED vars
    BY <2>2 DEF vars, client, links, servers, ghosts, TypeOK, Count
  <2> QED BY <2>1, <2>2
<1> QED BY <1>1, <1>2, PTL DEF Spec

-----------------------------------------------------------------------------
(* Connections.                                                            *)

\* A server that reads, or is about to run something, has the connection that
\* the client has.
Attached ==
    \A i \in Nodes : srv[i] \in {"home", "flag", "command", "input", "run"} => link[i] = "held"

\* Output comes from a command that was started, on a connection that is not
\* read any more, and to a client that lives.
Answered ==
    \A i \in Nodes : reply[i] =>
        /\ shell # "exited"
        /\ link[i] = "shut" \/ (link[i] = "held" /\ srv[i] \in {"wait", "close"})

\* The client gives up a connection only when the server has done with it.
GivenUp ==
    shell = "redial" =>
        \/ link[node] = "held" /\ srv[node] \in {"wait", "close"}
        \/ link[node] \in {"none", "shut"}

\* A node that is not active has no connection, but for the one that is marked next.
Unlinked ==
    \A i \in Nodes :
        shell # "exited" /\ ~active[i] /\ ~(loop = "mark" /\ spot = i) => link[i] = "none"

Marked == loop = "mark" => ~active[spot] /\ link[spot] # "none"

\* The handler talks to active nodes, and a client that ended to none.
TalksToActive ==
    /\ shell \in {"command", "input", "read", "redial"} => active[node]
    /\ shell = "exited" => loop = "scan" /\ \A i \in Nodes : ~active[i]

Connections ==
    /\ Attached /\ Answered /\ GivenUp /\ Unlinked /\ Marked /\ TalksToActive
    /\ ActiveIsConnected

LEMMA InitConnections == Init => Connections
BY DEF Init, Connections, Attached, Answered, GivenUp, Unlinked, Marked, TalksToActive, ActiveIsConnected

\* Nothing but these variables matters to connections.
LEMMA SameConnections ==
    ASSUME Connections, UNCHANGED <<loop, spot, active, shell, node, link, reply, srv>>
    PROVE  Connections'
BY DEF Connections, Attached, Answered, GivenUp, Unlinked, Marked, TalksToActive, ActiveIsConnected

LEMMA EndConnections ==
    ASSUME TypeOK, Connections, ClientEnds, UNCHANGED srv
    PROVE  Connections'
BY DEF TypeOK, ClientEnds, Connections, Attached, Answered, GivenUp, Unlinked, Marked, TalksToActive,
       ActiveIsConnected

LEMMA HandlerConnections ==
    ASSUME TypeOK, Connections, Handler
    PROVE  Connections'
<1> USE DEF Connections, Attached, Answered, GivenUp, Unlinked, Marked, TalksToActive, ActiveIsConnected
<1>1. CASE Interrupt
  <2>1. CASE line.kind = "exit"
    BY <1>1, <2>1, EndConnections DEF Interrupt, servers
  <2>2. CASE line.kind # "exit"
    BY <1>1, <2>2 DEF Interrupt, TypeOK, links, servers
  <2> QED BY <2>1, <2>2
<1>2. CASE Skip \/ Finish
  BY <1>2 DEF Skip, Finish, TypeOK, links, servers
<1>3. CASE SendFlag \/ SendCommand \/ SendInput
  BY <1>3 DEF SendFlag, SendCommand, SendInput, Writes, TypeOK, servers
<1>4. CASE ReadReply
  BY <1>4 DEF ReadReply, Open, TypeOK, links, servers
<1>5. CASE Redial
  <2>1. node \in Nodes
    BY <1>5 DEF Redial, TypeOK
  <2>2. PICK l \in {"none", "queued", "stale"} :
          /\ Connect(node, l)
          /\ active' = IF l = "none" THEN Set(active, node, FALSE) ELSE active
    BY <1>5 DEF Redial, Listeners
  <2> QED BY <1>5, <2>1, <2>2 DEF Redial, Connect, Set, TypeOK, servers
<1> QED BY <1>1, <1>2, <1>3, <1>4, <1>5 DEF Handler

LEMMA DiallerConnections ==
    ASSUME TypeOK, Connections, Dialler
    PROVE  Connections'
<1> USE DEF Connections, Attached, Answered, GivenUp, Unlinked, Marked, TalksToActive, ActiveIsConnected
<1>1. CASE Mark
  BY <1>1 DEF Mark, Dialling, Set, TypeOK, links, servers
<1>2. CASE Greet
  <2>1. CASE ClientEnds
    BY <1>2, <2>1, EndConnections DEF Greet, servers
  <2>2. CASE loop' = "scan" /\ spot' = 0 /\ UNCHANGED <<active, shell, link, reply>>
    BY <1>2, <2>2 DEF Greet, TypeOK, servers
  <2> QED BY <1>2, <2>1, <2>2 DEF Greet
<1>3. ASSUME NEW i \in Nodes, Dial(i) PROVE Connections'
  <2>1. PICK l \in {"queued", "stale"} : Connect(i, l)
    BY <1>3 DEF Dial, Listeners
  <2> QED BY <1>3, <2>1 DEF Dial, Dialling, Connect, Set, TypeOK, servers
<1> QED BY <1>1, <1>2, <1>3 DEF Dialler

LEMMA UserConnections ==
    ASSUME TypeOK, Connections, User
    PROVE  Connections'
<1> USE DEF Connections, Attached, Answered, GivenUp, Unlinked, Marked, TalksToActive, ActiveIsConnected
<1>1. ASSUME NEW first, NEW last, NEW kind, Type(first, last, kind)
      PROVE  Connections'
  BY <1>1 DEF Type, TypeOK, links, servers
<1>2. CASE Return
  BY <1>2 DEF Return, TypeOK, links, servers
<1>3. CASE Abort
  BY <1>3, EndConnections DEF Abort, servers
<1> QED BY <1>1, <1>2, <1>3 DEF User

\* The server of a node leaves its place, and the connection is cut, if it was
\* there.
LEMMA CutConnections ==
    ASSUME TypeOK, Connections, NEW i \in Nodes, NEW next \in {"down", "again"},
           UNCHANGED <<client, reply>>,
           \A j \in Nodes : srv'[j] = IF j = i THEN next ELSE srv[j],
           \A j \in Nodes \ {i} : link'[j] = link[j],
           \/ link'[i] = link[i] /\ link[i] # "held"
           \/ link'[i] = IF shell = "exited" THEN "none" ELSE "shut",
           link[i] # "none" \/ link'[i] = "none"
    PROVE  Connections'
<1> USE DEF TypeOK, Connections
<1>0. UNCHANGED <<loop, spot, active, shell, node, reply>>
  BY DEF client
<1>1. Attached'
  BY <1>0 DEF Attached
<1>2. Answered'
  <2> SUFFICES ASSUME NEW j \in Nodes, reply[j]
               PROVE  /\ shell # "exited"
                      /\ link'[j] = "shut" \/ (link'[j] = "held" /\ srv'[j] \in {"wait", "close"})
    BY <1>0 DEF Answered
  <2>1. /\ shell # "exited"
        /\ link[j] = "shut" \/ (link[j] = "held" /\ srv[j] \in {"wait", "close"})
    BY DEF Answered
  <2>2. CASE j = i
    BY <2>1, <2>2
  <2>3. CASE j # i
    BY <2>1, <2>3
  <2> QED BY <2>2, <2>3
<1>3. GivenUp'
  BY <1>0 DEF GivenUp
<1>4. Unlinked'
  BY <1>0 DEF Unlinked
<1>5. Marked'
  BY <1>0 DEF Marked, TalksToActive
<1>6. TalksToActive'
  BY <1>0 DEF TalksToActive
<1>7. ActiveIsConnected'
  BY <1>0 DEF ActiveIsConnected, TalksToActive
<1> QED BY <1>1, <1>2, <1>3, <1>4, <1>5, <1>6, <1>7

LEMMA DieConnections ==
    ASSUME TypeOK, Connections, NEW i \in Nodes, Die(i),
           UNCHANGED <<client, reply>>
    PROVE  Connections'
<1>1. \A j \in Nodes : srv'[j] = IF j = i THEN "down" ELSE srv[j]
  BY DEF Die, Set, TypeOK
<1>2. \A j \in Nodes \ {i} : link'[j] = link[j]
  BY DEF Die, Set, TypeOK
<1>3. link'[i] = IF link[i] \in {"queued", "held", "stale"}
                 THEN IF shell = "exited" THEN "none" ELSE "shut" ELSE link[i]
  BY DEF Die, Open, Set, TypeOK
<1> QED BY <1>1, <1>2, <1>3, CutConnections

\* A server moves on and touches no connection.
LEMMA MoveConnections ==
    ASSUME TypeOK, Connections, NEW i \in Nodes,
           UNCHANGED <<loop, spot, active, shell, node, link, reply>>,
           \A j \in Nodes \ {i} : srv'[j] = srv[j],
           srv'[i] \in {"home", "flag", "command", "input", "run"} => link[i] = "held",
           srv[i] \in {"wait", "close"} => srv'[i] \in {"wait", "close"}
    PROVE  Connections'
<1>1. Attached'
  BY DEF Connections, Attached
<1>2. Answered'
  BY DEF Connections, Answered
<1>3. GivenUp'
  <2>1. shell = "redial" => node \in Nodes
    BY DEF TypeOK
  <2> QED BY <2>1 DEF Connections, GivenUp
<1>4. Unlinked' /\ Marked'
  BY DEF Connections, Unlinked, Marked
<1>5. TalksToActive' /\ ActiveIsConnected'
  BY DEF Connections, TalksToActive, ActiveIsConnected
<1> QED BY <1>1, <1>2, <1>3, <1>4, <1>5 DEF Connections

LEMMA ServerConnections ==
    ASSUME TypeOK, Connections, NEW i \in Nodes, Server(i) \/ Output(i) \/ Start(i) \/ Kill(i)
    PROVE  Connections'
<1> USE DEF Connections, Attached, Answered, GivenUp, Unlinked, Marked, TalksToActive, ActiveIsConnected
<1>1. CASE Listen(i) \/ Start(i) \/ WaitPid(i)
  <2>1. UNCHANGED <<loop, spot, active, shell, node, link, reply>>
    BY <1>1 DEF Listen, Start, WaitPid, client, links
  <2>2. PICK next \in {"first", "starting", "close"} :
          /\ next = "close" <=> srv[i] = "wait"
          /\ \A j \in Nodes : srv'[j] = IF j = i THEN next ELSE srv[j]
    BY <1>1 DEF Listen, Start, WaitPid, At, Set, TypeOK
  <2>3. \/ srv[i] \in {"down", "starting"} /\ srv'[i] \in {"first", "starting"}
        \/ srv[i] = "wait" /\ srv'[i] = "close"
    BY <1>1, <2>2 DEF Listen, Start, WaitPid, At, Set, TypeOK
  <2> HIDE DEF Connections
  <2> QED BY <2>1, <2>2, <2>3, MoveConnections
<1>2. CASE Accept(i)
  BY <1>2 DEF Accept, At, Set, TypeOK, client
<1>3. CASE ReadHome(i) \/ ReadInput(i) \/ ReadFlag(i)
  <2>1. /\ link[i] = "held" /\ UNCHANGED <<client, link, reply>>
        /\ srv' = Set(srv, i, "flag") \/ srv' = Set(srv, i, "command") \/ srv' = Set(srv, i, "run")
        /\ srv[i] \in {"home", "flag", "input"}
    BY <1>3 DEF ReadHome, ReadInput, ReadFlag, Take, At
  <2>2. PICK next \in {"flag", "command", "run"} :
          \A j \in Nodes : srv'[j] = IF j = i THEN next ELSE srv[j]
    BY <2>1 DEF Set, TypeOK
  <2>3. UNCHANGED <<loop, spot, active, shell, node, link, reply>>
    BY <2>1 DEF client
  <2> HIDE DEF Connections
  <2> QED BY <2>1, <2>2, <2>3, MoveConnections
<1>4. CASE Restart(i)
  BY <1>4 DEF Restart, At, Set, TypeOK, client
<1>5. CASE ReadCommand(i)
  <2>1. CASE Die(i)
    BY <1>5, <2>1, DieConnections DEF ReadCommand
  <2>2. CASE \E next : At(i, "command", next) /\ next \in {"close", "input", "run"}
                       /\ UNCHANGED <<client, link, reply>> /\ link[i] = "held"
    BY <1>5, <2>2 DEF At, Set, TypeOK, client
  <2> QED BY <1>5, <2>1, <2>2 DEF ReadCommand, Take
<1>6. CASE Run(i)
  BY <1>6 DEF Run, At, Set, TypeOK, client, links
<1>7. CASE Output(i)
  BY <1>7 DEF Output, Set, TypeOK, client, servers
<1>8. CASE Close(i)
  <2>1. \A j \in Nodes : srv'[j] = IF j = i THEN "again" ELSE srv[j]
    BY <1>8 DEF Close, At, Set, TypeOK
  <2>2. \A j \in Nodes \ {i} : link'[j] = link[j]
    BY <1>8 DEF Close, Set, TypeOK
  <2>3. link'[i] = IF link[i] # "held" THEN link[i]
                   ELSE IF shell = "exited" THEN "none" ELSE "shut"
    BY <1>8 DEF Close, Set, TypeOK
  <2>4. UNCHANGED <<client, reply>>
    BY <1>8 DEF Close
  <2> HIDE DEF Connections
  <2> QED BY <2>1, <2>2, <2>3, <2>4, CutConnections
<1>9. CASE Kill(i)
  BY <1>9, DieConnections DEF Kill
<1> QED BY <1>1, <1>2, <1>3, <1>4, <1>5, <1>6, <1>7, <1>8, <1>9 DEF Server

LEMMA NextConnections ==
    ASSUME TypeOK, Connections, [Next]_vars
    PROVE  Connections'
<1>1. CASE UNCHANGED vars
  BY <1>1, SameConnections DEF vars, client, links, servers
<1>2. CASE Next
  BY <1>2, UserConnections, HandlerConnections, DiallerConnections, ServerConnections DEF Next
<1> QED BY <1>1, <1>2

\* A node the client takes for active has a connection, whatever connects, dies
\* or is started when: the dialling loop may leave active nodes alone.
THEOREM NoneForgotten == Spec => []ActiveIsConnected
<1>1. Init => Connections
  BY InitConnections
<1>2. TypeOK /\ Connections /\ [Next]_vars => Connections'
  BY NextConnections
<1>3. Connections => ActiveIsConnected
  BY DEF Connections
<1> QED BY <1>1, <1>2, <1>3, ShellTypeCorrect, PTL DEF Spec

-----------------------------------------------------------------------------
(* Commands.                                                               *)

Token(u)   == u[1] = "command"
Waiting(i) == \E k \in 1..Len(inbox[i]) : Token(inbox[i][k])
AtWork(i)  == srv[i] \in {"input", "run"} /\ job[i] # 0

\* The line in execution will still be sent to node i, if it is for it.
Outstanding(i) ==
    \/ shell \in {"typed", "next", "command"} /\ node <= i
    \/ shell \in {"input", "read", "redial"} /\ node < i

\* The client was killed, perhaps in the middle of a line.
Aborted == shell = "exited" /\ "abort" \notin avoids

\* There is at most one command on the way, the last one, and the client is at
\* the node that it is for, or was killed there.
OneSent ==
    \A i \in Nodes : \A k \in 1..Len(inbox[i]) : Token(inbox[i][k]) =>
        /\ inbox[i][k][2] = typed
        /\ shell \in {"input", "read", "redial"} \/ Aborted
        /\ node = i
        /\ ~AtWork(i)
        /\ \A l \in 1..Len(inbox[i]) : Token(inbox[i][l]) => l = k

\* No node executed what was not typed, nor what it will get or has in hand.
Past == \A i \in Nodes : \A a \in 1..Len(ran[i]) : ran[i][a] <= typed

Fresh ==
    \A i \in Nodes : Waiting(i) \/ AtWork(i) \/ Outstanding(i) =>
        \A a \in 1..Len(ran[i]) : ran[i][a] < typed

\* A socket that was never connected, or whose server died, brings nothing.
Unheard == \A i \in Nodes : link[i] = "none" => ~Waiting(i)

Commands == OneSent /\ Past /\ Fresh /\ WaitedFor /\ AtMostOnce

\* The tokens of stream t are tokens of stream s, at a fixed distance.
Thinner(t, s) ==
    \E d \in Int : \A k \in 1..Len(t) : Token(t[k]) => k + d \in 1..Len(s) /\ s[k + d] = t[k]

LEMMA Numbers ==
    ASSUME TypeOK, NEW i \in Nodes
    PROVE  /\ i \in Nat /\ node \in Nat /\ typed \in Nat
           /\ Len(inbox[i]) \in Nat /\ inbox[i] \in Seq(Units) /\ Len(ran[i]) \in Nat
           /\ \A a \in 1..Len(ran[i]) : ran[i][a] \in Nat
<1>1. /\ ran[i] \in Seq(Count) /\ inbox[i] \in Seq(Units) /\ typed \in Count
      /\ node \in 0..(N + 1) /\ i \in 1..N
  BY DEF TypeOK, Nodes
<1>2. Count \subseteq Nat
  BY ClusterConstantsOK DEF Count, ClusterConstants
<1>3. Len(ran[i]) \in Nat /\ Len(inbox[i]) \in Nat /\ \A a \in 1..Len(ran[i]) : ran[i][a] \in Count
  BY <1>1
<1>4. i \in Nat /\ node \in Nat
  BY <1>1, ClusterConstantsOK DEF ClusterConstants
<1> QED BY <1>1, <1>2, <1>3, <1>4

LEMMA ThinnerCases ==
    ASSUME NEW s \in Seq(Units)
    PROVE  /\ Thinner(s, s) /\ Thinner(<<>>, s)
           /\ \A n \in Nat : Thinner(Rest(s, n), s)
           /\ \A t \in Seq(Units) :
                (\A k \in 1..Len(t) : ~Token(t[k])) => Thinner(s \o t, s)
<1>1. Thinner(s, s)
  <2>1. \A k \in 1..Len(s) : k + 0 \in 1..Len(s) /\ s[k + 0] = s[k]
    OBVIOUS
  <2> QED BY <2>1 DEF Thinner
<1>2. Thinner(<<>>, s)
  <2>1. Len(<<>>) = 0
    BY EmptySeq
  <2> QED BY <2>1 DEF Thinner
<1>3. ASSUME NEW n \in Nat PROVE Thinner(Rest(s, n), s)
  <2>1. \A k \in 1..Len(Rest(s, n)) : k + n \in 1..Len(s) /\ s[k + n] = Rest(s, n)[k]
    BY RestProperties
  <2> SUFFICES \E d \in Int : \A k \in 1..Len(Rest(s, n)) :
                 Token(Rest(s, n)[k]) => k + d \in 1..Len(s) /\ s[k + d] = Rest(s, n)[k]
    BY DEF Thinner
  <2> WITNESS n \in Int
  <2> QED BY <2>1
<1>4. ASSUME NEW t \in Seq(Units), \A k \in 1..Len(t) : ~Token(t[k])
      PROVE  Thinner(s \o t, s)
  <2>1. /\ Len(s \o t) = Len(s) + Len(t)
        /\ \A k \in 1..(Len(s) + Len(t)) : (s \o t)[k] = IF k <= Len(s) THEN s[k] ELSE t[k - Len(s)]
    BY ConcatProperties
  <2>2. ASSUME NEW k \in 1..Len(s \o t), Token((s \o t)[k])
        PROVE  k + 0 \in 1..Len(s) /\ s[k + 0] = (s \o t)[k]
    <3>1. k <= Len(s)
      <4> SUFFICES ASSUME k > Len(s) PROVE FALSE
        BY <2>1
      <4>1. k - Len(s) \in 1..Len(t) /\ (s \o t)[k] = t[k - Len(s)]
        BY <2>1
      <4> QED BY <1>4, <2>2, <4>1
    <3> QED BY <2>1, <3>1
  <2> SUFFICES \E d \in Int : \A k \in 1..Len(s \o t) :
                 Token((s \o t)[k]) => k + d \in 1..Len(s) /\ s[k + d] = (s \o t)[k]
    BY DEF Thinner
  <2> WITNESS 0 \in Int
  <2> QED BY <2>2
<1> QED BY <1>1, <1>2, <1>3, <1>4

LEMMA MessageTokens ==
    /\ \A k \in 1..Len(Home) : ~Token(Home[k])
    /\ \A k \in 1..Len(Input) : ~Token(Input[k])
    /\ \A p \in BOOLEAN : \A k \in 1..Len(Flag(p)) : ~Token(Flag(p)[k])
    /\ \A n \in Count : /\ Len(Command(n)) >= 1 /\ Command(n)[1][2] = n
                        /\ \A k \in 2..Len(Command(n)) : ~Token(Command(n)[k])
<1>1. \A k \in 1..Len(Home) : ~Token(Home[k])
  BY DEF Home, Token
<1>2. \A k \in 1..Len(Input) : ~Token(Input[k])
  BY DEF Input, Buffer, Token
<1>3. \A p \in BOOLEAN : \A k \in 1..Len(Flag(p)) : ~Token(Flag(p)[k])
  BY DEF Flag, Token
<1>4. ASSUME NEW n \in Count
      PROVE /\ Len(Command(n)) >= 1 /\ Command(n)[1][2] = n
            /\ \A k \in 2..Len(Command(n)) : ~Token(Command(n)[k])
  BY DEF Command, Buffer, Token
<1> QED BY <1>1, <1>2, <1>3, <1>4

LEMMA ThinnerSends ==
    ASSUME TypeOK, NEW i \in Nodes, NEW t \in Seq(Units), \A k \in 1..Len(t) : ~Token(t[k]),
           Send(i, t), NEW j \in Nodes
    PROVE  Thinner(inbox'[j], inbox[j])
<1>1. inbox'[j] = inbox[j] \/ inbox'[j] = inbox[j] \o t
  BY DEF Send, TypeOK
<1> QED BY <1>1, ThinnerCases, Numbers

LEMMA ThinnerTakes ==
    ASSUME TypeOK, NEW i \in Nodes, NEW n \in Nat, Take(i, n), NEW j \in Nodes
    PROVE  Thinner(inbox'[j], inbox[j])
<1>1. inbox'[j] = inbox[j] \/ inbox'[j] = Rest(inbox[j], n)
  BY DEF Take, Set, TypeOK
<1> QED BY <1>1, ThinnerCases, Numbers

\* A step by which no node gets or executes a command.
LEMMA QuietStep ==
    ASSUME TypeOK, Commands, UNCHANGED <<typed, ran, avoids>>,
           \A i \in Nodes : /\ Thinner(inbox'[i], inbox[i])
                            /\ AtWork(i)' => AtWork(i) /\ job'[i] = job[i]
                            /\ Outstanding(i)' => Outstanding(i),
           \/ UNCHANGED <<shell, node>>
           \/ shell = "input" /\ shell' = "read" /\ node' = node
           \/ shell = "read" /\ shell' = "redial" /\ node' = node /\ ~AtWork(node)
           \/ Aborted' /\ node' = node
           \/ \A i \in Nodes : ~Waiting(i)' /\ ~AtWork(i)'
    PROVE  Commands'
<1>1. \A i \in Nodes : Waiting(i)' => Waiting(i)
  BY DEF Thinner, Waiting
<1>2. WaitedFor'
  BY DEF Commands, WaitedFor, AtWork, Aborted
<1>3. OneSent'
  <2> SUFFICES ASSUME NEW i \in Nodes, NEW k \in 1..Len(inbox'[i]), Token(inbox'[i][k])
               PROVE  /\ inbox'[i][k][2] = typed'
                      /\ shell' \in {"input", "read", "redial"} \/ Aborted'
                      /\ node' = i
                      /\ ~AtWork(i)'
                      /\ \A l \in 1..Len(inbox'[i]) : Token(inbox'[i][l]) => l = k
    BY DEF OneSent
  <2>1. PICK d \in Int : \A l \in 1..Len(inbox'[i]) :
                Token(inbox'[i][l]) => l + d \in 1..Len(inbox[i]) /\ inbox[i][l + d] = inbox'[i][l]
    BY DEF Thinner
  <2>2. k + d \in 1..Len(inbox[i]) /\ inbox[i][k + d] = inbox'[i][k] /\ Token(inbox[i][k + d])
    BY <2>1
  <2>3. /\ inbox[i][k + d][2] = typed
        /\ shell \in {"input", "read", "redial"} \/ Aborted
        /\ node = i
        /\ ~AtWork(i)
        /\ \A l \in 1..Len(inbox[i]) : Token(inbox[i][l]) => l = k + d
    BY <2>2 DEF Commands, OneSent
  <2>4. (shell' \in {"input", "read", "redial"} \/ Aborted') /\ node' = i
    <3>1. Waiting(i)'
      BY DEF Waiting
    <3> QED BY <3>1, <2>3 DEF Aborted
  <2>5. ASSUME NEW l \in 1..Len(inbox'[i]), Token(inbox'[i][l]) PROVE l = k
    <3>1. l + d \in 1..Len(inbox[i]) /\ Token(inbox[i][l + d])
      BY <2>1, <2>5
    <3>2. l + d = k + d
      BY <3>1, <2>3
    <3> QED BY <3>2
  <2> QED BY <2>2, <2>3, <2>4, <2>5
<1>4. Past' /\ AtMostOnce'
  BY DEF Commands, Past, AtMostOnce
<1>5. Fresh'
  BY <1>1 DEF Commands, Fresh
<1> QED BY <1>2, <1>3, <1>4, <1>5 DEF Commands

LEMMA SameStreams ==
    ASSUME TypeOK, inbox' = inbox, NEW i \in Nodes
    PROVE  Thinner(inbox'[i], inbox[i])
BY Numbers, ThinnerCases

\* While the client neither waits for output nor sends, no command is under way.
LEMMA NothingUnderWay ==
    ASSUME Commands, NEW i \in Nodes
    PROVE  /\ Waiting(i) => (shell \in {"input", "read", "redial"} \/ Aborted) /\ node = i
           /\ AtWork(i) => (shell \in {"input", "read"} \/ Aborted) /\ node = i
BY DEF Commands, OneSent, WaitedFor, Waiting, AtWork, Aborted

LEMMA EndCommands ==
    ASSUME TypeOK, Commands, ClientEnds, shell \in {"prompt", "typed"} \/ "abort" \notin avoids,
           UNCHANGED <<line, node, typed, servers, avoids>>
    PROVE  Commands'
<1>1. UNCHANGED <<typed, ran, srv, job, avoids>> /\ shell' = "exited"
  BY DEF servers, ClientEnds
<1>2. ASSUME NEW i \in Nodes
      PROVE  /\ Thinner(inbox'[i], inbox[i])
             /\ AtWork(i)' => AtWork(i) /\ job'[i] = job[i]
             /\ Outstanding(i)' => Outstanding(i)
             /\ Aborted' \/ (~Waiting(i)' /\ ~AtWork(i)')
  <2>1. inbox'[i] = inbox[i] \/ inbox'[i] = <<>>
    BY DEF ClientEnds
  <2>2. Thinner(inbox'[i], inbox[i])
    BY <2>1, Numbers, ThinnerCases
  <2>3. Waiting(i)' => Waiting(i)
    BY <2>2 DEF Thinner, Waiting
  <2>4. Aborted' \/ (~Waiting(i) /\ ~AtWork(i))
    BY <1>1, NothingUnderWay DEF Aborted
  <2> QED BY <1>1, <2>2, <2>3, <2>4 DEF AtWork, Outstanding
<1>3. CASE Aborted'
  BY <1>1, <1>2, <1>3, QuietStep
<1>4. CASE ~Aborted'
  BY <1>1, <1>2, <1>4, QuietStep
<1> QED BY <1>3, <1>4

\* Steps of the client that leave the streams and the servers alone.
LEMMA ClientCommands ==
    ASSUME TypeOK, Connections, Unheard, Commands, UNCHANGED <<links, servers, typed, avoids>>,
           \/ Mark \/ ReadReply \/ Skip \/ Finish \/ Return
           \/ Interrupt /\ line.kind # "exit"
    PROVE  Commands'
<1>0. UNCHANGED <<inbox, link, reply, srv, job, ran>> /\ typed' = typed
  BY DEF links, servers
<1>1. \A i \in Nodes : /\ Thinner(inbox'[i], inbox[i])
                       /\ AtWork(i)' <=> AtWork(i)
                       /\ Waiting(i)' <=> Waiting(i)
                       /\ job'[i] = job[i]
  BY <1>0, SameStreams DEF AtWork, Waiting
<1>2. CASE Mark
  <2>1. UNCHANGED <<shell, node>>
    BY <1>2 DEF Mark
  <2> QED BY <1>0, <1>1, <2>1, QuietStep DEF Outstanding
<1>3. CASE ReadReply
  <2>1. shell = "read" /\ shell' = "redial" /\ node' = node /\ node \in Nodes
    BY <1>3 DEF ReadReply, TypeOK
  <2>2. ~AtWork(node)
    BY <1>3, <2>1 DEF ReadReply, Open, Connections, Answered, Attached, AtWork
  <2>3. \A i \in Nodes : Outstanding(i)' => Outstanding(i)
    BY <2>1 DEF Outstanding
  <2> QED BY <1>0, <1>1, <2>1, <2>2, <2>3, QuietStep
<1>4. CASE Skip \/ Finish \/ Return \/ (Interrupt /\ line.kind # "exit")
  <2>1. /\ shell \in {"next", "exited", "typed"}
        /\ \/ shell' = "next" /\ node' = node + 1 /\ shell = "next"
           \/ shell' = "next" /\ node' = node /\ shell = "typed"
           \/ shell' = "prompt"
    BY <1>4 DEF Skip, Finish, Return, Interrupt
  <2>2. \A i \in Nodes : Outstanding(i)' => Outstanding(i)
    BY <2>1, Numbers DEF Outstanding
  <2>3. \A i \in Nodes : ~Waiting(i)' /\ ~AtWork(i)'
    <3>1. CASE Return
      BY <1>1, <3>1 DEF Return, Unheard, Connections, Attached, AtWork
    <3>2. CASE ~Return
      <4>1. ~Aborted
        BY <1>4, <3>2 DEF Skip, Finish, Interrupt, Aborted
      <4> QED BY <1>1, <2>1, <3>2, <4>1, NothingUnderWay
    <3> QED BY <3>1, <3>2
  <2> QED BY <1>0, <1>1, <2>2, <2>3, QuietStep
<1> QED BY <1>2, <1>3, <1>4

\* Messages without a command in them.
LEMMA WritesCommands ==
    ASSUME TypeOK, Commands, avoids' = avoids, Greet \/ SendFlag \/ SendInput
    PROVE  Commands'
<1>1. CASE Greet
  <2>1. CASE ClientEnds
    BY <1>1, <2>1, EndCommands DEF Greet, Dialling, ghosts
  <2>2. CASE Send(spot, Home) /\ UNCHANGED <<active, shell, link, reply>>
    <3>1. spot \in Nodes /\ UNCHANGED <<typed, ran, srv, job, shell, node>>
      BY <1>1, <2>2 DEF Greet, TypeOK, servers
    <3>2. \A i \in Nodes : Thinner(inbox'[i], inbox[i])
      BY <2>2, <3>1, ThinnerSends, MessageType, MessageTokens
    <3> QED BY <3>1, <3>2, QuietStep DEF AtWork, Outstanding
  <2> QED BY <1>1, <2>1, <2>2 DEF Greet
<1>2. CASE SendFlag
  <2>1. /\ Send(node, Flag(line.kind = "piped")) /\ shell = "next" /\ shell' = "command"
        /\ UNCHANGED <<node, typed, servers>> /\ node <= line.last /\ node # 0
    BY <1>2 DEF SendFlag, Writes, TypeOK
  <2>2. node \in Nodes
    BY <2>1, ClusterConstantsOK DEF TypeOK, Nodes, ClusterConstants
  <2>3. \A i \in Nodes : Thinner(inbox'[i], inbox[i])
    BY <2>1, <2>2, ThinnerSends, MessageType, MessageTokens
  <2>4. \A i \in Nodes : Waiting(i)' => Waiting(i)
    BY <2>3 DEF Thinner, Waiting
  <2>5. UNCHANGED <<typed, ran, srv, job>>
    BY <2>1 DEF servers
  <2>6. \A i \in Nodes : ~Waiting(i)' /\ ~AtWork(i)'
    BY <2>1, <2>4, <2>5, NothingUnderWay DEF AtWork, Aborted
  <2> QED BY <2>1, <2>3, <2>5, <2>6, QuietStep DEF AtWork, Outstanding
<1>3. CASE SendInput
  <2>1. /\ Send(node, Input) /\ shell = "input" /\ shell' = "read"
        /\ UNCHANGED <<node, typed, servers>> /\ node \in Nodes
    BY <1>3 DEF SendInput, Writes, TypeOK
  <2>2. \A i \in Nodes : Thinner(inbox'[i], inbox[i])
    BY <2>1, ThinnerSends, MessageType, MessageTokens
  <2>3. UNCHANGED <<typed, ran, srv, job>>
    BY <2>1 DEF servers
  <2> QED BY <2>1, <2>2, <2>3, QuietStep DEF AtWork, Outstanding
<1> QED BY <1>1, <1>2, <1>3

\* A new connection starts with an empty stream.
LEMMA ConnectCommands ==
    ASSUME TypeOK, Connections, Commands, avoids' = avoids,
           Redial \/ \E i \in Nodes : Dial(i)
    PROVE  Commands'
<1>1. PICK i \in Nodes : \E l \in {"none", "queued", "stale"} : Connect(i, l) /\ (Dial(i) \/ (Redial /\ i = node))
  BY DEF Redial, Dial, Listeners, TypeOK
<1>2. UNCHANGED <<typed, ran, srv, job>>
  BY <1>1 DEF Redial, Dial, servers
<1>3. \A j \in Nodes : inbox'[j] = inbox[j] \/ inbox'[j] = <<>>
  BY <1>1 DEF Connect, Set, TypeOK
<1>4. \A j \in Nodes : Thinner(inbox'[j], inbox[j])
  BY <1>3, Numbers, ThinnerCases
<1>5. CASE Dial(i)
  <2>1. UNCHANGED <<shell, node>>
    BY <1>5 DEF Dial
  <2> QED BY <1>2, <1>4, <2>1, QuietStep DEF AtWork, Outstanding
<1>6. CASE Redial /\ i = node
  <2>1. shell = "redial" /\ shell' = "next" /\ node' = node + 1
    BY <1>6 DEF Redial
  <2>2. \A j \in Nodes : Outstanding(j)' => Outstanding(j)
    BY <2>1, Numbers DEF Outstanding
  <2>3. \A j \in Nodes : Waiting(j)' => Waiting(j)
    BY <1>4 DEF Thinner, Waiting
  <2>4. inbox'[i] = <<>>
    BY <1>1 DEF Connect, Set, TypeOK
  <2>5. ~Waiting(i)'
    BY <2>4, EmptySeq DEF Waiting
  <2>6. \A j \in Nodes : ~Waiting(j)' /\ ~AtWork(j)'
    BY <1>2, <1>6, <2>1, <2>3, <2>5, NothingUnderWay DEF AtWork, Aborted
  <2> QED BY <1>2, <1>4, <2>2, <2>6, QuietStep DEF AtWork
<1> QED BY <1>1, <1>5, <1>6

LEMMA TypeCommands ==
    ASSUME TypeOK, Commands, avoids' = avoids, NEW first, NEW last, NEW kind, Type(first, last, kind)
    PROVE  Commands'
<1>1. /\ shell = "prompt" /\ shell' = "typed" /\ typed' = typed + 1
      /\ UNCHANGED <<inbox, srv, job, ran>>
  BY DEF Type, links, servers
<1>2. \A i \in Nodes : ~Waiting(i) /\ ~AtWork(i)
  BY <1>1, NothingUnderWay DEF Aborted
<1>3. OneSent'
  BY <1>1, <1>2 DEF OneSent, Waiting
<1>4. WaitedFor'
  BY <1>1, <1>2 DEF WaitedFor, AtWork
<1>5. \A i \in Nodes : \A a \in 1..Len(ran[i]) : ran[i][a] <= typed /\ ran[i][a] < typed + 1
  BY Numbers DEF Commands, Past
<1>6. Past' /\ Fresh'
  <2>1. \A i \in Nodes : \A a \in 1..Len(ran[i]) : ran[i][a] <= typed + 1
    BY <1>5, Numbers
  <2> QED BY <1>1, <1>5, <2>1 DEF Past, Fresh
<1>7. AtMostOnce'
  BY <1>1 DEF Commands, AtMostOnce
<1> QED BY <1>3, <1>4, <1>6, <1>7 DEF Commands

\* The command goes to a node that has executed nothing since the line was
\* typed, and it is the only one on the way.
LEMMA SendCommands ==
    ASSUME TypeOK, Commands, avoids' = avoids, SendCommand
    PROVE  Commands'
<1>1. /\ shell = "command" /\ shell' \in {"input", "read"} /\ node \in Nodes
      /\ Send(node, Command(typed)) /\ UNCHANGED <<node, typed, srv, job, ran>>
  BY DEF SendCommand, Writes, TypeOK, servers
<1>2. \A i \in Nodes : ~Waiting(i) /\ ~AtWork(i) /\ ~AtWork(i)'
  BY <1>1, NothingUnderWay DEF AtWork, Aborted
<1>3. typed \in Count /\ inbox[node] \in Seq(Units) /\ Command(typed) \in Seq(Units)
      /\ Len(inbox[node]) \in Nat
  BY <1>1, MessageType, Numbers DEF TypeOK
<1>4. ASSUME NEW i \in Nodes, NEW k \in 1..Len(inbox'[i]), Token(inbox'[i][k])
      PROVE  i = node /\ k = Len(inbox[node]) + 1 /\ inbox'[i][k][2] = typed
  <2>1. inbox'[i] # inbox[i]
    BY <1>2, <1>4 DEF Waiting
  <2>2. i = node /\ inbox'[i] = inbox[i] \o Command(typed)
    BY <1>1, <2>1 DEF Send, TypeOK
  <2>3. /\ Len(inbox'[i]) = Len(inbox[i]) + Len(Command(typed))
        /\ inbox'[i][k] = IF k <= Len(inbox[i]) THEN inbox[i][k] ELSE Command(typed)[k - Len(inbox[i])]
    BY <1>3, <2>2, ConcatProperties
  <2>4. k > Len(inbox[i])
    BY <1>2, <1>3, <1>4, <2>2, <2>3 DEF Waiting
  <2>5. k - Len(inbox[i]) \in 1..Len(Command(typed)) /\ Token(Command(typed)[k - Len(inbox[i])])
    BY <1>3, <1>4, <2>2, <2>3, <2>4
  <2>6. k - Len(inbox[i]) = 1
    BY <1>3, <2>5, MessageTokens
  <2> QED BY <1>3, <2>2, <2>3, <2>4, <2>6, MessageTokens
<1>5. OneSent'
  BY <1>1, <1>2, <1>4 DEF OneSent
<1>6. WaitedFor'
  BY <1>2 DEF WaitedFor, AtWork
<1>7. Past' /\ AtMostOnce'
  BY <1>1 DEF Commands, Past, AtMostOnce
<1>8. Fresh'
  <2>1. \A i \in Nodes : Waiting(i)' => i = node
    BY <1>4 DEF Waiting
  <2>2. \A i \in Nodes : Waiting(i)' \/ AtWork(i)' \/ Outstanding(i)' => Outstanding(i)
    BY <1>1, <1>2, <2>1, Numbers DEF Outstanding
  <2> QED BY <1>1, <2>2 DEF Commands, Fresh
<1> QED BY <1>5, <1>6, <1>7, <1>8 DEF Commands

\* A node executes the command it was sent.
LEMMA Executed ==
    ASSUME TypeOK, Commands, NEW i \in Nodes, Waiting(i) \/ AtWork(i),
           ran' = [ran EXCEPT ![i] = Append(@, typed)], UNCHANGED <<typed, shell, node, avoids>>,
           node = i, shell \in {"input", "read", "redial", "exited"},
           \A j \in Nodes : /\ Thinner(inbox'[j], inbox[j])
                            /\ AtWork(j)' => AtWork(j) /\ job'[j] = job[j],
           ~Waiting(i)' /\ ~AtWork(i)'
    PROVE  Commands'
<1>1. /\ \A j \in Nodes \ {i} : ran'[j] = ran[j]
      /\ Len(ran'[i]) = Len(ran[i]) + 1 /\ ran'[i][Len(ran[i]) + 1] = typed
      /\ \A a \in 1..Len(ran[i]) : ran'[i][a] = ran[i][a]
  BY RanProperties DEF TypeOK
<1>2. \A a \in 1..Len(ran[i]) : ran[i][a] < typed
  BY DEF Commands, Fresh
<1>3. \A j \in Nodes : Waiting(j)' => Waiting(j)
  BY DEF Thinner, Waiting
<1>4. \A j \in Nodes : ~Waiting(j)' /\ ~AtWork(j)'
  <2> SUFFICES ASSUME NEW j \in Nodes \ {i} PROVE ~Waiting(j)' /\ ~AtWork(j)'
    OBVIOUS
  <2> QED BY <1>3, NothingUnderWay
<1>5. OneSent' /\ WaitedFor'
  BY <1>4 DEF OneSent, WaitedFor, Waiting, AtWork
<1>6. Past'
  BY <1>1, Numbers DEF Commands, Past
<1>7. Fresh'
  <2>1. ASSUME NEW j \in Nodes, Outstanding(j)' PROVE j # i /\ Outstanding(j)
    BY <2>1, Numbers DEF Outstanding
  <2> QED BY <1>1, <1>4, <2>1 DEF Commands, Fresh
<1>8. AtMostOnce'
  <2> SUFFICES ASSUME NEW j \in Nodes, NEW a \in 1..Len(ran'[j]), NEW b \in 1..Len(ran'[j]), a < b
               PROVE  ran'[j][a] < ran'[j][b]
    BY DEF AtMostOnce
  <2>1. CASE j # i
    BY <1>1, <2>1 DEF Commands, AtMostOnce
  <2>2. CASE j = i /\ b = Len(ran[i]) + 1
    BY <1>1, <1>2, <2>2, Numbers
  <2>3. CASE j = i /\ b # Len(ran[i]) + 1
    BY <1>1, <2>3, Numbers DEF Commands, AtMostOnce
  <2> QED BY <2>1, <2>2, <2>3
<1> QED BY <1>5, <1>6, <1>7, <1>8 DEF Commands

LEMMA DieCommands ==
    ASSUME TypeOK, Commands, NEW i \in Nodes, Die(i), UNCHANGED <<typed, shell, node, ran, avoids>>
    PROVE  Commands'
<1>1. \A j \in Nodes : inbox'[j] = inbox[j] \/ inbox'[j] = <<>>
  BY DEF Die, Set, TypeOK
<1>2. \A j \in Nodes : Thinner(inbox'[j], inbox[j])
  BY <1>1, Numbers, ThinnerCases
<1>3. \A j \in Nodes : AtWork(j)' => AtWork(j) /\ job'[j] = job[j]
  BY DEF Die, Set, AtWork, TypeOK
<1> QED BY <1>2, <1>3, QuietStep DEF Outstanding

LEMMA ReadCommands ==
    ASSUME TypeOK, Connections, Commands, avoids' = avoids, NEW i \in Nodes, ReadCommand(i)
    PROVE  Commands'
<1>0. UNCHANGED <<typed, shell, node>>
  BY DEF ReadCommand, client
<1>1. CASE Die(i) /\ UNCHANGED ran
  BY <1>0, <1>1, DieCommands
<1>2. CASE ~Ours(i) /\ Take(i, TextLimit) /\ job' = Set(job, i, 0) /\ UNCHANGED ran
           /\ At(i, "command", IF flag[i] THEN "input" ELSE "run")
  <2>1. \A j \in Nodes : Thinner(inbox'[j], inbox[j])
    BY <1>2, ThinnerTakes DEF TextLimit
  <2>2. \A j \in Nodes : AtWork(j)' => AtWork(j) /\ job'[j] = job[j]
    BY <1>2 DEF AtWork, At, Set, TypeOK
  <2> QED BY <1>0, <1>2, <2>1, <2>2, QuietStep DEF Outstanding
<1>3. CASE Ours(i) /\ Take(i, TextLimit)
  <2>1. /\ Len(inbox[i]) >= 1 /\ inbox[i][1] = Head(inbox[i]) /\ Token(inbox[i][1])
        /\ Head(inbox[i])[2] \in Count
    BY <1>3, HeadType DEF Ours, Token
  <2>2. /\ Head(inbox[i])[2] = typed
        /\ shell \in {"input", "read", "redial"} \/ Aborted
        /\ shell \in {"input", "read", "redial", "exited"} /\ node = i
        /\ ~AtWork(i)
        /\ \A l \in 1..Len(inbox[i]) : Token(inbox[i][l]) => l = 1
        /\ Waiting(i)
    BY <2>1, Numbers DEF Commands, OneSent, Waiting, Aborted
  <2>3. \A j \in Nodes : Thinner(inbox'[j], inbox[j])
    BY <1>3, ThinnerTakes DEF TextLimit
  <2>4. ~Waiting(i)'
    <3>1. inbox'[i] = Rest(inbox[i], 5)
      BY <1>3 DEF Take, Set, TextLimit, TypeOK
    <3>2. \A k \in 1..Len(inbox'[i]) : k + 5 \in 1..Len(inbox[i]) /\ inbox'[i][k] = inbox[i][k + 5]
      BY <3>1, RestProperties, Numbers
    <3>3. ASSUME NEW k \in 1..Len(inbox'[i]), Token(inbox'[i][k]) PROVE FALSE
      <4>1. k + 5 \in 1..Len(inbox[i]) /\ Token(inbox[i][k + 5])
        BY <3>2, <3>3
      <4>2. k + 5 = 1
        BY <2>2, <4>1
      <4> QED BY <4>2
    <3> QED BY <3>3 DEF Waiting, Token
  <2>5. CASE line.kind = "cd"
    <3>1. /\ ran' = [ran EXCEPT ![i] = Append(@, typed)]
          /\ srv' = Set(srv, i, "close") /\ job' = Set(job, i, typed)
      BY <1>3, <2>2, <2>5 DEF ReadCommand, Die, Ours, At
    <3>2. \A j \in Nodes : /\ AtWork(j)' => AtWork(j) /\ job'[j] = job[j]
                           /\ ~AtWork(i)'
      BY <3>1 DEF AtWork, Set, TypeOK
    <3> QED BY <1>0, <2>2, <2>3, <2>4, <3>1, <3>2, Executed
  <2>6. CASE line.kind # "cd"
    <3>1. /\ ran' = ran /\ srv' = Set(srv, i, IF flag[i] THEN "input" ELSE "run")
          /\ job' = Set(job, i, typed) /\ srv[i] = "command" /\ link[i] = "held"
      BY <1>3, <2>2, <2>6 DEF ReadCommand, Die, Ours, At, Take
    <3>2. /\ \A j \in Nodes \ {i} : (AtWork(j)' <=> AtWork(j)) /\ job'[j] = job[j]
          /\ job'[i] = typed
      BY <3>1 DEF AtWork, Set, TypeOK
    <3>3. \A j \in Nodes : Waiting(j)' => Waiting(j)
      BY <2>3 DEF Thinner, Waiting
    <3>4. \A j \in Nodes : ~Waiting(j)'
      BY <2>2, <2>4, <3>3, NothingUnderWay
    <3>5. OneSent'
      BY <3>4 DEF OneSent, Waiting
    <3>6. WaitedFor'
      <4>1. ~(shell = "redial")
        BY <2>2, <3>1 DEF Connections, GivenUp
      <4> QED BY <1>0, <2>2, <3>2, <4>1 DEF Commands, WaitedFor, AtWork, Aborted
    <3>7. Past' /\ AtMostOnce'
      BY <1>0, <3>1 DEF Commands, Past, AtMostOnce
    <3>8. Fresh'
      BY <1>0, <2>2, <3>1, <3>2, <3>4 DEF Commands, Fresh, Outstanding
    <3> QED BY <3>5, <3>6, <3>7, <3>8 DEF Commands
  <2> QED BY <2>5, <2>6
<1> QED BY <1>1, <1>2, <1>3 DEF ReadCommand

LEMMA ServerCommands ==
    ASSUME TypeOK, Connections, Commands, avoids' = avoids,
           NEW i \in Nodes, Server(i) \/ Output(i) \/ Start(i) \/ Kill(i)
    PROVE  Commands'
<1>0. UNCHANGED <<typed, shell, node>>
  BY DEF Server, Output, Start, Kill, Listen, Accept, ReadHome, ReadFlag, Restart, ReadCommand,
         ReadInput, Run, WaitPid, Close, client
<1>1. CASE Listen(i) \/ Start(i) \/ WaitPid(i) \/ Accept(i) \/ Output(i) \/ Restart(i)
  <2>1. UNCHANGED <<inbox, job, ran>>
    BY <1>1 DEF Listen, Start, WaitPid, Accept, Output, Restart, links, servers
  <2>2. \A j \in Nodes : AtWork(j)' => AtWork(j)
    BY <1>1, <2>1 DEF Listen, Start, WaitPid, Accept, Output, Restart, At, Set, servers, AtWork, TypeOK
  <2> QED BY <1>0, <2>1, <2>2, SameStreams, QuietStep DEF Outstanding
<1>2. CASE ReadHome(i) \/ ReadFlag(i) \/ ReadInput(i)
  <2>1. PICK n \in Nat : Take(i, n)
    BY <1>2 DEF ReadHome, ReadFlag, ReadInput, HomeLimit, FlagLimit, TextLimit
  <2>2. UNCHANGED <<job, ran>>
    BY <1>2 DEF ReadHome, ReadFlag, ReadInput
  <2>3. \A j \in Nodes : AtWork(j)' => AtWork(j)
    BY <1>2, <2>2 DEF ReadHome, ReadFlag, ReadInput, At, Set, AtWork, TypeOK
  <2> QED BY <1>0, <2>1, <2>2, <2>3, ThinnerTakes, QuietStep DEF Outstanding
<1>3. CASE ReadCommand(i)
  BY <1>3, ReadCommands
<1>4. CASE Run(i)
  <2>1. srv[i] = "run" /\ srv' = Set(srv, i, "wait") /\ UNCHANGED <<inbox, job>>
    BY <1>4 DEF Run, At, links
  <2>2. \A j \in Nodes : /\ AtWork(j)' => AtWork(j) /\ job'[j] = job[j]
                         /\ ~AtWork(i)' /\ Thinner(inbox'[j], inbox[j])
    BY <2>1, SameStreams DEF AtWork, Set, TypeOK
  <2>3. CASE job[i] = 0
    BY <1>0, <1>4, <2>2, <2>3, QuietStep DEF Run, Outstanding
  <2>4. CASE job[i] # 0
    <3>1. AtWork(i) /\ job[i] = typed /\ shell \in {"input", "read", "exited"} /\ node = i
      BY <2>1, <2>4 DEF AtWork, Commands, WaitedFor
    <3>2. ran' = [ran EXCEPT ![i] = Append(@, typed)]
      BY <1>4, <2>4, <3>1 DEF Run
    <3>3. ~Waiting(i)'
      BY <2>1, <3>1 DEF Commands, OneSent, Waiting
    <3> QED BY <1>0, <2>2, <3>1, <3>2, <3>3, Executed
  <2> QED BY <2>3, <2>4
<1>5. CASE Close(i)
  <2>1. \A j \in Nodes : inbox'[j] = inbox[j] \/ inbox'[j] = <<>>
    BY <1>5 DEF Close, Set, TypeOK
  <2>2. \A j \in Nodes : Thinner(inbox'[j], inbox[j])
    BY <2>1, Numbers, ThinnerCases
  <2>3. \A j \in Nodes : AtWork(j)' => AtWork(j) /\ job'[j] = job[j]
    BY <1>5 DEF Close, At, Set, AtWork, TypeOK
  <2>4. ran' = ran
    BY <1>5 DEF Close
  <2> QED BY <1>0, <2>2, <2>3, <2>4, QuietStep DEF Outstanding
<1>6. CASE Kill(i)
  BY <1>0, <1>6, DieCommands DEF Kill
<1> QED BY <1>1, <1>2, <1>3, <1>4, <1>5, <1>6 DEF Server

LEMMA AvoidsSame == ASSUME [Next]_vars PROVE avoids' = avoids
BY DEF Next, vars, ghosts, User, Type, Abort, Return, Handler, Interrupt, Skip, Finish, SendFlag,
       SendCommand, SendInput, Writes, ReadReply, Redial, Dialler, Mark, Greet, Dial, Server,
       Listen, Accept, ReadHome, ReadFlag, Restart, ReadCommand, ReadInput, Run, WaitPid,
       Close, Output, Start, Kill

\* What is not connected is empty: closing discards what was not read.
LEMMA NextUnheard ==
    ASSUME TypeOK, Unheard, [Next]_vars
    PROVE  Unheard'
<1> SUFFICES ASSUME NEW i \in Nodes, link'[i] = "none" PROVE ~Waiting(i)'
  BY DEF Unheard
<1>1. CASE link[i] = "none" /\ inbox'[i] = inbox[i]
  BY <1>1 DEF Unheard, Waiting
<1>2. CASE inbox'[i] = <<>>
  BY <1>2, EmptySeq DEF Waiting
<1>3. inbox'[i] = <<>> \/ (link[i] = "none" /\ inbox'[i] = inbox[i])
  <2>1. CASE User \/ UNCHANGED vars
    BY <2>1 DEF User, Type, Abort, Return, ClientEnds, vars, links, TypeOK
  <2>2. CASE Handler
    <3>1. CASE Interrupt \/ Skip \/ Finish \/ ReadReply
      BY <3>1 DEF Interrupt, Skip, Finish, ReadReply, ClientEnds, links, TypeOK
    <3>2. ASSUME NEW units, NEW to, Writes(units, to)
          PROVE  inbox'[i] = <<>> \/ (link[i] = "none" /\ inbox'[i] = inbox[i])
      <4>1. link' = link
        BY <3>2 DEF Writes
      <4>2. link[i] = "none"
        BY <4>1
      <4>3. inbox'[i] = inbox[i]
        BY <3>2, <4>2 DEF Writes, Send, Open, TypeOK
      <4> QED BY <4>2, <4>3
    <3>3. CASE SendFlag \/ SendCommand \/ SendInput
      BY <3>2, <3>3 DEF SendFlag, SendCommand, SendInput
    <3>4. CASE Redial
      <4>1. PICK l : Connect(node, l)
        BY <3>4 DEF Redial
      <4> QED BY <4>1 DEF Connect, Set, TypeOK
    <3> QED BY <2>2, <3>1, <3>3, <3>4 DEF Handler
  <2>3. CASE Dialler
    BY <2>3 DEF Dialler, Mark, Greet, Dial, ClientEnds, Connect, Send, Open, Set, links, TypeOK
  <2>4. ASSUME NEW j \in Nodes, Server(j) \/ Output(j) \/ Start(j) \/ Kill(j)
        PROVE  inbox'[i] = <<>> \/ (link[i] = "none" /\ inbox'[i] = inbox[i])
    <3>1. CASE Die(j)
      BY <3>1 DEF Die, Open, Set, TypeOK
    <3>2. CASE Take(j, HomeLimit) \/ Take(j, FlagLimit) \/ Take(j, TextLimit)
      BY <2>4, <3>2 DEF Take, Set, TypeOK, Server, Output, Start, Kill, Listen, Accept, ReadHome, ReadFlag,
         Restart, ReadCommand, ReadInput, Run, WaitPid, Close, Die, At, links
    <3>3. CASE Listen(j) \/ Accept(j) \/ Restart(j) \/ Run(j) \/ WaitPid(j) \/ Close(j) \/ Output(j) \/ Start(j)
      BY <3>3 DEF Listen, Accept, Restart, Run, WaitPid, Close, Output, Start, Set, links, TypeOK
    <3>4. Kill(j) \/ ReadCommand(j) => Die(j) \/ Take(j, TextLimit)
      BY DEF Kill, ReadCommand
    <3> QED BY <2>4, <3>1, <3>2, <3>3, <3>4 DEF Server, ReadHome, ReadFlag, ReadInput
  <2> QED BY <2>1, <2>2, <2>3, <2>4 DEF Next
<1> QED BY <1>1, <1>2, <1>3

LEMMA NextCommands ==
    ASSUME TypeOK, Connections, Unheard, Commands, [Next]_vars
    PROVE  Commands'
<1>0. avoids' = avoids
  BY AvoidsSame
<1>1. CASE UNCHANGED vars
  <2>1. UNCHANGED <<typed, ran, inbox, srv, job, shell, node>>
    BY <1>1 DEF vars, client, links, servers
  <2> QED BY <1>0, <2>1, SameStreams, QuietStep DEF AtWork, Outstanding
<1>2. CASE User
  <2>1. CASE Return
    <3>1. UNCHANGED <<links, servers, typed>>
      BY <2>1 DEF Return
    <3> QED BY <1>0, <2>1, <3>1, ClientCommands
  <2>2. CASE \E first, last, kind : Type(first, last, kind)
    BY <1>0, <2>2, TypeCommands
  <2>3. CASE Abort
    BY <1>0, <2>3, EndCommands DEF Abort
  <2> QED BY <1>2, <2>1, <2>2, <2>3 DEF User
<1>3. CASE Handler
  <2>1. CASE Interrupt /\ line.kind = "exit"
    BY <2>1, EndCommands DEF Interrupt, ghosts
  <2>2. CASE (Interrupt /\ line.kind # "exit") \/ Skip \/ Finish \/ ReadReply
    <3>1. UNCHANGED <<links, servers, typed>>
      BY <2>2 DEF Interrupt, Skip, Finish, ReadReply
    <3> QED BY <1>0, <2>2, <3>1, ClientCommands
  <2>3. CASE SendFlag \/ SendInput
    BY <1>0, <2>3, WritesCommands
  <2>4. CASE SendCommand
    BY <1>0, <2>4, SendCommands
  <2>5. CASE Redial
    BY <1>0, <2>5, ConnectCommands
  <2> QED BY <1>3, <2>1, <2>2, <2>3, <2>4, <2>5 DEF Handler
<1>4. CASE Dialler
  <2>1. CASE Mark
    <3>1. UNCHANGED <<links, servers, typed>>
      BY <2>1 DEF Mark
    <3> QED BY <1>0, <2>1, <3>1, ClientCommands
  <2> QED BY <1>0, <1>4, <2>1, WritesCommands, ConnectCommands DEF Dialler
<1>5. ASSUME NEW i \in Nodes, Server(i) \/ Output(i) \/ Start(i) \/ Kill(i) PROVE Commands'
  BY <1>0, <1>5, ServerCommands
<1> QED BY <1>1, <1>2, <1>3, <1>4, <1>5 DEF Next

LEMMA InitCommands == Init => Commands /\ Unheard
<1> SUFFICES ASSUME Init PROVE Commands /\ Unheard
  OBVIOUS
<1>1. \A i \in Nodes : Len(inbox[i]) = 0 /\ Len(ran[i]) = 0 /\ srv[i] = "down"
  BY DEF Init
<1> QED BY <1>1 DEF Commands, OneSent, Past, Fresh, WaitedFor, AtMostOnce, Unheard, Waiting

LEMMA CommandsAlways == Spec => [](Connections /\ Commands)
<1>1. Init => Connections /\ Commands /\ Unheard
  BY InitConnections, InitCommands
<1>2. TypeOK /\ (Connections /\ Commands /\ Unheard) /\ [Next]_vars => (Connections /\ Commands /\ Unheard)'
  BY NextConnections, NextCommands, NextUnheard
<1> QED BY <1>1, <1>2, ShellTypeCorrect, PTL DEF Spec

\* No node executes a command twice or out of order, for any number of nodes
\* and commands, whoever dies, comes back or takes a message for another.
THEOREM CommandsRunOnce == Spec => []AtMostOnce
<1>1. Commands => AtMostOnce
  BY DEF Commands
<1> QED BY <1>1, CommandsAlways, PTL

\* A server is about to run a command only while the client waits for just that
\* command, at that node, or after the client was killed there: whoever else dies
\* and connects when, no earlier command is run late, and none for a client that
\* ended at its prompt.
THEOREM CommandsAreWaitedFor == Spec => []WaitedFor
<1>1. Commands => WaitedFor
  BY DEF Commands
<1> QED BY <1>1, CommandsAlways, PTL

-----------------------------------------------------------------------------
(* Conversations: what the ends of a connection make of what is under way, *)
(* when nobody has the habits that disturb them.                           *)

\* What the client sent to node i since it connected there: the pipe flag, a
\* command, its input.
SentFlag(i)    == node = i /\ shell \in {"command", "input", "read"}
SentCommand(i) == node = i /\ shell \in {"input", "read"}
SentInput(i)   == node = i /\ shell = "read" /\ line.kind = "piped"

FlagPart(i)    == IF SentFlag(i) THEN Flag(line.kind = "piped") ELSE <<>>
CommandPart(i) == IF SentCommand(i) THEN Command(typed) ELSE <<>>
InputPart(i)   == IF SentInput(i) THEN Input ELSE <<>>

LaterParts(i)  == CommandPart(i) \o InputPart(i)
AllParts(i)    == FlagPart(i) \o LaterParts(i)

Dialled(i) == loop # "scan" /\ spot = i

\* A connection that is being greeted carries the home directory or, if the
\* dialling loop has yet to send it, nothing.
Greeting(i) ==
    /\ Open(i) /\ srv[i] \in {"first", "home"} =>
        Dialling /\ inbox[i] = IF Dialled(i) THEN <<>> ELSE Home
    /\ Dialled(i) => Dialling /\ Open(i) /\ srv[i] \in {"first", "home"}

\* No socket of an earlier image is left while the client runs, and a server
\* that nobody is connected to is one that was started afresh.
Unconnected(i) ==
    /\ link[i] # "stale" /\ (shell # "exited" => ~stale[i])
    /\ ~Open(i) => inbox[i] = <<>>
    /\ link[i] = "none" => srv[i] \in {"down", "starting", "first"}
    /\ link[i] = "shut" =>
        /\ shell # "exited"
        /\ \/ srv[i] = "down"
           \/ srv[i] = "again" /\ node = i /\ shell \in {"read", "redial"}

\* A server that has yet to accept the connection finds all that was sent on it.
Queues(i) ==
    link[i] = "queued" =>
        /\ srv[i] \in {"first", "wait", "close", "again"}
        /\ srv[i] # "first" => inbox[i] = AllParts(i)

\* One that has accepted it finds what it has not read.
Listens(i) ==
    link[i] = "held" =>
        /\ srv[i] \in {"home", "flag", "command", "input", "run", "wait", "close"}
        /\ srv[i] = "flag" => inbox[i] = AllParts(i)
        /\ srv[i] = "command" => /\ SentFlag(i) /\ flag[i] = (line.kind = "piped")
                                 /\ inbox[i] = LaterParts(i)
        /\ srv[i] = "input" => /\ SentCommand(i) /\ line.kind = "piped"
                               /\ inbox[i] = InputPart(i)
        /\ srv[i] = "run" => node = i /\ shell = "read" /\ inbox[i] = <<>>
        /\ srv[i] \in {"wait", "close"} =>
              node = i /\ shell \in {"read", "redial"} /\ inbox[i] = <<>>

Neat(i) == Greeting(i) /\ Unconnected(i) /\ Queues(i) /\ Listens(i)
\* What the parts of a conversation are.
LEMMA PartTypes ==
    ASSUME TypeOK, NEW i \in Nodes
    PROVE  /\ FlagPart(i) \in Seq(Units) /\ CommandPart(i) \in Seq(Units)
           /\ InputPart(i) \in Seq(Units) /\ LaterParts(i) \in Seq(Units)
<1>1. /\ FlagPart(i) \in Seq(Units) /\ CommandPart(i) \in Seq(Units)
      /\ InputPart(i) \in Seq(Units)
  BY MessageType, EmptySeq DEF TypeOK, FlagPart, CommandPart, InputPart
<1> QED BY <1>1, ConcatProperties DEF LaterParts

LEMMA NoParts ==
    ASSUME NEW i
    PROVE  /\ ~SentFlag(i) => AllParts(i) = <<>>
           /\ ~SentCommand(i) => LaterParts(i) = <<>>
           /\ ~SentFlag(i)' => AllParts(i)' = <<>>
           /\ ~SentCommand(i)' => LaterParts(i)' = <<>>
<1>1. <<>> \o <<>> = <<>>
  BY ConcatEmptySeq, EmptySeq
<1>2. /\ ~SentCommand(i) => LaterParts(i) = <<>>
      /\ ~SentCommand(i)' => LaterParts(i)' = <<>>
  BY <1>1 DEF LaterParts, CommandPart, InputPart, SentCommand, SentInput
<1>3. /\ ~SentFlag(i) => ~SentCommand(i)
      /\ ~SentFlag(i)' => ~SentCommand(i)'
  BY DEF SentFlag, SentCommand
<1>4. /\ ~SentFlag(i) => FlagPart(i) = <<>>
      /\ ~SentFlag(i)' => FlagPart(i)' = <<>>
  BY DEF FlagPart
<1> QED BY <1>1, <1>2, <1>3, <1>4 DEF AllParts

LEMMA RestOfAll ==
    ASSUME NEW s \in Seq(Units), NEW n \in Nat
    PROVE  /\ Len(s) <= n => Rest(s, n) = <<>>
           /\ \A t \in Seq(Units) : Len(s) = n => Rest(s \o t, n) = t
<1>1. ASSUME Len(s) <= n PROVE Rest(s, n) = <<>>
  BY <1>1, SubSeqEmpty, LenProperties DEF Rest
<1>2. ASSUME NEW t \in Seq(Units), Len(s) = n
      PROVE  Rest(s \o t, n) = t
  <2> DEFINE u == s \o t
  <2>1. /\ u \in Seq(Units) /\ Len(u) = n + Len(t)
        /\ \A k \in 1..(n + Len(t)) : u[k] = IF k <= n THEN s[k] ELSE t[k - n]
    BY <1>2, ConcatProperties
  <2> HIDE DEF u
  <2>2. Rest(u, n) \in Seq(Units) /\ \A k \in 1..Len(Rest(u, n)) : k + n \in 1..Len(u) /\ Rest(u, n)[k] = u[k + n]
    BY <2>1, RestProperties
  <2>3. Len(Rest(u, n)) = Len(t)
    <3>1. \A k \in (n + 1)..Len(u) : u[k] \in Units
      BY <2>1, LenProperties
    <3>2. Len(Rest(u, n)) = IF n + 1 <= Len(u) THEN Len(u) - (n + 1) + 1 ELSE 0
      BY <2>1, <3>1, SubSeqProperties, LenProperties DEF Rest
    <3> QED BY <2>1, <3>2, LenProperties
  <2>4. \A k \in 1..Len(t) : Rest(u, n)[k] = t[k]
    <3>1. n \in Nat /\ Len(t) \in Nat
      BY LenProperties
    <3>2. ASSUME NEW k \in 1..Len(t) PROVE Rest(u, n)[k] = t[k]
      <4>1. Rest(u, n)[k] = u[k + n]
        BY <2>2, <2>3
      <4>2. k + n \in 1..(n + Len(t)) /\ ~(k + n <= n) /\ (k + n) - n = k
        BY <3>1
      <4> QED BY <2>1, <4>1, <4>2
    <3> QED BY <3>2
  <2> QED BY <2>2, <2>3, <2>4, SeqEqual DEF u
<1> QED BY <1>1, <1>2

LEMMA MessageLengths ==
    /\ Len(Home) = 2 /\ Len(Input) = 5 /\ Input # <<>>
    /\ \A p : Len(Flag(p)) = 1 /\ Flag(p) # <<>> /\ (Head(Flag(p))[1] # "0" <=> p)
                               /\ Head(Flag(p))[1] \in {"0", "1"}
    /\ \A n : Len(Command(n)) = 5 /\ Command(n) # <<>>
BY DEF Home, Input, Flag, Command, Buffer

LEMMA MessageRests ==
    /\ Rest(Home, 4) = <<>> /\ Rest(Input, 5) = <<>>
    /\ \A t \in Seq(Units) : /\ \A p \in BOOLEAN : Rest(Flag(p) \o t, 1) = t
                             /\ \A n \in Count : Rest(Command(n) \o t, 5) = t
<1>1. 1 \in Nat /\ 4 \in Nat /\ 5 \in Nat /\ 2 <= 4 /\ 5 <= 5
  OBVIOUS
<1>2. Rest(Home, 4) = <<>> /\ Rest(Input, 5) = <<>>
  <2>1. Home \in Seq(Units) /\ Len(Home) <= 4 /\ Input \in Seq(Units) /\ Len(Input) <= 5
    BY <1>1, MessageType, MessageLengths
  <2> QED BY <1>1, <2>1, RestOfAll
<1>3. ASSUME NEW t \in Seq(Units), NEW p \in BOOLEAN PROVE Rest(Flag(p) \o t, 1) = t
  <2>1. Flag(p) \in Seq(Units) /\ Len(Flag(p)) = 1
    BY MessageType, MessageLengths
  <2> QED BY <1>1, <2>1, RestOfAll
<1>4. ASSUME NEW t \in Seq(Units), NEW n \in Count PROVE Rest(Command(n) \o t, 5) = t
  <2>1. Command(n) \in Seq(Units) /\ Len(Command(n)) = 5
    BY MessageType, MessageLengths
  <2> QED BY <1>1, <2>1, RestOfAll
<1> QED BY <1>2, <1>3, <1>4

\* Concatenation adds behind the first element.
LEMMA HeadOfParts ==
    ASSUME NEW s \in Seq(Units), s # <<>>, NEW t \in Seq(Units)
    PROVE  Head(s \o t) = Head(s) /\ s \o t # <<>>
<1>1. Len(s) \in Nat \ {0} /\ Len(t) \in Nat
  BY EmptySeq, LenProperties
<1>2. Len(s \o t) = Len(s) + Len(t) /\ (s \o t)[1] = s[1] /\ s \o t \in Seq(Units)
  BY <1>1, ConcatProperties
<1> QED BY <1>1, <1>2, EmptySeq

\* A node that a step leaves alone.
LEMMA NeatAlone ==
    ASSUME NEW i \in Nodes, Neat(i),
           link'[i] = link[i], inbox'[i] = inbox[i], srv'[i] = srv[i],
           flag'[i] = flag[i], stale'[i] = stale[i],
           UNCHANGED <<loop, spot, shell, node, typed, line>>
    PROVE  Neat(i)'
<1>1. /\ Open(i)' <=> Open(i)
      /\ AllParts(i)' = AllParts(i) /\ LaterParts(i)' = LaterParts(i)
      /\ InputPart(i)' = InputPart(i) /\ SentFlag(i)' = SentFlag(i)
      /\ SentCommand(i)' = SentCommand(i) /\ Dialled(i)' = Dialled(i) /\ Dialling' = Dialling
  BY DEF Open, AllParts, LaterParts, FlagPart, CommandPart, InputPart, SentFlag, SentCommand,
         SentInput, Dialled, Dialling
<1> QED BY <1>1 DEF Neat, Greeting, Unconnected, Queues, Listens

\* A node that the client is not talking to, in a step in which it neither
\* ends nor dials the node.
LEMMA NeatElsewhere ==
    ASSUME NEW i \in Nodes, Neat(i),
           link'[i] = link[i], inbox'[i] = inbox[i], srv'[i] = srv[i],
           flag'[i] = flag[i], stale'[i] = stale[i],
           Dialled(i)' <=> Dialled(i),
           Dialled(i) \/ (Open(i) /\ srv[i] \in {"first", "home"}) => (Dialling <=> Dialling'),
           shell # "exited" <=> shell' # "exited",
           node = i => shell \notin {"command", "input", "read", "redial"},
           node' = i => shell' \notin {"command", "input", "read", "redial"}
    PROVE  Neat(i)'
<1>1. /\ Open(i)' <=> Open(i)
      /\ ~SentFlag(i) /\ ~SentFlag(i)' /\ ~SentCommand(i) /\ ~SentCommand(i)'
  BY DEF Open, SentFlag, SentCommand
<1>2. /\ AllParts(i) = <<>> /\ AllParts(i)' = <<>>
      /\ LaterParts(i) = <<>> /\ LaterParts(i)' = <<>>
  BY <1>1, NoParts
<1> QED BY <1>1, <1>2 DEF Neat, Greeting, Unconnected, Queues, Listens

\* Input is sent to a command that is the end of a pipeline.
PipesInput == shell = "input" => line.kind = "piped"

Polite == avoids = Habits /\ PipesInput /\ \A i \in Nodes : Neat(i)

\* While the handler runs, nothing is dialled and nobody is being greeted.
LEMMA NoGreetings ==
    ASSUME Polite, NEW i \in Nodes,
           \/ shell \notin {"prompt", "typed"}
           \/ Connections /\ Settled /\ shell # "exited"
    PROVE  ~Dialled(i) /\ (Open(i) => srv[i] \notin {"first", "home"})
<1>1. CASE shell \notin {"prompt", "typed"}
  BY <1>1 DEF Polite, Neat, Greeting, Dialling
<1>2. CASE Connections /\ Settled /\ shell # "exited"
  BY <1>2 DEF Settled, Greeted, Dialled, Open, Connections, Unlinked
<1> QED BY <1>1, <1>2

\* The handler goes on without a look at a connection.
LEMMA HandlerGoesOn ==
    ASSUME TypeOK, Connections, Polite, Skip \/ Finish \/ (Interrupt /\ line.kind # "exit")
    PROVE  Polite'
<1>1. /\ UNCHANGED <<loop, spot, link, inbox, srv, flag, stale, avoids>>
      /\ shell \in {"typed", "next"} /\ shell' \in {"next", "prompt"}
      /\ shell = "typed" => Settled
  BY DEF Skip, Finish, Interrupt, links, servers, ghosts, Polite, Habits
<1>2. ASSUME NEW i \in Nodes PROVE Neat(i)'
  <2>1. ~Dialled(i) /\ (Open(i) => srv[i] \notin {"first", "home"})
    BY <1>1, NoGreetings
  <2>2. ~Dialled(i)'
    BY <1>1, <2>1 DEF Dialled
  <2> QED BY <1>1, <2>1, <2>2, NeatElsewhere DEF Polite
<1> QED BY <1>1, <1>2 DEF Polite, PipesInput

\* The client ends with a line, and with that all its connections.
LEMMA ClientLeaves ==
    ASSUME TypeOK, Connections, Polite, Interrupt, line.kind = "exit"
    PROVE  Polite'
<1>1. /\ shell = "typed" /\ Settled /\ ClientEnds
      /\ UNCHANGED <<line, node, typed, srv, flag, stale, avoids>>
  BY DEF Interrupt, Polite, servers, ghosts, Habits
<1>2. ASSUME NEW i \in Nodes PROVE Neat(i)'
  <2>1. ~Dialled(i) /\ (Open(i) => srv[i] \notin {"first", "home"})
    BY <1>1, NoGreetings
  <2>2. /\ loop' = "scan" /\ shell' = "exited"
        /\ link'[i] = IF link[i] \in {"queued", "held"} THEN link[i] ELSE "none"
        /\ inbox'[i] = IF link[i] \in {"queued", "held"} THEN inbox[i] ELSE <<>>
    BY <1>1 DEF ClientEnds
  <2>3. /\ ~SentFlag(i) /\ ~SentFlag(i)' /\ ~SentCommand(i) /\ ~SentCommand(i)' /\ ~Dialled(i)'
    BY <1>1, <2>2 DEF SentFlag, SentCommand, Dialled
  <2>4. AllParts(i) = <<>> /\ AllParts(i)' = <<>>
    BY <2>3, NoParts
  <2>5. Greeting(i)'
    BY <1>1, <2>1, <2>2, <2>3 DEF Greeting, Open
  <2>6. Unconnected(i)'
    BY <1>1, <2>2 DEF Polite, Neat, Unconnected, Open, TypeOK
  <2>7. Queues(i)' /\ Listens(i)'
    BY <1>1, <2>2, <2>3, <2>4 DEF Polite, Neat, Queues, Listens
  <2> QED BY <2>5, <2>6, <2>7 DEF Neat
<1> QED BY <1>1, <1>2 DEF Polite, PipesInput, ClientEnds

\* The client goes on to what it does next with a node, and leaves the other
\* nodes alone.
LEMMA AtOneNode ==
    ASSUME Polite, avoids' = avoids, NEW n \in Nodes, n = node,
           shell \in {"next", "command", "input", "read", "redial"},
           shell' \notin {"prompt", "typed", "exited"},
           node' = n \/ shell' = "next", PipesInput',
           UNCHANGED <<loop, spot, srv, flag, stale>>,
           \A j \in Nodes \ {n} : link'[j] = link[j] /\ inbox'[j] = inbox[j],
           Unconnected(n)' /\ Queues(n)' /\ Listens(n)',
           Open(n)' => srv[n] \notin {"first", "home"}
    PROVE  Polite'
<1>1. ASSUME NEW i \in Nodes PROVE Neat(i)'
  <2>1. ~Dialled(i) /\ (Open(i) => srv[i] \notin {"first", "home"})
    BY NoGreetings
  <2>2. ~Dialled(i)'
    BY <2>1 DEF Dialled
  <2>3. CASE i = n
    BY <2>2, <2>3 DEF Neat, Greeting
  <2>4. CASE i # n
    <3>1. Neat(i)
      BY DEF Polite
    <3> QED BY <2>1, <2>2, <2>4, <3>1, NeatElsewhere
  <2> QED BY <2>3, <2>4
<1> QED BY <1>1 DEF Polite

\* What the client writes comes behind what is there.
LEMMA ClientWrites ==
    ASSUME TypeOK, Connections, Polite, SendFlag \/ SendCommand \/ SendInput
    PROVE  Polite'
<1> DEFINE part == IF shell = "next" THEN Flag(line.kind = "piped")
                   ELSE IF shell = "command" THEN Command(typed) ELSE Input
<1>0. PICK n \in Nodes : n = node
  BY ClusterConstantsOK DEF SendFlag, SendCommand, SendInput, TypeOK, Nodes, ClusterConstants
<1>1. /\ UNCHANGED <<loop, spot, active, line, node, typed, link, srv, flag, stale, avoids>>
      /\ Send(n, part)
      /\ \/ shell = "next" /\ shell' = "command"
         \/ shell = "command" /\ shell' = IF line.kind = "piped" THEN "input" ELSE "read"
         \/ shell = "input" /\ shell' = "read"
  BY <1>0 DEF SendFlag, SendCommand, SendInput, Writes, servers
<1>2. /\ \A j \in Nodes \ {n} : link'[j] = link[j] /\ inbox'[j] = inbox[j]
      /\ link'[n] = link[n] /\ (Open(n)' <=> Open(n))
      /\ inbox'[n] = IF Open(n) THEN inbox[n] \o part ELSE inbox[n]
  BY <1>1 DEF Send, TypeOK, Open
<1>3. ~Dialled(n) /\ (Open(n) => srv[n] \notin {"first", "home"})
  BY <1>1, NoGreetings
<1>4. Unconnected(n)'
  BY <1>0, <1>1, <1>2 DEF Polite, Neat, Unconnected
<1>p. /\ part \in Seq(Units) /\ inbox[n] \in Seq(Units)
      /\ FlagPart(n) \in Seq(Units) /\ CommandPart(n) \in Seq(Units)
  BY MessageType, PartTypes DEF TypeOK
<1> HIDE DEF part
<1>5. /\ SentFlag(n)' /\ (SentCommand(n) => SentCommand(n)')
      /\ AllParts(n)' = AllParts(n) \o part
      /\ SentFlag(n) => LaterParts(n)' = LaterParts(n) \o part
      /\ SentCommand(n) => InputPart(n)' = part /\ LaterParts(n)' = CommandPart(n) \o part
  <2>1. SentFlag(n)' /\ (SentCommand(n) => SentCommand(n)')
    BY <1>0, <1>1 DEF SentFlag, SentCommand
  <2>2. CASE shell = "next"
    <3>1. ~SentFlag(n) /\ ~SentCommand(n) /\ ~SentCommand(n)'
      BY <1>1, <2>2 DEF SentFlag, SentCommand
    <3>2. FlagPart(n)' = part
      BY <1>1, <2>1, <2>2 DEF FlagPart, part
    <3>3. AllParts(n) = <<>> /\ LaterParts(n)' = <<>>
      BY <3>1, NoParts
    <3> QED BY <1>p, <2>1, <3>1, <3>2, <3>3, ConcatEmptySeq DEF AllParts
  <2>3. CASE shell = "command"
    <3>1. SentFlag(n) /\ ~SentCommand(n) /\ SentCommand(n)'
      BY <1>0, <1>1, <2>3 DEF SentFlag, SentCommand
    <3>2. FlagPart(n)' = FlagPart(n) /\ CommandPart(n)' = part /\ InputPart(n)' = <<>>
      BY <1>0, <1>1, <2>1, <2>3, <3>1 DEF FlagPart, CommandPart, InputPart, SentInput, part
    <3>3. LaterParts(n) = <<>> /\ LaterParts(n)' = part
      BY <1>p, <3>1, <3>2, NoParts, ConcatEmptySeq DEF LaterParts
    <3> QED BY <1>p, <2>1, <3>1, <3>2, <3>3, ConcatEmptySeq DEF AllParts
  <2>4. CASE shell = "input"
    <3>1. SentFlag(n) /\ SentCommand(n) /\ SentCommand(n)' /\ InputPart(n) = <<>>
      BY <1>0, <1>1, <2>4 DEF SentFlag, SentCommand, InputPart, SentInput
    <3>2. /\ FlagPart(n)' = FlagPart(n) /\ CommandPart(n)' = CommandPart(n)
          /\ InputPart(n)' = part
      BY <1>0, <1>1, <2>1, <2>4, <3>1
         DEF FlagPart, CommandPart, InputPart, SentInput, part, Polite, PipesInput
    <3>3. LaterParts(n) = CommandPart(n) /\ LaterParts(n)' = CommandPart(n) \o part
      BY <1>p, <3>1, <3>2, ConcatEmptySeq DEF LaterParts
    <3>4. AllParts(n)' = FlagPart(n) \o (CommandPart(n) \o part)
      BY <3>2, <3>3 DEF AllParts
    <3>5. AllParts(n) \o part = FlagPart(n) \o (CommandPart(n) \o part)
      BY <1>p, <3>3, ConcatAssociative DEF AllParts
    <3> QED BY <2>1, <3>1, <3>2, <3>3, <3>4, <3>5
  <2> QED BY <1>1, <2>2, <2>3, <2>4
<1>6. Queues(n)'
  BY <1>1, <1>2, <1>3, <1>5 DEF Polite, Neat, Queues, Open
<1>7. Listens(n)'
  <2> SUFFICES ASSUME link[n] = "held" PROVE Listens(n)'
    BY <1>1 DEF Listens
  <2>1. Listens(n) /\ Open(n) /\ inbox'[n] = inbox[n] \o part
    BY <1>2 DEF Polite, Neat, Open
  <2>2. srv[n] \notin {"wait", "close", "run", "home"}
    BY <1>1, <1>3, <2>1 DEF Listens
  <2>3. srv[n] = "input" => inbox[n] = <<>> /\ <<>> \o part = part
    BY <1>p, <1>0, <1>1, <2>1, ConcatEmptySeq DEF Listens, InputPart, SentInput, SentCommand
  <2> QED BY <1>1, <1>5, <2>1, <2>2, <2>3 DEF Listens
<1>8. PipesInput'
  BY <1>1 DEF PipesInput
<1> QED BY <1>0, <1>1, <1>2, <1>3, <1>4, <1>6, <1>7, <1>8, AtOneNode

\* The client has read an answer, or nothing; there is nothing of the command
\* left to be read.
LEMMA ClientHasRead ==
    ASSUME TypeOK, Connections, Polite, ReadReply
    PROVE  Polite'
<1>0. PICK n \in Nodes : n = node
  BY DEF ReadReply, TypeOK
<1>1. /\ UNCHANGED <<loop, spot, node, link, inbox, srv, flag, stale, avoids>>
      /\ shell = "read" /\ shell' = "redial" /\ (reply[n] \/ ~Open(n))
  BY <1>0 DEF ReadReply, links, servers, ghosts
<1>2. link[n] = "held" => srv[n] \in {"wait", "close"}
  BY <1>1 DEF Connections, Answered, Open
<1>3. link[n] # "queued"
  BY <1>1 DEF Connections, Answered, Open
<1>4. ~Dialled(n) /\ (Open(n) => srv[n] \notin {"first", "home"})
  BY <1>1, NoGreetings
<1>5. Unconnected(n)'
  BY <1>0, <1>1 DEF Polite, Neat, Unconnected, Open
<1>6. Queues(n)' /\ Listens(n)'
  BY <1>0, <1>1, <1>2, <1>3 DEF Polite, Neat, Queues, Listens
<1>7. PipesInput' /\ (Open(n)' => srv[n] \notin {"first", "home"})
  BY <1>1, <1>4 DEF PipesInput, Open
<1> QED BY <1>0, <1>1, <1>5, <1>6, <1>7, AtOneNode

\* The new connection starts with an empty stream, at a server that does not
\* wait for a greeting, or there is none because the server is down.
LEMMA ClientRedials ==
    ASSUME TypeOK, Connections, Polite, Redial
    PROVE  Polite'
<1>0. PICK n \in Nodes : n = node
  BY DEF Redial, TypeOK
<1>1. /\ UNCHANGED <<loop, spot, srv, flag, stale, avoids>>
      /\ shell = "redial" /\ shell' = "next"
      /\ inbox'[n] = <<>>
      /\ \A j \in Nodes \ {n} : link'[j] = link[j] /\ inbox'[j] = inbox[j]
      /\ \/ Listeners(n) = {} /\ link'[n] = "none"
         \/ link'[n] \in Listeners(n)
  <2>1. /\ UNCHANGED <<loop, spot, srv, flag, stale, avoids>>
        /\ shell = "redial" /\ shell' = "next"
    BY DEF Redial, servers, ghosts
  <2>2. \/ Listeners(n) = {} /\ Connect(n, "none")
        \/ \E l \in Listeners(n) : Connect(n, l)
    BY <1>0 DEF Redial
  <2>3. ASSUME NEW l, Connect(n, l)
        PROVE  /\ inbox'[n] = <<>> /\ link'[n] = l
               /\ \A j \in Nodes \ {n} : link'[j] = link[j] /\ inbox'[j] = inbox[j]
    BY <2>3 DEF Connect, Set, TypeOK
  <2> QED BY <2>1, <2>2, <2>3
<1>2. (link[n] = "held" /\ srv[n] \in {"wait", "close"}) \/ srv[n] \in {"down", "again"}
  BY <1>0, <1>1 DEF Connections, GivenUp, TalksToActive, ActiveIsConnected, Polite, Neat, Unconnected
<1>3. \/ srv[n] = "down" /\ link'[n] = "none"
      \/ srv[n] \in {"wait", "close", "again"} /\ link'[n] = "queued"
  <2>1. "stale" \notin Listeners(n)
    BY <1>1 DEF Polite, Neat, Unconnected, Listeners
  <2>2. "queued" \in Listeners(n) <=> srv[n] \notin {"down", "starting"}
    BY DEF Listeners
  <2>3. Listeners(n) \subseteq {"queued", "stale"}
    BY DEF Listeners
  <2> QED BY <1>1, <1>2, <2>1, <2>2, <2>3
<1>4. Unconnected(n)' /\ Listens(n)' /\ PipesInput'
  BY <1>1, <1>3 DEF Polite, Neat, Unconnected, Listens, PipesInput, Open
<1>5. Queues(n)'
  <2>1. ~SentFlag(n)'
    BY <1>1 DEF SentFlag
  <2> QED BY <1>1, <1>3, <2>1, NoParts DEF Queues
<1> QED BY <1>0, <1>1, <1>3, <1>4, <1>5, AtOneNode

LEMMA PoliteHandler ==
    ASSUME TypeOK, Connections, Polite, Handler
    PROVE  Polite'
BY HandlerGoesOn, ClientLeaves, ClientWrites, ClientHasRead, ClientRedials DEF Handler

\* The dialling loop connects to a server, takes note of it and greets it.
LEMMA PoliteDialler ==
    ASSUME TypeOK, Connections, Polite, Dialler
    PROVE  Polite'
<1>1. UNCHANGED <<node, typed, line, srv, flag, stale, avoids>>
  BY DEF Dialler, Mark, Greet, Dial, servers, ghosts
<1>2. Dialling
  BY DEF Dialler, Mark, Greet, Dial
<1>3. ASSUME NEW i \in Nodes PROVE ~SentFlag(i) /\ AllParts(i) = <<>>
  <2>1. ~SentFlag(i)
    BY <1>2 DEF Dialling, SentFlag
  <2> QED BY <2>1, NoParts
<1>4. CASE Mark
  <2>1. UNCHANGED <<spot, shell, link, inbox>> /\ loop = "mark" /\ loop' = "greet"
    BY <1>4 DEF Mark, links
  <2>2. \A i \in Nodes : Dialled(i)' <=> Dialled(i)
    BY <2>1 DEF Dialled
  <2>3. ASSUME NEW i \in Nodes PROVE Neat(i)'
    <3>1. Neat(i)
      BY DEF Polite
    <3> QED BY <1>1, <1>2, <2>1, <2>2, <3>1, NeatElsewhere DEF Dialling
  <2> QED BY <1>1, <2>1, <2>3 DEF Polite, PipesInput
<1>5. CASE Greet
  <2>0. PICK n \in Nodes : n = spot
    BY <1>5 DEF Greet, TypeOK
  <2>1. Dialled(n) /\ Open(n) /\ srv[n] \in {"first", "home"} /\ inbox[n] = <<>>
    BY <1>5, <2>0 DEF Greet, Dialled, Polite, Neat, Greeting
  <2>2. /\ loop' = "scan" /\ UNCHANGED <<shell, link>>
        /\ inbox'[n] = inbox[n] \o Home
        /\ \A j \in Nodes \ {n} : inbox'[j] = inbox[j]
    BY <1>5, <2>0, <2>1 DEF Greet, Send, TypeOK
  <2>3. inbox'[n] = Home
    BY <2>1, <2>2, MessageType, ConcatEmptySeq
  <2>4. ASSUME NEW i \in Nodes PROVE Neat(i)'
    <3>1. ~Dialled(i)' /\ (Open(i)' <=> Open(i)) /\ Dialling'
      BY <1>2, <2>2 DEF Dialled, Open, Dialling
    <3>2. CASE i # n
      <4>1. ~Dialled(i) /\ Neat(i)
        BY <2>0, <3>2 DEF Dialled, Polite
      <4> QED BY <1>1, <1>2, <2>2, <3>1, <3>2, <4>1, NeatElsewhere DEF Dialling
    <3>3. CASE i = n
      <4>1. Greeting(i)'
        BY <2>3, <3>1, <3>3 DEF Greeting
      <4>2. Unconnected(i)'
        BY <1>1, <2>1, <2>2, <3>1, <3>3 DEF Polite, Neat, Unconnected, Open
      <4>3. Queues(i)' /\ Listens(i)'
        BY <1>1, <2>1, <2>2, <3>3 DEF Polite, Neat, Queues, Listens, Open
      <4> QED BY <4>1, <4>2, <4>3 DEF Neat
    <3> QED BY <3>2, <3>3
  <2> QED BY <1>1, <2>2, <2>4 DEF Polite, PipesInput
<1>6. ASSUME NEW n \in Nodes, Dial(n) PROVE Polite'
  <2>1. /\ loop = "scan" /\ ~active[n] /\ loop' = "mark" /\ spot' = n /\ UNCHANGED shell
        /\ \E l \in Listeners(n) : Connect(n, l)
    BY <1>6 DEF Dial
  <2>2. link[n] = "none" /\ srv[n] \in {"down", "starting", "first"} /\ ~stale[n]
    BY <1>2, <2>1 DEF Connections, Unlinked, Dialling, Polite, Neat, Unconnected
  <2>3. srv[n] = "first" /\ Connect(n, "queued")
    BY <2>1, <2>2 DEF Listeners
  <2>4. /\ link'[n] = "queued" /\ inbox'[n] = <<>>
        /\ \A j \in Nodes \ {n} : link'[j] = link[j] /\ inbox'[j] = inbox[j]
    BY <2>3 DEF Connect, Set, TypeOK
  <2>5. ASSUME NEW i \in Nodes PROVE Neat(i)'
    <3>1. ~Dialled(i) /\ Dialling' /\ (Dialled(i)' <=> i = n)
      BY <1>2, <2>1 DEF Dialled, Dialling
    <3>2. CASE i # n
      <4>1. Neat(i)
        BY DEF Polite
      <4> QED BY <1>1, <1>2, <2>1, <2>4, <3>1, <3>2, <4>1, NeatElsewhere DEF Dialling
    <3>3. CASE i = n
      <4>1. Greeting(i)'
        BY <1>1, <2>3, <2>4, <3>1, <3>3 DEF Greeting, Open
      <4>2. Unconnected(i)'
        BY <1>1, <2>1, <2>2, <2>4, <3>3 DEF Unconnected, Open
      <4>3. Queues(i)' /\ Listens(i)'
        BY <1>1, <2>3, <2>4, <3>3 DEF Queues, Listens
      <4> QED BY <4>1, <4>2, <4>3 DEF Neat
    <3> QED BY <3>2, <3>3
  <2> QED BY <1>1, <2>1, <2>5 DEF Polite, PipesInput
<1> QED BY <1>4, <1>5, <1>6 DEF Dialler

LEMMA PoliteUser ==
    ASSUME TypeOK, Connections, Polite, User
    PROVE  Polite'
<1>1. /\ UNCHANGED <<loop, spot, link, inbox, srv, flag, stale, avoids>>
      /\ \/ shell = "prompt" /\ shell' = "typed"
         \/ shell = "exited" /\ shell' = "prompt" /\ \A i \in Nodes : link[i] = "none" /\ ~stale[i]
  BY DEF User, Type, Abort, Return, links, servers, ghosts, Polite, Habits
<1>2. ASSUME NEW i \in Nodes PROVE Neat(i)'
  <2>1. (Dialled(i)' <=> Dialled(i)) /\ Neat(i) /\ (Open(i)' <=> Open(i))
    BY <1>1 DEF Dialled, Polite, Open
  <2>2. CASE shell = "prompt" /\ shell' = "typed"
    BY <1>1, <2>1, <2>2, NeatElsewhere DEF Dialling
  <2>3. CASE shell = "exited" /\ shell' = "prompt" /\ link[i] = "none" /\ ~stale[i]
    BY <1>1, <2>1, <2>3 DEF Neat, Greeting, Unconnected, Queues, Listens, Open
  <2> QED BY <1>1, <2>2, <2>3
<1> QED BY <1>1, <1>2 DEF Polite, PipesInput

\* A step of one server, or with one: the others do not see it.
LEMMA OneServer ==
    ASSUME Polite, NEW i \in Nodes, Neat(i)', UNCHANGED <<client, avoids>>,
           \A j \in Nodes \ {i} : /\ link'[j] = link[j] /\ inbox'[j] = inbox[j]
                                  /\ srv'[j] = srv[j] /\ flag'[j] = flag[j]
                                  /\ stale'[j] = stale[j]
    PROVE  Polite'
<1>1. \A j \in Nodes : Neat(j)
  BY DEF Polite
<1>2. UNCHANGED <<loop, spot, shell, node, typed, line>>
  BY DEF client
<1>3. \A j \in Nodes \ {i} : Neat(j)'
  BY <1>1, <1>2, NeatAlone
<1> QED BY <1>2, <1>3 DEF Polite, PipesInput

\* The parts depend on the client only.
LEMMA SameParts ==
    ASSUME UNCHANGED client, NEW i
    PROVE  /\ AllParts(i)' = AllParts(i) /\ LaterParts(i)' = LaterParts(i)
           /\ InputPart(i)' = InputPart(i) /\ SentFlag(i)' = SentFlag(i)
           /\ SentCommand(i)' = SentCommand(i) /\ Dialled(i)' = Dialled(i)
           /\ Dialling' = Dialling /\ UNCHANGED <<loop, spot, shell, node, typed, line, active>>
BY DEF client, AllParts, LaterParts, FlagPart, CommandPart, InputPart, SentFlag, SentCommand,
       SentInput, Dialled, Dialling

\* Steps of a server between its reads.
LEMMA PoliteServer ==
    ASSUME TypeOK, Connections, Polite, NEW i \in Nodes,
           \/ Listen(i) \/ Start(i) \/ Accept(i) \/ Restart(i) \/ Run(i) \/ WaitPid(i)
           \/ Output(i) \/ Close(i)
    PROVE  Polite'
<1> DEFINE Same == \A j \in Nodes \ {i} : /\ link'[j] = link[j] /\ inbox'[j] = inbox[j]
                                          /\ srv'[j] = srv[j] /\ flag'[j] = flag[j]
                                          /\ stale'[j] = stale[j]
<1> USE DEF TypeOK
<1>1. UNCHANGED <<client, avoids>>
  BY DEF Listen, Start, Accept, Restart, Run, WaitPid, Output, Close, ghosts
<1>2. /\ AllParts(i)' = AllParts(i) /\ LaterParts(i)' = LaterParts(i)
      /\ InputPart(i)' = InputPart(i) /\ SentFlag(i)' = SentFlag(i)
      /\ SentCommand(i)' = SentCommand(i) /\ Dialled(i)' = Dialled(i)
      /\ Dialling' = Dialling /\ UNCHANGED <<loop, spot, shell, node, typed, line, active>>
  BY <1>1, SameParts
<1>3. Greeting(i) /\ Unconnected(i) /\ Queues(i) /\ Listens(i)
  BY DEF Polite, Neat
<1>4. CASE Listen(i) \/ WaitPid(i) \/ Run(i) \/ Start(i)
  <2>1. /\ UNCHANGED <<link, inbox, flag, stale>> /\ \A j \in Nodes \ {i} : srv'[j] = srv[j]
        /\ \/ srv[i] = "starting" /\ srv'[i] = "first"
           \/ srv[i] = "wait" /\ srv'[i] = "close"
           \/ srv[i] = "run" /\ srv'[i] = "wait"
           \/ srv[i] = "down" /\ srv'[i] = "starting" /\ ~active[i] /\ ~Dialled(i)
    BY <1>4 DEF Listen, WaitPid, Run, Start, At, Set, links, Polite, Habits, Dialled
  <2>2. srv[i] \in {"down", "starting"} => ~Open(i) /\ ~Dialled(i)
    BY <1>3 DEF Open, Unconnected, Queues, Listens, Greeting
  <2>3. srv[i] = "down" /\ srv'[i] = "starting" => link[i] = "none"
    BY <1>3, <2>1, <2>2 DEF Connections, Unlinked, Dialled, Unconnected, Open
  <2>4. srv[i] = "starting" => link[i] = "none"
    BY <1>3, <2>2 DEF Open, Unconnected
  <2>5. (Open(i)' <=> Open(i)) /\ Greeting(i)'
    BY <1>2, <1>3, <2>1, <2>2 DEF Greeting, Open
  <2>6. Unconnected(i)'
    BY <1>2, <1>3, <2>1, <2>3, <2>4, <2>5 DEF Unconnected, Open
  <2>7. Queues(i)'
    BY <1>2, <1>3, <2>1, <2>2 DEF Queues, Open
  <2>8. Listens(i)'
    BY <1>2, <1>3, <2>1, <2>2 DEF Listens, Open
  <2> QED BY <1>1, <2>1, <2>5, <2>6, <2>7, <2>8, OneServer DEF Neat
<1>5. CASE Accept(i)
  <2>1. /\ UNCHANGED <<inbox, flag, stale>> /\ link[i] = "queued" /\ link'[i] = "held"
        /\ \A j \in Nodes \ {i} : srv'[j] = srv[j] /\ link'[j] = link[j]
        /\ \/ srv[i] = "first" /\ srv'[i] = "home"
           \/ srv[i] = "again" /\ srv'[i] = "flag"
    BY <1>5 DEF Accept, At, Set
  <2>2. Greeting(i)' /\ Unconnected(i)' /\ Queues(i)' /\ Listens(i)'
    BY <1>2, <1>3, <2>1 DEF Greeting, Open, Unconnected, Queues, Listens
  <2> QED BY <1>1, <2>1, <2>2, OneServer DEF Neat
<1>6. CASE Restart(i)
  <2>1. /\ UNCHANGED <<inbox, flag>> /\ link'[i] = "none" /\ shell = "exited" /\ inbox[i] = <<>>
        /\ \A j \in Nodes \ {i} : srv'[j] = srv[j] /\ link'[j] = link[j] /\ stale'[j] = stale[j]
        /\ srv[i] = "flag" /\ srv'[i] = "starting"
    BY <1>6 DEF Restart, At, Set
  <2>2. Greeting(i)' /\ Unconnected(i)' /\ Queues(i)' /\ Listens(i)'
    BY <1>2, <1>3, <2>1 DEF Greeting, Open, Unconnected, Queues, Listens
  <2> QED BY <1>1, <2>1, <2>2, OneServer DEF Neat
<1>7. CASE Output(i)
  <2>1. UNCHANGED <<link, inbox, srv, flag, stale>>
    BY <1>7 DEF Output, servers
  <2>2. Neat(i)'
    BY <1>2, <2>1, NeatAlone DEF Polite
  <2> QED BY <1>1, <2>1, <2>2, OneServer
<1>8. CASE Close(i)
  <2>1. /\ UNCHANGED stale
        /\ \A j \in Nodes \ {i} : /\ srv'[j] = srv[j] /\ link'[j] = link[j]
                                  /\ inbox'[j] = inbox[j] /\ flag'[j] = flag[j]
        /\ srv[i] = "close" /\ srv'[i] = "again"
        /\ IF link[i] = "held"
           THEN /\ link'[i] = IF shell = "exited" THEN "none" ELSE "shut"
                /\ inbox'[i] = <<>>
           ELSE link'[i] = link[i] /\ inbox'[i] = inbox[i]
    BY <1>8 DEF Close, At, Set
  <2>2. link[i] = "queued" \/ (link[i] = "held" /\ node = i /\ shell \in {"read", "redial"})
    BY <1>3, <2>1 DEF Unconnected, Listens
  <2>3. Greeting(i)' /\ Unconnected(i)' /\ Queues(i)' /\ Listens(i)'
    BY <1>2, <1>3, <2>1, <2>2 DEF Greeting, Open, Unconnected, Queues, Listens
  <2> QED BY <1>1, <2>1, <2>3, OneServer DEF Neat
<1> QED BY <1>4, <1>5, <1>6, <1>7, <1>8

\* What a server reads is what it waits for.
LEMMA PoliteReads ==
    ASSUME TypeOK, Connections, Polite, NEW i \in Nodes,
           ReadHome(i) \/ ReadFlag(i) \/ ReadCommand(i) \/ ReadInput(i)
    PROVE  Polite' /\ (ReadCommand(i) => Ours(i))
<1> USE DEF TypeOK
<1>1. Greeting(i) /\ Unconnected(i) /\ Queues(i) /\ Listens(i)
  BY DEF Polite, Neat
<1>2. /\ FlagPart(i) \in Seq(Units) /\ CommandPart(i) \in Seq(Units)
      /\ InputPart(i) \in Seq(Units) /\ LaterParts(i) \in Seq(Units)
  BY PartTypes
<1>3. ASSUME ReadCommand(i) PROVE Ours(i) /\ Take(i, TextLimit)
  <2>1. srv[i] = "command" /\ link[i] = "held" /\ (inbox[i] # <<>> \/ shell = "exited")
    BY <1>3 DEF ReadCommand, At, Take
  <2>2. SentFlag(i) /\ inbox[i] = LaterParts(i) /\ inbox[i] # <<>>
    BY <1>1, <2>1 DEF Listens, SentFlag
  <2>3. SentCommand(i)
    BY <2>2, NoParts
  <2>4. CommandPart(i) = Command(typed)
    BY <2>3 DEF CommandPart
  <2>5. Head(Command(typed))[1] = "command" /\ Command(typed) # <<>>
    BY DEF Command, Buffer
  <2>6. Head(inbox[i])[1] = "command"
    BY <1>2, <2>2, <2>4, <2>5, HeadOfParts DEF LaterParts
  <2> QED BY <1>3, <2>2, <2>6 DEF Ours, ReadCommand
<1>4. UNCHANGED <<client, avoids, link, stale>>
  BY <1>3 DEF ReadHome, ReadFlag, ReadCommand, ReadInput, ghosts
<1>5. /\ AllParts(i)' = AllParts(i) /\ LaterParts(i)' = LaterParts(i)
      /\ InputPart(i)' = InputPart(i) /\ SentFlag(i)' = SentFlag(i)
      /\ SentCommand(i)' = SentCommand(i) /\ Dialled(i)' = Dialled(i)
      /\ Dialling' = Dialling /\ UNCHANGED <<loop, spot, shell, node, typed, line, active>>
  BY <1>4, SameParts
<1>6. /\ link[i] = "held" /\ (inbox[i] # <<>> \/ shell = "exited")
      /\ \A j \in Nodes \ {i} : srv'[j] = srv[j] /\ inbox'[j] = inbox[j] /\ flag'[j] = flag[j]
      /\ \E n \in Nat : inbox'[i] = Rest(inbox[i], n)
  BY <1>3 DEF ReadHome, ReadFlag, ReadCommand, ReadInput, Take, At, Set, HomeLimit, FlagLimit, TextLimit
<1>7. Unconnected(i)' /\ Queues(i)' /\ Open(i)'
  BY <1>1, <1>4, <1>5, <1>6 DEF Unconnected, Queues, Open
<1>8. CASE ReadHome(i)
  <2>1. srv[i] = "home" /\ srv'[i] = "flag" /\ inbox'[i] = Rest(inbox[i], 4)
    BY <1>8 DEF ReadHome, At, Take, Set, HomeLimit
  <2>2. Dialling /\ ~Dialled(i) /\ inbox[i] = Home
    BY <1>1, <1>6, <2>1 DEF Greeting, Open, Dialling
  <2>3. inbox'[i] = <<>>
    BY <2>1, <2>2, MessageRests
  <2>4. ~SentFlag(i)
    BY <2>2 DEF Dialling, SentFlag
  <2>5. AllParts(i) = <<>>
    BY <2>4, NoParts
  <2>6. Greeting(i)' /\ Listens(i)'
    BY <1>4, <1>5, <1>6, <2>1, <2>2, <2>3, <2>5 DEF Greeting, Listens
  <2> QED BY <1>4, <1>6, <1>7, <2>6, <1>8, OneServer DEF Neat, ReadCommand, ReadHome, At
<1>9. CASE ReadFlag(i)
  <2>1. /\ srv[i] = "flag" /\ srv'[i] = "command" /\ inbox'[i] = Rest(inbox[i], 1)
        /\ inbox[i] # <<>> /\ flag'[i] = (Head(inbox[i])[1] # "0")
    BY <1>9 DEF ReadFlag, At, Take, Set, FlagLimit
  <2>2. inbox[i] = AllParts(i) /\ SentFlag(i)
    BY <1>1, <1>6, <2>1, NoParts DEF Listens
  <2>3. FlagPart(i) = Flag(line.kind = "piped")
    BY <2>2 DEF FlagPart
  <2>4. Head(inbox[i]) = Head(FlagPart(i))
    BY <1>2, <2>2, <2>3, MessageLengths, HeadOfParts DEF AllParts
  <2>5. flag'[i] = (line.kind = "piped")
    BY <2>1, <2>3, <2>4 DEF Flag
  <2>6. inbox'[i] = LaterParts(i)
    <3>1. \E p \in BOOLEAN : FlagPart(i) = Flag(p)
      BY <2>3 DEF Flag
    <3> QED BY <1>2, <2>1, <2>2, <3>1, MessageRests DEF AllParts
  <2>7. Greeting(i)' /\ Listens(i)'
    BY <1>1, <1>4, <1>5, <1>6, <2>1, <2>2, <2>5, <2>6 DEF Greeting, Listens, Open
  <2> QED BY <1>4, <1>6, <1>7, <2>1, <2>7, <1>9, OneServer DEF Neat, ReadCommand, At
<1>10. CASE ReadInput(i)
  <2>1. /\ srv[i] = "input" /\ srv'[i] = "run" /\ inbox'[i] = Rest(inbox[i], 5) /\ UNCHANGED flag
    BY <1>10 DEF ReadInput, At, Take, Set, TextLimit
  <2>2. SentCommand(i) /\ inbox[i] = InputPart(i) /\ inbox[i] # <<>>
    BY <1>1, <1>6, <2>1 DEF Listens, SentCommand
  <2>3. node = i /\ shell = "read" /\ inbox[i] = Input
    BY <2>2 DEF InputPart, SentInput
  <2>4. inbox'[i] = <<>>
    BY <2>1, <2>3, MessageRests
  <2>5. Greeting(i)' /\ Listens(i)'
    BY <1>1, <1>4, <1>5, <1>6, <2>1, <2>3, <2>4 DEF Greeting, Listens, Open
  <2> QED BY <1>4, <1>6, <1>7, <2>1, <2>5, <1>10, OneServer DEF Neat, ReadCommand, At
<1>11. CASE ReadCommand(i)
  <2>1. /\ srv[i] = "command" /\ inbox'[i] = Rest(inbox[i], 5) /\ UNCHANGED flag
        /\ srv'[i] = IF line.kind = "cd" THEN "close" ELSE IF flag[i] THEN "input" ELSE "run"
    BY <1>3, <1>11 DEF ReadCommand, At, Take, Set, TextLimit
  <2>2. SentFlag(i) /\ inbox[i] = LaterParts(i) /\ flag[i] = (line.kind = "piped")
    BY <1>1, <1>6, <2>1 DEF Listens
  <2>3. SentCommand(i)
    BY <1>3, <1>11, <2>2, NoParts DEF Ours
  <2>4. CommandPart(i) = Command(typed)
    BY <2>3 DEF CommandPart
  <2>5. inbox'[i] = InputPart(i)
    BY <1>2, <2>1, <2>2, <2>4, MessageRests DEF LaterParts
  <2>6. line.kind # "piped" => shell = "read" /\ InputPart(i) = <<>>
    BY <2>3 DEF SentCommand, InputPart, SentInput, Polite, PipesInput
  <2>7. Greeting(i)' /\ Listens(i)'
    BY <1>1, <1>4, <1>5, <1>6, <2>1, <2>2, <2>3, <2>5, <2>6 DEF Greeting, Listens, Open, SentCommand
  <2> QED BY <1>3, <1>4, <1>6, <1>7, <2>1, <2>7, <1>11, OneServer DEF Neat
<1> QED BY <1>8, <1>9, <1>10, <1>11

\* A server that dies takes its connections with it.
LEMMA PoliteKill ==
    ASSUME TypeOK, Connections, Polite, NEW i \in Nodes, Kill(i)
    PROVE  Polite'
<1>1. /\ UNCHANGED <<client, avoids>> /\ ~Dialled(i)
      /\ srv'[i] = "down" /\ ~stale'[i] /\ inbox'[i] = <<>>
      /\ link'[i] = IF Open(i) THEN IF shell = "exited" THEN "none" ELSE "shut" ELSE link[i]
      /\ \A j \in Nodes \ {i} : /\ link'[j] = link[j] /\ inbox'[j] = inbox[j]
                                /\ srv'[j] = srv[j] /\ flag'[j] = flag[j]
                                /\ stale'[j] = stale[j]
  BY DEF Kill, Die, Set, TypeOK, Polite, Habits, Dialled
<1>2. /\ Dialled(i)' = Dialled(i) /\ UNCHANGED <<loop, spot, shell, node, typed, line, active>>
  BY <1>1, SameParts
<1>3. Greeting(i)' /\ Unconnected(i)' /\ Queues(i)' /\ Listens(i)'
  BY <1>1, <1>2 DEF Greeting, Unconnected, Queues, Listens, Open, Polite, Neat
<1> QED BY <1>1, <1>3, OneServer DEF Neat

LEMMA NextPolite ==
    ASSUME TypeOK, Connections, Polite, [Next]_vars
    PROVE  Polite'
<1>1. CASE UNCHANGED vars
  <2>1. UNCHANGED <<loop, spot, shell, node, typed, line, link, inbox, srv, flag, stale, avoids>>
    BY <1>1 DEF vars, client, links, servers, ghosts
  <2>2. \A i \in Nodes : Neat(i)'
    BY <2>1, NeatAlone DEF Polite
  <2> QED BY <2>1, <2>2 DEF Polite, PipesInput
<1>2. CASE Next
  BY <1>2, PoliteUser, PoliteHandler, PoliteDialler, PoliteServer, PoliteReads, PoliteKill
     DEF Next, Server
<1> QED BY <1>1, <1>2

Tidy == avoids = Habits => Polite

LEMMA TidyAlways == Spec => []Tidy
<1>1. Init => Tidy
  BY DEF Init, Tidy, Polite, PipesInput, Neat, Greeting, Unconnected, Queues, Listens, Open, Dialled
<1>2. (TypeOK /\ Connections) /\ Tidy /\ [Next]_vars => Tidy'
  <2> SUFFICES ASSUME TypeOK, Connections, Tidy, [Next]_vars, avoids' = Habits
               PROVE  Polite'
    BY DEF Tidy
  <2>1. avoids' = avoids
    BY AvoidsSame
  <2> QED BY <2>1, NextPolite DEF Tidy
<1> QED BY <1>1, <1>2, ShellTypeCorrect, CommandsAlways, PTL DEF Spec

\* Client and server agree on what is under way between them: a server that
\* waits for the pipe flag, for a command or for its input finds just that,
\* for any number of nodes, when nobody disturbs a greeting or starts a server
\* again that the client believes to be alive.
THEOREM ConversationsInStep == Spec => []InStep
<1>1. TypeOK /\ Tidy => InStep
  <2> SUFFICES ASSUME TypeOK, Polite, NEW i \in Nodes, link[i] = "held", inbox[i] # <<>>
               PROVE  CASE srv[i] = "flag" -> Head(inbox[i])[1] \in {"0", "1"}
                        [] srv[i] = "command" -> Head(inbox[i])[1] = "command" /\ flag[i] = (line.kind = "piped")
                        [] srv[i] = "input" -> Head(inbox[i])[1] = "text"
                        [] OTHER -> TRUE
    BY DEF InStep, Tidy
  <2>1. Listens(i)
    BY DEF Polite, Neat
  <2>2. /\ FlagPart(i) \in Seq(Units) /\ CommandPart(i) \in Seq(Units)
        /\ InputPart(i) \in Seq(Units) /\ LaterParts(i) \in Seq(Units)
    BY PartTypes
  <2>3. ASSUME srv[i] = "flag" PROVE Head(inbox[i])[1] \in {"0", "1"}
    <3>1. inbox[i] = AllParts(i) /\ SentFlag(i)
      BY <2>1, <2>3, NoParts DEF Listens
    <3>2. \E p \in BOOLEAN : FlagPart(i) = Flag(p)
      BY <3>1 DEF FlagPart, Flag
    <3> QED BY <2>2, <3>1, <3>2, MessageLengths, HeadOfParts DEF AllParts
  <2>4. ASSUME srv[i] = "command"
        PROVE  Head(inbox[i])[1] = "command" /\ flag[i] = (line.kind = "piped")
    <3>1. inbox[i] = LaterParts(i) /\ SentCommand(i) /\ flag[i] = (line.kind = "piped")
      BY <2>1, <2>4, NoParts DEF Listens
    <3>2. CommandPart(i) # <<>> /\ Head(CommandPart(i))[1] = "command"
      BY <3>1 DEF CommandPart, Command, Buffer
    <3> QED BY <2>2, <3>1, <3>2, HeadOfParts DEF LaterParts
  <2>5. ASSUME srv[i] = "input" PROVE Head(inbox[i])[1] = "text"
    <3>1. inbox[i] = InputPart(i)
      BY <2>1, <2>5 DEF Listens
    <3> QED BY <3>1 DEF InputPart, Input, Buffer
  <2> QED BY <2>3, <2>4, <2>5
<1> QED BY <1>1, ShellTypeCorrect, TidyAlways, PTL

-----------------------------------------------------------------------------
(* What was sent is executed.                                              *)

HasRun(i) == ran[i] # <<>> /\ ran[i][Len(ran[i])] = typed

\* The command waits for node i, or is in the hands of its server.
InHand(i) ==
    /\ node = i /\ shell \in {"input", "read"} /\ Open(i)
    /\ \/ link[i] = "queued"
       \/ srv[i] \in {"flag", "command"}
       \/ srv[i] \in {"input", "run"} /\ job[i] = typed

ToldOnes ==
    /\ shell \in {"prompt", "typed", "exited"} => \A i \in Nodes : ~told[i]
    /\ shell \notin {"prompt", "exited"} => typed > 0
    /\ \A i \in Nodes : told[i] => srv[i] # "down" /\ (HasRun(i) \/ InHand(i))

LEMMA ToldByClient ==
    ASSUME TypeOK, Connections, Polite, ToldOnes, Handler \/ Dialler \/ User
    PROVE  ToldOnes'
<1> USE DEF ToldOnes
<1>1. UNCHANGED <<srv, job, ran>>
  BY DEF Handler, Interrupt, Skip, Finish, SendFlag, SendCommand, SendInput, Writes, ReadReply,
         Redial, Dialler, Mark, Greet, Dial, User, Type, Abort, Return, servers
<1>2. CASE Interrupt \/ Dialler \/ User
  <2>1. /\ shell \in {"prompt", "typed", "exited"} /\ told' = told
        /\ shell' \in {"prompt", "exited"} \/ typed' > 0
    <3>1. typed \in Nat
      BY ClusterConstantsOK DEF TypeOK, Count, ClusterConstants
    <3>2. CASE Interrupt
      BY <3>2 DEF Interrupt, ClientEnds, ghosts
    <3>3. CASE Dialler
      BY <3>3 DEF Dialler, Mark, Greet, Dial, Dialling, ClientEnds, ghosts
    <3>4. CASE User
      BY <3>1, <3>4 DEF User, Type, Abort, Return, ghosts, Polite, Habits
    <3> QED BY <1>2, <3>2, <3>3, <3>4
  <2> QED BY <2>1
<1>3. CASE Skip \/ Finish
  <2>1. /\ shell = "next" /\ typed' = typed /\ shell' \in {"next", "prompt"}
        /\ told' = told \/ \A i \in Nodes : ~told'[i]
        /\ shell' = "prompt" => \A i \in Nodes : ~told'[i]
    BY <1>3 DEF Skip, Finish, ghosts
  <2> QED BY <1>1, <2>1 DEF HasRun, InHand
<1>4. CASE SendFlag
  <2>1. shell = "next" /\ typed' = typed /\ shell' = "command" /\ told' = told
    BY <1>4 DEF SendFlag, Writes
  <2> QED BY <1>1, <2>1 DEF HasRun, InHand
<1>5. CASE SendCommand
  <2>0. PICK n \in Nodes : n = node
    BY <1>5 DEF SendCommand, TypeOK
  <2>1. /\ shell = "command" /\ shell' \in {"input", "read"} /\ UNCHANGED <<typed, node, link>>
        /\ told'[n] = Open(n) /\ \A j \in Nodes \ {n} : told'[j] = told[j]
    BY <1>5, <2>0 DEF SendCommand, Writes, Set, TypeOK
  <2>2. Open(n) => link[n] = "queued" \/ (link[n] = "held" /\ srv[n] \in {"flag", "command"})
    <3>1. Open(n) => srv[n] \notin {"first", "home"}
      BY <2>1, NoGreetings
    <3> QED BY <2>1, <3>1 DEF Polite, Neat, Listens, Open, Unconnected, SentCommand
  <2>3. Open(n) => srv[n] # "down"
    BY <2>2 DEF Polite, Neat, Queues
  <2>4. told'[n] => srv[n] # "down" /\ InHand(n)'
    BY <1>1, <2>0, <2>1, <2>2, <2>3 DEF InHand, Open
  <2>5. \A j \in Nodes \ {n} : told[j] => HasRun(j)
    BY <2>1 DEF InHand
  <2> QED BY <1>1, <2>1, <2>4, <2>5 DEF HasRun
<1>6. CASE SendInput
  <2>1. shell = "input" /\ shell' = "read" /\ UNCHANGED <<typed, node, link, told>>
    BY <1>6 DEF SendInput, Writes
  <2> QED BY <1>1, <2>1 DEF HasRun, InHand, Open
<1>7. CASE ReadReply
  <2>1. /\ shell = "read" /\ shell' = "redial" /\ UNCHANGED <<typed, told>>
        /\ reply[node] \/ ~Open(node)
    BY <1>7 DEF ReadReply, ghosts
  <2>2. \A i \in Nodes : ~InHand(i)
    BY <2>1 DEF InHand, Connections, Answered, Open
  <2> QED BY <1>1, <2>1, <2>2 DEF HasRun
<1>8. CASE Redial
  <2>1. shell = "redial" /\ shell' = "next" /\ UNCHANGED <<typed, told>>
    BY <1>8 DEF Redial, ghosts
  <2> QED BY <1>1, <2>1 DEF HasRun, InHand
<1> QED BY <1>2, <1>3, <1>4, <1>5, <1>6, <1>7, <1>8 DEF Handler

LEMMA ToldByServer ==
    ASSUME TypeOK, Connections, Commands, Polite, ToldOnes, NEW i \in Nodes,
           Server(i) \/ Output(i) \/ Start(i) \/ Kill(i)
    PROVE  ToldOnes'
<1> USE DEF ToldOnes
<1>1. /\ UNCHANGED <<shell, node, typed>>
      /\ told'[i] => told[i] /\ srv'[i] # "down"
      /\ \A j \in Nodes \ {i} : /\ told'[j] = told[j] /\ srv'[j] = srv[j] /\ link'[j] = link[j]
                                /\ ran'[j] = ran[j] /\ job'[j] = job[j]
  <2>1. CASE Kill(i)
    BY <2>1 DEF Kill, Die, Set, client, TypeOK
  <2>2. CASE ReadCommand(i)
    BY <2>2, PoliteReads DEF ReadCommand, At, Set, client, TypeOK
  <2>3. CASE Start(i) \/ Output(i) \/ Close(i) \/ Restart(i) \/ Accept(i)
    BY <2>3 DEF Start, Output, Close, Restart, Accept, At, Set, client, servers, links, ghosts, TypeOK
  <2>4. CASE Listen(i) \/ ReadHome(i) \/ ReadFlag(i) \/ ReadInput(i) \/ Run(i) \/ WaitPid(i)
    BY <2>4 DEF Listen, ReadHome, ReadFlag, ReadInput, Run, WaitPid, At, Set, client, servers, links, ghosts, TypeOK
  <2> QED BY <2>1, <2>2, <2>3, <2>4 DEF Server
<1>2. \A j \in Nodes \ {i} : told'[j] => srv'[j] # "down" /\ (HasRun(j)' \/ InHand(j)')
  BY <1>1 DEF HasRun, InHand, Open
<1>3. ASSUME told'[i] PROVE HasRun(i)' \/ InHand(i)'
  <2>1. told[i] /\ (HasRun(i) \/ InHand(i)) /\ srv[i] # "down"
    BY <1>1, <1>3
  <2>2. shell \notin {"prompt", "typed", "exited"} /\ typed > 0
    BY <2>1
  <2>3. Open(i) => srv[i] \notin {"first", "home"}
    BY <2>2, NoGreetings
  <2>4. Listens(i) /\ Queues(i) /\ Unconnected(i)
    BY DEF Polite, Neat
  <2>5. CASE ReadCommand(i) \/ Run(i)
    <3>0. srv[i] \in {"command", "run"} /\ link[i] = "held" /\ UNCHANGED link
      BY <2>5, PoliteReads DEF ReadCommand, Run, At, Connections, Attached, links
    <3>1. CASE ran'[i] = ran[i]
      <4>1. CASE Run(i)
        <5>1. job[i] = 0
          <6>1. ASSUME ran' = [ran EXCEPT ![i] = Append(@, job[i])] PROVE FALSE
            BY <3>1, <6>1, RanProperties DEF TypeOK
          <6> QED BY <4>1, <6>1 DEF Run
        <5>2. ~InHand(i)
          BY <2>2, <3>0, <4>1, <5>1 DEF InHand, Run, At
        <5> QED BY <1>1, <2>1, <3>1, <5>2 DEF HasRun
      <4>2. CASE ReadCommand(i)
        <5>1. CASE HasRun(i)
          BY <1>1, <3>1, <5>1 DEF HasRun
        <5>2. CASE InHand(i)
          <6>1. Ours(i) /\ Head(inbox[i])[2] = typed
            BY <4>2, PoliteReads, HeadType DEF Commands, OneSent, Token, Ours
          <6>2. job'[i] = typed /\ srv'[i] \in {"input", "run"}
            <7>1. ASSUME ran' = [ran EXCEPT ![i] = Append(@, Head(inbox[i])[2])] PROVE FALSE
              <8>1. Len(ran'[i]) = Len(ran[i]) + 1 /\ Len(ran[i]) \in Nat
                BY <6>1, <7>1, RanProperties, HeadType, Numbers
              <8> QED BY <3>1, <8>1
            <7> QED BY <4>2, <6>1, <7>1 DEF ReadCommand, At, Set, TypeOK
          <6> QED BY <1>1, <3>0, <5>2, <6>2 DEF InHand, Open
        <5> QED BY <2>1, <5>1, <5>2
      <4> QED BY <2>5, <4>1, <4>2
    <3>2. CASE ran'[i] # ran[i]
      <4>1. ran' = [ran EXCEPT ![i] = Append(@, typed)] /\ typed \in Count
        <5>1. CASE Run(i)
          BY <3>0, <3>2, <5>1 DEF Run, Commands, WaitedFor, At, TypeOK
        <5>2. CASE ReadCommand(i)
          <6>1. Ours(i) /\ Head(inbox[i])[2] = typed
            BY <5>2, PoliteReads, HeadType DEF Commands, OneSent, Token, Ours
          <6> QED BY <3>2, <5>2, <6>1 DEF ReadCommand, TypeOK
        <5> QED BY <2>5, <5>1, <5>2
      <4>2. /\ Len(ran'[i]) = Len(ran[i]) + 1 /\ ran'[i][Len(ran[i]) + 1] = typed
            /\ Len(ran[i]) \in Nat
        BY <4>1, RanProperties, Numbers
      <4>3. ran'[i] # <<>>
        BY <4>2
      <4> QED BY <1>1, <4>2, <4>3 DEF HasRun
    <3> QED BY <3>1, <3>2
  <2>6. CASE ~ReadCommand(i) /\ ~Run(i)
    <3>1. ran'[i] = ran[i] /\ (InHand(i) => job'[i] = job[i] \/ link[i] = "queued")
      <4>1. CASE Kill(i)
        BY <1>3, <4>1 DEF Kill, Die, Set, TypeOK
      <4>2. CASE Close(i)
        BY <4>2 DEF Close, At, InHand, Open, Set
      <4>3. CASE Listen(i) \/ Accept(i) \/ ReadHome(i) \/ ReadFlag(i) \/ Restart(i) \/ ReadInput(i)
        BY <4>3 DEF Listen, Accept, ReadHome, ReadFlag, Restart, ReadInput
      <4>4. CASE WaitPid(i) \/ Output(i) \/ Start(i)
        BY <4>4 DEF WaitPid, Output, Start, servers
      <4> QED BY <2>6, <4>1, <4>2, <4>3, <4>4 DEF Server
    <3>2. CASE HasRun(i)
      BY <1>1, <3>1, <3>2 DEF HasRun
    <3>3. CASE InHand(i)
      <4>1. CASE link[i] = "queued"
        <5>1. link'[i] = "queued" \/ (link'[i] = "held" /\ srv'[i] = "flag")
          BY <2>2, <2>3, <2>4, <2>6, <4>1, <1>3, <1>1
             DEF Server, Listen, Accept, ReadHome, ReadFlag, Restart, ReadInput, WaitPid, Close,
                 Output, Start, Kill, Die, links, Take, Set, At, Open, TypeOK
        <5> QED BY <1>1, <3>3, <5>1 DEF InHand, Open
      <4>2. CASE link[i] = "held"
        BY <1>1, <1>3, <2>2, <2>3, <2>4, <2>6, <3>1, <3>3, <4>2
           DEF Server, Listen, Accept, ReadHome, ReadFlag, Restart, ReadInput, WaitPid, Close,
               Output, Start, Kill, Die, links, Take, Set, At, Open, TypeOK, InHand
      <4> QED BY <2>4, <3>3, <4>1, <4>2 DEF InHand, Open, Unconnected
    <3> QED BY <2>1, <3>2, <3>3
  <2> QED BY <2>5, <2>6
<1> QED BY <1>1, <1>2, <1>3

Follows == avoids = Habits => ToldOnes

LEMMA FollowsAlways == Spec => []Follows
<1>1. Init => Follows
  BY DEF Init, Follows, ToldOnes
<1>2. (TypeOK /\ Connections /\ Commands) /\ Tidy /\ Follows /\ [Next]_vars => Follows'
  <2> SUFFICES ASSUME TypeOK, Connections, Commands, Tidy, Follows, [Next]_vars, avoids' = Habits
               PROVE  ToldOnes'
    BY DEF Follows
  <2>1. avoids' = avoids
    BY AvoidsSame
  <2>2. Polite /\ ToldOnes
    BY <2>1 DEF Tidy, Follows
  <2>3. CASE UNCHANGED vars
    BY <2>2, <2>3 DEF vars, client, links, servers, ghosts, ToldOnes, HasRun, InHand, Open
  <2> QED BY <2>2, <2>3, ToldByClient, ToldByServer DEF Next
<1> QED BY <1>1, <1>2, ShellTypeCorrect, CommandsAlways, TidyAlways, PTL DEF Spec

\* What was sent to a node has been executed there when the client is done with
\* the node, unless its server died since: the handler does not take the end of
\* a connection, or an earlier output, for the output of this command.
THEOREM CommandsObeyed == Spec => []Obeyed
<1>1. Follows => Obeyed
  BY DEF Follows, ToldOnes, Obeyed, DoneWith, HasRun, InHand
<1> QED BY <1>1, FollowsAlways, PTL

=============================================================================
