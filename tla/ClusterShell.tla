---------------------------- MODULE ClusterShell ----------------------------
(***************************************************************************)
(* The cluster shell (src/Assignment1P2): one client, and a server on each *)
(* of the nodes 1..N.                                                      *)
(*                                                                         *)
(* The client's main thread dials the inactive nodes for ever.  A forked   *)
(* reader takes a line from the keyboard, puts it into a pipe and sends    *)
(* SIGUSR1; the handler, which interrupts the dialling wherever it is,     *)
(* executes the line and forks the next reader.  The first thing a server  *)
(* reads on its first connection is the home directory, then come commands *)
(* of two or three messages, one per connection.                           *)
(*                                                                         *)
(* TCP is a stream: a read takes what is there up to its limit, whichever  *)
(* messages that belongs to.  Streams are counted in units, of which a     *)
(* home directory has 2, the pipe flag 1, a command or its input 5 (the    *)
(* text is in the first, the rest is the rest of a buffer of MAX_SIZE);    *)
(* what one send() sent arrives at once.                                   *)
(***************************************************************************)
EXTENDS Integers, Sequences

CONSTANTS
    N,          \* the nodes of config_file other than the client's
    MaxTyped,   \* bound: lines typed
    MaxDeaths,  \* bound: servers and clients killed
    Manners     \* what people may avoid, a set of sets of habits

Nodes == 1..N

\* "haste": a line is executed while a new connection is still being greeted.
\* "murder": a server is killed in that time.
\* "revival": a dead server is started again before the client noticed.
\* "return": the client is started again after servers restarted themselves.
\* "abort": the client is killed or interrupted, be it in the middle of a line.
Habits == {"haste", "murder", "revival", "return", "abort"}

ClusterConstants ==
    /\ N \in Nat /\ MaxTyped \in Nat /\ MaxDeaths \in Nat
    /\ Manners \subseteq SUBSET Habits

ASSUME ClusterConstantsOK == ClusterConstants

VARIABLES
    \* the client
    loop, spot,     \* where initializesockets is, and with which node
    active,         \* list[i].active
    shell,          \* what reader and handler are doing
    line, node,     \* the line in execution, and the node runcommand is at
    typed,          \* how many lines were typed
    \* its connections
    link,           \* the other end of sockfds[i]
    inbox,          \* what was sent on it and not yet read
    reply,          \* whether output is on the way back
    \* the servers
    srv,            \* where each server is
    flag, job,      \* ispipe, and the command it read (0: not one of ours)
    stale,          \* a listening socket left over by an earlier image
    ran,            \* ghost: the commands each node executed
    \* the people
    avoids,         \* the habits that user and operators do not have
    \* ghosts, and a bound
    told,           \* whether the line was sent to a node that lives since
    deaths

client  == <<loop, spot, active, shell, line, node, typed>>
links   == <<link, inbox, reply>>
servers == <<srv, flag, job, stale, ran>>
ghosts  == <<told, deaths, avoids>>
vars    == <<client, links, servers, ghosts>>

Kinds == {"run", "piped", "cd", "exit"}

Home       == <<<<"home", 0>>, <<"home", 0>>>>
Flag(p)    == <<<<IF p THEN "1" ELSE "0", 0>>>>
Buffer(u)  == <<u, <<"pad", 0>>, <<"pad", 0>>, <<"pad", 0>>, <<"pad", 0>>>>
Command(n) == Buffer(<<"command", n>>)
Input      == Buffer(<<"text", 0>>)

HomeLimit == 4      \* read(connfd, buff, 255)
FlagLimit == 1      \* read(connfd, temppipe, 2)
TextLimit == 5      \* read(connfd, msg, MAX_SIZE)

NoLine == [kind |-> "run", last |-> 0]

Init ==
    /\ loop = "scan" /\ spot = 0
    /\ active = [i \in Nodes |-> FALSE]
    /\ shell = "prompt"
    /\ line = NoLine /\ node = 0
    /\ typed = 0
    /\ link = [i \in Nodes |-> "none"]
    /\ inbox = [i \in Nodes |-> <<>>]
    /\ reply = [i \in Nodes |-> FALSE]
    /\ srv = [i \in Nodes |-> "down"]
    /\ flag = [i \in Nodes |-> FALSE]
    /\ job = [i \in Nodes |-> 0]
    /\ stale = [i \in Nodes |-> FALSE]
    /\ ran = [i \in Nodes |-> <<>>]
    /\ told = [i \in Nodes |-> FALSE]
    /\ deaths = 0 /\ avoids \in Manners

Set(f, i, x) == [f EXCEPT ![i] = x]

-----------------------------------------------------------------------------
(* Connections.                                                            *)

\* Which listening socket of node i a connection may end up at: SO_REUSEPORT
\* shares them out between the living one and those nobody accepts from.
Listeners(i) ==
    {l \in {"queued", "stale"} :
        IF l = "queued" THEN srv[i] \notin {"down", "starting"} ELSE stale[i]}

\* The client's socket leads to a process or to a socket that exists.
Open(i) == link[i] \in {"queued", "held", "stale"}

Send(i, units) ==
    inbox' = IF Open(i) THEN [inbox EXCEPT ![i] = @ \o units] ELSE inbox

\* connect(): the socket is new, or was never connected.
Connect(i, l) ==
    /\ link' = Set(link, i, l)
    /\ inbox' = Set(inbox, i, <<>>)
    /\ reply' = Set(reply, i, FALSE)

\* A greeting is over when the server has read the home directory.
Greeted(i) == active[i] /\ Open(i) => srv[i] \notin {"first", "home"}
Settled == loop = "scan" /\ \A i \in Nodes : Greeted(i)

\* The client's process ends: its sockets are closed, those that no process
\* holds are gone.  What it sent stays in a connection that a server holds or
\* has yet to accept.
ClientEnds ==
    /\ shell' = "exited"
    /\ loop' = "scan" /\ spot' = 0
    /\ active' = [i \in Nodes |-> FALSE]
    /\ link' = [i \in Nodes |-> IF link[i] \in {"queued", "held"} THEN link[i] ELSE "none"]
    /\ inbox' = [i \in Nodes |-> IF link[i] \in {"queued", "held"} THEN inbox[i] ELSE <<>>]
    /\ reply' = [i \in Nodes |-> FALSE]

-----------------------------------------------------------------------------
(* The dialling loop, which stands still while the handler runs.           *)

Dialling == shell \in {"prompt", "typed"}

\* Mutant: a node is dialled only when all before it are connected.
DialInOrder(i) ==
    /\ Dialling /\ loop = "scan" /\ ~active[i] /\ \A j \in 1..(i - 1) : active[j]
    /\ \E l \in Listeners(i) : Connect(i, l)
    /\ loop' = "mark" /\ spot' = i
    /\ UNCHANGED <<active, shell, line, node, typed, servers, ghosts>>

Dial(i) ==
    /\ Dialling /\ loop = "scan" /\ ~active[i]
    /\ \E l \in Listeners(i) : Connect(i, l)
    /\ loop' = "mark" /\ spot' = i
    /\ UNCHANGED <<active, shell, line, node, typed, servers, ghosts>>

Mark ==
    /\ Dialling /\ loop = "mark"
    /\ active' = Set(active, spot, TRUE)
    /\ loop' = "greet"
    /\ UNCHANGED <<spot, shell, line, node, typed, links, servers, ghosts>>

\* The home directory is sent without a look at the connection: if it was
\* closed meanwhile, SIGPIPE may end the client.
Greet ==
    /\ Dialling /\ loop = "greet"
    /\ \/ /\ link[spot] # "none"
          /\ Send(spot, Home)
          /\ loop' = "scan" /\ spot' = 0
          /\ UNCHANGED <<active, shell, link, reply>>
       \/ ~Open(spot) /\ ClientEnds
    /\ UNCHANGED <<line, node, typed, servers, ghosts>>

-----------------------------------------------------------------------------
(* The reader and the handler.                                             *)

\* The reader wrote the line into the pipe and sent its signal.  A line is for
\* one node, for all of them (n* and nodes), or for none but the client's own;
\* it may be the second stage of a pipeline, with input.
Type(first, last, kind) ==
    /\ shell = "prompt" /\ typed < MaxTyped
    /\ shell' = "typed" /\ typed' = typed + 1
    /\ line' = [kind |-> kind, last |-> last]
    /\ node' = first
    /\ UNCHANGED <<loop, spot, active, links, servers, ghosts>>

\* handle_child_term starts: it takes the line from the pipe.
Interrupt ==
    /\ shell = "typed"
    /\ "haste" \in avoids => Settled
    /\ IF line.kind = "exit" THEN ClientEnds
       ELSE shell' = "next" /\ UNCHANGED <<loop, spot, active, links>>
    /\ UNCHANGED <<line, node, typed, servers, ghosts>>

\* Mutant: the loop over the nodes does not stop at the last.
SkipOn ==
    /\ shell = "next" /\ ~(node <= line.last /\ active[node])
    /\ node' = node + 1
    /\ UNCHANGED <<loop, spot, active, shell, line, typed, links, servers, ghosts>>

\* runcommand looks at a node; done with the last one, the handler forks the
\* next reader.
Skip ==
    /\ shell = "next" /\ node <= line.last /\ ~active[node]
    /\ node' = node + 1
    /\ UNCHANGED <<loop, spot, active, shell, line, typed, links, servers, ghosts>>

Finish ==
    /\ shell = "next" /\ node > line.last
    /\ shell' = "prompt" /\ line' = NoLine /\ node' = 0
    /\ told' = [i \in Nodes |-> FALSE]
    /\ UNCHANGED <<loop, spot, active, typed, links, servers, deaths, avoids>>

Writes(units, to) ==
    /\ shell' = to
    /\ Send(node, units)
    /\ UNCHANGED <<loop, spot, active, line, node, typed, link, reply, servers, deaths, avoids>>

SendFlag ==
    /\ shell = "next" /\ node <= line.last /\ active[node]
    /\ Writes(Flag(line.kind = "piped"), "command")
    /\ UNCHANGED told

SendCommand ==
    /\ shell = "command"
    /\ Writes(Command(typed), IF line.kind = "piped" THEN "input" ELSE "read")
    /\ told' = Set(told, node, Open(node))

SendInput ==
    /\ shell = "input"
    /\ Writes(Input, "read")
    /\ UNCHANGED told

\* Mutant: the socket does not block.
ReadReplyAtOnce ==
    /\ shell = "read"
    /\ shell' = "redial"
    /\ UNCHANGED <<loop, spot, active, line, node, typed, links, servers, ghosts>>

\* Mutant: a read that returns nothing is repeated.
ReadReplyAgain ==
    /\ shell = "read" /\ reply[node]
    /\ shell' = "redial"
    /\ UNCHANGED <<loop, spot, active, line, node, typed, links, servers, ghosts>>

\* One read, which waits for output or for the end of the connection.
ReadReply ==
    /\ shell = "read" /\ (reply[node] \/ ~Open(node))
    /\ shell' = "redial"
    /\ UNCHANGED <<loop, spot, active, line, node, typed, links, servers, ghosts>>

\* Mutant: a command without output is sent again.
RedialRetry ==
    /\ shell = "redial"
    /\ shell' = "next" /\ node' = IF reply[node] THEN node + 1 ELSE node
    /\ IF Listeners(node) = {}
       THEN Connect(node, "none") /\ active' = Set(active, node, FALSE)
       ELSE /\ \E l \in Listeners(node) : Connect(node, l)
            /\ UNCHANGED active
    /\ UNCHANGED <<loop, spot, line, typed, servers, ghosts>>

\* Mutant: the new connection is greeted like the first.
RedialGreets ==
    /\ shell = "redial"
    /\ shell' = "next" /\ node' = node + 1
    /\ IF Listeners(node) = {}
       THEN Connect(node, "none") /\ active' = Set(active, node, FALSE)
       ELSE /\ link' = Set(link, node, "queued") /\ inbox' = Set(inbox, node, Home)
            /\ reply' = Set(reply, node, FALSE)
            /\ UNCHANGED active
    /\ UNCHANGED <<loop, spot, line, typed, servers, ghosts>>

\* Mutant: the result of connect() is ignored.
RedialBlindly ==
    /\ shell = "redial"
    /\ shell' = "next" /\ node' = node + 1
    /\ IF Listeners(node) = {} THEN Connect(node, "none")
       ELSE \E l \in Listeners(node) : Connect(node, l)
    /\ UNCHANGED <<loop, spot, active, line, typed, servers, ghosts>>

\* The parent closes the socket and connects again; the new connection is not
\* greeted.
Redial ==
    /\ shell = "redial"
    /\ shell' = "next" /\ node' = node + 1
    /\ IF Listeners(node) = {}
       THEN Connect(node, "none") /\ active' = Set(active, node, FALSE)
       ELSE /\ \E l \in Listeners(node) : Connect(node, l)
            /\ UNCHANGED active
    /\ UNCHANGED <<loop, spot, line, typed, servers, ghosts>>

\* Ctrl-C, which reaches the children of the client as well.  (A child of
\* runcommand that outlives its parent ends with the answer: that is an Abort
\* before the redialling.)
Abort ==
    /\ "abort" \notin avoids /\ shell # "exited" /\ deaths < MaxDeaths
    /\ ClientEnds
    /\ told' = [i \in Nodes |-> FALSE]
    /\ deaths' = deaths + 1
    /\ UNCHANGED <<line, node, typed, servers, avoids>>

\* The user starts the client again when all servers have noticed its end.
Return ==
    /\ shell = "exited" /\ \A i \in Nodes : link[i] = "none"
    /\ "return" \in avoids => \A i \in Nodes : ~stale[i]
    /\ shell' = "prompt" /\ line' = NoLine /\ node' = 0
    /\ UNCHANGED <<loop, spot, active, typed, links, servers, ghosts>>

-----------------------------------------------------------------------------
(* A server.                                                               *)

At(i, here, there) == srv[i] = here /\ srv' = Set(srv, i, there)

Rest(s, n) == SubSeq(s, n + 1, Len(s))

\* What is there, up to the limit; at the end of the stream, nothing.
Take(i, limit) ==
    /\ link[i] = "held"
    /\ inbox[i] # <<>> \/ shell = "exited"
    /\ inbox' = Set(inbox, i, Rest(inbox[i], limit))

Start(i) ==
    /\ At(i, "down", "starting")
    /\ "revival" \in avoids => ~active[i] /\ ~(loop # "scan" /\ spot = i)
    /\ UNCHANGED <<client, links, flag, job, stale, ran, ghosts>>

Listen(i) ==
    /\ At(i, "starting", "first")
    /\ UNCHANGED <<client, links, flag, job, stale, ran, ghosts>>

\* Mutant: a home directory is expected on every connection.
AcceptAfresh(i) ==
    /\ link[i] = "queued"
    /\ At(i, "first", "home") \/ At(i, "again", "home")
    /\ link' = Set(link, i, "held")
    /\ UNCHANGED <<client, inbox, reply, flag, job, stale, ran, ghosts>>

Accept(i) ==
    /\ link[i] = "queued"
    /\ At(i, "first", "home") \/ At(i, "again", "flag")
    /\ link' = Set(link, i, "held")
    /\ UNCHANGED <<client, inbox, reply, flag, job, stale, ran, ghosts>>

ReadHome(i) ==
    /\ At(i, "home", "flag")
    /\ Take(i, HomeLimit)
    /\ UNCHANGED <<client, link, reply, flag, job, stale, ran, ghosts>>

\* "0" means no pipe, and everything else a pipe.
ReadFlag(i) ==
    /\ At(i, "flag", "command")
    /\ inbox[i] # <<>> /\ Take(i, FlagLimit)
    /\ flag' = Set(flag, i, Head(inbox[i])[1] # "0")
    /\ UNCHANGED <<client, link, reply, job, stale, ran, ghosts>>

\* At the end of the stream the server executes run.sh, which compiles and
\* starts it afresh; nothing closes its listening socket.
Restart(i) ==
    /\ At(i, "flag", "starting")
    /\ shell = "exited" /\ link[i] = "held" /\ inbox[i] = <<>>
    /\ stale' = Set(stale, i, TRUE)
    /\ link' = Set(link, i, "none")
    /\ UNCHANGED <<client, inbox, reply, flag, job, ran, ghosts>>

\* A server dies: the sockets of its image and of all earlier ones are closed.
Die(i) ==
    /\ srv' = Set(srv, i, "down")
    /\ stale' = Set(stale, i, FALSE)
    /\ link' = IF Open(i) THEN Set(link, i, IF shell = "exited" THEN "none" ELSE "shut") ELSE link
    /\ inbox' = Set(inbox, i, <<>>)
    /\ flag' = Set(flag, i, FALSE) /\ job' = Set(job, i, 0)
    /\ told' = Set(told, i, FALSE)

Ours(i) == inbox[i] # <<>> /\ Head(inbox[i])[1] = "command"

\* The text of a command is in its first unit.  cd is obeyed at once; the tail
\* of something else is nothing that can be run, or not even a word, on which
\* the server dereferences NULL.
ReadCommand(i) ==
    /\ \/ /\ Ours(i)
          /\ job' = Set(job, i, Head(inbox[i])[2])
          /\ IF line.kind = "cd"
             THEN At(i, "command", "close") /\ ran' = [ran EXCEPT ![i] = Append(@, Head(inbox[i])[2])]
             ELSE At(i, "command", IF flag[i] THEN "input" ELSE "run") /\ UNCHANGED ran
          /\ Take(i, TextLimit)
          /\ UNCHANGED <<link, flag, stale, told>>
       \/ /\ ~Ours(i)
          /\ job' = Set(job, i, 0)
          /\ At(i, "command", IF flag[i] THEN "input" ELSE "run")
          /\ Take(i, TextLimit)
          /\ UNCHANGED <<link, flag, stale, ran, told>>
       \/ /\ srv[i] = "command" /\ ~Ours(i)
          /\ link[i] = "held" /\ (inbox[i] # <<>> \/ shell = "exited")
          /\ Die(i)
          /\ UNCHANGED ran
    /\ UNCHANGED <<client, reply, deaths, avoids>>

ReadInput(i) ==
    /\ At(i, "input", "run")
    /\ Take(i, TextLimit)
    /\ UNCHANGED <<client, link, reply, flag, job, stale, ran, ghosts>>

\* fork and exec, with the connection as standard output; the process writes
\* when it likes, or never, and may be running still when the client, which
\* reads once, has gone on.
Run(i) ==
    /\ At(i, "run", "wait")
    /\ ran' = IF job[i] = 0 THEN ran ELSE [ran EXCEPT ![i] = Append(@, job[i])]
    /\ UNCHANGED <<client, links, flag, job, stale, ghosts>>

Output(i) ==
    /\ srv[i] = "wait" /\ link[i] = "held" /\ shell # "exited"
    /\ ~reply[i] /\ reply' = Set(reply, i, TRUE)
    /\ UNCHANGED <<client, link, inbox, servers, ghosts>>

WaitPid(i) ==
    /\ At(i, "wait", "close")
    /\ UNCHANGED <<client, links, flag, job, stale, ran, ghosts>>

\* The client may have closed its end already, and dialled again.
Close(i) ==
    /\ At(i, "close", "again")
    /\ link' = IF link[i] # "held" THEN link
               ELSE Set(link, i, IF shell = "exited" THEN "none" ELSE "shut")
    /\ inbox' = IF link[i] # "held" THEN inbox ELSE Set(inbox, i, <<>>)
    /\ flag' = Set(flag, i, FALSE) /\ job' = Set(job, i, 0)
    /\ UNCHANGED <<client, reply, stale, ran, ghosts>>

Kill(i) ==
    /\ srv[i] # "down" /\ deaths < MaxDeaths
    /\ "murder" \in avoids => Greeted(i) /\ ~(loop # "scan" /\ spot = i)
    /\ Die(i)
    /\ deaths' = deaths + 1
    /\ UNCHANGED <<client, reply, ran, avoids>>

-----------------------------------------------------------------------------
User ==
    \/ \E i \in Nodes, kind \in {"run", "piped", "cd"} : Type(i, i, kind)
    \/ \E kind \in {"run", "cd"} : Type(1, N, kind)
    \/ Type(1, 0, "run")
    \/ Type(1, 0, "exit")
    \/ Abort \/ Return

Handler ==
    \/ Interrupt \/ Skip \/ Finish
    \/ SendFlag \/ SendCommand \/ SendInput \/ ReadReply \/ Redial

Dialler == Mark \/ Greet \/ \E i \in Nodes : Dial(i)

Server(i) ==
    \/ Listen(i) \/ Accept(i) \/ ReadHome(i) \/ ReadFlag(i) \/ Restart(i)
    \/ ReadCommand(i) \/ ReadInput(i) \/ Run(i) \/ WaitPid(i) \/ Close(i)

Next ==
    \/ User \/ Handler \/ Dialler
    \/ \E i \in Nodes : Server(i) \/ Output(i) \/ Start(i) \/ Kill(i)

Spec == Init /\ [][Next]_vars

\* Every process that can do something does; nothing is assumed about the user
\* and about those who start and kill servers.
FairSpec ==
    /\ Spec
    /\ WF_vars(Handler) /\ WF_vars(Mark \/ Greet)
    /\ \A i \in Nodes : WF_vars(Dial(i)) /\ WF_vars(Server(i))

-----------------------------------------------------------------------------
(* Properties.                                                             *)

Count == 0..MaxTyped
Units == ({"home", "0", "1", "pad", "text"} \X {0}) \cup ({"command"} \X Count)

\* Every variable has its type.
TypeOK ==
    /\ loop \in {"scan", "mark", "greet"} /\ spot \in 0..N
    /\ loop # "scan" => spot \in Nodes
    /\ active \in [Nodes -> BOOLEAN]
    /\ shell \in {"prompt", "typed", "next", "command", "input", "read", "redial", "exited"}
    /\ line \in [kind : Kinds, last : 0..N] /\ node \in 0..(N + 1)
    /\ shell \notin {"prompt", "exited"} => node # 0
    /\ shell \in {"command", "input", "read", "redial"} => node \in Nodes
    /\ typed \in Count
    /\ link \in [Nodes -> {"none", "queued", "held", "stale", "shut"}]
    /\ inbox \in [Nodes -> Seq(Units)]
    /\ reply \in [Nodes -> BOOLEAN]
    /\ srv \in [Nodes -> {"down", "starting", "first", "again", "home", "flag",
                          "command", "input", "run", "wait", "close"}]
    /\ flag \in [Nodes -> BOOLEAN] /\ job \in [Nodes -> Count]
    /\ stale \in [Nodes -> BOOLEAN]
    /\ ran \in [Nodes -> Seq(Count)]
    /\ told \in [Nodes -> BOOLEAN]
    /\ deaths \in 0..MaxDeaths /\ avoids \in Manners

\* No node executes a command twice or out of order, however connections and
\* servers come and go, and whatever a server takes for what.
AtMostOnce ==
    \A i \in Nodes : \A a, b \in 1..Len(ran[i]) : a < b => ran[i][a] < ran[i][b]

\* A server is about to run one of the client's commands only while the client
\* is at that node with that command, and waits for its output, or after it was
\* killed there: a server that was still waiting for an earlier program accepts
\* the connection of the dead client and runs what it was sent.  No line but
\* the last is ever run without its client.
WaitedFor ==
    \A i \in Nodes : srv[i] \in {"input", "run"} /\ job[i] # 0 =>
        /\ job[i] = typed /\ node = i
        /\ shell \in {"input", "read"} \/ (shell = "exited" /\ "abort" \notin avoids)

\* Server and client agree on what comes next: a server that waits for a flag
\* finds a flag, and the first unit of a command where it waits for one.
InStep ==
    avoids = Habits => \A i \in Nodes : link[i] = "held" /\ inbox[i] # <<>> =>
        CASE srv[i] = "flag" -> Head(inbox[i])[1] \in {"0", "1"}
          [] srv[i] = "command" -> Head(inbox[i])[1] = "command" /\ flag[i] = (line.kind = "piped")
          [] srv[i] = "input" -> Head(inbox[i])[1] = "text"
          [] OTHER -> TRUE

DoneWith(i) ==
    \/ shell = "redial" /\ node = i
    \/ shell = "next" /\ node > i

\* What was sent to a node has been executed there when the client is done with
\* it, unless the server died since.
Obeyed ==
    avoids = Habits => \A i \in Nodes :
        DoneWith(i) /\ told[i] =>
            ran[i] # <<>> /\ ran[i][Len(ran[i])] = typed

\* Between the commands an active node has a connection, so that the dialling
\* loop need not look at it.
ActiveIsConnected == \A i \in Nodes : active[i] => link[i] # "none"

\* The prompt comes back after every line.
Responds == avoids = Habits /\ shell = "typed" ~> shell \in {"prompt", "exited"}

\* A server that stays up gets a connection to a client that stays up.
Recovers ==
    \A i \in Nodes :
        avoids = Habits /\ srv[i] = "first" ~> \/ active[i] /\ link[i] \in {"queued", "held"}
                            \/ srv[i] \in {"down", "starting"} \/ shell = "exited"

=============================================================================
