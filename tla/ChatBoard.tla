----------------------------- MODULE ChatBoard -----------------------------
(***************************************************************************)
(* The multicast chat (src/Assignment3P1/multicast_chat_client.c): people  *)
(* ask for the date of a course's test and tell it.  A client is a sender  *)
(* with a menu and a forked receiver.  All clients of a host share a table *)
(* of courses in shared memory, which the receivers write, the senders     *)
(* read, and nobody locks; it outlives them.                               *)
(***************************************************************************)
EXTENDS Integers, FiniteSets

CONSTANTS
    Hosts, Clients, Ports, Courses,
    HostOf, PortOf,     \* where a client runs, and the port of its group
    NoName,             \* the empty name of a free slot
    Slots,              \* NO_OF_COURSES
    MaxSent             \* bound: how many different messages are ever sent

ChatConstants ==
    /\ HostOf \in [Clients -> Hosts] /\ PortOf \in [Clients -> Ports]
    /\ NoName \notin Courses
    /\ Slots \in Nat

ASSUME ChatConstantsOK == ChatConstants

VARIABLES
    board,      \* the table of each host
    sent,       \* the messages that were ever sent
    receiver,   \* what each client's receiver is doing
    sender      \* what each client's sender is doing

vars == <<board, sent, receiver, sender>>

\* A receiver sees an answer that ends with "?" as a question.
Kinds == {"ask", "tell"}
Messages == [port : Ports, kind : Kinds, course : Courses]

Entries == [name : Courses \cup {NoName}, send : BOOLEAN, recv : BOOLEAN]
Free    == [name |-> NoName, send |-> FALSE, recv |-> FALSE]

Doing(at) == [at |-> at]
Init ==
    /\ board = [h \in Hosts |-> [i \in 1..Slots |-> Free]]
    /\ sent = {}
    /\ receiver = [c \in Clients |-> Doing("off")]
    /\ sender = [c \in Clients |-> Doing("off")]

Table(c) == board[HostOf[c]]

\* An entry with the flag that a message of this kind sets.
Noted(e, kind) ==
    IF kind = "ask" THEN [e EXCEPT !.send = TRUE] ELSE [e EXCEPT !.recv = TRUE]

Flag(e, kind) == IF kind = "ask" THEN e.send ELSE e.recv

\* Who wants to ask looks whether there is an answer, and the other way round.
Seen(e, kind) == IF kind = "ask" THEN e.recv ELSE e.send

Sending(m) == sent' = sent \cup {m} /\ Cardinality(sent') <= MaxSent

-----------------------------------------------------------------------------
(* The receiver.                                                           *)

ReceiverTo(c, r) == receiver' = [receiver EXCEPT ![c] = r]

\* The receivers that hold a port: only one socket of a host is bound to it.
Bound == {c \in Clients : receiver[c].at \notin {"off", "starting"}}
Rivals(c) == {d \in Bound : HostOf[d] = HostOf[c] /\ PortOf[d] = PortOf[c]}

\* Mutant: the port may be shared.
BindAnyway(c) ==
    /\ receiver[c].at = "starting"
    /\ ReceiverTo(c, Doing("idle"))
    /\ UNCHANGED <<board, sent, sender>>

\* Who comes too late exits.
Bind(c) ==
    /\ receiver[c].at = "starting"
    /\ ReceiverTo(c, Doing(IF Rivals(c) = {} THEN "idle" ELSE "off"))
    /\ UNCHANGED <<board, sent, sender>>

\* UDP: a message may come late, twice, or never.
Receive(c) ==
    /\ receiver[c].at = "idle"
    /\ \E m \in sent :
        /\ m.port = PortOf[c]
        /\ ReceiverTo(c, [at |-> "look", kind |-> m.kind, course |-> m.course, pos |-> 1])
    /\ UNCHANGED <<board, sent, sender>>

\* Mutant: a full table is taken for a free slot.
LookNoEnd(c) ==
    LET r == receiver[c] IN
    /\ r.at = "look"
    /\ IF r.pos > Slots \/ Table(c)[r.pos].name = NoName
       THEN ReceiverTo(c, [r EXCEPT !.at = "name"])
       ELSE IF Table(c)[r.pos].name = r.course
       THEN ReceiverTo(c, [r EXCEPT !.at = "flag"])
       ELSE ReceiverTo(c, [r EXCEPT !.pos = @ + 1])
    /\ UNCHANGED <<board, sent, sender>>

\* Mutant: the names are not compared.
LookFree(c) ==
    LET r == receiver[c] IN
    /\ r.at = "look"
    /\ IF r.pos > Slots THEN ReceiverTo(c, Doing("idle"))
       ELSE IF Table(c)[r.pos].name = NoName
       THEN ReceiverTo(c, [r EXCEPT !.at = "name"])
       ELSE ReceiverTo(c, [r EXCEPT !.pos = @ + 1])
    /\ UNCHANGED <<board, sent, sender>>

\* Mutant: the last slot is never looked at.
LookShort(c) ==
    LET r == receiver[c] IN
    /\ r.at = "look"
    /\ IF r.pos >= Slots THEN ReceiverTo(c, Doing("idle"))
       ELSE IF Table(c)[r.pos].name = NoName
       THEN ReceiverTo(c, [r EXCEPT !.at = "name"])
       ELSE IF Table(c)[r.pos].name = r.course
       THEN ReceiverTo(c, [r EXCEPT !.at = "flag"])
       ELSE ReceiverTo(c, [r EXCEPT !.pos = @ + 1])
    /\ UNCHANGED <<board, sent, sender>>

\* One round of the loop over the table.  Without a free slot the message is
\* forgotten.
Look(c) ==
    LET r == receiver[c] IN
    /\ r.at = "look"
    /\ IF r.pos > Slots THEN ReceiverTo(c, Doing("idle"))
       ELSE IF Table(c)[r.pos].name = NoName
       THEN ReceiverTo(c, [r EXCEPT !.at = "name"])
       ELSE IF Table(c)[r.pos].name = r.course
       THEN ReceiverTo(c, [r EXCEPT !.at = "flag"])
       ELSE ReceiverTo(c, [r EXCEPT !.pos = @ + 1])
    /\ UNCHANGED <<board, sent, sender>>

Write(c, e) == board' = [board EXCEPT ![HostOf[c]][receiver[c].pos] = e]

\* The name goes into the slot that was free when it was looked at, in one
\* step: whoever reads half of it finds a slot without a flag.
WriteName(c) ==
    LET r == receiver[c] IN
    /\ r.at = "name"
    /\ Write(c, [Table(c)[r.pos] EXCEPT !.name = r.course])
    /\ ReceiverTo(c, [r EXCEPT !.at = "flag"])
    /\ UNCHANGED <<sent, sender>>

WriteFlag(c) ==
    LET r == receiver[c] IN
    /\ r.at = "flag"
    /\ Write(c, Noted(Table(c)[r.pos], r.kind))
    /\ ReceiverTo(c, Doing("idle"))
    /\ UNCHANGED <<sent, sender>>

-----------------------------------------------------------------------------
(* The sender.                                                             *)

SenderTo(c, s) == sender' = [sender EXCEPT ![c] = s]

\* The menu.  "known" is a ghost: what a look at the whole table would show.
Choose(c) ==
    /\ sender[c].at = "menu"
    /\ \E kind \in Kinds, x \in Courses :
        SenderTo(c, [at |-> "scan", kind |-> kind, course |-> x, pos |-> 1,
                     known |-> \E i \in 1..Slots : Table(c)[i].name = x
                                                   /\ Seen(Table(c)[i], kind),
                     warned |-> FALSE])
    /\ UNCHANGED <<board, sent, receiver>>

\* After the loop: whoever asks what was answered, or answers what was not
\* asked, is told so.
Decided(s, flag) ==
    IF flag = (s.kind = "ask")
    THEN [s EXCEPT !.at = "confirm", !.pos = 1, !.warned = TRUE]
    ELSE [s EXCEPT !.at = "send", !.pos = 1]

\* Mutant: the first entry decides.
ScanFirst(c) ==
    LET s == sender[c] IN
    /\ s.at = "scan"
    /\ SenderTo(c, Decided(s, /\ s.pos <= Slots
                              /\ Table(c)[s.pos].name = s.course
                              /\ Seen(Table(c)[s.pos], s.kind)))
    /\ UNCHANGED <<board, sent, receiver>>

\* One round of the loop over the table.
Scan(c) ==
    LET s == sender[c] IN
    /\ s.at = "scan"
    /\ IF s.pos > Slots THEN SenderTo(c, Decided(s, FALSE))
       ELSE IF Table(c)[s.pos].name = NoName THEN SenderTo(c, Decided(s, FALSE))
       ELSE IF Table(c)[s.pos].name = s.course /\ Seen(Table(c)[s.pos], s.kind)
       THEN SenderTo(c, Decided(s, TRUE))
       ELSE SenderTo(c, [s EXCEPT !.pos = @ + 1])
    /\ UNCHANGED <<board, sent, receiver>>

Confirm(c) ==
    /\ sender[c].at = "confirm"
    /\ \/ SenderTo(c, [sender[c] EXCEPT !.at = "send"])
       \/ SenderTo(c, Doing("menu"))
    /\ UNCHANGED <<board, sent, receiver>>

Send(c) ==
    LET s == sender[c] IN
    /\ s.at = "send"
    /\ \E kind \in {s.kind, "ask"} :
        Sending([port |-> PortOf[c], kind |-> kind, course |-> s.course])
    /\ SenderTo(c, Doing("menu"))
    /\ UNCHANGED <<board, receiver>>

-----------------------------------------------------------------------------
(* Start and end of a client.                                              *)

\* If an earlier receiver of the client is still there the new one will not
\* get the port.
Start(c) ==
    /\ sender[c].at = "off"
    /\ SenderTo(c, Doing("menu"))
    /\ IF receiver[c].at = "off" THEN ReceiverTo(c, Doing("starting"))
       ELSE UNCHANGED receiver
    /\ UNCHANGED <<board, sent>>

\* An invalid choice ends the sender, but not the receiver.
Quit(c) ==
    /\ sender[c].at = "menu"
    /\ SenderTo(c, Doing("off"))
    /\ UNCHANGED <<board, sent, receiver>>

\* Both are interrupted, whatever they are doing.
Interrupt(c) ==
    /\ sender[c].at # "off" \/ receiver[c].at # "off"
    /\ SenderTo(c, Doing("off")) /\ ReceiverTo(c, Doing("off"))
    /\ UNCHANGED <<board, sent>>

\* Somebody on a host that is not in Hosts sends a message.
Elsewhere ==
    /\ \E m \in Messages : Sending(m)
    /\ UNCHANGED <<board, receiver, sender>>

Next ==
    \/ \E c \in Clients :
        \/ Bind(c) \/ Receive(c) \/ Look(c) \/ WriteName(c) \/ WriteFlag(c)
        \/ Choose(c) \/ Scan(c) \/ Confirm(c) \/ Send(c)
        \/ Start(c) \/ Quit(c) \/ Interrupt(c)
    \/ Elsewhere

Spec == Init /\ [][Next]_vars

-----------------------------------------------------------------------------
(* What is checked.  Two groups of one host share the table, and their     *)
(* receivers can choose the same slot: all of it is for one group a host.  *)

OneGroup == \A c, d \in Clients : HostOf[c] = HostOf[d] => PortOf[c] = PortOf[d]

Jobs == [at : {"look", "name", "flag"}, kind : Kinds, course : Courses, pos : 1..(Slots + 1)]
Talks == [at : {"scan", "confirm", "send"}, kind : Kinds, course : Courses,
          pos : 1..(Slots + 1), known : BOOLEAN, warned : BOOLEAN]

\* Every variable has its type, and who writes does so within the table.
TypeOK ==
    /\ board \in [Hosts -> [1..Slots -> Entries]]
    /\ sent \subseteq Messages
    /\ receiver \in [Clients -> Jobs \cup {Doing("off"), Doing("starting"), Doing("idle")}]
    /\ sender \in [Clients -> Talks \cup {Doing("off"), Doing("menu")}]
    /\ \A c \in Clients : receiver[c].at \in {"name", "flag"} => receiver[c].pos <= Slots

\* The used slots of a table have no gap, at which the loops would stop, and
\* no course has two of them.
InOrder ==
    \A h \in Hosts : \A i, j \in 1..Slots :
        i < j /\ board[h][j].name # NoName =>
            board[h][i].name \notin {NoName, board[h][j].name}

\* The table says of no course that it was asked for or answered if no such
\* message was ever sent: slots are not mixed up, and no flag goes to a name
\* it was not meant for.
NoRumours ==
    \A h \in Hosts : \A i \in 1..Slots : \A kind \in Kinds :
        Flag(board[h][i], kind) =>
            \E m \in sent : m.kind = kind /\ m.course = board[h][i].name

\* Nobody asks without a warning what the table knew to be answered when he
\* chose to ask, and nobody answers without one what nobody asked.
Warned ==
    \A c \in Clients :
        LET s == sender[c] IN
        s.at = "send" /\ ~s.warned =>
            IF s.kind = "ask" THEN ~s.known
            ELSE \E m \in sent : m.kind = "ask" /\ m.course = s.course

Grow ==
    \A h \in Hosts : \A i \in 1..Slots :
        LET e == board[h][i] f == board'[h][i] IN
        /\ e.name # NoName => f.name = e.name
        /\ e.send => f.send
        /\ e.recv => f.recv

\* The table only grows, receivers that are interrupted and started again
\* included.
Remembers == [][Grow]_vars

\* A receiver that is done with a message has put it on the table, unless the
\* table is full of other courses.
Recorded ==
    [][\A c \in Clients :
        LET r == receiver[c] t == Table(c)' IN
        r.at \in {"look", "flag"} /\ receiver'[c].at = "idle" =>
            \/ \E i \in 1..Slots : t[i].name = r.course /\ Flag(t[i], r.kind)
            \/ \A i \in 1..Slots : t[i].name \notin {NoName, r.course}]_vars

=============================================================================
