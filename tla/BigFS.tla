------------------------------- MODULE BigFS -------------------------------
(***************************************************************************)
(* BigFS (src/Assignment2P1): one client, one name server that keeps the   *)
(* directory, and data servers that keep the blocks of the files.  This    *)
(* module models the commands on files -- tobigfs, cat, frombigfs, rm, cp  *)
(* and mv on names without a slash -- in one directory that holds files    *)
(* only.  Subdirectories, mkdir, cd and ls are not part of this module.    *)
(*                                                                         *)
(* Everything that goes over a connection is a NUL-terminated string, and  *)
(* connections are TCP, so they are FIFO queues here.  A string (a command *)
(* word, a number, a file name, a location) is a sequence of tokens; what  *)
(* matters about strings is which concatenations are equal, because a data *)
(* server builds the names of its files by appending numerals.  The        *)
(* "data/" directory that prefixes every location is left out.             *)
(***************************************************************************)
EXTENDS Naturals, Sequences, FiniteSets

CONSTANTS
    Letters,      \* what file names are spelled with, apart from numerals
    Names,        \* the file names the user may type
    OldFiles,     \* what an earlier session left in the data directories
    D,            \* number of data servers: no_of_dataservers
    MaxChunks,    \* bound: the longest local file, in blocks
    MaxWrites,    \* bound: how many tobigfs and cp commands are issued
    Tails,        \* does the last block of a local file hold no byte?
    Careful       \* does the user avoid the commands the code cannot serve?

VARIABLES
    pc,           \* where the client's main loop is
    job,          \* the locals of the client's command in progress
    shown,        \* what the last cat printed or the last frombigfs saved
    writes,       \* how many tobigfs and cp commands were issued (bound)
    c2n, n2c,     \* strings in transit between client and name server
    c2d, d2c,     \* per data server: requests and answers in transit
    nspc,         \* where the name server is: dispatching, or in a handler
    nsnew,        \* the node that tobigfs is about to allocate
    nsup,         \* has the name server not crashed?
    dir,          \* the nodes below cur, in list order
    disk,         \* per data server: the files of its data directory
    dsup          \* per data server: has it not crashed or exited?

clientVars == <<pc, job, shown, writes>>
nameVars   == <<nspc, nsnew, nsup, dir>>
dataVars   == <<disk, dsup>>
wires      == <<c2n, n2c, c2d, d2c>>
vars       == <<clientVars, nameVars, dataVars, wires>>

-----------------------------------------------------------------------------
(* Strings.                                                                *)

\* A token is a command word, a letter, a decimal numeral or a suffix "(i)".
Words  == {"tobigfs", "cat", "frombigfs", "rm", "cp", "mv"}
Token  == (Words \cup Letters \cup {"num", "dup"}) \X Nat
String == Seq(Token)

Word(w) == << <<w, 0>> >>
Num(i)  == <<"num", i>>
Dup(i)  == <<"dup", i>>

\* atoi() on a string that is a numeral, and on any other string.
Atoi(str) == IF Len(str) = 1 /\ str[1][1] = "num" THEN str[1][2] ELSE 0

\* The file that holds chunk i of the file stored at location loc.
ChunkPath(loc, i) == Append(loc, Num(i))

\* The i-th alternative to a location that is taken.
Variant(loc, i) == Append(loc, Dup(i))

-----------------------------------------------------------------------------
(* Contents of files.                                                      *)

\* Block i of the u-th file that was written; an empty file is <<0, 0>>.
Block == Nat \X Nat
Empty == <<0, 0>>

\* The blocks the client cuts its u-th local file into.  Its size in blocks
\* is 1 + size/BLOCKSIZE, so the last block is empty for a multiple of it.
LocalText(u, n, emptyTail) ==
    [k \in 1..n |-> IF k = n /\ emptyTail THEN Empty ELSE <<u, k>>]

Servers    == 0..(D - 1)
Server(i)  == i % D           \* who keeps chunk i
NoCount(i) == 0               \* (mutant: count is never increased)
Count(i)   == i \div D        \* how many chunks it got before chunk i

Put(d, p, b)  == [q \in DOMAIN d \cup {p} |-> IF q = p THEN b ELSE d[q]]
Drop(d, S)    == [q \in DOMAIN d \ S |-> d[q]]

\* What server s keeps for a file: an empty marker file at its location once
\* it has a chunk of it, and the chunks themselves.
Kept(s, loc, text) ==
    {<<ChunkPath(loc, i), text[i + 1]>> :
        i \in {j \in 0..(Len(text) - 1) : Server(j) = s}}
    \cup IF Len(text) > s THEN {<<loc, Empty>>} ELSE {}

OldPairs(s) == UNION {Kept(s, f.loc, f.text) : f \in OldFiles}

-----------------------------------------------------------------------------
(* Messages, nodes and the client's locals.                                *)

Request == [op : {"tobigfs", "cat", "rm", "cp"}, loc : String, count : Nat,
            num : Nat, data : Block, to : String]

PutRequest(loc, i, b) ==
    [op |-> "tobigfs", loc |-> loc, count |-> Count(i), num |-> i,
     data |-> b, to |-> <<>>]
ChunkRequest(op, loc, i, to) ==
    [op |-> op, loc |-> loc, count |-> 0, num |-> i, data |-> Empty, to |-> to]

Answer == [kind : {"loc", "data", "end"}, loc : String, data : Block]

Located(p)   == [kind |-> "loc",  loc |-> p,    data |-> Empty]
Segment(b)   == [kind |-> "data", loc |-> <<>>, data |-> b]

\* (The first is a mutant of the second: no empty string after a chunk.)
NoEndOfChunk == [kind |-> "data", loc |-> <<>>, data |-> Empty]
EndOfChunk   == [kind |-> "end",  loc |-> <<>>, data |-> Empty]

\* A node of the directory.  "linked" says whether its parent pointer was
\* ever assigned.  "text" is a ghost: the content that was stored under it.
Node == [name : String, loc : String, chunks : Nat, linked : BOOLEAN,
         text : Seq(Block)]

Idle == [name |-> <<>>, to |-> <<>>, text |-> <<>>, loc |-> <<>>,
         chunks |-> 0, i |-> 0, got |-> <<>>, nul |-> 0]

Job == [name : String, to : String, text : Seq(Block), loc : String,
        chunks : Nat, i : Nat, got : Seq(Block), nul : {0, 1}]

\* What a cat or a frombigfs delivers: blocks, and how many NUL bytes it puts
\* among them.  frombigfs writes one straight to the descriptor of the file,
\* past the text that stdio still holds back until fclose: it lands in front
\* of that rest, and how much that is depends on the C library's buffer.
Delivery == [name : String, text : Seq(Block), nul : {0, 1}]
Delivered(j) == [name |-> j.name, text |-> j.got, nul |-> j.nul]

NoNode == [name |-> <<>>, loc |-> <<>>, chunks |-> 0, linked |-> TRUE,
           text |-> <<>>]

\* Mutant: the lookup starts behind the first child.
ExistsButFirst(n) == \E k \in 2..Len(dir) : dir[k].name = n

\* Is there a node of this name below cur?
Exists(n) == \E k \in DOMAIN dir : dir[k].name = n

\* What the constants are: names and leftover locations are strings, there
\* is at least one data server.
ConstantsOK ==
    /\ Letters \cap (Words \cup {"num", "dup"}) = {}
    /\ Names \subseteq String
    /\ \A f \in OldFiles : f.loc \in String /\ f.text \in Seq(Block)
    /\ D \in Nat \ {0} /\ MaxChunks \in Nat /\ MaxWrites \in Nat
    /\ Tails \subseteq BOOLEAN /\ Careful \in BOOLEAN

ASSUME BigFSConstants == ConstantsOK

Init ==
    /\ pc = "prompt" /\ job = Idle /\ writes = 0
    /\ shown = Delivered(Idle)
    /\ c2n = <<>> /\ n2c = <<>>
    /\ c2d = [s \in Servers |-> <<>>] /\ d2c = [s \in Servers |-> <<>>]
    /\ nspc = "command" /\ nsnew = NoNode /\ nsup = TRUE /\ dir = <<>>
    /\ disk = [s \in Servers |->
                [p \in {x[1] : x \in OldPairs(s)} |->
                    (CHOOSE x \in OldPairs(s) : x[1] = p)[2]]]
    /\ dsup = [s \in Servers |-> TRUE]

-----------------------------------------------------------------------------
(* The client: Client.c.  Each action runs from one blocking read to the   *)
(* next; a command word and its arguments are written without a pause.     *)

\* The files the user knows of: the name server may still be about to read
\* the number of chunks of a file whose transfer is over.
UserHas(n) == Exists(n) \/ (nspc = "parts" /\ nsnew.name = n)

Prompt == pc' = "prompt" /\ job' = Idle
Await(where, j) == pc' = where /\ job' = j

SendName(strings) == c2n' = c2n \o strings
\* (Mutant of the next one: a request is sent twice.)
SendDataTwice(s, req) == c2d' = [c2d EXCEPT ![s] = @ \o <<req, req>>]
SendData(s, req)  == c2d' = [c2d EXCEPT ![s] = Append(@, req)]

\* tobigfs name.  An empty text stands for a local file that does not exist:
\* the client finds out only after the name server agreed to the name.
StartPut(n, text) ==
    /\ pc = "prompt" /\ writes < MaxWrites
    /\ Careful => text # <<>>
    /\ Await("put_ack", [Idle EXCEPT !.name = n, !.text = text])
    /\ SendName(<<Word("tobigfs"), n>>)
    /\ writes' = writes + 1
    /\ UNCHANGED <<shown, nameVars, dataVars, n2c, c2d, d2c>>

PutRefused ==
    /\ pc = "put_ack" /\ n2c # <<>>
    /\ \/ Head(n2c) = <<Num(1)>>
       \/ job.text = <<>>                      \* "File Not Found!"
    /\ Prompt
    /\ n2c' = Tail(n2c)
    /\ UNCHANGED <<shown, writes, nameVars, dataVars, c2n, c2d, d2c>>

\* Mutant: the number of blocks is rounded down.
PutAcceptedFloor ==
    /\ pc = "put_ack" /\ n2c # <<>> /\ Head(n2c) # <<Num(1)>>
    /\ job.text # <<>>
    /\ Await("put_loc", [job EXCEPT !.chunks = Len(job.text) - 1])
    /\ n2c' = Tail(n2c)
    /\ SendName(<< <<Num(Len(job.text) - 1)>> >>)
    /\ SendData(Server(0), PutRequest(job.name, 0, job.text[1]))
    /\ UNCHANGED <<shown, writes, nameVars, dataVars, d2c>>

PutAccepted ==
    /\ pc = "put_ack" /\ n2c # <<>> /\ Head(n2c) # <<Num(1)>>
    /\ job.text # <<>>
    /\ Await("put_loc", [job EXCEPT !.chunks = Len(job.text)])
    /\ n2c' = Tail(n2c)
    /\ SendName(<< <<Num(Len(job.text))>> >>)
    /\ SendData(Server(0), PutRequest(job.name, 0, job.text[1]))
    /\ UNCHANGED <<shown, writes, nameVars, dataVars, d2c>>

\* A data server answered where it stored the chunk.  Only the answer for
\* chunk 0 is used: it names the file for the name server and in the
\* requests for the other chunks.
PutLocated ==
    LET s    == Server(job.i)
        loc  == IF job.i = 0 THEN Head(d2c[s]).loc ELSE job.loc
        next == job.i + 1
    IN
    /\ pc = "put_loc" /\ d2c[s] # <<>>
    /\ d2c' = [d2c EXCEPT ![s] = Tail(@)]
    /\ SendName(IF job.i = 0 THEN <<loc>> ELSE <<>>)
    /\ IF next < job.chunks
       THEN /\ Await("put_loc", [job EXCEPT !.loc = loc, !.i = next])
            /\ SendData(Server(next), PutRequest(loc, next, job.text[next + 1]))
       ELSE Prompt /\ UNCHANGED c2d
    /\ UNCHANGED <<shown, writes, nameVars, dataVars, n2c>>

\* cat name
StartCat(n) ==
    /\ pc = "prompt"
    /\ Careful => UserHas(n)
    /\ Await("cat_ack", [Idle EXCEPT !.name = n])
    /\ SendName(<<Word("cat"), n>>)
    /\ UNCHANGED <<shown, writes, nameVars, dataVars, n2c, c2d, d2c>>

\* frombigfs name: the same conversation for a local file, with a NUL byte in it.
StartGet(n) ==
    /\ pc = "prompt"
    /\ Careful => UserHas(n)
    /\ Await("cat_ack", [Idle EXCEPT !.name = n, !.nul = 1])
    /\ SendName(<<Word("frombigfs"), n>>)
    /\ UNCHANGED <<shown, writes, nameVars, dataVars, n2c, c2d, d2c>>

\* "File not found in current directory", for cat, frombigfs and rm.
NotFound ==
    /\ pc \in {"cat_ack", "rm_ack"} /\ n2c # <<>> /\ Head(n2c) = <<Num(0)>>
    /\ Prompt
    /\ n2c' = Tail(n2c)
    /\ UNCHANGED <<shown, writes, nameVars, dataVars, c2n, c2d, d2c>>

\* The answer to cat, frombigfs and rm: "1", the location, how many chunks.
\* The loops over the chunks do not start if there are none; the local file
\* of a frombigfs is made all the same.
Found ==
    LET chunks == Atoi(n2c[3]) IN
    /\ pc \in {"cat_ack", "rm_ack"}
    /\ Len(n2c) >= 3 /\ Head(n2c) # <<Num(0)>>
    /\ IF chunks = 0
       THEN Prompt
       ELSE Await(IF pc = "cat_ack" THEN "cat_send" ELSE "rm_send",
                  [job EXCEPT !.loc = n2c[2], !.chunks = chunks])
    /\ shown' = IF pc = "cat_ack" /\ chunks = 0
                THEN Delivered(job) ELSE shown
    /\ n2c' = SubSeq(n2c, 4, Len(n2c))
    /\ UNCHANGED <<writes, nameVars, dataVars, c2n, c2d, d2c>>

\* One round of the loop that asks for every chunk before it reads any.
CatSend ==
    /\ pc = "cat_send"
    /\ SendData(Server(job.i), ChunkRequest("cat", job.loc, job.i, <<>>))
    /\ IF job.i + 1 < job.chunks
       THEN Await("cat_send", [job EXCEPT !.i = @ + 1])
       ELSE Await("cat_data", [job EXCEPT !.i = 0])
    /\ UNCHANGED <<shown, writes, nameVars, dataVars, c2n, n2c, d2c>>

\* One round of the loop that reads strings until it gets an empty one.
CatData ==
    LET s == Server(job.i)
        x == Head(d2c[s])
    IN
    /\ pc = "cat_data" /\ d2c[s] # <<>>
    /\ d2c' = [d2c EXCEPT ![s] = Tail(@)]
    /\ IF x.kind # "end"
       THEN Await("cat_data", [job EXCEPT !.got = Append(@, x.data)])
       ELSE IF job.i + 1 < job.chunks
       THEN Await("cat_data", [job EXCEPT !.i = @ + 1])
       ELSE Prompt
    /\ shown' = IF x.kind = "end" /\ job.i + 1 >= job.chunks
                THEN Delivered(job) ELSE shown
    /\ UNCHANGED <<writes, nameVars, dataVars, c2n, n2c, c2d>>

StartRm(n) ==
    /\ pc = "prompt"
    /\ Careful => UserHas(n)
    /\ Await("rm_ack", [Idle EXCEPT !.name = n])
    /\ SendName(<<Word("rm"), n>>)
    /\ UNCHANGED <<shown, writes, nameVars, dataVars, n2c, c2d, d2c>>

\* The data servers do not answer an rm: the client never waits for them.
RmSend ==
    /\ pc = "rm_send"
    /\ SendData(Server(job.i), ChunkRequest("rm", job.loc, job.i, <<>>))
    /\ IF job.i + 1 < job.chunks
       THEN Await("rm_send", [job EXCEPT !.i = @ + 1])
       ELSE Prompt
    /\ UNCHANGED <<shown, writes, nameVars, dataVars, c2n, n2c, d2c>>

StartCp(a, b) ==
    /\ pc = "prompt" /\ writes < MaxWrites
    /\ Await("cp_ack", [Idle EXCEPT !.name = a, !.to = b])
    /\ SendName(<<Word("cp"), a, b>>)
    /\ writes' = writes + 1
    /\ UNCHANGED <<shown, nameVars, dataVars, n2c, c2d, d2c>>

CpAccepted ==
    LET chunks == Atoi(n2c[3]) IN
    /\ pc = "cp_ack" /\ Len(n2c) >= 3 /\ Head(n2c) # <<Num(1)>>
    /\ IF chunks = 0
       THEN Prompt /\ UNCHANGED c2d
       ELSE /\ Await("cp_loc", [job EXCEPT !.loc = n2c[2], !.chunks = chunks])
            /\ SendData(Server(0), ChunkRequest("cp", n2c[2], 0, <<>>))
    /\ n2c' = SubSeq(n2c, 4, Len(n2c))
    /\ UNCHANGED <<shown, writes, nameVars, dataVars, c2n, d2c>>

\* Only server 0 chooses a location; it goes to the name server and into the
\* requests for the other chunks, which are not answered.
CpLocated ==
    LET loca == Head(d2c[Server(0)]).loc IN
    /\ pc = "cp_loc" /\ d2c[Server(0)] # <<>>
    /\ d2c' = [d2c EXCEPT ![Server(0)] = Tail(@)]
    /\ SendName(<<loca>>)
    /\ IF job.chunks > 1
       THEN Await("cp_send", [job EXCEPT !.to = loca, !.i = 1])
       ELSE Prompt
    /\ UNCHANGED <<shown, writes, nameVars, dataVars, n2c, c2d>>

CpSend ==
    /\ pc = "cp_send"
    /\ SendData(Server(job.i), ChunkRequest("cp", job.loc, job.i, job.to))
    /\ IF job.i + 1 < job.chunks
       THEN Await("cp_send", [job EXCEPT !.i = @ + 1])
       ELSE Prompt
    /\ UNCHANGED <<shown, writes, nameVars, dataVars, c2n, n2c, d2c>>

\* A careful user moves no file onto another, and no copy that was not
\* itself copied since: movefile dereferences the node's parent pointer.
StartMv(a, b) ==
    /\ pc = "prompt"
    /\ Careful =>
        /\ \A k \in DOMAIN dir : dir[k].name = a => dir[k].linked
        /\ a = b \/ ~UserHas(a) \/ ~UserHas(b)
    /\ Await("mv_ack", [Idle EXCEPT !.name = a, !.to = b])
    /\ SendName(<<Word("mv"), a, b>>)
    /\ UNCHANGED <<shown, writes, nameVars, dataVars, n2c, c2d, d2c>>

\* The end of mv, and of a cp that is refused: one string was read.
MvDoneOrCpRefused ==
    /\ n2c # <<>>
    /\ pc = "mv_ack" \/ (pc = "cp_ack" /\ Head(n2c) = <<Num(1)>>)
    /\ Prompt
    /\ n2c' = Tail(n2c)
    /\ UNCHANGED <<shown, writes, nameVars, dataVars, c2n, c2d, d2c>>

-----------------------------------------------------------------------------
(* The name server: fileNameServer.c.  A command is taken when all the     *)
(* strings its handler reads before its first write have arrived.          *)

\* Mutant: the last argument is left in the connection.
TakesTooFew(word, k) ==
    /\ nsup /\ nspc = "command"
    /\ Len(c2n) >= k /\ Head(c2n) = Word(word)
    /\ c2n' = SubSeq(c2n, k, Len(c2n))

Takes(word, k) ==
    /\ nsup /\ nspc = "command"
    /\ Len(c2n) >= k /\ Head(c2n) = Word(word)
    /\ c2n' = SubSeq(c2n, k + 1, Len(c2n))

Reply(strings) == n2c' = n2c \o strings

Unlink(k) == SubSeq(dir, 1, k - 1) \o SubSeq(dir, k + 1, Len(dir))

\* tobigfs: agree to a new name, or refuse a name that is taken.
NameToBigFS ==
    /\ Takes("tobigfs", 2)
    /\ IF Exists(c2n[2])
       THEN Reply(<< <<Num(1)>> >>) /\ UNCHANGED <<nspc, nsnew>>
       ELSE /\ Reply(<< <<Num(0)>> >>)
            /\ nspc' = "parts"
            /\ nsnew' = [NoNode EXCEPT !.name = c2n[2], !.text = job.text]
    /\ UNCHANGED <<nsup, dir, clientVars, dataVars, c2d, d2c>>

\* tobigfs, continued: whatever string comes next is the number of chunks.
NameParts ==
    /\ nsup /\ nspc = "parts" /\ c2n # <<>>
    /\ LET parts == Atoi(Head(c2n)) IN
       dir' = Append(dir, [nsnew EXCEPT !.chunks = parts,
                             !.text = IF Len(@) = parts THEN @ ELSE <<>>])
    /\ nspc' = "location" /\ nsnew' = NoNode
    /\ c2n' = Tail(c2n)
    /\ UNCHANGED <<nsup, clientVars, dataVars, n2c, c2d, d2c>>

\* Mutant: the location goes to the first child instead of the new one.
NameLocationFirst ==
    /\ nsup /\ nspc = "location" /\ c2n # <<>>
    /\ dir' = [dir EXCEPT ![1].loc = Head(c2n)]
    /\ nspc' = "command"
    /\ c2n' = Tail(c2n)
    /\ UNCHANGED <<nsup, nsnew, clientVars, dataVars, n2c, c2d, d2c>>

\* tobigfs and cp, concluded: whatever string comes next is the location of
\* the node that was appended last.
NameLocation ==
    /\ nsup /\ nspc = "location" /\ c2n # <<>>
    /\ dir' = [dir EXCEPT ![Len(dir)].loc = Head(c2n)]
    /\ nspc' = "command"
    /\ c2n' = Tail(c2n)
    /\ UNCHANGED <<nsup, nsnew, clientVars, dataVars, n2c, c2d, d2c>>

\* cat and frombigfs.  For a name that is not there the handler answers "0"
\* and then reads the node it did not find: the process dies.
NameCat(op) ==
    /\ Takes(op, 2)
    /\ \/ \E k \in DOMAIN dir :
            /\ dir[k].name = c2n[2]
            /\ Reply(<< <<Num(1)>>, dir[k].loc, <<Num(dir[k].chunks)>> >>)
            /\ UNCHANGED nsup
       \/ ~Exists(c2n[2]) /\ Reply(<< <<Num(0)>> >>) /\ nsup' = FALSE
    /\ UNCHANGED <<nspc, nsnew, dir, clientVars, dataVars, c2d, d2c>>

\* rm: the node is unlinked before its chunks are removed.
NameRm ==
    /\ Takes("rm", 2)
    /\ \/ \E k \in DOMAIN dir :
            /\ dir[k].name = c2n[2]
            /\ dir' = Unlink(k)
            /\ Reply(<< <<Num(1)>>, dir[k].loc, <<Num(dir[k].chunks)>> >>)
            /\ UNCHANGED nsup
       \/ /\ ~Exists(c2n[2]) /\ Reply(<< <<Num(0)>> >>) /\ nsup' = FALSE
          /\ UNCHANGED dir
    /\ UNCHANGED <<nspc, nsnew, clientVars, dataVars, c2d, d2c>>

\* cp: the new node has no parent pointer; the source's is assigned instead.
NameCp ==
    /\ Takes("cp", 3)
    /\ \/ \E k \in DOMAIN dir :
            /\ dir[k].name = c2n[2] /\ ~Exists(c2n[3])
            /\ dir' = Append([dir EXCEPT ![k].linked = TRUE],
                             [dir[k] EXCEPT !.name = c2n[3], !.loc = <<>>,
                                            !.linked = FALSE])
            /\ Reply(<< <<Num(0)>>, dir[k].loc, <<Num(dir[k].chunks)>> >>)
            /\ nspc' = "location"
       \/ /\ ~Exists(c2n[2]) \/ Exists(c2n[3])
          /\ Reply(<< <<Num(1)>> >>)
          /\ UNCHANGED <<nspc, dir>>
    /\ UNCHANGED <<nsup, nsnew, clientVars, dataVars, c2d, d2c>>

\* mv: the source is unlinked before the destination is looked up, so a
\* refusal loses it; a node without a parent pointer kills the process.
NameMv ==
    /\ Takes("mv", 3)
    /\ \/ \E k \in DOMAIN dir :
            /\ dir[k].name = c2n[2] /\ dir[k].linked
            /\ IF \E h \in DOMAIN dir \ {k} : dir[h].name = c2n[3]
               THEN dir' = Unlink(k) /\ Reply(<< <<Num(1)>> >>)
               ELSE /\ dir' = Append(Unlink(k), [dir[k] EXCEPT !.name = c2n[3]])
                    /\ Reply(<< <<Num(0)>> >>)
            /\ UNCHANGED nsup
       \/ /\ \E k \in DOMAIN dir : dir[k].name = c2n[2] /\ ~dir[k].linked
          /\ nsup' = FALSE /\ UNCHANGED <<dir, n2c>>
       \/ /\ ~Exists(c2n[2]) /\ Reply(<< <<Num(1)>> >>)
          /\ UNCHANGED <<dir, nsup>>
    /\ UNCHANGED <<nspc, nsnew, clientVars, dataVars, c2d, d2c>>

\* A string that is no command word is dropped without an answer.
Commands == {Word(w) : w \in Words}

NameIgnores ==
    /\ nsup /\ nspc = "command" /\ c2n # <<>> /\ Head(c2n) \notin Commands
    /\ c2n' = Tail(c2n)
    /\ UNCHANGED <<nameVars, clientVars, dataVars, n2c, c2d, d2c>>

-----------------------------------------------------------------------------
(* The data servers: fileDataServer.c.                                     *)

Requested(s, op) ==
    /\ dsup[s] /\ c2d[s] # <<>> /\ Head(c2d[s]).op = op
    /\ c2d' = [c2d EXCEPT ![s] = Tail(@)]

Answers(s, strings) == d2c' = [d2c EXCEPT ![s] = @ \o strings]

\* Mutants: only one alternative is tried; a taken location is reused.
OneVariant(d, p, q) == q = Variant(p, 0)
ChosenAnyway(d, req, q) == q = req.loc

\* The first alternative of p that is not taken in d.  At most one of the
\* alternatives of a location is made by each write there ever is.
FreeVariant(d, p, q) ==
    \E i \in 0..MaxWrites :
        /\ q = Variant(p, i) /\ q \notin DOMAIN d
        /\ \A j \in 0..(i - 1) : Variant(p, j) \in DOMAIN d

Candidates(p) == {p} \cup {Variant(p, i) : i \in 0..MaxWrites}

\* Where a chunk is stored: the first chunk a server gets avoids a location
\* that is taken, the others reuse it.
Chosen(d, req, q) ==
    IF req.count = 0 /\ req.loc \in DOMAIN d
    THEN FreeVariant(d, req.loc, q) ELSE q = req.loc

DataToBigFS(s) ==
    LET req == Head(c2d[s]) IN
    /\ Requested(s, "tobigfs")
    /\ \E q \in Candidates(req.loc) :
        /\ Chosen(disk[s], req, q)
        /\ disk' = [disk EXCEPT ![s] =
                      Put(Put(@, q, Empty), ChunkPath(q, req.num), req.data)]
        /\ Answers(s, <<Located(q)>>)
    /\ UNCHANGED <<dsup, clientVars, nameVars, c2n, n2c>>

\* cat: an empty chunk is answered by nothing at all, not even by the empty
\* string that ends a chunk; a chunk that is not there kills the process.
DataCat(s) ==
    LET req  == Head(c2d[s])
        path == ChunkPath(req.loc, req.num)
    IN
    /\ Requested(s, "cat")
    /\ \/ /\ path \in DOMAIN disk[s]
          /\ Answers(s, IF disk[s][path] = Empty THEN <<>>
                        ELSE <<Segment(disk[s][path]), EndOfChunk>>)
          /\ UNCHANGED dsup
       \/ /\ path \notin DOMAIN disk[s]
          /\ dsup' = [dsup EXCEPT ![s] = FALSE] /\ UNCHANGED d2c
    /\ UNCHANGED <<disk, clientVars, nameVars, c2n, n2c>>

\* Mutant: only the marker is removed.
DataRmMarker(s) ==
    LET req == Head(c2d[s]) IN
    /\ Requested(s, "rm")
    /\ disk' = [disk EXCEPT ![s] = Drop(@, {req.loc})]
    /\ UNCHANGED <<dsup, clientVars, nameVars, c2n, n2c, d2c>>

\* rm: remove the marker and the chunk; both removals may fail unnoticed.
DataRm(s) ==
    LET req == Head(c2d[s]) IN
    /\ Requested(s, "rm")
    /\ disk' = [disk EXCEPT ![s] =
                  Drop(@, {req.loc, ChunkPath(req.loc, req.num)})]
    /\ UNCHANGED <<dsup, clientVars, nameVars, c2n, n2c, d2c>>

\* cp: for chunk 0 choose a free location and answer it, even if the chunk
\* turns out not to be there, which ends the process.
DataCp(s) ==
    LET req  == Head(c2d[s])
        path == ChunkPath(req.loc, req.num)
    IN
    /\ Requested(s, "cp")
    /\ \E q \in Candidates(req.loc) \cup {req.to} :
        /\ IF req.num = 0 THEN FreeVariant(disk[s], req.loc, q) ELSE q = req.to
        /\ Answers(s, IF req.num = 0 THEN <<Located(q)>> ELSE <<>>)
        /\ \/ /\ path \in DOMAIN disk[s]
              /\ disk' = [disk EXCEPT ![s] =
                            Put(Put(@, q, Empty), ChunkPath(q, req.num), @[path])]
              /\ UNCHANGED dsup
           \/ /\ path \notin DOMAIN disk[s]
              /\ dsup' = [dsup EXCEPT ![s] = FALSE] /\ UNCHANGED disk
    /\ UNCHANGED <<clientVars, nameVars, c2n, n2c>>

-----------------------------------------------------------------------------
(* The system.                                                             *)

\* The local files there are to upload; the empty text is a missing file.
Texts == {LocalText(writes + 1, n, t) : n \in 1..MaxChunks, t \in Tails}
         \cup {<<>>}

User ==
    \/ \E n \in Names, text \in Texts : StartPut(n, text)
    \/ \E n \in Names : StartCat(n) \/ StartGet(n) \/ StartRm(n)
    \/ \E a, b \in Names : StartCp(a, b)
    \/ \E a, b \in Names : StartMv(a, b)

Client ==
    \/ PutRefused \/ PutAccepted \/ PutLocated
    \/ NotFound \/ Found \/ CatSend \/ CatData \/ RmSend
    \/ CpAccepted \/ CpLocated \/ CpSend \/ MvDoneOrCpRefused

NameServer ==
    \/ NameToBigFS \/ NameParts \/ NameLocation
    \/ NameCat("cat") \/ NameCat("frombigfs") \/ NameRm \/ NameCp \/ NameMv
    \/ NameIgnores

DataServer(s) == DataToBigFS(s) \/ DataCat(s) \/ DataRm(s) \/ DataCp(s)

Next == User \/ Client \/ NameServer \/ \E s \in Servers : DataServer(s)

Spec == Init /\ [][Next]_vars

\* Each process runs its loop for ever; the user need not type anything.
FairSpec ==
    /\ Spec
    /\ WF_vars(Client)
    /\ WF_vars(NameServer)
    /\ \A s \in Servers : WF_vars(DataServer(s))
-----------------------------------------------------------------------------
(* What is checked.                                                        *)

\* Every variable holds a value of its type; a data directory is a function
\* from paths to contents.
ClientType ==
    /\ pc \in {"prompt", "put_ack", "put_loc", "cat_ack", "cat_send",
               "cat_data", "rm_ack", "rm_send", "cp_ack", "cp_loc",
               "cp_send", "mv_ack"}
    /\ job \in Job /\ (pc = "put_loc" => job.chunks = Len(job.text))
    /\ shown \in Delivery
    /\ writes \in 0..MaxWrites

NameType ==
    /\ nspc \in {"command", "parts", "location"}
    /\ nsnew \in Node /\ nsup \in BOOLEAN
    /\ dir \in Seq(Node)

Directory(d) ==
    /\ d = [p \in DOMAIN d |-> d[p]]
    /\ \A p \in DOMAIN d : p \in String /\ d[p] \in Block

DataType ==
    /\ disk = [s \in Servers |-> disk[s]]
    /\ \A s \in Servers : Directory(disk[s])
    /\ dsup \in [Servers -> BOOLEAN]

WireType ==
    /\ c2n \in Seq(String) /\ n2c \in Seq(String)
    /\ c2d \in [Servers -> Seq(Request)]
    /\ d2c \in [Servers -> Seq(Answer)]

TypeOK == ClientType /\ NameType /\ DataType /\ WireType

\* No two nodes of the directory have the same name: tobigfs looks a name up
\* long before it links the node, cp and mv look it up on the other side of
\* a list that changes under them.
UniqueNames ==
    \A k, h \in DOMAIN dir : dir[k].name = dir[h].name => k = h

\* Location answers carry no name, so the client can tell them apart only
\* if at most one is under way at any time, for all data servers together.
Asks(r) == r.op = "tobigfs" \/ (r.op = "cp" /\ r.num = 0)

Pending(s) ==
    Cardinality({p \in DOMAIN c2d[s] : Asks(c2d[s][p])})
    + Cardinality({p \in DOMAIN d2c[s] : d2c[s][p].kind = "loc"})

StopAndWait ==
    /\ \A s \in Servers : Pending(s) <= 1
    /\ \A s, t \in Servers : Pending(s) = 1 /\ Pending(t) = 1 => s = t

\* When the client prompts, no answer is left over that the next command
\* would take for its own, and the name server is either dispatching or is
\* about to receive exactly the strings it waits for.
InSync ==
    pc = "prompt" =>
        /\ n2c = <<>> /\ \A s \in Servers : d2c[s] = <<>>
        /\ \/ nspc = "command" /\ c2n = <<>>
           \/ nspc = "parts" /\ Len(c2n) = 2
           \/ nspc = "location" /\ Len(c2n) = 1

\* No process of the system is killed by a command it was sent.
NoneCrashes == nsup /\ \A s \in Servers : dsup[s]

\* No two files share a location, neither in the directory nor with what an
\* earlier session left, although a removed file frees its location while
\* requests for its chunks are still under way.
DistinctLocations ==
    LET placed == {k \in DOMAIN dir : dir[k].loc # <<>>} IN
    /\ \A k, h \in placed : dir[k].loc = dir[h].loc => k = h
    /\ \A k \in placed, f \in OldFiles : dir[k].loc # f.loc

\* Once nothing is under way, each data server holds exactly the chunks and
\* markers of the files in the directory (and what was there before): no
\* block is lost or overwritten, none leaks.
Quiet ==
    /\ pc = "prompt" /\ nspc = "command"
    /\ \A s \in Servers : c2d[s] = <<>>

DisksMatchDirectory ==
    Quiet => \A s \in Servers :
        {<<p, disk[s][p]>> : p \in DOMAIN disk[s]} =
            OldPairs(s)
            \cup UNION {Kept(s, dir[k].loc, dir[k].text) : k \in DOMAIN dir}

\* Whatever the user types: a file that is still in the directory has all its
\* chunks where the name server says they are.  A lost node, a crashed name
\* server and a conversation out of step never cost the blocks of a file.
FilesStayWhole ==
    Quiet => \A s \in Servers, k \in DOMAIN dir :
        \A x \in Kept(s, dir[k].loc, dir[k].text) :
            x[1] \in DOMAIN disk[s] /\ disk[s][x[1]] = x[2]

\* The commands do to the files what FileStore says: cat prints the blocks
\* that were stored, in order, and frombigfs saves them with a NUL among them.
StoredUnder(n) == dir[CHOOSE k \in DOMAIN dir : dir[k].name = n].text

Promise == INSTANCE FileStore WITH
    Name    <- Names,
    Content <- {LocalText(u, n, t) :
                    u \in 1..MaxWrites, n \in 1..MaxChunks, t \in Tails},
    files   <- [n \in {dir[k].name : k \in DOMAIN dir} |-> StoredUnder(n)]

KeepsPromise == Promise!Spec

\* Every command comes back to the prompt.
Completes == pc # "prompt" ~> pc = "prompt"

=============================================================================
