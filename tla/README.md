# Verification of NetworkProgrammingAssignments

TLA+ modules, TLC configurations and TLAPS proofs for the programs of this
repository. The repository holds C programs of a network programming course:
a small distributed file system (BigFS), a cluster shell, a shell with
pipelines over shared memory and message queues, a multicast chat client, and
lab exercises. There are no tests; the documents are PDFs beside the sources.

## 1. Inventory

| Part | Sources | State | Operations | Interaction |
|---|---|---|---|---|
| BigFS name server | `Assignment2P1/fileNameServer.c` | tree of nodes (`child`, `next`, `parent`), `cur`; which string a handler waits for | `ls mkdir cd tobigfs mv cat frombigfs rm cp` | one TCP connection to the client |
| BigFS client | `Assignment2P1/Client.c` | the command in progress, `sockfd`, `datafds[]` | the same commands, split over the servers | strings to the name server, requests to every data server |
| BigFS data server | `Assignment2P1/fileDataServer.c` | directory `data/` on disk | `tobigfs cat rm cp` | one TCP connection to the client; no contact with the name server after start-up |
| Stream readers | `readfromClient/Name/Data`, `copyToString`, `datacopyToString` in all three | two buffers, `start1/2`, `bufsel`, `cur1/2`, `cursel` | append what was read; take a string | two threads, shared variables, no lock |
| Cluster shell | `Assignment1P2/` | client: `list[i].active`, `sockfds[i]`, the line; server: connection, `ispipe`, working directory | dial, run a line on one node, on all, on a pipeline of nodes; `nodes`, `exit` | TCP, `SIGUSR1` and pipes between forked readers and the parent |
| Shell | `Assignment1P1/` | the pipeline in progress; a message queue and a shared memory name common to all lines | lines with `\|`, `S`, `#`, `##`, in the foreground or with `&`; redirection, daemons | fork, pipes, a message queue, shared memory |
| Chat | `Assignment3P1/` | table of 100 courses in shared memory, with the flags asked (`send`) and answered (`recv`) | ask, tell, receive | UDP multicast; a sender and a forked receiver per client, no lock |
| Sniffer | `Assignment3P2/` | none | print headers | raw socket |
| Labs | `labs/` | voting ring, load balancer counters, semaphores, select table | | signals, pipes, System V IPC |

What is hard in BigFS, which is the core of the repository:

* three programs (and any number of data servers) in parallel, without request
  numbers: every answer is told from every other only by its position in a
  stream; a handler that waits for one string more or less than its peer sends
  puts the whole session out of step;
* commands that are not answered (`rm`, the later chunks of `cp`) while the
  next command is already under way;
* names of files on the data servers that are built by appending: chunk
  numbers, and `(0)`, `(1)`, ... when a location is taken;
* metadata that changes before the blocks do (`rm`, `cp`, `tobigfs`), `mv` that
  unlinks before it validates, failed lookups after which the code goes on;
* in each process, a reading thread and a main thread that share two buffers
  and busy-wait on each other's variables.

In the cluster shell: a handler that interrupts a loop over the same table; a
server for which the same bytes mean a home directory, a flag or a command,
depending on how it got there; servers and clients that come back. In the
shells' pipelines: processes started one after the other that hand text on
through pipes of bounded size, and names that all lines share.

`PROJECT.json` lists every hazard at its line, with the properties that cover it or
the reason why none does: some of them do strike, and the properties are for
people and schedules that avoid them.

What makes each part correct: for BigFS, that the commands do to a map from
names to contents what their names say, that blocks are neither lost, leaked nor
overwritten, that no process dies and that every command ends; for the readers,
that the strings taken are those that were sent, in order, and that no index
leaves a buffer; for the directory tree, that every entry stays reachable, once,
and that paths mean what they say; for the shells, that a pipeline ends and its output is that of
its last stage; for the chat, that
the table says what was sent, and that people are warned by it.

## 2. Plan

| Order | Module | Content | Status |
|---|---|---|---|
| 1 | `FileStore` | abstract specification of the commands on files | done |
| 2 | `BigFS`, `MCBigFS` | the three programs, implementing `FileStore` | done |
| 3 | `BigFSProof`, `BigFSDiskProof`, `BigFSPromiseProof` | types, unique names, the conversations with the servers, the disks, the implementation of `FileStore` | done |
| 4 | `ReadBuffer`, `MCReadBuffer`, `ReadBufferProof` | the two threads and their buffers | done |
| 5 | `NameSpace`, `NameTree`, `MCNameTree`, `NameTreeProof` | abstract tree of paths; the node structure with its pointers: `mkdir`, `cd`, `tobigfs`, `rm`, `mv` and `cp` with paths | done |
| 6 | `ClusterShell`, `MCClusterShell`, `ClusterShellProof` | the client's dialling loop, reader and signal handler; the servers; deaths and restarts | done |
| 7 | `ShellPipeline`, `MCShellPipeline`, `ShellPipelineProof` | stages, pipes of bounded capacity, queue and shared memory, lines side by side | done |
| 8 | `ChatBoard`, `MCChatBoard`, `ChatBoardProof` | the shared table of courses | done |
| 9 | labs | voting ring, load balancer | left out, see 10 |

## 3. BigFS

`BigFS.tla` models the commands on files in one directory that holds files only.
Every connection is a FIFO queue: of strings between client and name server, of
requests and answers between client and each data server. (A request is the
three or four strings that the client writes without a pause; the split of a
stream into strings is the subject of `ReadBuffer`.) A string is a sequence of
tokens, so that `f` with `1` appended equals the name `f1`, as on disk.

| Variable | Code |
|---|---|
| `pc`, `job` | the point where the client's main loop blocks, and the locals of `transfertoBigFS`, `printfile`, `savefile`, `removefile`, `copyfile` |
| `shown` | what `cat` printed or `frombigfs` saved last: blocks, and how many NUL bytes went into the local file |
| `c2n`, `n2c`, `c2d`, `d2c` | the TCP connections |
| `nspc`, `nsnew` | the string the name server's handler waits for, and the node it will link |
| `dir` | the list below `cur`, in order; `linked` tells whether `parent` was ever assigned; `text` is a ghost |
| `disk` | `data/` of each server, a function from paths to contents |
| `nsup`, `dsup` | the process has not died of a NULL dereference or `exit` |
| `writes` | how many `tobigfs` and `cp` were typed: bound only |

A client action runs from one blocking read to the next; the loops that send
requests without waiting (`CatSend`, `RmSend`, `CpSend`) take one round per
action, so that the data servers work in between. A name server action is a
handler up to the next string it waits for, a data server action is a handler.
Reading the uninitialised `parent` of a copied node is modelled as the death of
the process: nothing is ever freed by the name server, so `malloc` returns fresh
zero pages and the pointer is NULL.

`cat` and `frombigfs` are one conversation with the servers (`StartCat`, `StartGet`,
then `Found`, `CatSend`, `CatData`) with two ends. `savefile` prints the blocks into a
stdio stream, writes one NUL byte to the stream's descriptor and closes the
stream. The byte overtakes what stdio still holds back, so it stands in front of
the last part of the text, which for a short file is all of it; how long that
part is depends on the C library's buffer. `Delivery` therefore counts the NUL byte and leaves its place
open, and `FileStore` promises for `frombigfs` (`Save`) the blocks with one NUL byte among
them, where it promises for `cat` (`Show`) the blocks alone. A saved file is thus not the file that was
stored. (Nor can it be stored again, since the readers end a string at a NUL;
local files with NUL bytes are not modelled.)

`Careful` restricts the user to what the code can serve: local files that exist,
`cat`, `frombigfs` and `rm` of names that are there (the name server answers `0` to
others and then reads the NULL node, `fileNameServer.c:384`, `423` and `677`), `mv` to a free name of a
node whose parent pointer was assigned. `Tails` says whether the last block may
be empty. `OldFiles` is what an earlier session left in `data/`: the name
server starts with an empty tree, the data servers do not.

| Run | Shows |
|---|---|
| `BigFS.cfg` | careful user, two servers, files of up to three blocks, two writes, leftovers of a file `f`: `KeepsPromise` (the step-by-step implementation of `FileStore`, hence that `cat` prints what was stored and `frombigfs` saves it with one NUL byte), `DisksMatchDirectory` (no block lost or leaked when nothing is under way), `DistinctLocations`, `InSync`, `NoneCrashes`, `Completes` |
| `BigFSAnyUse.cfg` | any user, empty last blocks: `UniqueNames`, `StopAndWait`, and `FilesStayWhole` (what is still listed is still there) |
| `BigFSNumeral.cfg` | finding: names that end in a numeral collide with chunks |
| `BigFSEmptyTail.cfg` | finding: an empty last chunk makes `cat` wait for ever |

Bounds. Three blocks on two servers give one server two chunks, which the first
may have named; two writes with a leftover give two files that compete for one
location, a copy of a file, and a file stored again after it was removed or
renamed. Any number of `cat`, `rm`, `mv` may be typed. The second run needs only
two blocks: an empty one, and one on each server.

`BigFSAnyUse.cfg`, `BigFSEmptyTail.cfg` and the `ReadBuffer` runs turn deadlock
checking off: the session of a careless user, a `cat` that hangs and two
threads that only spin do stop.

Fairness. `FairSpec` has weak fairness of the client, of the name server and of
each data server: each is a loop that runs whenever its input is there. Nothing
is assumed about the user.

## 4. ReadBuffer

`ReadBuffer.tla` models one pair of threads at the granularity of their accesses
to shared variables (the programs are built without optimisation, see `run.sh`).
A byte is its position in the stream, so `InOrder` says that byte `i` is taken
`i`-th. The actions of the reading thread are `Switch`/`Stay` (the test at the
head of its loop), `ReadBytes` or `ReadNothing`, and `CountBytes` (`start += n`);
those of the main thread are the single comparisons of `copyToString` and
`TakeByte`.

The design works only if four things do not happen: a read that ends *exactly*
at `MAX`; a count between the two comparisons of `cur>=start && start>MAX`
(*torn*); a main thread that returns to a buffer before the reading thread has
reset its mark (*early*); a reading thread that returns to a buffer before the
main thread has left it (*overrun*). `Excluded` names those that a run leaves
out. TLC finds a counterexample to `InOrder` whenever one of the four is allowed,
unless the stream is shorter than `MAX`: then every schedule is safe, which
`ReadBufferProof` proves.

| Run | Shows |
|---|---|
| `ReadBufferLaps.cfg` | four races excluded, sixteen bytes over buffers of six: more than two laps; `InOrder`, `InBounds`, `Delivered` |
| `ReadBufferEarly.cfg` | finding: with `select()` in `readfromData`, *early* is the normal case, and old bytes are delivered again |

Fairness of both threads is that of the operating system's scheduler; the loop
around `read()` gets every byte that was sent. The strings of the run are at
most `MAX` bytes long, as all strings of the programs are but the answer to `ls`
in a large directory; a longer one leaves a buffer without rewinding the other.

## 5. NameTree

`BigFS` keeps the name server's tree to one directory of files and looks at what
happens between the programs; `NameTree.tla` looks at the tree itself. A handler
of the name server assigns its pointers without a string from outside in
between (but for the two that `tobigfs` and `cp` wait for, which change no
pointer another handler could see: no other handler runs), so a handler is one
action.

| Variable | Code |
|---|---|
| `name`, `type`, `child`, `next`, `parent` | the fields of `struct node`, one function each; node 0 is `home` |
| `used` | how many nodes `malloc` has returned |
| `cur` | the global `cur`, which may be NULL (`Nil`) |
| `up` | `"dead"` after a NULL dereference, `"hangs"` in a `while(temp!=NULL)` over a cyclic list |
| `awaits` | `copyfile` waits for a location that the client does not send: a directory has no chunks |
| `removed` | ghost: what `rm` took out of the tree, with everything below |

`At` is the walk along `next` pointers, `Find` the lookup by name, `Resolve` the
loop over the components of a path (with the type test of `cd`, without it in
`mv` and `cp`), `Linked` the insertion at the end of a list. `mv` is the
composition of `Unlinked` and `Relink`, because the code looks the destination
up in the tree without the source and leaves it out when it refuses.

`NameSpace.tla` is what this should amount to: a map from paths to `"file"` or
`"directory"` and a current path. `Entries` reads that map off the pointers.

The code keeps this promise only for some uses. `Habits` names those that break
it, and a run says in `Avoids` which of them its user does not have: `mkdir` of a
name that is taken, paths above `home`, `rm` or `cp` of what is no file, an `mv`
that is refused, an `mv` of a directory into itself, and an `mv` of a node whose
`parent` pointer is not where it is listed, which is every source of an earlier
`cp`.

| Run | Shows |
|---|---|
| `NameTree.cfg` | all habits avoided: `ProperTree` (each node in one list, no circle, `..` leads where the directory is listed), `NothingLost`, `Survives`, and `KeepsNames`, the implementation of `NameSpace` |
| `NameTreeAnyUse.cfg` | anything is typed: the pointers become arbitrarily twisted and `FilesAreLeaves` still holds |
| `NameTreeStale.cfg` | finding: only stale parents are allowed, and `NothingLost` fails: `cp` of a file, then `mv` of it, loses the copy |

Bounds. Three nodes below `home`, two names and paths of up to two components
give a directory with two entries, directories below one another, a move of a
whole subtree, of the current directory and through `..`, and a name that two
directories share; commands are unlimited but for the nodes they allocate. The
run for any use has two nodes and one name, enough for a list in a circle, a
directory in itself, a stale parent, and `home` in the list of another node.
It may end in a dead server, so it does not check deadlock.

Names with a slash in `mkdir`, and what `tobigfs` makes of a local path, are left
out; `ls`, `cat` and `frombigfs` assign no pointer.

## 6. ChatBoard

`ChatBoard.tla` models the clients of one or more hosts. `board` is the shared
memory of each host, `receiver` and `sender` are what the two processes of each
client are doing, `sent` is every message ever sent to the group: since UDP may
lose, delay, duplicate and reorder them, a receiver may get any of them at any
time, or never. A round of a loop over the table is one action, and so is each of
the two assignments to an entry; `Start`, `Quit` and `Interrupt` start and end
the processes at any point, and the table outlives them. An interrupt inside
`strcpy` is left out.

Nothing locks the table. What saves it is `bind()`: the second receiver on a port
of a host exits, so that one receiver writes (`OneGroup`: all clients of a host
are in one group). With two groups on one host, two receivers write and every
property but `TypeOK` can fail; the mutant `BindAnyway` is that case.

| Run | Shows |
|---|---|
| `ChatBoard.cfg` | two clients, three courses, a table of two slots: `InOrder`, `NoRumours`, `Warned`, `Remembers`, `Recorded` |

Bounds. Two clients compete for the port and take over from one another; three
courses do not fit into two slots; `MaxSent` = 3 different messages fill the
table and overflow it. Clients and courses are symmetric. Each message may be
received, and each client restarted, any number of times.

## 7. ClusterShell

`ClusterShell.tla` models one client and the servers of the nodes `1..N`. The
client is its main thread, which is in the loop of `initializesockets` or in the
handler of `SIGUSR1`, and the reader that waits at the keyboard.

| Variable | Code |
|---|---|
| `loop`, `spot` | where the dialling loop is, and the `i` it is at: looking, between `connect()` and `active = 1`, between that and the send of `HOME` |
| `active` | `list[i].active` |
| `shell` | reader (`prompt`, `typed`) and handler: between nodes, about to send the flag, the command or the input, reading, about to dial again; or the client has exited |
| `line`, `node`, `typed` | the line, the `i` of `runcommand`, how many lines were typed |
| `link`, `inbox`, `reply` | for each node the far end of `sockfds[i]`: in the queue of a listening socket, held by the server, on a socket that nobody accepts from, shut, or none; what was sent on it and not yet read; whether output is on the way back |
| `srv`, `flag`, `job` | where the server's loop is, `ispipe`, the command it read |
| `stale` | listening sockets of earlier images of the server |
| `ran`, `told` | ghosts |

A stream is counted in units, and a read takes what has arrived up to its
limit, so that a server that is out of step reads the tail of one message as the
next. `Dial`, `Mark` and `Greet` are separate because the handler may come in
between. `Restart` is the `execvp` of `run.sh` after the end of the connection,
which leaves the listening socket open: with `SO_REUSEPORT` it gets a share of
the connections from then on (`Listeners`). `Kill` and `Start` end and start
servers at any time. `Abort` ends the client at any time, in the middle of a line
as well: Ctrl-C, which goes to the client's children too. A connection that no
server has accepted keeps what was sent on it, and a server that is still in
`waitpid` for an earlier program accepts it later and runs the command of a client
that is gone. `Return` starts the client again when all servers have noticed its
end.

Five habits (`Habits`) break the protocol, and the run has people with all five
and with none of them: a client that is killed, a line executed while a new connection waits to be
greeted, a server killed in that time, a server started again before the client
noticed its end (its next connection gets no `HOME`, and the server takes the
flag and the command for it), and a client that returns after the servers have
restarted themselves (its connections may go to the stale sockets and it waits
for ever: a run of the two programs shows this as well).

| Run | Shows |
|---|---|
| `ClusterShell.cfg` | for everybody: `AtMostOnce`, `WaitedFor` (a server runs a command only while the client waits for it, or after the client was killed there: then it is the last one typed, at the node the client was at), `ActiveIsConnected`; without the habits: `InStep`, `Obeyed` (what was sent to a node that lives has been executed when the client goes on), `Responds`, `Recovers` |

Bounds. Two nodes, two lines and one death, of a server or of the client: a line
over both nodes with a death in between, a command to a node that came back and, where the second line is
`exit`, a restart of every process. Deadlock checking is off: nobody must type.

Fairness. Weak fairness of the handler, of each `Dial`, of the steps after it
and of each server. The dialling loop visits all nodes in turn and stands still
only while the handler runs, which `Responds` bounds. Nothing is assumed about
those who type, kill and start, nor that a program writes output; `waitpid`
returns, which assumes that commands end.

## 8. ShellPipeline

`ShellPipeline.tla` models lines of `Stages` commands, each line executed by a
process of its own, a job. `kind` says how the stages are joined; the five kinds
share the skeleton fork, wait, hand on, and differ in what is done where:

| Action | `\|` | `S` | `#` | `##` | cluster shell |
|---|---|---|---|---|---|
| `Begin` | | `shm_open`, `mmap` | `msgget` | | |
| `Prepare` | | `strcpy` from the memory | `msgrcv` | | |
| `Fork` | stage reads the pipe before | stage reads `temppipe` | the same | the first or second copy | stage reads `temppipe`, a helper is forked too |
| `Close` / `Feed` / `Help` | close the writing end | write `temppipe` | write `temppipe` | close | the helper reads the common pipe and writes `temppipe` |
| `Unlink`, `Open` | | `shm_unlink`, `shm_open` | | | |
| `Wait` | `wait(NULL)` | `wait(NULL)` | `wait(NULL)` | `wait(NULL)` | `waitpid`, `wait(NULL)` |
| `Collect` | | read, to the memory | read, `msgsnd` | read, write to both pipes | |
| `Show`, `Remove` | | print, `shm_unlink` | `msgrcv`, print, `IPC_RMID` | | read, print |

A stage is a program that reads its input to the end, or not at all, then writes
some number of units, waiting while the pipe is full, and ends. Units carry the
job, the stage and their position, so a text has one origin. `queue`, `box` and
`qid` are the message queue, its messages and each job's `msgid`; `name`, `mem`
and `seg` the name `shmpipe`, the memory behind it and what each job mapped:
`shm_unlink` takes the name away and not the memory.

The signs do not hand a text on as it is. `S` prints it into the memory with a
newline behind it, and `S` and `#` write the whole buffer of `MAX_SIZE` bytes into
the next stage, of which the text is only the beginning (`Filled`; `Pad` stands for
the rest, whatever it is). `Handed` is what a stage should read therefore, and
`Displayed` what the terminal should show.

The shell looks for the first command of a line only. The process of another
that is not found does not end with the failed `execv`, but goes on after it:

* for `S` and `#` as a second job (`ForkAstray`), with the first one's place in the
  loop, its text, its queue and its memory, and the common pipe for itself while
  the first one waits. It executes the rest of the line (`GoOn`), then shows the
  result and removes queue or name. The first one is ended by `SIGPIPE` if that
  happens before it writes (`Unread`), or else waits for it (`Bury`) and goes on
  over the rest of the line again, or waits for ever, as for `ls # foo`;
* for `|` in the loop of `pipecommand` (`ForkLost`), where it forks one process after
  the other, each announced in the pipe that the next stage reads (`Babble`); the
  process of the last stage ends;
* in the cluster shell it ends;
* for `##` it becomes the first command of the line, given the whole line as
  arguments, which is a program like any other.

The habits a user may avoid: `silent` stages where a read waits for output,
`long` output that does not fit a pipe or a buffer, `deaf` stages that end
without reading, lines in the `background`, and `mistyped` commands, which are not
found.

| Run | Shows |
|---|---|
| `ShellPipeline.cfg` | user without habits: `Composes` (each stage reads what its sign makes of the text before it, the terminal shows the last, and the prompt is not back earlier), `PromptReturns`; any user: `PipesCompose` (`\|` may hang but never mixes texts, as long as its commands exist); user without deaf stages, lines side by side and commands not found included: `LeavesNothing` |

With `deaf` stages `LeavesNothing` fails: the job is ended by `SIGPIPE` before
it removes the queue, and a later line receives the old message. With a command
that is not found `PipesCompose` fails: the next stage of `ls | foo | wc` reads
the announcements.

Bounds. Two jobs: two lines meet at the queue and at the name, in any
interleaving, or follow one another, or one line has a second job astray. Three
stages give one in the middle, which is both fed and read; the lengths are
empty, one unit, and more than `MaxSize`, `MaxBuf` and a pipe's capacity. The users of
the run have no habit, all but `deaf`, or all but `background`: lines side by side
with deaf stages are left to the proofs, which are for every set of habits.
Deadlock checking is off: a job may wait for ever.

Fairness. Weak fairness of the shell's `wait`, of each job, stage and helper:
they are processes, and the programs of the stages are assumed to come to an
end. Nothing is assumed about the user.

## 9. What is proved

`BigFSProof.tla`, under the assumption `BigFSConstants` (any finite number of
servers and any names, blocks, leftovers and bounds):

* `TypeCorrect`: `Spec => []TypeOK`. One lemma per action; the only part that is
  not a type, `pc = "put_loc" => job.chunks = Len(job.text)`, is what makes
  `job.text[next + 1]` in the next request defined.
* `NamesStayUnique`: `Spec => []UniqueNames`. Not inductive as it stands: between
  the lookup of `tobigfs` and the linking of its node the promised name must stay
  free. The strengthening `NamesInv` adds `PromisedNameFree`; it holds because the
  single-threaded name server takes no other command meanwhile.
* `OneLocationAtATime`: `Spec => []StopAndWait`, whatever the user types. Neither side
  of a connection matches answers to requests, so the invariant `Talk` counts
  what is under way: per data server the client is storing (`Storing`), reading
  (`Reading`) or has nothing outstanding (`Silent`), with the numbers of requests,
  of blocks and of locations on the wires that go with each.
* `CourseAlways`: `Spec => []Course`, whatever the user types: the conversation
  with the name server is in step (`Sync`), or the upload of a missing file has
  put it out of step for good (`Astray`), or a `mv` has killed the name server
  (`Stuck`). In step, while the client waits for an answer, either the command is
  still to be read (`Waits`) or it is answered (`Served`); the words before the
  command are those the name server waits for (`Needs`). The number of chunks
  that `tobigfs` and `cp` send must be positive, or the name server would not ask
  for the location: hence `HaveChunks` (every node of the directory has chunks)
  and `SomeParts`.
* `AlwaysInStep`: `Careful => (Spec => []InSync)`. A careful user stores no missing
  file, so the conversation never goes astray, and a stuck client is not at
  the prompt.

`BigFSDiskProof.tla`, under the hypothesis `NoNumerals`: no name the user types ends
with a numeral, and what an earlier session left are such files, each with a
chunk and a location of its own. Without it the theorems are false: the
finding of `BigFSNumeral.cfg` is a file `f1` that is taken for a chunk of `f`.

* `FilesAlwaysWhole`: `Spec => []FilesStayWhole`, and `DataServersLive`: no data server
  is asked for a chunk it has not got, both whatever the user types.
* `DisksAlwaysMatch`, `LocationsStayDistinct`, `AlwaysAlive`: `DisksMatchDirectory`,
  `DistinctLocations` and `NoneCrashes`, for a careful user.

The argument. Requests for chunks are sent long before they are served, so the
invariant `DiskInv` speaks of the disks as they will be: `Tracks(V)` says that
the requests under way turn each disk into `V[s]`, and that each can be served
when its turn comes (`Ahead`). A request for a location is the exception, because
the server has still to choose; but it is alone in its queue (`AsksLast`).
`Stores(V, F)` says that the disks to be hold exactly what a ledger `F` lists: per
location a text, and which of its chunks are there, since a file grows and
shrinks by one chunk at a time. `Books(F)` ties the ledger to the name server, the
client and the strings between them: the file that is growing and how far
(`Extents`), the place that has no node yet or no longer (`Places`), the nodes
(`Listing`), what the client was told (`Jobs`), and that a careful user's
places all have a node (`Known`). It leans on `Entries`, which gives every node
the number of chunks of its text. When the conversation with the name server is
lost (`Lost`) the books are closed: only requests that can be served are left,
and the system is never quiet again. `V` and `F` are not variables of the model:
each step shows which to take next. `AlwaysAlive` needs `Polite` besides: what a
careful user knew of the files when a command was typed (`UserHas`, `Movable`)
is still true when the name server takes it.

`BigFSPromiseProof.tla`, for a careful user and under `NoNumerals`:

* `BigFSKeepsPromise`: `Spec => KeepsPromise`, the refinement of `FileStore`. The
  initial states map to the initial state; a step of the name server that
  changes the directory maps to `Create`, `Remove`, `Copy` or `Rename`, the step of
  the client that delivers the last block of a file maps to `Show` for `cat` and to
  `Save` for `frombigfs`, and every other step to a stutter.

The directory is a sequence of nodes, `files` a function. Since names are unique,
the pairs of a node's name and text (`Files`) are such a function (`Maps`), and
what a step does to the pairs (`MapCreate`, `MapRemove`, `MapRename`) gives what it
does to the function. That names and texts are those of the constants is `Stock`.
`Show` and `Save` are the harder half: the client collects the blocks of a file from all
servers, over connections of their own, and never checks that a block is of the
file it asked for. `Fetching` says that it is. While a file is read the name
server rests and the node stays; what the client has got is the beginning of its
text (`Got`); and per server the client has asked for the blocks up to some
place, the server has answered a beginning of these requests, and the client
has read a beginning of the answers (`Flow`). Answers and requests under way are
chains from one of these places to the next (`Chain`). A block read is that of the
text because the disk the server reads from is already the one `Tracks` foresees:
behind a request of `cat` comes none that changes the disk (last conjunct of
`Leads`). `Offer` carries the node's location and number of chunks from the name
server's answer to the first request.

`ReadBufferProof.tla`, under `BufferConstantsOK`:

* `BufferTypeCorrect`: `Spec => []TypeOK`, for every schedule: no read moves a fill
  mark behind the end of its buffer. The strengthening `Fits` is about a read that
  is not counted yet: it still fits, and it is not empty.
* `DeliveredInOrder`: `Tame => (Spec => [](InOrder /\ InBounds))`, where `Tame` is
  a stream shorter than `MAX` under every schedule, or any stream whose strings
  fit (`StringsFit`) without the four races. The inductive invariant `Ind` places
  both buffers in the stream (`Base`, `Offset`), says what the comparisons of
  `copyToString` have established (`Control`), and that the buffer to come is
  rewound unless no string ended in the present one (`Rewound`), which a full
  buffer rules out. `ReadsStayInside` is its second half.

`ChatBoardProof.tla`, under `ChatConstantsOK` and, but for the first, `OneGroup`:

* `BoardTypeCorrect`: `Spec => []TypeOK`, for every schedule and any groups.
* `NoCourseTwice`: `[]InOrder`. The loop of a receiver looks at one slot after
  the other, so the invariant says what it has seen so far (`Searched`: no slot
  it passed is free or its course's, the slot it took is still free). This
  stays true because nobody else writes (`Exclusive`).
* `TableTellsTruth`: `[]NoRumours`. An entry gets its name before its flag, so the
  name must not find a flag there (`FreeIsBlank`), and the message in hand must
  have been sent (`InHand`).
* `TableRemembers`: the action property `Remembers`, from the same invariant.
* `SendersAreWarned`: `[]Warned`. A sender reads the slots one after the other
  while a receiver writes them; `Told` says what it has established about those
  it passed, and that entries stay (`TableRemembers`) and tell the truth
  (`TableTellsTruth`) keeps this so.
* `MessagesAreRecorded`: the action property `Recorded`, from `Searched`.

`ClusterShellProof.tla`, under `ClusterConstantsOK`, for people of any manners:

* `ShellTypeCorrect`: `Spec => []TypeOK`.
* `NoneForgotten`: `[]ActiveIsConnected`. The invariant `Connections` relates the
  table, the dialling loop and the servers' ends: the node between `connect()`
  and `active = 1` has a connection (`Marked`), a server past `accept` holds its end
  until `close` (`Attached`), the client gives a connection up only when the
  server has done with it (`GivenUp`), and the handler talks to active nodes
  (`TalksToActive`).
* `CommandsRunOnce` and `CommandsAreWaitedFor`: `[]AtMostOnce` and `[]WaitedFor`. The
  invariant `Commands` says that at most one command unit is on the way
  (`OneSent`), that it is the present line's, and that a node whose server has
  not read it has executed only earlier ones (`Fresh`, `Past`); it does not need
  the server to be in step. The unit of a client that was killed stays the only
  one, since the client returns only when none of its connections is left: what
  is not connected holds none (`Unheard`).
* `ConversationsInStep`: `[]InStep`. For people without the bad habits the
  invariant `Polite` describes every connection from both ends (`Neat`, for each
  node): whether it is being greeted (`Greeting`) or cut (`Unconnected`), and that a
  server finds on it exactly what the client has sent of the present line and
  it has not read, before `accept` (`Queues`) and after (`Listens`).
* `CommandsObeyed`: `[]Obeyed`. On top of `Polite`, `ToldOnes` says that a node the
  client has sent the line to has executed it as its last command (`HasRun`)
  or is just about to read or run it (`InHand`).

`ShellPipelineProof.tla`, under `PipelineConstantsOK`, for any number of lines and
stages, any programs, those that do not exist included, and any capacities:

* `PipelineTypeCorrect`: `[]TypeOK`, a pipe never above its capacity included. A step
  such as `Feed` puts a whole text into an empty pipe, so the invariant `Sound`
  adds what a hand-over may hold (`Sizes`) and which points, processes and
  helpers a job of each kind can be at (`Course`).
* `NothingStays`: `[]LeavesNothing`. The invariant `Owned` names an owner for
  everything shared: whoever feeds a stage has one that reads it or that was not
  found (`Listens`), the queue is that of a job on its way (`QueueOwned`), and so is
  the name (`NameOwned`). A job about to feed a stage that was not found may die of
  `SIGPIPE`; it is no owner (`Holds`), but the process of that stage is.
* `PipesCarryText`: `[]PipesCompose`, whoever runs beside the line. The invariant
  `Flow` says that what a stage has read and what is left in the pipe before it
  make up what the one before wrote, as long as the commands of the line were
  found.
* `PipelinesCompose`: `[]Composes`, for a user without the bad habits. `Flow` does
  not hold here, since texts pass through memory and queue. `Ready` adds to
  the others that one job is busy at a time (`Alone`), that no process went astray
  (`NoneLost`), that no message lies in a queue that is not there (`NoQueue`), and
  where the text of a stage is, and what its sign has made of it, from its
  writing to the reading by the next (`Carried`, one conjunct per carrier:
  the pipe, the memory, the queue, the two pipes of `##`, the helper).

`NameTreeProof.tla`, under `TreeConstantsOK` (any names, any set of paths of any
length, any number of nodes):

* `TreeTypeCorrect` and `NothingBelowFiles`: `[]TypeOK` and `[]FilesAreLeaves`, whatever
  the user types, although the pointers may then form circles. The invariant
  `AnyInv` says that they lead from nodes in use to nodes in use (`Forms`), and
  that `cur` and all parents are directories (`Folders`).
* `AlwaysProperTree`, `NothingGetsLost` and `CarefulSurvives`: `[]ProperTree`,
  `[]NothingLost` and `[]Survives`, for a user who avoids the six habits.

A path is followed by a fold over its components, a list by a recursive function
and a subtree by another, so first of all it takes induction. That of the library
has an operator as parameter, which the provers cannot take; `NatSetInduction` has
a set of numbers instead, and follows from the pigeonhole principle for finite
sets. With it `AtSteps`, `SubtreeSteps` and `ResolveInduction` say of the three
definitions that they are what they look like, and the rest follows: a list into
which no pointer leads twice ends (`ListEnds`, again by pigeonholes), what
`Find` returns (`Found`), that a subtree is the least set closed under the lists
(`SubtreeLeast`, `SubtreeHolds`), where a path can lead (`PathLeads`).

The invariant for careful users, `Tree`, is that there is a function `D` from the
nodes to their directories with `Placed(D)`: `Shape` says, pointer by pointer, that a list of
`d` holds nodes `y` with `D[y] = d` and that no two pointers lead to one node; all
living nodes are below home; names in a directory are distinct; the parent of
a directory is `D`'s. What is not living is on no list. Creating a node is `Put`, removing one
is `Cut`, and `mv` is a `Cut` followed by a `Put`: each keeps `Shape` (`PutShape`,
`CutShape`), and below home remains what was there, where `mv` takes what is
below the node along (`CutReach`, `CutPutReach`). The lookup by name that the
handlers unlink with hits that node because names are distinct (`OnlyHit`).

`TreeKeepsNames` is the refinement: `Spec => KeepsNames`, for the same user. Besides
`D` there is a function `P` that gives each node its path (`Paved`): that of its
directory, with its name appended. Different nodes have different paths
(`PathIsOne`, by induction over the length) and what is below the path of `x` is in the
subtree of `x` (`UnderBelow`). `Entries`, which collects the nodes with their paths level by level, is then the
graph of `P` (`EntriesMarked`), so the tree that `NameSpace` sees has the type of `y` at
`P[y]` and its current directory is `P[cur]` (`Mirrors`). What a handler does is
said once in terms of `D` (`Does`: it `Rests`, `Creates`, `Removes` or `Moves`), and for each
there are the next `P` and the step of `NameSpace`: `CreateKeeps` (`MakeDirectory`, `Create` or `Copy`),
`RemoveKeeps` (`RemoveFile`), `RestKeeps` (`Change`, or a stutter) and `MoveKeeps` (`Move`;
a node moved to where it is, a stutter). For `mv` the next `P` is `Rebased` at every
node, and that the result is paved again rests on the destination not being
below the node (`RebasedAppend`, `UnderBelow`).

Only model-checked: the liveness properties `Responds` and `Recovers` of `ClusterShell`,
`PromptReturns` of `ShellPipeline`, `Completes` of `BigFS` and `Delivered` of `ReadBuffer`.
Liveness under fairness is out of the prover's reach.

## 10. Not modelled

* Connection set-up of BigFS, the contents of blocks (NUL bytes inside a file end
  its string), short writes on non-blocking sockets, lengths of names and
  buffers on the stack.
* Of the shell: redirection to files, which is an `open` before `exec`;
  `daemonize`; `doubleshm`, whose call is commented out; and the job table:
  `insert_job` is called in the forked child, on a copy that ends with it, so the
  shell's own table stays empty. A sign inside a stage of another sign's line
  (`parsecommand` is called for each stage of `|`) is left out, and so is what
  the lost process of a `|` pipeline of more than three commands
  writes into pipes further on.
* Of the cluster shell: the reading of `config_file`, and the client's own node,
  whose commands run locally.
* The sniffer, and the labs without state: pure input and output.
* The labs with several processes (voting ring, load balancer, the semaphores of
  lab 6, the select server of lab 7): exercises that are independent of one
  another and of the assignments. Their control is a loop over signals or
  descriptors; the load balancer's `busy[]`, which selects who gets the next line, is
  among the hazards.

## 11. How to run

    tlc -workers 2 -config BigFS.cfg MCBigFS
    tlapm BigFSProof.tla
