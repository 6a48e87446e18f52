---------------------------- MODULE ShellPipeline ----------------------------
(***************************************************************************)
(* Pipelines of the shell (src/Assignment1P1) and of the cluster shell     *)
(* (src/Assignment1P2).                                                    *)
(*                                                                         *)
(* A line is executed by a process of its own, the job, which starts the   *)
(* stages one after the other and waits for each of them.  What a stage    *)
(* writes gets to the next one                                             *)
(*    "pipe"     through a pipe for each |,                                *)
(*    "shm"      for S: through one pipe, shared memory and another pipe,  *)
(*    "queue"    for #: through one pipe, a message queue and another,     *)
(*    "fanout"   for ##: through two pipes that get the same text,         *)
(*    "cluster"  in the cluster shell: through one pipe, a helper process  *)
(*               that copies from it, and another pipe.                    *)
(* Text is counted in units.  A stage reads its input to the end, if it    *)
(* reads at all, and then writes.  A stage whose command is not found does *)
(* not end: its process goes on in the loop of the job it was forked from. *)
(***************************************************************************)
EXTENDS Integers, Sequences

CONSTANTS
    J,          \* bound: lines typed, and processes that go on as jobs
    Stages,     \* commands of a line
    MaxSize,    \* MAX_SIZE, what is read at once between stages
    MaxBuf,     \* MAX_BUF of ##
    Capacity,   \* of a pipe
    Lengths,    \* how many units a stage may write
    Manners     \* what the user may avoid, a set of sets of habits

\* "silent": a stage writes nothing, where the next step waits for output.
\* "long": a stage writes more than a buffer or a pipe takes.
\* "deaf": a stage that is not the first does not read its input.
\* "background": a line ends with &.
\* "mistyped": a stage that the shell does not check, any but the first of a
\* line, names no program that exists.
Habits == {"silent", "long", "deaf", "background", "mistyped"}

PipelineConstants ==
    /\ J \in Nat /\ Lengths \subseteq Nat
    /\ Stages \in Nat /\ Stages > 1
    /\ MaxSize \in Nat /\ MaxBuf \in Nat /\ Capacity \in Nat
    /\ 0 < MaxSize /\ MaxSize < MaxBuf /\ MaxBuf < Capacity
    /\ Manners \subseteq SUBSET Habits

ASSUME PipelineConstantsOK == PipelineConstants

Jobs     == 1..J
NoJob    == 0
Programs == [shell   |-> {"pipe", "shm", "queue", "fanout"},
             cluster |-> {"cluster"}]

VARIABLES
    program, avoids,    \* which shell, and its user's manners
    main,               \* "prompt" or "waits"
    kind, at, stage,    \* of each job: the signs, where it is, the stage's number
    proc,               \* the process of the present stage
    inp, eof,           \* its input pipe, and whether all writers closed it
    out,                \* the pipe it writes to
    rest,               \* what it has not written yet
    helper,             \* the cluster shell's copying process
    text,               \* the job's buffer (tempdata, buf)
    shown,              \* what appeared on the terminal
    queue, box, qid,    \* the message queue with its content, and msgid of each job
    name, mem, seg,     \* the name "shmpipe", the segments, and the one each job maps
    parent,             \* the job whose failed stage this job is, or NoJob: a line
    due, wrote, right,  \* ghosts: what the stage before wrote, what this one writes,
                        \* whether all stages read what they should
    found               \* ghost: were all commands of the line found?

user    == <<program, avoids>>
control == <<kind, at, stage, parent>>
process == <<proc, rest>>
pipes   == <<inp, eof, out>>
buffers == <<helper, text, shown>>
queues  == <<queue, box, qid>>
shared  == <<name, mem, seg>>
ghosts  == <<due, wrote, right, found>>
vars    == <<user, main, control, process, pipes, buffers, queues, shared, ghosts>>

Pad     == <<0, 0, 1>>  \* the rest of a buffer of MAX_SIZE bytes, whatever it is
Junk    == <<0, 0, 2>>  \* a buffer that was never filled
Newline == <<0, 0, 3>>  \* what S adds to a text
Notice  == <<0, 0, 4>>  \* "child pid of pipe"

Output(j, n) == [i \in 1..n |-> <<j, stage[j], i>>]
First(s, n)  == SubSeq(s, 1, IF n < Len(s) THEN n ELSE Len(s))
Rest(s, n)   == SubSeq(s, n + 1, Len(s))

NoName == <<0, 0>>
Segments == {<<j, k>> : j \in Jobs, k \in 0..Stages}

Set(f, j, x) == [f EXCEPT ![j] = x]

Init ==
    /\ program \in DOMAIN Programs /\ avoids \in Manners
    /\ main = "prompt"
    /\ kind = [j \in Jobs |-> "none"]
    /\ at = [j \in Jobs |-> "none"]
    /\ stage = [j \in Jobs |-> 1]
    /\ proc = [j \in Jobs |-> "none"]
    /\ inp = [j \in Jobs |-> <<>>] /\ eof = [j \in Jobs |-> FALSE]
    /\ out = [j \in Jobs |-> <<>>] /\ rest = [j \in Jobs |-> <<>>]
    /\ helper = [j \in Jobs |-> "none"]
    /\ text = [j \in Jobs |-> <<>>] /\ shown = [j \in Jobs |-> <<>>]
    /\ queue = NoJob /\ box = <<>> /\ qid = [j \in Jobs |-> NoJob]
    /\ name = NoName /\ mem = [s \in Segments |-> <<>>]
    /\ seg = [j \in Jobs |-> NoName]
    /\ due = [j \in Jobs |-> <<>>] /\ wrote = [j \in Jobs |-> <<>>]
    /\ right = [j \in Jobs |-> TRUE] /\ found = [j \in Jobs |-> TRUE]
    /\ parent = [j \in Jobs |-> NoJob]

-----------------------------------------------------------------------------
(* The main loop.                                                          *)

Over(j) == at[j] \in {"zombie", "gone"}

Free(j) == kind[j] = "none" /\ \A i \in Jobs : i < j => kind[i] # "none"

Type(j, k, back) ==
    /\ main = "prompt" /\ Free(j)
    /\ back => program = "shell" /\ "background" \notin avoids
    /\ kind' = Set(kind, j, k) /\ at' = Set(at, j, "begin")
    /\ main' = IF back THEN "prompt" ELSE "waits"
    /\ UNCHANGED <<user, stage, parent, process, pipes, buffers, queues, shared, ghosts>>

\* wait(&status) takes any child that ended.
Reap(j) ==
    /\ main = "waits" /\ at[j] = "zombie" /\ parent[j] = NoJob
    /\ at' = Set(at, j, "gone") /\ main' = "prompt"
    /\ inp' = Set(inp, j, <<>>) /\ out' = Set(out, j, <<>>) /\ text' = Set(text, j, <<>>)
    /\ shown' = Set(shown, j, <<>>) /\ wrote' = Set(wrote, j, <<>>) /\ due' = Set(due, j, <<>>)
    /\ UNCHANGED <<user, kind, stage, parent, process, eof, helper, queues, shared, right, found>>

-----------------------------------------------------------------------------
(* A job.                                                                  *)

Goes(j, here, there) == at[j] = here /\ at' = Set(at, j, there)

\* msgget and shm_open take what is there under the key and the name, which all
\* jobs share, and create it otherwise.
Begin(j) ==
    /\ Goes(j, "begin", "prepare")
    /\ IF kind[j] = "queue"
       THEN queue' = (IF queue = NoJob THEN j ELSE queue) /\ qid' = Set(qid, j, queue')
       ELSE UNCHANGED <<queue, qid>>
    /\ IF kind[j] = "shm"
       THEN name' = (IF name = NoName THEN <<j, 0>> ELSE name) /\ seg' = Set(seg, j, name')
       ELSE UNCHANGED <<name, seg>>
    /\ UNCHANGED <<user, main, kind, stage, parent, process, pipes, buffers, box, mem, ghosts>>

\* msgrcv: the oldest message, whosever it is, or an error if the queue was
\* removed.
Receive(j, buffer) ==
    \/ queue = qid[j] /\ box # <<>> /\ buffer' = Set(buffer, j, Head(box)) /\ box' = Tail(box)
    \/ queue # qid[j] /\ buffer' = Set(buffer, j, <<Junk>>) /\ UNCHANGED box

\* What is done before a stage is started: its input is fetched.
Prepare(j) ==
    /\ Goes(j, "prepare", "fork")
    /\ CASE kind[j] = "shm" /\ stage[j] > 1 -> text' = Set(text, j, mem[seg[j]]) /\ UNCHANGED box
         [] kind[j] = "queue" /\ stage[j] > 1 -> Receive(j, text)
         [] OTHER -> UNCHANGED <<text, box>>
    /\ UNCHANGED <<user, main, kind, stage, parent, process, pipes, helper, shown, queue, qid, shared, ghosts>>

\* Mutant: a stage reads the pipe that it will write to.
InputOfNext(j) == IF kind[j] = "fanout" /\ stage[j] = 3 THEN text[j] ELSE <<>>

\* The input of the stage: the pipe the one before wrote to, a pipe that is
\* filled later, or for ## the first or the second copy.
Input(j) ==
    CASE kind[j] = "pipe" \/ (kind[j] = "fanout" /\ stage[j] = 2) -> out[j]
      [] kind[j] = "fanout" /\ stage[j] = 3 -> text[j]
      [] OTHER -> <<>>

AfterFork(j) ==
    CASE stage[j] > 1 /\ kind[j] \in {"pipe", "fanout"} -> "close"
      [] stage[j] > 1 /\ kind[j] \in {"shm", "queue"} -> "feed"
      [] OTHER -> "wait"

\* The pipes of the new process, and the helper that is forked beside it.
ForkPipes(j) ==
    /\ inp' = Set(inp, j, Input(j)) /\ eof' = Set(eof, j, FALSE)
    /\ out' = IF kind[j] \in {"pipe", "fanout"} THEN Set(out, j, <<>>) ELSE out
    /\ helper' = IF kind[j] = "cluster" /\ stage[j] > 1 THEN Set(helper, j, "read") ELSE helper

\* The process becomes a program.  (For a command of ## that is not found it is
\* the first one of the line, given the whole line: any program.)
Fork(j) ==
    /\ Goes(j, "fork", AfterFork(j))
    /\ \E p \in {"read", "think"} :
          /\ stage[j] = 1 => p = "think"
          /\ stage[j] > 1 /\ p = "think" => "deaf" \notin avoids
          /\ proc' = Set(proc, j, p)
    /\ ForkPipes(j)
    /\ UNCHANGED <<user, main, kind, stage, parent, rest, text, shown, queues, shared, ghosts>>

\* The exec fails.  In a pipeline of the cluster shell, and behind the last |,
\* the process ends; behind another | it goes on through the rest of the loop,
\* which it gets wrong: it forks one process after the other, each announced
\* in the pipe that the next stage will read.  (The pipes further on, of a line
\* of more than three commands, are written to as well: not modelled.)
ForkLost(j) ==
    /\ "mistyped" \notin avoids
    /\ kind[j] = "cluster" \/ (kind[j] = "pipe" /\ stage[j] > 1)
    /\ Goes(j, "fork", AfterFork(j))
    /\ proc' = Set(proc, j, IF kind[j] = "pipe" /\ stage[j] < Stages THEN "babble" ELSE "ended")
    /\ ForkPipes(j)
    /\ wrote' = Set(wrote, j, <<>>) /\ found' = Set(found, j, FALSE)
    /\ UNCHANGED <<user, main, kind, stage, parent, rest, text, shown, queues, shared, due, right>>

\* The exec fails for S and #: the process is a second job c, with a copy of all
\* that the first one has, and the pipe of the stages for itself while that waits.
ForkAstray(j, c) ==
    /\ "mistyped" \notin avoids
    /\ at[j] = "fork" /\ kind[j] \in {"shm", "queue"} /\ stage[j] > 1 /\ Free(c)
    /\ at' = [at EXCEPT ![j] = "feed", ![c] = "astray"] /\ parent' = Set(parent, c, j)
    /\ kind' = Set(kind, c, kind[j]) /\ stage' = Set(stage, c, stage[j])
    /\ text' = Set(text, c, text[j])
    /\ qid' = Set(qid, c, qid[j]) /\ seg' = Set(seg, c, seg[j])
    /\ out' = [out EXCEPT ![j] = <<>>, ![c] = out[j]]
    /\ proc' = Set(proc, j, "job") /\ inp' = Set(inp, j, <<>>) /\ eof' = Set(eof, j, FALSE)
    /\ wrote' = Set(wrote, j, <<>>) /\ found' = Set(found, j, FALSE)
    /\ UNCHANGED <<user, main, rest, helper, shown, queue, box, name, mem, due, right>>

\* Mutant: the job keeps a writing end of the pipe.
CloseReading(j) ==
    /\ Goes(j, "close", "wait")
    /\ UNCHANGED <<user, main, kind, stage, parent, process, pipes, buffers, queues, shared, ghosts>>

\* The job closes its ends of the pipes, the last that could be written to.
Close(j) ==
    /\ Goes(j, "close", "wait")
    /\ eof' = Set(eof, j, TRUE)
    /\ UNCHANGED <<user, main, kind, stage, parent, process, inp, out, buffers, queues, shared, ghosts>>

\* The text and what else is in the buffer go to a stage that must be there:
\* the job has closed its own reading end, and would be ended by SIGPIPE.
Filled(t) == [i \in 1..MaxSize |-> IF i <= Len(t) THEN t[i] ELSE Pad]

Unread(j) == \/ proc[j] = "ended"
             \/ proc[j] = "job"
                /\ \E c \in Jobs : parent[c] = j /\ at[c] \in {"show", "remove", "zombie"}

Feed(j) ==
    /\ IF Unread(j) THEN Goes(j, "feed", "zombie") /\ UNCHANGED <<inp, eof>>
       ELSE /\ Goes(j, "feed", IF kind[j] = "shm" THEN "unlink" ELSE "wait")
            /\ inp' = Set(inp, j, Filled(text[j])) /\ eof' = Set(eof, j, TRUE)
    /\ UNCHANGED <<user, main, kind, stage, parent, process, out, buffers, queues, shared, ghosts>>

Unlink(j) ==
    /\ Goes(j, "unlink", "open")
    /\ name' = NoName
    /\ UNCHANGED <<user, main, kind, stage, parent, process, pipes, buffers, queues, mem, seg, ghosts>>

Open(j) ==
    /\ Goes(j, "open", "wait")
    /\ name' = (IF name = NoName THEN <<j, stage[j]>> ELSE name) /\ seg' = Set(seg, j, name')
    /\ UNCHANGED <<user, main, kind, stage, parent, process, pipes, buffers, queues, mem, ghosts>>

\* Where a job goes on when it has done with a stage.
Last(j) == IF kind[j] = "fanout" THEN 3 ELSE Stages

\* Mutant: one stage too many.
AdvanceOnce(j, here, end) ==
    IF stage[j] <= Last(j)
    THEN Goes(j, here, "prepare") /\ stage' = Set(stage, j, stage[j] + 1)
    ELSE Goes(j, here, end) /\ UNCHANGED stage

Advance(j, here, end) ==
    IF stage[j] < Last(j)
    THEN Goes(j, here, "prepare") /\ stage' = Set(stage, j, stage[j] + 1)
    ELSE Goes(j, here, end) /\ UNCHANGED stage

\* The process of a stage that was not found enters the next round of the loop.
GoOn(j) ==
    /\ Advance(j, "astray", "show")
    /\ UNCHANGED <<user, main, kind, parent, process, pipes, buffers, queues, shared, ghosts>>

\* wait(NULL) for such a process, which took some of what is in the pipe.
Bury(j, c) ==
    /\ at[j] = "wait" /\ proc[j] = "job" /\ parent[c] = j /\ at[c] = "zombie"
    /\ at' = [at EXCEPT ![j] = "collect", ![c] = "gone"]
    /\ proc' = Set(proc, j, "none")
    /\ out' = [out EXCEPT ![j] = out[c], ![c] = <<>>]
    /\ UNCHANGED <<user, main, kind, stage, parent, rest, inp, eof, buffers, queues, shared, ghosts>>

\* wait(NULL): the stage, and the helper if there is one, have ended.  Then the
\* output is fetched, unless the next stage or the terminal has it.
Wait(j) ==
    /\ proc[j] = "ended" /\ helper[j] \in {"none", "ended"}
    /\ proc' = Set(proc, j, "none") /\ helper' = Set(helper, j, "none")
    /\ due' = IF kind[j] = "fanout" /\ stage[j] > 1 THEN due ELSE Set(due, j, wrote[j])
    /\ CASE kind[j] = "pipe" -> Advance(j, "wait", "zombie")
         [] kind[j] = "cluster" -> Advance(j, "wait", "show")
         [] kind[j] = "fanout" /\ stage[j] > 1 -> Advance(j, "wait", "zombie")
         [] OTHER -> Goes(j, "wait", "collect") /\ UNCHANGED stage
    /\ UNCHANGED <<user, main, kind, parent, rest, pipes, text, shown, queues, shared,
                   wrote, right, found>>

\* Mutant: the text is not written back to the pipe it was read from.
CollectForOne(j) ==
    /\ out[j] # <<>>
    /\ Advance(j, "collect", "show")
    /\ LET n   == IF kind[j] = "fanout" THEN MaxBuf ELSE MaxSize
           got == First(out[j], n)
       IN /\ mem' = IF kind[j] = "shm" THEN [mem EXCEPT ![seg[j]] = Append(got, Newline)] ELSE mem
          /\ box' = IF kind[j] = "queue" /\ queue = qid[j] THEN Append(box, got) ELSE box
          /\ text' = IF kind[j] = "fanout" THEN Set(text, j, got) ELSE text
          /\ out' = Set(out, j, Rest(out[j], n))
    /\ UNCHANGED <<user, main, kind, parent, process, inp, eof, helper, shown, queue, qid,
                   name, seg, ghosts>>

\* One read of the pipe of the stages, which waits until something is there;
\* then the text goes to the shared memory, into the queue, or into both pipes.
Collect(j) ==
    /\ out[j] # <<>>
    /\ Advance(j, "collect", "show")
    /\ LET n   == IF kind[j] = "fanout" THEN MaxBuf ELSE MaxSize
           got == First(out[j], n)
       IN /\ mem' = IF kind[j] = "shm" THEN [mem EXCEPT ![seg[j]] = Append(got, Newline)] ELSE mem
          /\ box' = IF kind[j] = "queue" /\ queue = qid[j] THEN Append(box, got) ELSE box
          /\ text' = IF kind[j] = "fanout" THEN Set(text, j, got) ELSE text
          /\ out' = Set(out, j, Rest(out[j], n) \o (IF kind[j] = "fanout" THEN got ELSE <<>>))
    /\ UNCHANGED <<user, main, kind, parent, process, inp, eof, helper, shown, queue, qid,
                   name, seg, ghosts>>

\* The end of a pipeline: its last text is printed, names are removed.
Show(j) ==
    /\ at[j] = "show"
    /\ \/ /\ kind[j] = "shm"
          /\ shown' = Set(shown, j, mem[seg[j]]) /\ name' = NoName
          /\ Goes(j, "show", "zombie") /\ UNCHANGED <<out, box>>
       \/ /\ kind[j] = "queue" /\ Receive(j, shown)
          /\ Goes(j, "show", "remove") /\ UNCHANGED <<out, name>>
       \/ /\ kind[j] = "cluster" /\ out[j] # <<>>
          /\ shown' = Set(shown, j, First(out[j], MaxSize))
          /\ out' = Set(out, j, Rest(out[j], MaxSize))
          /\ Goes(j, "show", "zombie") /\ UNCHANGED <<box, name>>
    /\ UNCHANGED <<user, main, kind, stage, parent, process, inp, eof, helper, text, queue, qid,
                   mem, seg, ghosts>>

\* Mutant: the queue is not removed.
RemoveNothing(j) ==
    /\ Goes(j, "remove", "zombie")
    /\ UNCHANGED <<user, main, kind, stage, parent, process, pipes, buffers, queues, shared, ghosts>>

Remove(j) ==
    /\ Goes(j, "remove", "zombie")
    /\ IF queue = qid[j] THEN queue' = NoJob /\ box' = <<>> ELSE UNCHANGED <<queue, box>>
    /\ UNCHANGED <<user, main, kind, stage, parent, process, pipes, buffers, qid, shared, ghosts>>

-----------------------------------------------------------------------------
(* A stage, and the helper.                                                *)

\* What the signs make of the text of a stage when they hand it on: S adds a
\* newline, and S and # write a whole buffer, of which the text is the beginning.
Handed(j) ==
    CASE kind[j] = "queue" -> Filled(due[j])
      [] kind[j] = "shm"   -> Filled(Append(due[j], Newline))
      [] OTHER             -> due[j]

\* It read its input to the end.
Hear(j) ==
    /\ proc[j] = "read" /\ eof[j]
    /\ proc' = Set(proc, j, "think")
    /\ right' = Set(right, j, right[j] /\ inp[j] = Handed(j))
    /\ inp' = Set(inp, j, <<>>)
    /\ UNCHANGED <<user, main, control, rest, eof, out, buffers, queues, shared, due, wrote, found>>

\* Output goes on to a step that waits for some of it.
Awaited(j) == kind[j] \in {"shm", "queue", "cluster"} \/ (kind[j] = "fanout" /\ stage[j] = 1)

\* Output goes to the terminal.
Terminal(j) == \/ kind[j] = "pipe" /\ stage[j] = Stages
               \/ kind[j] = "fanout" /\ stage[j] > 1

\* What fits: S and # add a byte that ends the text, and S a newline.
Fits(j, n) ==
    CASE Terminal(j) -> TRUE
      [] kind[j] = "pipe" -> n <= Capacity
      [] kind[j] = "fanout" -> n <= MaxBuf
      [] kind[j] = "queue" -> n < MaxSize
      [] kind[j] = "shm" -> n + 1 < MaxSize
      [] OTHER -> n <= MaxSize

Think(j) ==
    /\ proc[j] = "think"
    /\ \E n \in Lengths :
          /\ "silent" \in avoids /\ Awaited(j) => n > 0
          /\ "long" \in avoids => Fits(j, n)
          /\ rest' = Set(rest, j, Output(j, n)) /\ wrote' = Set(wrote, j, Output(j, n))
    /\ proc' = Set(proc, j, "write")
    /\ UNCHANGED <<user, main, control, pipes, buffers, queues, shared, due, right, found>>

\* write() waits while the pipe is full.
Write(j) ==
    /\ proc[j] = "write" /\ rest[j] # <<>>
    /\ IF Terminal(j) THEN /\ shown' = Set(shown, j, shown[j] \o rest[j])
                           /\ rest' = Set(rest, j, <<>>) /\ UNCHANGED out
       ELSE LET room == Capacity - Len(out[j]) IN
            /\ room > 0
            /\ out' = Set(out, j, out[j] \o First(rest[j], room))
            /\ rest' = Set(rest, j, Rest(rest[j], room)) /\ UNCHANGED shown
    /\ UNCHANGED <<user, main, control, proc, inp, eof, helper, text, queues, shared, ghosts>>

End(j) ==
    /\ proc[j] = "write" /\ rest[j] = <<>>
    /\ proc' = Set(proc, j, "ended")
    /\ UNCHANGED <<user, main, control, rest, pipes, buffers, queues, shared, ghosts>>

\* A process that got the loop wrong announces another one, as long as the pipe
\* takes it, or comes to the end of it.
Babble(j) ==
    /\ proc[j] = "babble"
    /\ \/ Len(out[j]) < Capacity /\ out' = Set(out, j, Append(out[j], Notice)) /\ UNCHANGED proc
       \/ proc' = Set(proc, j, "ended") /\ UNCHANGED out
    /\ UNCHANGED <<user, main, control, rest, inp, eof, buffers, queues, shared, ghosts>>

\* The helper reads once, whatever is in the pipe by then.
Help(j) ==
    /\ helper[j] = "read" /\ out[j] # <<>>
    /\ helper' = Set(helper, j, "ended")
    /\ inp' = Set(inp, j, First(out[j], MaxSize)) /\ eof' = Set(eof, j, TRUE)
    /\ out' = Set(out, j, Rest(out[j], MaxSize))
    /\ UNCHANGED <<user, main, control, process, text, shown, queues, shared, ghosts>>

-----------------------------------------------------------------------------
Job(j) ==
    \/ Begin(j) \/ Prepare(j) \/ Fork(j) \/ ForkLost(j) \/ Close(j) \/ Feed(j)
    \/ Unlink(j) \/ Open(j) \/ Wait(j) \/ Collect(j) \/ Show(j) \/ Remove(j) \/ GoOn(j)
    \/ \E c \in Jobs : ForkAstray(j, c) \/ Bury(j, c)

Stage(j) == Hear(j) \/ Think(j) \/ Write(j) \/ End(j) \/ Babble(j)

Next ==
    \E j \in Jobs :
        \/ \E k \in Programs[program], back \in BOOLEAN : Type(j, k, back)
        \/ Reap(j) \/ Job(j) \/ Stage(j) \/ Help(j)

Spec == Init /\ [][Next]_vars

\* Every process runs, and the programs of the stages come to an end; nobody
\* must type.
FairSpec ==
    /\ Spec
    /\ WF_vars(\E j \in Jobs : Reap(j))
    /\ \A j \in Jobs : WF_vars(Job(j)) /\ WF_vars(Stage(j)) /\ WF_vars(Help(j))

-----------------------------------------------------------------------------
(* Properties.                                                             *)

Kinds  == {"pipe", "shm", "queue", "fanout", "cluster"}
Places == {"begin", "prepare", "fork", "close", "feed", "unlink", "open", "wait",
           "collect", "show", "remove", "astray", "zombie", "gone"}
Units  == (Jobs \X (1..(Stages + 3)) \X (Nat \ {0})) \cup {Pad, Junk, Newline, Notice}
Texts  == [Jobs -> Seq(Units)]

ControlType ==
    /\ program \in DOMAIN Programs /\ avoids \in Manners
    /\ main \in {"prompt", "waits"}
    /\ kind \in [Jobs -> Kinds \cup {"none"}] /\ at \in [Jobs -> Places \cup {"none"}]
    /\ stage \in [Jobs -> 1..(Stages + 3)]
    /\ proc \in [Jobs -> {"none", "read", "think", "write", "babble", "job", "ended"}]
    /\ helper \in [Jobs -> {"none", "read", "ended"}]
    /\ eof \in [Jobs -> BOOLEAN] /\ right \in [Jobs -> BOOLEAN] /\ found \in [Jobs -> BOOLEAN]
    /\ parent \in [Jobs -> Jobs \cup {NoJob}]

TextType ==
    /\ inp \in Texts /\ out \in Texts /\ rest \in Texts /\ text \in Texts
    /\ shown \in Texts /\ due \in Texts /\ wrote \in Texts

SharedType ==
    /\ queue \in Jobs \cup {NoJob} /\ box \in Seq(Seq(Units))
    /\ qid \in [Jobs -> Jobs \cup {NoJob}]
    /\ name \in Segments \cup {NoName} /\ mem \in [Segments -> Seq(Units)]
    /\ seg \in [Jobs -> Segments \cup {NoName}]

NoneOverflows == \A j \in Jobs : Len(out[j]) <= Capacity /\ Len(inp[j]) <= Capacity

\* Every variable has its type, and no pipe holds more than its capacity, so that
\* no write of the job itself can block.
TypeOK == ControlType /\ TextType /\ SharedType /\ NoneOverflows

\* For a user who avoids all the habits a line does what the signs say: every
\* stage reads what the one before wrote, as its sign hands it on, the terminal
\* shows what the last one wrote, and the prompt is not back before that.
Displayed(j) == IF kind[j] = "shm" THEN Append(wrote[j], Newline) ELSE wrote[j]

Composes ==
    avoids = Habits =>
        /\ \A j \in Jobs : at[j] = "zombie" =>
              right[j] /\ (kind[j] \notin {"pipe", "fanout"} => shown[j] = Displayed(j))
        /\ main = "prompt" => \A j \in Jobs : at[j] \in {"none", "gone"}

\* A pipeline with | may get stuck, but as long as its commands exist it feeds
\* no stage anything but what the one before wrote, whoever runs beside it.
PipesCompose == \A j \in Jobs : kind[j] = "pipe" /\ found[j] => right[j]

\* When all jobs are over, neither the queue nor the shared memory is left for
\* a later one to find, even if commands were not found and their processes went
\* on in the same queue and memory; only a deaf stage can cause it, by SIGPIPE.
LeavesNothing ==
    "deaf" \in avoids /\ (\A j \in Jobs : at[j] = "none" \/ Over(j)) =>
        queue = NoJob /\ name = NoName

\* The prompt comes back after every line, for a user who avoids all the habits.
PromptReturns == avoids = Habits /\ main = "waits" ~> main = "prompt"

=============================================================================
