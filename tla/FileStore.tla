----------------------------- MODULE FileStore -----------------------------
(***************************************************************************)
(* What BigFS promises its user about files: a directory is a map from     *)
(* names to contents, every command on files takes effect at once or not   *)
(* at all, cat prints exactly what is stored under the name, and frombigfs *)
(* saves that with one NUL byte somewhere in or around it.  The promise    *)
(* knows nothing of servers, chunks or messages.                           *)
(***************************************************************************)
EXTENDS Sequences

CONSTANTS Name, Content

VARIABLES files, shown

vars == <<files, shown>>

Init == files = <<>> /\ shown = [name |-> <<>>, text |-> <<>>, nul |-> 0]

\* tobigfs: store a file under a name that is free.
Create(n, c) ==
    /\ n \notin DOMAIN files
    /\ files' = [m \in DOMAIN files \cup {n} |-> IF m = n THEN c ELSE files[m]]
    /\ UNCHANGED shown

\* rm
Remove(n) ==
    /\ n \in DOMAIN files
    /\ files' = [m \in DOMAIN files \ {n} |-> files[m]]
    /\ UNCHANGED shown

\* cp: both names denote the same content afterwards.
Copy(a, b) == a \in DOMAIN files /\ Create(b, files[a])

\* mv to a name that is free.
Rename(a, b) ==
    /\ a \in DOMAIN files /\ b \notin DOMAIN files
    /\ files' = [m \in (DOMAIN files \ {a}) \cup {b} |->
                    IF m = b THEN files[a] ELSE files[m]]
    /\ UNCHANGED shown

\* What the user gets of a file, with so many NUL bytes among its text.
Deliver(n, nuls) ==
    /\ n \in DOMAIN files
    /\ shown' = [name |-> n, text |-> files[n], nul |-> nuls]
    /\ UNCHANGED files

\* cat
Show(n) == Deliver(n, 0)

\* frombigfs
Save(n) == Deliver(n, 1)

Next ==
    \/ \E n \in Name, c \in Content : Create(n, c)
    \/ \E n \in Name : Remove(n) \/ Show(n) \/ Save(n)
    \/ \E a, b \in Name : Copy(a, b) \/ Rename(a, b)

Spec == Init /\ [][Next]_vars

=============================================================================
