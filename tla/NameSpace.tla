----------------------------- MODULE NameSpace -----------------------------
(***************************************************************************)
(* What the name server of BigFS promises about names: a tree of           *)
(* directories and files, addressed by absolute paths, and a current       *)
(* directory that follows when it is moved.                                *)
(***************************************************************************)
EXTENDS Sequences, SequencesExt

CONSTANT Name

VARIABLES
    tree,   \* from the paths there are to "file" or "directory"
    cwd     \* the path of the current directory

vars == <<tree, cwd>>

Home == <<>>

Directories == {p \in DOMAIN tree : tree[p] = "directory"}

\* The paths that a new entry could have.
Free == {Append(p, m) : p \in Directories, m \in Name} \ DOMAIN tree

Init == tree = [p \in {Home} |-> "directory"] /\ cwd = Home

Enter(p, kind) ==
    /\ tree' = [q \in DOMAIN tree \cup {p} |-> IF q = p THEN kind ELSE tree[q]]
    /\ UNCHANGED cwd

\* mkdir and tobigfs work in the current directory, cp anywhere.
MakeDirectory(p) == Front(p) = cwd /\ Enter(p, "directory")
Create(p)        == Front(p) = cwd /\ Enter(p, "file")
Copy(s, p)       == tree[s] = "file" /\ Enter(p, "file")

RemoveFile(p) ==
    /\ tree[p] = "file" /\ Front(p) = cwd
    /\ tree' = [q \in DOMAIN tree \ {p} |-> tree[q]]
    /\ UNCHANGED cwd

Change(p) == p \in Directories /\ cwd' = p /\ UNCHANGED tree

\* Everything below s is below p afterwards.
Rebased(q, s, p) ==
    IF IsPrefix(s, q) THEN p \o SubSeq(q, Len(s) + 1, Len(q)) ELSE q

Move(s, p) ==
    /\ s # Home /\ ~IsPrefix(s, p)
    /\ tree' = [q \in {Rebased(x, s, p) : x \in DOMAIN tree} |->
                  tree[CHOOSE x \in DOMAIN tree : Rebased(x, s, p) = q]]
    /\ cwd' = Rebased(cwd, s, p)

Next ==
    \/ \E p \in Free : MakeDirectory(p) \/ Create(p)
    \/ \E p \in DOMAIN tree : RemoveFile(p) \/ Change(p)
    \/ \E s \in DOMAIN tree, p \in Free : Copy(s, p) \/ Move(s, p)

Spec == Init /\ [][Next]_vars

=============================================================================
