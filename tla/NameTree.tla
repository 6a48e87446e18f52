------------------------------ MODULE NameTree ------------------------------
(***************************************************************************)
(* The directory tree of the BigFS name server                             *)
(* (src/Assignment2P1/fileNameServer.c), pointer by pointer: every node    *)
(* has a first child, a next sibling and a parent, and the handlers of     *)
(* mkdir, cd, tobigfs, rm, mv and cp follow and assign these pointers.  A  *)
(* handler runs alone, so each is one action.  What goes over the          *)
(* connections meanwhile is in BigFS.                                      *)
(***************************************************************************)
EXTENDS Integers, Sequences, SequencesExt, FiniteSetsExt

CONSTANTS
    Names,      \* the names the user may type
    Paths,      \* the operands of cd, mv and cp: sequences of components
    MaxNodes,   \* bound: how many nodes are ever allocated
    Avoids      \* what the user does not type: see Habits

\* "duplicate":    mkdir of a name that is taken; mv or cp to a directory that
\*                 has the name already.
\* "above_home":   a path that leads above home, and home itself as source.
\* "not_a_file":   rm or cp of what is not a file.
\* "refused_mv":   mv to a destination that is refused.
\* "stale_parent": mv of a node whose parent pointer is not its directory.
\* "into_itself":  mv of a directory to itself or below.
Habits == {"duplicate", "above_home", "not_a_file", "refused_mv",
           "stale_parent", "into_itself"}

TreeConstants ==
    /\ Names \cap {".", ".."} = {} /\ "home" \notin Names
    /\ Paths \subseteq Seq(Names \cup {".", ".."})
    /\ MaxNodes \in Nat
    /\ Avoids \subseteq Habits

ASSUME TreeConstantsOK == TreeConstants

VARIABLES
    used,       \* how many nodes were allocated besides home
    name, type, child, next, parent,    \* the fields of the nodes
    cur,        \* the current directory
    up,         \* "runs"; "dead" of a NULL pointer; "hangs" in a loop
    awaits,     \* is cp waiting for a location that nobody sends?
    removed     \* ghost: the nodes that rm removed

fields == <<name, type, child, next, parent>>
vars   == <<used, fields, cur, up, awaits, removed>>

Home  == 0
Nodes == 0..MaxNodes
Nil   == -1         \* the NULL pointer
Stuck == -2         \* the result of a loop that does not end

Init ==
    /\ used = 0
    /\ name = [x \in Nodes |-> "home"]
    /\ type = [x \in Nodes |-> "directory"]
    /\ child = [x \in Nodes |-> Nil] /\ next = [x \in Nodes |-> Nil]
    /\ parent = [x \in Nodes |-> Nil]
    /\ cur = Home /\ up = "runs" /\ awaits = FALSE /\ removed = {}

-----------------------------------------------------------------------------
(* Lists, for given child pointers ch and next pointers nx.                *)

\* The nodes of the list that starts at x, by position.
At(nx, x) ==
    LET at[k \in 0..(MaxNodes + 1)] ==
            IF k = 0 THEN x
            ELSE IF at[k - 1] = Nil THEN Nil ELSE nx[at[k - 1]]
    IN  at

Listed(nx, x) ==
    LET at == At(nx, x) IN {at[k] : k \in 0..MaxNodes} \ {Nil}
Endless(nx, x) == At(nx, x)[MaxNodes + 1] # Nil

\* The positions of the nodes called m, and the first such node.
Hits(nx, x, m) ==
    LET at == At(nx, x) IN {k \in 0..MaxNodes : at[k] # Nil /\ name[at[k]] = m}

Find(nx, x, m) ==
    LET hits == Hits(nx, x, m) IN
    IF hits # {} THEN At(nx, x)[Min(hits)]
    ELSE IF Endless(nx, x) THEN Stuck ELSE Nil

\* Mutant: the new node replaces the list.
LinkedAlone(ch, nx, d, x) ==
    [ch |-> [ch EXCEPT ![d] = x], nx |-> nx, ok |-> TRUE]

\* Append node x to the list of directory d.
Linked(ch, nx, d, x) ==
    IF ch[d] = Nil THEN [ch |-> [ch EXCEPT ![d] = x], nx |-> nx, ok |-> TRUE]
    ELSE IF Endless(nx, ch[d]) THEN [ch |-> ch, nx |-> nx, ok |-> FALSE]
    ELSE LET last == CHOOSE y \in Listed(nx, ch[d]) : nx[y] = Nil
         IN  [ch |-> ch, nx |-> [nx EXCEPT ![last] = x], ok |-> TRUE]

\* x and everything below it.
Subtree(ch, nx, x) ==
    LET sub[k \in 0..MaxNodes] ==
            IF k = 0 THEN {x}
            ELSE sub[k - 1] \cup UNION {Listed(nx, ch[y]) : y \in sub[k - 1]}
    IN  sub[MaxNodes]

\* Follow a path from cur.  "done" counts the components that were followed;
\* cd (dirsOnly) does not follow the name of a file.
Resolve(ch, nx, path, dirsOnly) ==
    LET Follow(r, c) ==
            LET y == Find(nx, ch[r.node], c) IN
            IF y = Stuck THEN [r EXCEPT !.how = "hang"]
            ELSE IF y = Nil \/ (dirsOnly /\ type[y] = "file")
            THEN [r EXCEPT !.how = "missing"]
            ELSE [r EXCEPT !.node = y, !.done = @ + 1]
        Step(r, c) ==
            IF r.how # "at" THEN r
            ELSE IF c = "." THEN [r EXCEPT !.done = @ + 1]
            ELSE IF r.node = Nil THEN [r EXCEPT !.how = "crash"]
            ELSE IF c = ".." THEN [r EXCEPT !.node = parent[r.node], !.done = @ + 1]
            ELSE Follow(r, c)
    IN  FoldLeft(Step, [how |-> "at", node |-> cur, done |-> 0], path)

\* A destination is taken as a directory to put the node into, or as a new
\* name in one.
NewName(dst, r) == r.how = "missing" /\ r.done = Len(dst) - 1

\* Mutant: the type of the destination is not looked at.
AcceptedAnyType(dst, r) == (r.how = "at" \/ NewName(dst, r)) /\ r.node # Nil

Accepted(dst, r) ==
    /\ r.how = "at" \/ NewName(dst, r)
    /\ r.node # Nil /\ type[r.node] # "file"

\* Mutants: the last component always names the node, and never does.
NamedAlways(dst, r, old) == Last(dst)
NamedNever(dst, r, old)  == old

\* The name of a node called old at its destination.
Named(dst, r, old) == IF NewName(dst, r) THEN Last(dst) ELSE old

Fails(r) == r.how \in {"crash", "hang"} \/ r.node = Nil
Failure(r) == up' = IF r.how = "hang" THEN "hangs" ELSE "dead"

-----------------------------------------------------------------------------
(* The handlers.                                                           *)

Serves == up = "runs" /\ ~awaits

\* Every handler looks at cur->child first; cur may have become NULL.
Here(act) == IF cur = Nil THEN up' = "dead" /\ UNCHANGED <<used, fields, removed>>
             ELSE act

New == used + 1

\* A new node at the end of the list of cur.
Allocate(m, kind) ==
    LET l == Linked(child, next, cur, New) IN
    /\ used' = New
    /\ name' = [name EXCEPT ![New] = m] /\ type' = [type EXCEPT ![New] = kind]
    /\ parent' = [parent EXCEPT ![New] = cur]
    /\ child' = l.ch /\ next' = l.nx
    /\ up' = IF l.ok THEN up ELSE "hangs"
    /\ UNCHANGED removed

\* mkdir: no answer, and no look for a node of the same name.
MakeDirectory(m) ==
    /\ Serves /\ used < MaxNodes
    /\ "duplicate" \in Avoids => Find(next, child[cur], m) = Nil
    /\ Here(Allocate(m, "directory"))
    /\ UNCHANGED <<cur, awaits>>

\* cd
ChangeDirectory(path) ==
    LET r == Resolve(child, next, path, TRUE) IN
    /\ Serves
    /\ "above_home" \in Avoids => r.how # "crash" /\ r.node # Nil
    /\ \/ r.how = "at" /\ cur' = r.node /\ UNCHANGED up
       \/ r.how = "missing" /\ UNCHANGED <<cur, up>>
       \/ r.how \in {"crash", "hang"} /\ Failure(r) /\ UNCHANGED cur
    /\ UNCHANGED <<used, fields, awaits, removed>>

\* tobigfs: a name that is taken is refused.
ToBigFS(m) ==
    /\ Serves /\ used < MaxNodes
    /\ Here(LET y == Find(next, child[cur], m) IN
            IF y = Nil THEN Allocate(m, "file")
            ELSE /\ up' = IF y = Stuck THEN "hangs" ELSE up
                 /\ UNCHANGED <<used, fields, removed>>)
    /\ UNCHANGED <<cur, awaits>>

\* rm: the first child is removed whatever its type; any other only if it is
\* a file.  Without a hit the handler reads a NULL pointer.
FirstIs(m) == child[cur] # Nil /\ name[child[cur]] = m

UnlinkFirst(m) ==
    /\ FirstIs(m)
    /\ child' = [child EXCEPT ![cur] = next[@]]
    /\ next' = [next EXCEPT ![child[cur]] = Nil]
    /\ removed' = removed \cup Subtree(child, next, child[cur])
    /\ UNCHANGED <<used, name, type, parent, up>>

UnlinkLater(m) ==
    LET at   == At(next, child[cur])
        hits == {k \in Hits(next, child[cur], m) : type[at[k]] = "file"}
    IN
    /\ ~FirstIs(m)
    /\ IF hits = {}
       THEN /\ up' = IF Endless(next, child[cur]) THEN "hangs" ELSE "dead"
            /\ UNCHANGED <<next, removed>>
       ELSE /\ next' = [next EXCEPT ![at[Min(hits) - 1]] = next[at[Min(hits)]],
                                    ![at[Min(hits)]] = Nil]
            /\ removed' = removed \cup {at[Min(hits)]}
            /\ UNCHANGED up
    /\ UNCHANGED <<used, name, type, child, parent>>

RemoveFile(m) ==
    /\ Serves
    /\ "not_a_file" \in Avoids =>
        LET y == Find(next, child[cur], m) IN y # Nil /\ type[y] = "file"
    /\ Here(UnlinkFirst(m) \/ UnlinkLater(m))
    /\ UNCHANGED <<cur, awaits>>

\* Mutant: the node keeps its next pointer.
UnlinkedButNext(x) ==
    LET first == child[parent[x]]
        hits  == Hits(next, first, name[x])
    IN  IF name[first] = name[x]
        THEN [ch |-> [child EXCEPT ![parent[x]] = next[x]], nx |-> next, ok |-> TRUE]
        ELSE [ch |-> child, ok |-> TRUE,
              nx |-> [next EXCEPT ![At(next, first)[Min(hits) - 1]] = next[x]]]

\* mv, first half: the node is looked for by name in the list of its parent
\* and unlinked.
Unlinked(x) ==
    LET first == child[parent[x]]
        hits  == Hits(next, first, name[x])
    IN  IF name[first] = name[x]
        THEN [ch |-> [child EXCEPT ![parent[x]] = next[x]],
              nx |-> [next EXCEPT ![x] = Nil], ok |-> TRUE]
        ELSE IF hits # {}
        THEN [ch |-> child, ok |-> TRUE,
              nx |-> [next EXCEPT ![At(next, first)[Min(hits) - 1]] = next[x],
                                  ![x] = Nil]]
        ELSE [ch |-> child, nx |-> next, ok |-> ~Endless(next, first)]

\* mv, second half: the destination is looked up without the node, and the
\* node is linked there; if that is refused it stays unlinked.
Relink(x, dst, u) ==
    LET r == Resolve(u.ch, u.nx, dst, FALSE)
        l == Linked(u.ch, u.nx, r.node, x)
    IN
    \/ /\ Accepted(dst, r)
       /\ child' = l.ch /\ next' = l.nx
       /\ parent' = [parent EXCEPT ![x] = r.node]
       /\ name' = IF l.ok THEN [name EXCEPT ![x] = Named(dst, r, @)] ELSE name
       /\ up' = IF l.ok THEN up ELSE "hangs"
    \/ /\ ~Accepted(dst, r)
       /\ child' = u.ch /\ next' = u.nx
       /\ IF Fails(r) THEN Failure(r) ELSE UNCHANGED up
       /\ UNCHANGED <<parent, name>>

\* What a careful user makes sure of before an mv.
Listing(x) == {d \in Nodes : x \in Listed(next, child[d])}

MvCareful(x, dst) ==
    LET u == Unlinked(x)
        r == Resolve(u.ch, u.nx, dst, FALSE)
    IN
    /\ "stale_parent" \in Avoids => Listing(x) = {parent[x]}
    /\ parent[x] # Nil /\ child[parent[x]] # Nil =>
        /\ "above_home" \in Avoids => r.how # "crash" /\ r.node # Nil
        /\ "refused_mv" \in Avoids => Accepted(dst, r)
        /\ "into_itself" \in Avoids => r.node \notin Subtree(child, next, x)
        /\ "duplicate" \in Avoids /\ r.how = "at" /\ r.node # Nil =>
                \A y \in Listed(next, child[r.node]) : name[y] = name[x] => y = x

MoveFile(src, dst) ==
    LET r == Resolve(child, next, src, FALSE)
        x == r.node
    IN
    /\ Serves
    /\ "above_home" \in Avoids => r.how # "crash" /\ x \notin {Nil, Home}
    /\ r.how = "at" /\ x # Nil => MvCareful(x, dst)
    /\ \/ r.how = "missing" /\ UNCHANGED <<fields, up>>
       \/ r.how \in {"crash", "hang"} /\ Failure(r) /\ UNCHANGED fields
       \/ /\ r.how = "at"
          /\ IF x = Nil \/ parent[x] = Nil \/ child[parent[x]] = Nil
             THEN up' = "dead" /\ UNCHANGED fields
             ELSE IF ~Unlinked(x).ok
             THEN up' = "hangs" /\ UNCHANGED fields
             ELSE Relink(x, dst, Unlinked(x)) /\ UNCHANGED type
    /\ UNCHANGED <<used, cur, awaits, removed>>

\* cp: the parent pointer goes to the source; that of the new node is never
\* assigned, and NULL, for the program never frees memory, so that malloc
\* returns fresh, zeroed pages.  A node without a location leaves the handler waiting for a location.
Duplicate(x, dst, r) ==
    LET l == Linked(child, next, r.node, New) IN
    /\ Accepted(dst, r)
    /\ used' = New
    /\ type' = [type EXCEPT ![New] = type[x]]
    /\ name' = [name EXCEPT ![New] = Named(dst, r, name[x])]
    /\ child' = l.ch /\ next' = l.nx
    /\ parent' = [parent EXCEPT ![x] = r.node]
    /\ up' = IF l.ok THEN up ELSE "hangs"
    /\ awaits' = (l.ok /\ type[x] = "directory")

CpCareful(x, dst, r) ==
    /\ "not_a_file" \in Avoids => type[x] = "file"
    /\ "above_home" \in Avoids => r.how # "crash" /\ r.node # Nil
    /\ "duplicate" \in Avoids /\ r.how = "at" /\ r.node # Nil =>
            Find(next, child[r.node], name[x]) = Nil

CopyFile(src, dst) ==
    LET s == Resolve(child, next, src, FALSE)
        r == Resolve(child, next, dst, FALSE)
        x == s.node
    IN
    /\ Serves /\ used < MaxNodes
    /\ "above_home" \in Avoids => s.how # "crash" /\ x # Nil
    /\ s.how = "at" /\ x # Nil => CpCareful(x, dst, r)
    /\ \/ s.how = "missing" /\ UNCHANGED <<used, fields, up, awaits>>
       \/ /\ s.how \in {"crash", "hang"} /\ Failure(s)
          /\ UNCHANGED <<used, fields, awaits>>
       \/ /\ s.how = "at" /\ x = Nil /\ up' = "dead"
          /\ UNCHANGED <<used, fields, awaits>>
       \/ s.how = "at" /\ x # Nil /\ Duplicate(x, dst, r)
       \/ /\ s.how = "at" /\ x # Nil /\ ~Accepted(dst, r)
          /\ IF Fails(r) THEN Failure(r) ELSE UNCHANGED up
          /\ UNCHANGED <<used, fields, awaits>>
    /\ UNCHANGED <<cur, removed>>

\* The word of the next command is taken for the location cp waits for, and
\* its operands are no commands.
LoseCommand ==
    /\ up = "runs" /\ awaits
    /\ awaits' = FALSE
    /\ UNCHANGED <<used, fields, cur, up, removed>>

Next ==
    \/ \E m \in Names : MakeDirectory(m) \/ ToBigFS(m) \/ RemoveFile(m)
    \/ \E p \in Paths : ChangeDirectory(p)
    \/ \E p, q \in Paths : MoveFile(p, q) \/ CopyFile(p, q)
    \/ LoseCommand

Spec == Init /\ [][Next]_vars

-----------------------------------------------------------------------------
(* What is checked.                                                        *)

\* Every field holds a value of its type.
TypeOK ==
    /\ used \in 0..MaxNodes
    /\ name \in [Nodes -> Names \cup {"home"}]
    /\ type \in [Nodes -> {"file", "directory"}]
    /\ child \in [Nodes -> Nodes \cup {Nil}]
    /\ next \in [Nodes -> Nodes \cup {Nil}]
    /\ parent \in [Nodes -> Nodes \cup {Nil}]
    /\ cur \in Nodes \cup {Nil}
    /\ up \in {"runs", "dead", "hangs"} /\ awaits \in BOOLEAN
    /\ removed \subseteq Nodes

\* However the pointers are twisted, nothing is ever put below a file: cur and
\* all parents are directories, and a file has no children.  Path resolution
\* in mv and cp relies on it, for it does not look at types on the way.
FilesAreLeaves ==
    /\ cur # Nil => type[cur] = "directory"
    /\ \A x \in Nodes : parent[x] # Nil => type[parent[x]] = "directory"
    /\ \A x \in Nodes : type[x] = "file" => child[x] = Nil

\* Every node that was created and not removed can be reached from home: no
\* sequence of commands makes a file or a directory disappear.
NothingLost ==
    \A x \in 1..used : x \in removed \/ x \in Subtree(child, next, Home)

\* The lists form a tree: every node is on at most one list, and home on none;
\* no list runs in a circle; a directory's parent is where it is listed, so
\* that cd .. undoes cd.
ProperTree ==
    /\ \A d \in Nodes : ~Endless(next, child[d])
    /\ \A x \in Nodes : \A d, e \in Listing(x) : d = e
    /\ Listing(Home) = {}
    /\ \A x \in Nodes \ {Home} : type[x] = "directory" =>
            Listing(x) \subseteq {parent[x]}

\* What a path means: the entries of the tree with their absolute paths.
Entries ==
    LET known[k \in 0..MaxNodes] ==
            IF k = 0 THEN {<<<<>>, Home>>}
            ELSE known[k - 1] \cup
                 UNION {{<<Append(e[1], name[y]), y>> :
                            y \in Listed(next, child[e[2]])} : e \in known[k - 1]}
    IN  known[MaxNodes]

TheTree == [p \in {e[1] : e \in Entries} |->
                type[(CHOOSE e \in Entries : e[1] = p)[2]]]
TheCwd  == (CHOOSE e \in Entries : e[2] = cur)[1]

TheSpace == INSTANCE NameSpace WITH Name <- Names, tree <- TheTree, cwd <- TheCwd

\* The handlers implement NameSpace: each of them changes the one entry its
\* command names and no other, mv takes everything below along, and a path
\* means one entry only.
KeepsNames == TheSpace!Spec

\* No sequence of commands ends the name server with a NULL pointer, leaves it
\* in a loop over a list, or waiting for a location that the client never sends.
Survives == up = "runs" /\ ~awaits

=============================================================================
