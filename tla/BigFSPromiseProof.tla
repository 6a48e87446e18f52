------------------------- MODULE BigFSPromiseProof -------------------------
(***************************************************************************)
(* BigFS implements FileStore: for a user who types no command the code    *)
(* cannot serve, and whose file names do not end in numerals, the nodes of *)
(* the directory with their texts are a map from names to contents, every  *)
(* step of the name server changes it as one command of FileStore does or  *)
(* not at all, and cat and frombigfs deliver, chunk by chunk and from all  *)
(* data servers at once, the blocks that were stored, in their order:      *)
(* frombigfs with a NUL byte among them.                                   *)
(***************************************************************************)
EXTENDS BigFSDiskProof

-----------------------------------------------------------------------------
(* What goes through a connection, step by step.                           *)

\* Each element of q is one of the steps in R, from where the one before it
\* ended.
Linked(R, h, q) == \A p \in 1..Len(q) : <<h[p - 1], q[p], h[p]>> \in R

Chain(R, q, x, y) == \E h : h[0] = x /\ h[Len(q)] = y /\ Linked(R, h, q)

LEMMA ChainEmpty == \A R, x, y : Chain(R, <<>>, x, y) <=> x = y
<1>1. Len(<<>>) = 0
  OBVIOUS
<1>2. ASSUME NEW R, NEW x PROVE Chain(R, <<>>, x, x)
  <2> DEFINE h == [p \in {0} |-> x]
  <2>1. h[0] = x /\ h[Len(<<>>)] = x
    BY <1>1
  <2>2. 1..Len(<<>>) = {}
    BY <1>1
  <2> QED BY <2>1, <2>2 DEF Chain, Linked
<1>3. ASSUME NEW R, NEW x, NEW y, Chain(R, <<>>, x, y) PROVE x = y
  BY <1>1, <1>3 DEF Chain
<1> QED BY <1>2, <1>3

LEMMA ChainStays ==
    ASSUME NEW T, NEW q \in Seq(T), NEW R, NEW x, \A p \in 1..Len(q) : <<x, q[p], x>> \in R
    PROVE  Chain(R, q, x, x)
<1> DEFINE h == [p \in 0..Len(q) |-> x]
<1>1. Len(q) \in Nat
  BY LenProperties
<1>2. \A p \in 0..Len(q) : h[p] = x
  OBVIOUS
<1> HIDE DEF h
<1>3. h[0] = x /\ h[Len(q)] = x
  BY <1>1, <1>2
<1>4. ASSUME NEW p \in 1..Len(q) PROVE <<h[p - 1], q[p], h[p]>> \in R
  <2>1. p - 1 \in 0..Len(q) /\ p \in 0..Len(q)
    BY <1>1
  <2> QED BY <1>2, <2>1
<1> QED BY <1>3, <1>4 DEF Chain, Linked

LEMMA ChainAppend ==
    ASSUME NEW T, NEW q \in Seq(T), NEW r \in T, NEW R, NEW x, NEW y, NEW z,
           Chain(R, q, x, y), <<y, r, z>> \in R
    PROVE  Chain(R, Append(q, r), x, z)
<1>1. PICK h : h[0] = x /\ h[Len(q)] = y /\ Linked(R, h, q)
  BY DEF Chain
<1> DEFINE a == Append(q, r)
           g == [p \in 0..Len(a) |-> IF p <= Len(q) THEN h[p] ELSE z]
<1>2. /\ Len(q) \in Nat /\ Len(a) = Len(q) + 1 /\ a[Len(q) + 1] = r
      /\ \A p \in 1..Len(q) : a[p] = q[p]
  BY AppendProperties, LenProperties
<1>3. /\ \A p \in 0..Len(q) : g[p] = h[p]
      /\ g[Len(a)] = z
  BY <1>2
<1> HIDE DEF a, g
<1>4. g[0] = x /\ g[Len(q)] = y
  BY <1>1, <1>2, <1>3
<1>5. ASSUME NEW p \in 1..Len(a) PROVE <<g[p - 1], a[p], g[p]>> \in R
  <2>1. CASE p \in 1..Len(q)
    <3>1. p - 1 \in 0..Len(q) /\ p \in 0..Len(q)
      BY <1>2, <2>1
    <3>2. g[p - 1] = h[p - 1] /\ g[p] = h[p] /\ a[p] = q[p]
      BY <1>2, <1>3, <2>1, <3>1
    <3> QED BY <1>1, <2>1, <3>2 DEF Linked
  <2>2. CASE p = Len(a)
    <3>1. p - 1 = Len(q) /\ p = Len(q) + 1
      BY <1>2, <2>2
    <3> QED BY <1>2, <1>3, <1>4, <2>2, <3>1
  <2> QED BY <1>2, <2>1, <2>2
<1>6. Linked(R, g, a)
  BY <1>5 DEF Linked
<1> QED BY <1>3, <1>4, <1>6 DEF Chain, a

LEMMA ChainTail ==
    ASSUME NEW T, NEW q \in Seq(T), q # <<>>, NEW R, NEW x, NEW y, Chain(R, q, x, y)
    PROVE  \E z : <<x, Head(q), z>> \in R /\ Chain(R, Tail(q), z, y)
<1>1. PICK h : h[0] = x /\ h[Len(q)] = y /\ Linked(R, h, q)
  BY DEF Chain
<1> DEFINE b == Tail(q)
           g == [p \in 0..Len(b) |-> h[p + 1]]
<1>2. /\ Len(q) \in Nat \ {0} /\ Len(b) = Len(q) - 1 /\ \A p \in 1..Len(b) : b[p] = q[p + 1]
      /\ Head(q) = q[1]
  BY HeadTailProperties, EmptySeq
<1>3. \A p \in 0..Len(b) : g[p] = h[p + 1]
  OBVIOUS
<1> HIDE DEF b, g
<1>4. <<h[0], q[1], h[1]>> \in R
  <2>1. 1 \in 1..Len(q) /\ 1 - 1 = 0
    BY <1>2
  <2> QED BY <1>1, <2>1 DEF Linked
<1>5. g[0] = h[1] /\ g[Len(b)] = y
  <2>1. 0 \in 0..Len(b) /\ Len(b) \in 0..Len(b) /\ Len(b) + 1 = Len(q) /\ 0 + 1 = 1
    BY <1>2
  <2> QED BY <1>1, <1>2, <1>3, <2>1
<1>6. ASSUME NEW p \in 1..Len(b) PROVE <<g[p - 1], b[p], g[p]>> \in R
  <2>1. p - 1 \in 0..Len(b) /\ p \in 0..Len(b) /\ (p - 1) + 1 = p /\ p + 1 \in 1..Len(q) /\ (p + 1) - 1 = p
    BY <1>2
  <2>2. g[p - 1] = h[p] /\ g[p] = h[p + 1] /\ b[p] = q[p + 1]
    BY <1>2, <1>3, <2>1
  <2>3. <<h[p], q[p + 1], h[p + 1]>> \in R
    BY <1>1, <2>1 DEF Linked
  <2> QED BY <2>2, <2>3
<1>7. Linked(R, g, b)
  BY <1>6 DEF Linked
<1>8. Chain(R, b, h[1], y)
  BY <1>5, <1>7 DEF Chain
<1> QED BY <1>1, <1>2, <1>4, <1>8 DEF b

-----------------------------------------------------------------------------
(* Which chunk is whose.                                                   *)

\* The first chunk of server s that is not before chunk i.
At(c, i, s) == c \in Nat /\ Server(c) = s /\ i <= c /\ c < i + D

\* c is the a-th chunk of the server r.
Splits(c, a, r) == a \in Int /\ r \in 0..(D - 1) /\ c = D * a + r

LEMMA SomeServers == D \in Nat \ {0} /\ D \in Int
BY BigFSConstants DEF ConstantsOK

LEMMA OneSplit ==
    ASSUME NEW c, NEW a, NEW b, NEW r, NEW s, Splits(c, a, r), Splits(c, b, s)
    PROVE  a = b /\ r = s
<1>0. /\ a \in Int /\ b \in Int /\ r \in 0..(D - 1) /\ s \in 0..(D - 1) /\ D * a + r = D * b + s
      /\ D \in Nat \ {0}
  BY SomeServers DEF Splits
<1>1. D * (a - b) = s - r /\ a - b \in Int
  BY <1>0
<1>2. a - b >= 1 => D * (a - b) >= D
  BY <1>0
<1>3. a - b <= 0 - 1 => D * (a - b) <= 0 - D
  BY <1>0
<1>4. a - b = 0
  BY <1>0, <1>1, <1>2, <1>3
<1>5. a = b
  BY <1>0, <1>4
<1> QED BY <1>0, <1>5

LEMMA Divided == ASSUME NEW c \in Nat PROVE \E a : Splits(c, a, Server(c))
<1>1. c = D * (c \div D) + Server(c) /\ Server(c) \in 0..(D - 1) /\ c \div D \in Nat
  BY SomeServers DEF Server
<1> QED BY <1>1 DEF Splits

LEMMA NextOnServer == ASSUME NEW c \in Nat PROVE Server(c + D) = Server(c) /\ c + D \in Nat /\ c + D > c
<1>1. c + D \in Nat /\ c + D > c
  BY SomeServers
<1>2. PICK a : Splits(c, a, Server(c))
  BY Divided
<1>3. PICK b : Splits(c + D, b, Server(c + D))
  BY <1>1, Divided
<1>4. Splits(c + D, a + 1, Server(c))
  <2>1. D * (a + 1) = D * a + D /\ D * a \in Int
    BY <1>2, SomeServers DEF Splits
  <2> QED BY <1>2, <2>1, SomeServers DEF Splits
<1> QED BY <1>1, <1>3, <1>4, OneSplit

LEMMA SameChunk ==
    ASSUME NEW c \in Nat, NEW i \in Nat, Server(c) = Server(i), i <= c, c < i + D
    PROVE  c = i
<1>1. PICK a : Splits(c, a, Server(c))
  BY Divided
<1>2. PICK b : Splits(i, b, Server(i))
  BY Divided
<1>3. /\ D * a \in Int /\ D * b \in Int /\ a \in Int /\ b \in Int /\ Server(c) \in Int
      /\ c = D * a + Server(c) /\ i = D * b + Server(c)
  BY <1>1, <1>2, SomeServers DEF Splits
<1>4. Splits(D * a, a, 0) /\ Splits(D * a, b, c - i)
  BY <1>3, SomeServers DEF Splits
<1>5. 0 = c - i
  BY <1>4, OneSplit
<1> QED BY <1>5

LEMMA AtChunk ==
    ASSUME NEW i \in Nat, NEW s
    PROVE  /\ \A c : At(c, i, s) /\ Server(i) = s => c = i
           /\ \A c : At(c, i, s) /\ Server(i) # s => At(c, i + 1, s)
           /\ Server(i) = s => At(i, i, s) /\ At(i + D, i + 1, s)
           /\ s \in Servers => At(s, 0, s)
<1>1. D \in Nat \ {0}
  BY SomeServers
<1>2. \A c : At(c, i, s) /\ Server(i) = s => c = i
  BY SameChunk DEF At
<1>3. ASSUME NEW c, At(c, i, s), Server(i) # s PROVE At(c, i + 1, s)
  <2>1. c # i
    BY <1>3 DEF At
  <2> QED BY <1>1, <1>3, <2>1 DEF At
<1>4. Server(i) = s => At(i, i, s) /\ At(i + D, i + 1, s)
  BY <1>1, NextOnServer DEF At
<1>5. s \in Servers => At(s, 0, s)
  <2>1. ASSUME s \in Servers PROVE s \in Nat /\ Server(s) = s /\ s < D
    BY <1>1, <2>1, ServerOf DEF Servers
  <2> QED BY <1>1, <2>1 DEF At
<1> QED BY <1>2, <1>3, <1>4, <1>5

-----------------------------------------------------------------------------
(* A file on its way to the client.                                        *)

\* The answers that hold the chunks of text: what is read next is chunk c or,
\* when that was read, the string that ends it.
AnswerSteps(text) ==
    {<<<<c, FALSE>>, Segment(text[c + 1]), <<c, TRUE>>>> : c \in 0..(Len(text) - 1)}
    \cup {<<<<c, TRUE>>, EndOfChunk, <<c + D, FALSE>>>> : c \in 0..(Len(text) - 1)}

\* The requests for them, which other requests may precede.
RequestSteps(text, loc) ==
    {z \in Nat \X Request \X Nat :
        IF z[2].op = "cat"
        THEN z[2].loc = loc /\ z[2].num = z[1] /\ z[1] < Len(text) /\ z[3] = z[1] + D
        ELSE z[3] = z[1]}

LEMMA ChunkSteps ==
    ASSUME NEW text, NEW c \in 0..(Len(text) - 1)
    PROVE  /\ <<<<c, FALSE>>, Segment(text[c + 1]), <<c, TRUE>>>> \in AnswerSteps(text)
           /\ <<<<c, TRUE>>, EndOfChunk, <<c + D, FALSE>>>> \in AnswerSteps(text)
BY DEF AnswerSteps

LEMMA RequestStep ==
    ASSUME NEW text, NEW loc, NEW x, NEW r, NEW y
    PROVE  <<x, r, y>> \in RequestSteps(text, loc) <=>
              /\ x \in Nat /\ r \in Request /\ y \in Nat
              /\ r.op = "cat" => r.loc = loc /\ r.num = x /\ x < Len(text) /\ y = x + D
              /\ r.op # "cat" => y = x
BY DEF RequestSteps

\* What is read next from server s when chunk i is the present one: its text,
\* or the string that ends it if half of it was read.
ReadsAt(x, i, half, s) ==
    IF half /\ Server(i) = s THEN x = <<i, TRUE>> ELSE \E c : x = <<c, FALSE>> /\ At(c, i, s)

\* From server s the client gets its chunks of text, one after another, when
\* chunk i is the one it reads and u the next it will ask for: those before
\* chunk c are read or among the answers a, those from chunk b on were not
\* served yet, and only an empty chunk, the last, was served in silence.
FlowOf(text, loc, i, half, u, a, q, s) ==
    \E x, c, b, e :
        /\ ReadsAt(x, i, half, s)
        /\ Chain(AnswerSteps(text), a, x, <<c, FALSE>>)
        /\ c \in Nat /\ Server(c) = s
        /\ b = c \/ (b = c + D /\ c + 1 = Len(text))
        /\ Chain(RequestSteps(text, loc), q, b, e)
        /\ At(e, u, s)

\* The chunk that the client reads, whether it has its text already, and where
\* the chunks begin that it did not ask for.
Read   == IF pc = "cat_data" THEN job.i ELSE 0
Begun  == pc = "cat_data" /\ Len(job.got) = job.i + 1
Unsent == IF pc = "cat_send" THEN job.i ELSE job.chunks

Flow(text, s) == FlowOf(text, job.loc, Read, Begun, Unsent, d2c[s], c2d[s], s)

\* The node whose file the client fetches, and what it got of its text.
Fetches(k) == dir[k].name = job.name /\ dir[k].loc = job.loc /\ dir[k].chunks = job.chunks

Got(text) ==
    /\ pc = "cat_send" => job.got = <<>>
    /\ pc = "cat_data" => /\ job.i < job.chunks /\ Len(job.got) \in {job.i, job.i + 1}
                          /\ \A n \in 1..Len(job.got) : job.got[n] = text[n]

Fetching ==
    pc \in {"cat_send", "cat_data"} =>
        /\ nspc = "command"
        /\ \E k \in DOMAIN dir : Fetches(k) /\ Got(dir[k].text) /\ \A s \in Servers : Flow(dir[k].text, s)

\* What the name server answers to a cat is the node of that name.
Offer ==
    pc = "cat_ack" =>
        /\ job.got = <<>>
        /\ Len(n2c) = 3 => \E k \in DOMAIN dir : /\ dir[k].name = job.name
                                                 /\ n2c[2] = dir[k].loc /\ Atoi(n2c[3]) = dir[k].chunks

-----------------------------------------------------------------------------
(* Names and contents.                                                     *)

Contents == {LocalText(u, n, t) : u \in 1..MaxWrites, n \in 1..MaxChunks, t \in Tails}

Stock ==
    /\ \A k \in DOMAIN dir : dir[k].text \in Contents
    /\ nspc = "parts" => nsnew.text \in Contents /\ nsnew.name \in Names
    /\ pc = "put_ack" => job.text \in Contents
    /\ pc \in {"put_ack", "cat_ack", "rm_ack", "cp_ack", "mv_ack", "cat_send", "cat_data"} => job.name \in Names
    /\ pc \in {"cp_ack", "mv_ack"} => job.to \in Names

\* Only the last block of a text may be empty.
LEMMA ContentBlocks ==
    ASSUME NEW text \in Contents
    PROVE  /\ text \in Seq(Block) /\ Len(text) \in Nat /\ Len(text) > 0
           /\ \A c \in 0..(Len(text) - 1) : text[c + 1] = Empty => c + 1 = Len(text)
<1>1. PICK u \in 1..MaxWrites, n \in 1..MaxChunks, t \in Tails : text = LocalText(u, n, t)
  BY DEF Contents
<1>2. MaxWrites \in Nat /\ MaxChunks \in Nat /\ u \in Nat \ {0} /\ n \in Nat \ {0}
  BY BigFSConstants DEF ConstantsOK
<1>3. text \in Seq(Block)
  BY <1>1, <1>2, LocalTextType
<1>4. Len(text) = n /\ \A k \in 1..n : text[k] = IF k = n /\ t THEN Empty ELSE <<u, k>>
  BY <1>1, <1>2 DEF LocalText
<1>5. ASSUME NEW c \in 0..(n - 1), text[c + 1] = Empty PROVE c + 1 = n
  <2>1. c + 1 \in 1..n
    BY <1>2
  <2>2. <<u, c + 1>> # Empty
    BY <1>2 DEF Empty
  <2> QED BY <1>4, <1>5, <2>1, <2>2
<1> QED BY <1>2, <1>3, <1>4, <1>5

-----------------------------------------------------------------------------
(* The directory as a map.                                                 *)

\* The names of the nodes with their texts, and the map they make.
Files(d) == {<<d[k].name, d[k].text>> : k \in DOMAIN d}

Maps(f, P) ==
    /\ f = [n \in {p[1] : p \in P} |-> f[n]]
    /\ \A p \in P : p = <<p[1], f[p[1]]>>

Unique(d) == \A k, h \in DOMAIN d : d[k].name = d[h].name => k = h

Stored(d) == [n \in {d[k].name : k \in DOMAIN d} |-> d[CHOOSE k \in DOMAIN d : d[k].name = n].text]

LEMMA StoredMaps == ASSUME NEW d, Unique(d) PROVE Maps(Stored(d), Files(d))
<1>1. {p[1] : p \in Files(d)} = {d[k].name : k \in DOMAIN d}
  <2>1. \A k \in DOMAIN d : <<d[k].name, d[k].text>>[1] = d[k].name
    OBVIOUS
  <2>2. ASSUME NEW p \in Files(d) PROVE p[1] \in {d[k].name : k \in DOMAIN d}
    BY <2>1 DEF Files
  <2>3. ASSUME NEW k \in DOMAIN d PROVE d[k].name \in {p[1] : p \in Files(d)}
    <3>1. <<d[k].name, d[k].text>> \in Files(d)
      BY DEF Files
    <3> QED BY <2>1, <3>1
  <2> QED BY <2>2, <2>3
<1>2. ASSUME NEW k \in DOMAIN d PROVE Stored(d)[d[k].name] = d[k].text
  <2> DEFINE h == CHOOSE h \in DOMAIN d : d[h].name = d[k].name
  <2>1. h \in DOMAIN d /\ d[h].name = d[k].name
    OBVIOUS
  <2>2. h = k
    BY <2>1 DEF Unique
  <2>3. d[k].name \in {d[j].name : j \in DOMAIN d}
    OBVIOUS
  <2>4. Stored(d)[d[k].name] = d[h].text
    BY <2>3 DEF Stored
  <2> QED BY <2>2, <2>4
<1>3. \A p \in Files(d) : p = <<p[1], Stored(d)[p[1]]>>
  BY <1>2 DEF Files
<1>4. Stored(d) = [n \in {d[k].name : k \in DOMAIN d} |-> Stored(d)[n]]
  BY DEF Stored
<1> QED BY <1>1, <1>3, <1>4 DEF Maps

LEMMA MapSame == ASSUME NEW P, NEW f, NEW g, Maps(f, P), Maps(g, P) PROVE f = g
<1>1. ASSUME NEW n \in {p[1] : p \in P} PROVE f[n] = g[n]
  <2>1. PICK p \in P : p[1] = n
    OBVIOUS
  <2>2. p = <<n, f[n]>> /\ p = <<n, g[n]>>
    BY <2>1 DEF Maps
  <2> QED BY <2>2
<1> QED BY <1>1 DEF Maps

\* The domain of the map, and its values.
\* Its names, and what belongs to them.
NamesOf(P, f) == \A n : n \in DOMAIN f <=> \E p \in P : p[1] = n
PairsOf(P, f) == \A n, c : <<n, c>> \in P <=> n \in DOMAIN f /\ f[n] = c

LEMMA MapValues ==
    ASSUME NEW P, NEW f, Maps(f, P)
    PROVE  NamesOf(P, f) /\ PairsOf(P, f)
<1>1. DOMAIN f = {p[1] : p \in P}
  BY DEF Maps
<1>2. ASSUME NEW n, NEW c, <<n, c>> \in P PROVE n \in DOMAIN f /\ f[n] = c
  <2>1. <<n, c>>[1] = n
    OBVIOUS
  <2>2. <<n, c>> = <<n, f[n]>>
    BY <1>2, <2>1 DEF Maps
  <2> QED BY <1>1, <1>2, <2>1, <2>2
<1>3. ASSUME NEW n \in DOMAIN f PROVE <<n, f[n]>> \in P
  <2>1. PICK p \in P : p[1] = n
    BY <1>1
  <2> QED BY <2>1 DEF Maps
<1> QED BY <1>1, <1>2, <1>3 DEF NamesOf, PairsOf

With(f, n, c) == [m \in DOMAIN f \cup {n} |-> IF m = n THEN c ELSE f[m]]

LEMMA MapCreate ==
    ASSUME NEW P, NEW f, NEW g, NEW n, NEW c, Maps(f, P), Maps(g, P \cup {<<n, c>>}), n \notin DOMAIN f
    PROVE  g = With(f, n, c)
<1>0. NamesOf(P, f) /\ PairsOf(P, f) /\ NamesOf(P \cup {<<n, c>>}, g) /\ PairsOf(P \cup {<<n, c>>}, g)
  BY MapValues
<1>1. /\ \A m : m \in DOMAIN g <=> \E p \in P \cup {<<n, c>>} : p[1] = m
      /\ \A m, x : <<m, x>> \in P \cup {<<n, c>>} <=> m \in DOMAIN g /\ g[m] = x
  BY <1>0 DEF NamesOf, PairsOf
<1>2. \A m : m \in DOMAIN f <=> \E p \in P : p[1] = m
  BY <1>0 DEF NamesOf
<1>3. \A m, x : <<m, x>> \in P <=> m \in DOMAIN f /\ f[m] = x
  BY <1>0 DEF PairsOf
<1>4. DOMAIN g = DOMAIN f \cup {n}
  <2>1. <<n, c>>[1] = n
    OBVIOUS
  <2>2. \A m : m \in DOMAIN g <=> m \in DOMAIN f \/ m = n
    BY <1>1, <1>2, <2>1
  <2> QED BY <2>2
<1>5. g[n] = c /\ \A m \in DOMAIN f : g[m] = f[m]
  BY <1>1, <1>3
<1>6. g = [m \in DOMAIN g |-> g[m]]
  BY DEF Maps
<1>7. g = [m \in DOMAIN f \cup {n} |-> g[m]]
  BY <1>4, <1>6
<1>8. \A m \in DOMAIN f \cup {n} : g[m] = IF m = n THEN c ELSE f[m]
  BY <1>5
<1> QED BY <1>7, <1>8 DEF With

LEMMA MapRemove ==
    ASSUME NEW P, NEW f, NEW g, NEW n, NEW c, Maps(f, P), Maps(g, P \ {<<n, c>>}), <<n, c>> \in P
    PROVE  n \in DOMAIN f /\ f[n] = c /\ g = [m \in DOMAIN f \ {n} |-> f[m]]
<1>0. PairsOf(P, f) /\ PairsOf(P \ {<<n, c>>}, g)
  BY MapValues
<1>1. \A m, x : <<m, x>> \in P \ {<<n, c>>} <=> m \in DOMAIN g /\ g[m] = x
  BY <1>0 DEF PairsOf
<1>2. \A m, x : <<m, x>> \in P <=> m \in DOMAIN f /\ f[m] = x
  BY <1>0 DEF PairsOf
<1>3. n \in DOMAIN f /\ f[n] = c
  BY <1>2
<1>4. \A m : m \in DOMAIN g <=> m \in DOMAIN f \ {n}
  <2>1. ASSUME NEW m \in DOMAIN g PROVE m \in DOMAIN f \ {n}
    <3>1. <<m, g[m]>> \in P /\ <<m, g[m]>> # <<n, c>>
      BY <1>1
    <3>2. m \in DOMAIN f /\ f[m] = g[m]
      BY <1>2, <3>1
    <3> QED BY <1>3, <3>1, <3>2
  <2>2. ASSUME NEW m \in DOMAIN f, m # n PROVE m \in DOMAIN g
    <3>1. <<m, f[m]>> \in P /\ <<m, f[m]>> # <<n, c>>
      BY <1>2, <2>2
    <3> QED BY <1>1, <3>1
  <2> QED BY <2>1, <2>2
<1>5. \A m \in DOMAIN g : g[m] = f[m]
  BY <1>1, <1>2
<1>6. g = [m \in DOMAIN g |-> g[m]]
  BY DEF Maps
<1>7. DOMAIN g = DOMAIN f \ {n}
  BY <1>4
<1> QED BY <1>3, <1>5, <1>6, <1>7

Moved(f, a, b) == [m \in (DOMAIN f \ {a}) \cup {b} |-> IF m = b THEN f[a] ELSE f[m]]

LEMMA MapRename ==
    ASSUME NEW P, NEW f, NEW g, NEW a, NEW b, NEW c, Maps(f, P), <<a, c>> \in P, b \notin DOMAIN f,
           Maps(g, (P \ {<<a, c>>}) \cup {<<b, c>>})
    PROVE  a \in DOMAIN f /\ g = Moved(f, a, b)
<1> DEFINE e == [m \in DOMAIN f \ {a} |-> f[m]]
<1>0. PairsOf(P, f)
  BY MapValues
<1>1. \A m, x : <<m, x>> \in P <=> m \in DOMAIN f /\ f[m] = x
  BY <1>0 DEF PairsOf
<1>2. a \in DOMAIN f /\ f[a] = c
  BY <1>1
<1>3. Maps(e, P \ {<<a, c>>})
  <2>1. ASSUME NEW p \in P \ {<<a, c>>} PROVE p[1] \in DOMAIN e /\ p = <<p[1], e[p[1]]>>
    <3>1. p = <<p[1], f[p[1]]>> /\ p[1] \in DOMAIN f
      BY DEF Maps
    <3>2. p[1] # a
      BY <1>2, <3>1
    <3> QED BY <3>1, <3>2
  <2>2. ASSUME NEW m \in DOMAIN e PROVE m \in {p[1] : p \in P \ {<<a, c>>}}
    <3>1. <<m, f[m]>> \in P /\ m # a
      BY <1>1
    <3>2. <<m, f[m]>> \in P \ {<<a, c>>} /\ <<m, f[m]>>[1] = m
      BY <3>1
    <3> QED BY <3>2
  <2>3. DOMAIN e = {p[1] : p \in P \ {<<a, c>>}} /\ e = [m \in DOMAIN e |-> e[m]]
    BY <2>1, <2>2
  <2> QED BY <2>1, <2>3 DEF Maps
<1>4. b \notin DOMAIN e /\ DOMAIN e = DOMAIN f \ {a}
  OBVIOUS
<1>5. \A m \in DOMAIN e : e[m] = f[m]
  OBVIOUS
<1> HIDE DEF e
<1>6. g = With(e, b, c)
  <2> DEFINE Q == P \ {<<a, c>>}
  <2>1. Maps(e, Q) /\ Maps(g, Q \cup {<<b, c>>})
    BY <1>3
  <2> HIDE DEF Q
  <2> QED BY <1>4, <2>1, MapCreate
<1> QED BY <1>2, <1>4, <1>5, <1>6 DEF With, Moved

-----------------------------------------------------------------------------
(* What the name server's steps do to it.                                  *)

LEMMA FilesSame ==
    ASSUME NEW d, NEW e, DOMAIN e = DOMAIN d, \A k \in DOMAIN d : e[k].name = d[k].name /\ e[k].text = d[k].text
    PROVE  Files(e) = Files(d)
BY DEF Files

LEMMA FilesMore ==
    ASSUME NEW d, NEW e, NEW n, DOMAIN e = DOMAIN d \cup {n},
           \A k \in DOMAIN d : e[k].name = d[k].name /\ e[k].text = d[k].text
    PROVE  Files(e) = Files(d) \cup {<<e[n].name, e[n].text>>}
<1>1. ASSUME NEW k \in DOMAIN e PROVE <<e[k].name, e[k].text>> \in Files(d) \cup {<<e[n].name, e[n].text>>}
  BY DEF Files
<1>2. ASSUME NEW k \in DOMAIN d PROVE <<d[k].name, d[k].text>> \in Files(e)
  BY DEF Files
<1>3. <<e[n].name, e[n].text>> \in Files(e)
  BY DEF Files
<1> QED BY <1>1, <1>2, <1>3 DEF Files

LEMMA FilesAppend ==
    ASSUME NEW d \in Seq(Node), NEW x \in Node
    PROVE  Files(Append(d, x)) = Files(d) \cup {<<x.name, x.text>>}
<1> DEFINE e == Append(d, x)
<1>1. /\ DOMAIN e = DOMAIN d \cup {Len(d) + 1} /\ e[Len(d) + 1] = x
      /\ \A k \in DOMAIN d : e[k] = d[k]
  BY AppendProperties, LenProperties
<1> HIDE DEF e
<1>2. Files(e) = Files(d) \cup {<<e[Len(d) + 1].name, e[Len(d) + 1].text>>}
  BY <1>1, FilesMore
<1> QED BY <1>1, <1>2 DEF e

LEMMA FilesLess ==
    ASSUME TypeOK, Unique(dir), NEW k \in DOMAIN dir
    PROVE  Files(Unlink(k)) = Files(dir) \ {<<dir[k].name, dir[k].text>>}
<1> DEFINE u == Unlink(k)
           x == <<dir[k].name, dir[k].text>>
<1>1. ASSUME NEW i \in DOMAIN u PROVE <<u[i].name, u[i].text>> \in Files(dir) \ {x}
  <2>1. Was(k, i) \in DOMAIN dir /\ Was(k, i) # k /\ u[i] = dir[Was(k, i)]
    BY Unlinked
  <2>2. dir[Was(k, i)].name # dir[k].name
    BY <2>1 DEF Unique
  <2> QED BY <2>1, <2>2 DEF Files
<1>2. ASSUME NEW j \in DOMAIN dir, <<dir[j].name, dir[j].text>> # x PROVE <<dir[j].name, dir[j].text>> \in Files(u)
  <2>1. PICK i \in DOMAIN u : Was(k, i) = j
    BY <1>2, Unlinked
  <2>2. u[i] = dir[j]
    BY <2>1, Unlinked
  <2> QED BY <2>1, <2>2 DEF Files
<1> HIDE DEF u, x
<1> QED BY <1>1, <1>2 DEF Files, u, x

\* tobigfs stores its file.
LEMMA PartsFiles ==
    ASSUME Sync, Entries, NameParts
    PROVE  /\ Files(dir') = Files(dir) \cup {<<nsnew.name, nsnew.text>>}
           /\ dir'[Len(dir')].name = nsnew.name
<1> DEFINE parts == Atoi(Head(c2n))
           new   == [nsnew EXCEPT !.chunks = parts, !.text = IF Len(@) = parts THEN @ ELSE <<>>]
<1>1. dir' = Append(dir, new) /\ nsnew \in Node
  BY Types DEF NameParts
<1>2. parts \in Nat
  <2>1. c2n # <<>> /\ c2n \in Seq(String)
    BY Types DEF NameParts
  <2>2. Head(c2n) \in String
    BY <2>1, HeadTailProperties
  <2> QED BY <2>2, AtoiType
<1>3. new \in Node /\ new.name = nsnew.name
  <2> HIDE DEF parts
  <2>1. new \in Node
    BY <1>1, <1>2, PartsNode
  <2>2. new.name = nsnew.name
    BY <1>1 DEF Node
  <2> QED BY <2>1, <2>2
<1>4. new.text = nsnew.text /\ dir'[Len(dir')] = new
  <2>1. dir'[Len(dir')].text = nsnew.text /\ Len(dir') = Len(dir) + 1
    BY NamePartsNode
  <2> HIDE DEF new
  <2>2. dir'[Len(dir) + 1] = new
    BY <1>1, <1>3, Types, AppendProperties
  <2> QED BY <2>1, <2>2
<1> HIDE DEF new
<1> QED BY <1>1, <1>3, <1>4, Types, FilesAppend

LEMMA LocationFiles == ASSUME Sync, Entries, NameLocation PROVE Files(dir') = Files(dir)
<1> DEFINE m   == Len(dir)
           new == [dir[m] EXCEPT !.loc = Head(c2n)]
<1>1. m \in DOMAIN dir /\ DOMAIN dir' = DOMAIN dir /\ \A k \in DOMAIN dir : k # m => dir'[k] = dir[k]
  BY NameLocationEntries
<1>2. dir' = [dir EXCEPT ![m] = new] /\ dir[m] \in Node
  BY <1>1, Types DEF NameLocation
<1>3. new.name = dir[m].name /\ new.text = dir[m].text
  BY <1>2 DEF Node
<1> HIDE DEF new
<1>4. dir'[m] = new
  BY <1>1, <1>2, Types
<1> QED BY <1>1, <1>3, <1>4, FilesSame

LEMMA RmFiles ==
    ASSUME Sync, Unique(dir), NameRm
    PROVE  \/ UNCHANGED dir
           \/ \E k \in DOMAIN dir : dir[k].name = c2n[2] /\ Files(dir') = Files(dir) \ {<<c2n[2], dir[k].text>>}
BY Types, FilesLess DEF NameRm

LEMMA CpFiles ==
    ASSUME Sync, NameCp
    PROVE  \/ UNCHANGED dir
           \/ /\ ~Exists(c2n[3])
              /\ \E k \in DOMAIN dir : dir[k].name = c2n[2] /\ Files(dir') = Files(dir) \cup {<<c2n[3], dir[k].text>>}
<1>1. SUFFICES ASSUME NEW k \in DOMAIN dir, dir[k].name = c2n[2], ~Exists(c2n[3]), 
                      dir' = Append([dir EXCEPT ![k].linked = TRUE],
                                    [dir[k] EXCEPT !.name = c2n[3], !.loc = <<>>, !.linked = FALSE])
               PROVE  Files(dir') = Files(dir) \cup {<<c2n[3], dir[k].text>>}
  BY DEF NameCp
<1>2. c2n[3] \in String
  <2>1. Takes("cp", 3) /\ TypeOK
    BY Types DEF NameCp
  <2> QED BY <2>1, TakesType
<1> DEFINE new == [dir[k] EXCEPT !.name = c2n[3], !.loc = <<>>, !.linked = FALSE]
           was == [dir[k] EXCEPT !.linked = TRUE]
           old == [dir EXCEPT ![k] = was]
<1>3. dir[k] \in Node /\ dir \in Seq(Node)
  BY Types
<1>4. /\ new \in Node /\ new.name = c2n[3] /\ new.text = dir[k].text
      /\ was \in Node /\ was.name = dir[k].name /\ was.text = dir[k].text
  BY <1>2, <1>3, EmptyString DEF Node
<1>5. dir' = Append(old, new)
  BY <1>1
<1> HIDE DEF new, was
<1>6. old \in Seq(Node) /\ DOMAIN old = DOMAIN dir /\ old[k] = was /\ \A i \in DOMAIN dir : i # k => old[i] = dir[i]
  BY <1>3, <1>4, ExceptSeq
<1> HIDE DEF old
<1>7. Files(old) = Files(dir)
  BY <1>4, <1>6, FilesSame
<1> QED BY <1>4, <1>5, <1>6, <1>7, FilesAppend

\* mv renames, or loses the file if the new name is taken.
LEMMA MvFiles ==
    ASSUME Sync, Unique(dir), NameMv
    PROVE  \/ UNCHANGED dir
           \/ \E k \in DOMAIN dir :
                /\ dir[k].name = c2n[2]
                /\ \/ Files(dir') = Files(dir) \ {<<c2n[2], dir[k].text>>}
                   \/ /\ \A h \in DOMAIN dir \ {k} : dir[h].name # c2n[3]
                      /\ Files(dir') = (Files(dir) \ {<<c2n[2], dir[k].text>>}) \cup {<<c2n[3], dir[k].text>>}
<1>1. c2n[3] \in String /\ TypeOK
  BY Types, TakesType DEF NameMv
<1>2. ASSUME NEW k \in DOMAIN dir, dir' = Append(Unlink(k), [dir[k] EXCEPT !.name = c2n[3]])
      PROVE  Files(dir') = (Files(dir) \ {<<dir[k].name, dir[k].text>>}) \cup {<<c2n[3], dir[k].text>>}
  <2> DEFINE new == [dir[k] EXCEPT !.name = c2n[3]]
  <2>1. new \in Node /\ new.name = c2n[3] /\ new.text = dir[k].text
    BY <1>1, Types DEF Node
  <2> HIDE DEF new
  <2>2. Unlink(k) \in Seq(Node) /\ dir' = Append(Unlink(k), new)
    BY <1>1, <1>2, Unlinked DEF new
  <2>3. Files(dir') = Files(Unlink(k)) \cup {<<c2n[3], dir[k].text>>}
    BY <2>1, <2>2, FilesAppend
  <2> QED BY <1>1, <2>3, FilesLess
<1>3. CASE \E k \in DOMAIN dir : dir[k].name = c2n[2] /\ dir[k].linked
  <2>1. PICK k \in DOMAIN dir : /\ dir[k].name = c2n[2]
                                /\ IF \E h \in DOMAIN dir \ {k} : dir[h].name = c2n[3]
                                   THEN dir' = Unlink(k)
                                   ELSE dir' = Append(Unlink(k), [dir[k] EXCEPT !.name = c2n[3]])
    BY <1>3 DEF NameMv, Unique, Exists
  <2>2. CASE \E h \in DOMAIN dir \ {k} : dir[h].name = c2n[3]
    BY <1>1, <2>1, <2>2, FilesLess
  <2>3. CASE ~\E h \in DOMAIN dir \ {k} : dir[h].name = c2n[3]
    BY <1>2, <2>1, <2>3
  <2> QED BY <2>2, <2>3
<1>4. CASE ~\E k \in DOMAIN dir : dir[k].name = c2n[2] /\ dir[k].linked
  BY <1>4 DEF NameMv
<1> QED BY <1>3, <1>4

-----------------------------------------------------------------------------
(* The texts are those of local files.                                     *)

LEMMA TextsOf ==
    ASSUME NEW d PROVE (\A k \in DOMAIN d : d[k].text \in Contents) <=> (\A p \in Files(d) : p[2] \in Contents)
<1>1. \A k \in DOMAIN d : <<d[k].name, d[k].text>>[2] = d[k].text
  OBVIOUS
<1>2. \A p \in Files(d) : \E k \in DOMAIN d : p[2] = d[k].text
  BY DEF Files
<1>3. \A k \in DOMAIN d : <<d[k].name, d[k].text>> \in Files(d)
  BY DEF Files
<1> QED BY <1>1, <1>2, <1>3

\* While the directory stays, and nobody types a name.
LEMMA StockKept ==
    ASSUME Stock, UNCHANGED <<dir, nspc, nsnew>>,
           pc' \in {"put_ack", "cat_ack", "rm_ack", "cp_ack", "mv_ack", "cat_send", "cat_data"} =>
               /\ pc \in {"put_ack", "cat_ack", "rm_ack", "cp_ack", "mv_ack", "cat_send", "cat_data"}
               /\ pc' \notin {"cat_send", "cat_data"} => pc' = pc
               /\ job'.name = job.name /\ job'.to = job.to /\ job'.text = job.text
    PROVE  Stock'
BY DEF Stock

LEMMA UserStock == ASSUME Careful, TypeOK, Stock, User PROVE Stock'
<1>1. UNCHANGED <<dir, nspc, nsnew>>
  BY DEF User, StartPut, StartCat, StartGet, StartRm, StartCp, StartMv, nameVars
<1>2. ASSUME NEW n \in Names, NEW text \in Texts, StartPut(n, text) PROVE Stock'
  <2>1. text # <<>> /\ writes + 1 \in 1..MaxWrites
    BY <1>2, BigFSConstants DEF StartPut, TypeOK, ClientType, ConstantsOK
  <2>2. text \in Contents
    BY <2>1 DEF Texts, Contents
  <2>3. pc' = "put_ack" /\ job'.name = n /\ job'.text = text
    BY <1>2 DEF StartPut, Await, Idle
  <2> QED BY <1>1, <2>2, <2>3 DEF Stock
<1>3. ASSUME NEW n \in Names, NEW op \in {"cat", "frombigfs"}, Fetch(op, n) PROVE Stock'
  <2>1. pc' = "cat_ack" /\ job'.name = n
    BY <1>3 DEF Fetch, StartCat, StartGet, Await, Idle
  <2> QED BY <1>1, <2>1 DEF Stock
<1>4. ASSUME NEW n \in Names, StartRm(n) PROVE Stock'
  <2>1. pc' = "rm_ack" /\ job'.name = n
    BY <1>4 DEF StartRm, Await, Idle
  <2> QED BY <1>1, <2>1 DEF Stock
<1>5. ASSUME NEW a \in Names, NEW b \in Names, StartCp(a, b) \/ StartMv(a, b) PROVE Stock'
  <2>1. pc' \in {"cp_ack", "mv_ack"} /\ job'.name = a /\ job'.to = b
    BY <1>5 DEF StartCp, StartMv, Await, Idle
  <2> QED BY <1>1, <2>1 DEF Stock
<1> QED BY <1>2, <1>3, <1>4, <1>5, FetchWords DEF User

LEMMA ClientStock == ASSUME TypeOK, Stock, Client PROVE Stock'
<1>1. UNCHANGED <<dir, nspc, nsnew>>
  BY DEF Client, PutRefused, PutAccepted, PutLocated, NotFound, Found, CatSend, CatData, RmSend,
     CpAccepted, CpLocated, CpSend, MvDoneOrCpRefused, nameVars
<1>2. job \in Job
  BY DEF TypeOK, ClientType
<1>3. CASE PutRefused \/ PutAccepted \/ PutLocated \/ NotFound \/ RmSend \/ CpAccepted \/ CpLocated \/ CpSend
           \/ MvDoneOrCpRefused
  <2>1. pc' \in {"prompt", "put_loc", "rm_send", "cp_loc", "cp_send"}
    BY <1>3 DEF PutRefused, PutAccepted, PutLocated, NotFound, RmSend, CpAccepted, CpLocated, CpSend,
       MvDoneOrCpRefused, Prompt, Await
  <2> QED BY <1>1, <2>1, StockKept
<1>4. CASE Found
  <2>1. pc' \in {"prompt", "rm_send"} \/ (pc = "cat_ack" /\ pc' = "cat_send")
    BY <1>4 DEF Found, Prompt, Await
  <2>2. pc' # "prompt" => job'.name = job.name /\ job'.to = job.to /\ job'.text = job.text
    BY <1>2, <1>4 DEF Found, Prompt, Await, Job
  <2> QED BY <1>1, <2>1, <2>2, StockKept
<1>5. CASE CatSend \/ CatData
  <2>1. pc \in {"cat_send", "cat_data"} /\ pc' \in {"prompt", "cat_send", "cat_data"}
    BY <1>5 DEF CatSend, CatData, Prompt, Await
  <2>2. pc' # "prompt" => job'.name = job.name /\ job'.to = job.to /\ job'.text = job.text
    BY <1>2, <1>5 DEF CatSend, CatData, Prompt, Await, Job
  <2> QED BY <1>1, <2>1, <2>2, StockKept
<1> QED BY <1>3, <1>4, <1>5 DEF Client

LEMMA ServerStock == ASSUME Stock, NEW s \in Servers, DataServer(s) PROVE Stock'
<1>1. UNCHANGED <<pc, job, dir, nspc, nsnew>>
  BY DEF DataServer, DataToBigFS, DataCat, DataRm, DataCp, clientVars, nameVars
<1> QED BY <1>1, StockKept

LEMMA NameServerStock == ASSUME Sync, Entries, Unique(dir), Stock, NameServer PROVE Stock'
<1>1. UNCHANGED <<pc, job>>
  BY DEF NameServer, NameToBigFS, NameParts, NameLocation, NameCat, NameRm, NameCp, NameMv, NameIgnores, clientVars
<1>2. ASSUME UNCHANGED dir, nspc' = "parts" => nspc = "parts" /\ nsnew' = nsnew PROVE Stock'
  BY <1>1, <1>2 DEF Stock
<1>3. ASSUME NEW t \in Contents, NEW n, Files(dir') \subseteq Files(dir) \cup {<<n, t>>},
             nspc' = "parts" => nspc = "parts" /\ nsnew' = nsnew
      PROVE  Stock'
  <2>1. \A p \in Files(dir) : p[2] \in Contents
    BY TextsOf DEF Stock
  <2>2. \A p \in Files(dir') : p[2] \in Contents
    BY <1>3, <2>1
  <2>3. \A k \in DOMAIN dir' : dir'[k].text \in Contents
    BY <2>2, TextsOf
  <2> QED BY <1>1, <1>3, <2>3 DEF Stock
<1>4. CASE NameToBigFS
  <2>1. pc = "put_ack" /\ c2n[2] = job.name
    BY <1>4, TakesCommand DEF NameToBigFS, Arity, Says, Words
  <2>2. CASE Exists(c2n[2])
    BY <1>2, <1>4, <2>2 DEF NameToBigFS
  <2>3. CASE ~Exists(c2n[2])
    <3>1. nsnew'.name = job.name /\ nsnew'.text = job.text /\ UNCHANGED dir
      BY <1>4, <2>1, <2>3 DEF NameToBigFS, NoNode
    <3> QED BY <1>1, <2>1, <3>1 DEF Stock
  <2> QED BY <2>2, <2>3
<1>5. CASE NameParts
  <2>1. nsnew.text \in Contents /\ nspc' # "parts"
    BY <1>5 DEF NameParts, Stock
  <2>2. Files(dir') \subseteq Files(dir) \cup {<<nsnew.name, nsnew.text>>}
    BY <1>5, PartsFiles
  <2> QED BY <1>3, <2>1, <2>2
<1>6. CASE NameLocation
  <2>1. Files(dir') = Files(dir) /\ nspc' = "command"
    BY <1>6, LocationFiles DEF NameLocation
  <2>2. Len(dir) \in DOMAIN dir
    BY <1>6, NameLocationEntries
  <2>3. dir[Len(dir)].text \in Contents
    BY <2>2 DEF Stock
  <2> QED BY <1>3, <2>1, <2>3
<1>7. CASE \/ NameRm \/ NameCp \/ NameMv
  <2>1. nspc' = "parts" => nspc = "parts" /\ nsnew' = nsnew
    BY <1>7 DEF NameRm, NameCp, NameMv, Takes
  <2>2. \/ UNCHANGED dir
        \/ \E k \in DOMAIN dir : \E n : Files(dir') \subseteq Files(dir) \cup {<<n, dir[k].text>>}
    <3>1. CASE NameRm
      BY <3>1, RmFiles
    <3>2. CASE NameCp
      BY <3>2, CpFiles
    <3>3. CASE NameMv
      BY <3>3, MvFiles
    <3> QED BY <1>7, <3>1, <3>2, <3>3
  <2> QED BY <1>2, <1>3, <2>1, <2>2 DEF Stock
<1>8. CASE NameCat("cat") \/ NameCat("frombigfs") \/ NameIgnores
  BY <1>2, <1>8 DEF NameCat, NameIgnores, nameVars
<1> QED BY <1>4, <1>5, <1>6, <1>7, <1>8 DEF NameServer

-----------------------------------------------------------------------------
(* What the client is told of a file is what the directory says of it.      *)

LEMMA OfferKept ==
    ASSUME Offer, UNCHANGED <<pc, job, n2c, dir>> PROVE Offer'
BY DEF Offer

LEMMA UserOffer == ASSUME Sync, User PROVE Offer'
<1>1. n2c' = <<>> /\ Len(<<>>) = 0
  <2>1. pc = "prompt" /\ n2c' = n2c
    BY DEF User, StartPut, StartCat, StartGet, StartRm, StartCp, StartMv
  <2> QED BY <2>1 DEF Sync, InCall, Calls
<1>2. pc' = "cat_ack" => job'.got = <<>>
  BY DEF User, StartPut, StartCat, StartGet, StartRm, StartCp, StartMv, Await, Idle
<1> QED BY <1>1, <1>2 DEF Offer

LEMMA ClientOffer == ASSUME Client PROVE Offer'
<1>1. pc' # "cat_ack"
  BY DEF Client, PutRefused, PutAccepted, PutLocated, NotFound, Found, CatSend, CatData, RmSend,
     CpAccepted, CpLocated, CpSend, MvDoneOrCpRefused, Prompt, Await
<1> QED BY <1>1 DEF Offer

LEMMA NameServerOffer == ASSUME Sync, Offer, NameServer PROVE Offer'
<1>1. UNCHANGED <<pc, job>>
  BY DEF NameServer, NameToBigFS, NameParts, NameLocation, NameCat, NameRm, NameCp, NameMv, NameIgnores, clientVars
<1>2. CASE NameToBigFS \/ NameRm \/ NameCp \/ NameMv
  <2>1. pc # "cat_ack"
    BY <1>2, TakesCommand DEF NameToBigFS, NameRm, NameCp, NameMv, Arity, Says, Words
  <2> QED BY <1>1, <2>1 DEF Offer
<1>3. ASSUME NEW op \in {"cat", "frombigfs"}, NameCat(op) PROVE Offer'
  <2>1. n2c = <<>> /\ c2n[2] = job.name /\ UNCHANGED dir
    BY <1>3, TakesCommand DEF NameCat, Arity, Words
  <2>2. CASE \E k \in DOMAIN dir : dir[k].name = c2n[2] /\ Reply(<< <<Num(1)>>, dir[k].loc, <<Num(dir[k].chunks)>> >>)
    <3>1. PICK k \in DOMAIN dir : /\ dir[k].name = c2n[2]
                                  /\ Reply(<< <<Num(1)>>, dir[k].loc, <<Num(dir[k].chunks)>> >>)
      BY <2>2
    <3>2. n2c' = << <<Num(1)>>, dir[k].loc, <<Num(dir[k].chunks)>> >>
      <4>1. << <<Num(1)>>, dir[k].loc, <<Num(dir[k].chunks)>> >> \in Seq(String)
        BY NumeralType, Chunks
      <4> QED BY <2>1, <3>1, <4>1, NewReply
    <3>3. Atoi(n2c'[3]) = dir[k].chunks /\ n2c'[2] = dir[k].loc
      BY <3>2, Chunks
    <3> QED BY <1>1, <2>1, <3>1, <3>3 DEF Offer
  <2>3. CASE Reply(<< <<Num(0)>> >>)
    <3>1. << <<Num(0)>> >> \in Seq(String) /\ Len(<< <<Num(0)>> >>) = 1
      BY NumeralType
    <3>2. n2c' = << <<Num(0)>> >>
      BY <2>1, <2>3, <3>1, NewReply
    <3> QED BY <1>1, <3>1, <3>2 DEF Offer
  <2> QED BY <1>3, <2>2, <2>3 DEF NameCat
<1>4. CASE NameParts \/ NameLocation
  <2>1. nspc # "command" /\ n2c' = n2c
    BY <1>4 DEF NameParts, NameLocation
  <2>2. pc = "cat_ack" => Len(n2c) # 3
    <3> SUFFICES ASSUME pc = "cat_ack" PROVE n2c = <<>>
      OBVIOUS
    <3>1. Waits \/ Served
      BY DEF Sync, InCall, Calls
    <3>2. ~Served
      BY <2>1 DEF Served
    <3> QED BY <3>1, <3>2 DEF Waits
  <2> QED BY <1>1, <2>1, <2>2 DEF Offer
<1>5. CASE NameIgnores
  BY <1>5, NothingIgnored
<1> QED BY <1>2, <1>3, <1>4, <1>5 DEF NameServer

LEMMA ServerOffer == ASSUME Offer, NEW s \in Servers, DataServer(s) PROVE Offer'
<1>1. UNCHANGED <<pc, job, n2c, dir>>
  BY DEF DataServer, DataToBigFS, DataCat, DataRm, DataCp, clientVars, nameVars
<1> QED BY <1>1, OfferKept

-----------------------------------------------------------------------------
(* How chunks come to the client.                                          *)

LEMMA FlowStart ==
    ASSUME NEW text, NEW loc, NEW s \in Servers, NEW q \in Seq(Request), \A p \in 1..Len(q) : q[p].op # "cat"
    PROVE  FlowOf(text, loc, 0, FALSE, 0, <<>>, q, s)
<1>1. s \in Nat /\ Server(s) = s /\ At(s, 0, s)
  <2>1. s \in Nat /\ s < D
    BY SomeServers DEF Servers
  <2>2. Server(s) = s
    BY <2>1, ServerOf
  <2> QED BY <2>1, <2>2, SomeServers DEF At
<1>2. ReadsAt(<<s, FALSE>>, 0, FALSE, s)
  BY <1>1 DEF ReadsAt
<1>3. Chain(AnswerSteps(text), <<>>, <<s, FALSE>>, <<s, FALSE>>)
  BY ChainEmpty
<1>4. Chain(RequestSteps(text, loc), q, s, s)
  <2>1. \A p \in 1..Len(q) : q[p] \in Request
    BY ElementOfSeq
  <2>2. \A p \in 1..Len(q) : <<s, q[p], s>> \in RequestSteps(text, loc)
    BY <1>1, <2>1, RequestStep
  <2> QED BY <2>2, ChainStays
<1> QED BY <1>1, <1>2, <1>3, <1>4 DEF FlowOf

\* The client asks for one more chunk.
LEMMA FlowAsk ==
    ASSUME NEW text, NEW loc, NEW i, NEW half, NEW u \in Nat, NEW a, NEW q \in Seq(Request), NEW s,
           FlowOf(text, loc, i, half, u, a, q, s), Server(u) = s, u < Len(text),
           NEW r \in Request, r.op = "cat", r.loc = loc, r.num = u
    PROVE  FlowOf(text, loc, i, half, u + 1, a, Append(q, r), s)
<1>1. PICK x, c, b, e : /\ ReadsAt(x, i, half, s)
                        /\ Chain(AnswerSteps(text), a, x, <<c, FALSE>>)
                        /\ c \in Nat /\ Server(c) = s
                        /\ b = c \/ (b = c + D /\ c + 1 = Len(text))
                        /\ Chain(RequestSteps(text, loc), q, b, e)
                        /\ At(e, u, s)
  BY DEF FlowOf
<1>2. e = u /\ At(u + D, u + 1, s)
  BY <1>1, AtChunk
<1>3. <<u, r, u + D>> \in RequestSteps(text, loc)
  <2>1. u + D \in Nat
    BY SomeServers
  <2> QED BY <2>1, RequestStep
<1>4. Chain(RequestSteps(text, loc), Append(q, r), b, u + D)
  BY <1>1, <1>2, <1>3, ChainAppend
<1> QED BY <1>1, <1>2, <1>4 DEF FlowOf

LEMMA FlowElsewhere ==
    ASSUME NEW text, NEW loc, NEW i, NEW half, NEW u \in Nat, NEW a, NEW q, NEW s,
           FlowOf(text, loc, i, half, u, a, q, s), Server(u) # s
    PROVE  FlowOf(text, loc, i, half, u + 1, a, q, s)
<1>1. \A e : At(e, u, s) => At(e, u + 1, s)
  BY AtChunk
<1> QED BY <1>1 DEF FlowOf

\* The client reads the text of a chunk, and the end of one.
LEMMA FlowText ==
    ASSUME NEW text, NEW loc, NEW i \in Nat, NEW u, NEW a \in Seq(Answer), NEW q, NEW s,
           FlowOf(text, loc, i, FALSE, u, a, q, s), Server(i) = s, a # <<>>
    PROVE  Head(a) = Segment(text[i + 1]) /\ FlowOf(text, loc, i, TRUE, u, Tail(a), q, s)
<1>1. PICK x, c, b, e : /\ ReadsAt(x, i, FALSE, s)
                        /\ Chain(AnswerSteps(text), a, x, <<c, FALSE>>)
                        /\ c \in Nat /\ Server(c) = s
                        /\ b = c \/ (b = c + D /\ c + 1 = Len(text))
                        /\ Chain(RequestSteps(text, loc), q, b, e)
                        /\ At(e, u, s)
  BY DEF FlowOf
<1>2. x = <<i, FALSE>>
  BY <1>1, AtChunk DEF ReadsAt
<1>3. PICK z : <<x, Head(a), z>> \in AnswerSteps(text) /\ Chain(AnswerSteps(text), Tail(a), z, <<c, FALSE>>)
  BY <1>1, ChainTail
<1>4. Head(a) = Segment(text[i + 1]) /\ z = <<i, TRUE>>
  <2>1. PICK n \in 0..(Len(text) - 1) :
           \/ x = <<n, FALSE>> /\ Head(a) = Segment(text[n + 1]) /\ z = <<n, TRUE>>
           \/ x = <<n, TRUE>> /\ Head(a) = EndOfChunk /\ z = <<n + D, FALSE>>
    BY <1>3 DEF AnswerSteps
  <2>2. n = i /\ x # <<n, TRUE>>
    BY <1>2, <2>1
  <2> QED BY <2>1, <2>2
<1>5. ReadsAt(z, i, TRUE, s)
  BY <1>4 DEF ReadsAt
<1> QED BY <1>1, <1>3, <1>4, <1>5 DEF FlowOf

LEMMA FlowEnd ==
    ASSUME NEW text, NEW loc, NEW i \in Nat, NEW u, NEW a \in Seq(Answer), NEW q, NEW s,
           FlowOf(text, loc, i, TRUE, u, a, q, s), Server(i) = s, a # <<>>
    PROVE  Head(a) = EndOfChunk /\ FlowOf(text, loc, i + 1, FALSE, u, Tail(a), q, s)
<1>1. PICK x, c, b, e : /\ ReadsAt(x, i, TRUE, s)
                        /\ Chain(AnswerSteps(text), a, x, <<c, FALSE>>)
                        /\ c \in Nat /\ Server(c) = s
                        /\ b = c \/ (b = c + D /\ c + 1 = Len(text))
                        /\ Chain(RequestSteps(text, loc), q, b, e)
                        /\ At(e, u, s)
  BY DEF FlowOf
<1>2. x = <<i, TRUE>>
  BY <1>1 DEF ReadsAt
<1>3. PICK z : <<x, Head(a), z>> \in AnswerSteps(text) /\ Chain(AnswerSteps(text), Tail(a), z, <<c, FALSE>>)
  BY <1>1, ChainTail
<1>4. Head(a) = EndOfChunk /\ z = <<i + D, FALSE>>
  <2>1. PICK n \in 0..(Len(text) - 1) :
           \/ x = <<n, FALSE>> /\ Head(a) = Segment(text[n + 1]) /\ z = <<n, TRUE>>
           \/ x = <<n, TRUE>> /\ Head(a) = EndOfChunk /\ z = <<n + D, FALSE>>
    BY <1>3 DEF AnswerSteps
  <2>2. n = i /\ x # <<n, FALSE>>
    BY <1>2, <2>1
  <2> QED BY <2>1, <2>2
<1>5. ReadsAt(z, i + 1, FALSE, s)
  BY <1>4, AtChunk DEF ReadsAt
<1> QED BY <1>1, <1>3, <1>4, <1>5 DEF FlowOf

LEMMA FlowUnread ==
    ASSUME NEW text, NEW loc, NEW i \in Nat, NEW half, NEW u, NEW a, NEW q, NEW s,
           FlowOf(text, loc, i, half, u, a, q, s), Server(i) # s
    PROVE  FlowOf(text, loc, i, TRUE, u, a, q, s) /\ FlowOf(text, loc, i + 1, FALSE, u, a, q, s)
<1>1. \A c : At(c, i, s) => At(c, i + 1, s)
  BY AtChunk
<1>2. \A x : ReadsAt(x, i, half, s) => ReadsAt(x, i, TRUE, s) /\ ReadsAt(x, i + 1, FALSE, s)
  BY <1>1 DEF ReadsAt
<1> QED BY <1>2 DEF FlowOf

\* A server serves a request for a chunk of the file, or any other request.
Answered(a, t) == IF t = Empty THEN a ELSE a \o <<Segment(t), EndOfChunk>>

LEMMA FlowServe ==
    ASSUME NEW text, NEW loc, NEW i, NEW half, NEW u, NEW a \in Seq(Answer), NEW q \in Seq(Request), NEW s,
           FlowOf(text, loc, i, half, u, a, q, s), q # <<>>, Head(q).op = "cat",
           text \in Contents
    PROVE  /\ Head(q).loc = loc /\ Head(q).num \in 0..(Len(text) - 1) /\ Server(Head(q).num) = s
           /\ FlowOf(text, loc, i, half, u, Answered(a, text[Head(q).num + 1]), Tail(q), s)
<1>1. PICK x, c, b, e : /\ ReadsAt(x, i, half, s)
                        /\ Chain(AnswerSteps(text), a, x, <<c, FALSE>>)
                        /\ c \in Nat /\ Server(c) = s
                        /\ b = c \/ (b = c + D /\ c + 1 = Len(text))
                        /\ Chain(RequestSteps(text, loc), q, b, e)
                        /\ At(e, u, s)
  BY DEF FlowOf
<1>2. PICK z : <<b, Head(q), z>> \in RequestSteps(text, loc) /\ Chain(RequestSteps(text, loc), Tail(q), z, e)
  BY <1>1, ChainTail
<1>3. Head(q).loc = loc /\ Head(q).num = b /\ b \in Nat /\ b < Len(text) /\ z = b + D
  BY <1>2, RequestStep
<1>4. Len(text) \in Nat
  BY ContentBlocks
<1>5. b = c
  BY <1>1, <1>3, <1>4, SomeServers
<1>6. c \in 0..(Len(text) - 1) /\ Server(c + D) = s /\ c + D \in Nat
  BY <1>1, <1>3, <1>4, <1>5, NextOnServer
<1>7. CASE text[c + 1] = Empty
  <2>1. c + 1 = Len(text)
    BY <1>6, <1>7, ContentBlocks
  <2>2. FlowOf(text, loc, i, half, u, a, Tail(q), s)
    BY <1>1, <1>2, <1>3, <1>5, <2>1 DEF FlowOf
  <2> QED BY <1>1, <1>3, <1>5, <1>6, <1>7, <2>2 DEF Answered
<1>8. CASE text[c + 1] # Empty
  <2> DEFINE t1 == Segment(text[c + 1])
  <2>1. t1 \in Answer /\ EndOfChunk \in Answer
    <3>1. text[c + 1] \in Block
      BY <1>4, <1>6, ContentBlocks, ElementOfSeq
    <3> QED BY <3>1, AnswerTypes
  <2>2. /\ <<<<c, FALSE>>, t1, <<c, TRUE>>>> \in AnswerSteps(text)
        /\ <<<<c, TRUE>>, EndOfChunk, <<c + D, FALSE>>>> \in AnswerSteps(text)
    BY <1>6, ChunkSteps
  <2> HIDE DEF t1
  <2>3. Append(a, t1) \in Seq(Answer) /\ a \o <<t1, EndOfChunk>> = Append(Append(a, t1), EndOfChunk)
    BY <2>1, AppendProperties
  <2>4. Chain(AnswerSteps(text), Append(a, t1), x, <<c, TRUE>>)
    BY <1>1, <2>1, <2>2, ChainAppend
  <2>5. Chain(AnswerSteps(text), Append(Append(a, t1), EndOfChunk), x, <<c + D, FALSE>>)
    BY <2>1, <2>2, <2>3, <2>4, ChainAppend
  <2>6. FlowOf(text, loc, i, half, u, a \o <<t1, EndOfChunk>>, Tail(q), s)
    BY <1>1, <1>2, <1>3, <1>5, <1>6, <2>3, <2>5 DEF FlowOf
  <2> QED BY <1>1, <1>3, <1>5, <1>6, <1>8, <2>6 DEF t1, Answered
<1> QED BY <1>7, <1>8

LEMMA FlowPast ==
    ASSUME NEW text, NEW loc, NEW i, NEW half, NEW u, NEW a, NEW q \in Seq(Request), NEW s,
           FlowOf(text, loc, i, half, u, a, q, s), q # <<>>, Head(q).op # "cat"
    PROVE  FlowOf(text, loc, i, half, u, a, Tail(q), s)
<1>1. PICK x, c, b, e : /\ ReadsAt(x, i, half, s)
                        /\ Chain(AnswerSteps(text), a, x, <<c, FALSE>>)
                        /\ c \in Nat /\ Server(c) = s
                        /\ b = c \/ (b = c + D /\ c + 1 = Len(text))
                        /\ Chain(RequestSteps(text, loc), q, b, e)
                        /\ At(e, u, s)
  BY DEF FlowOf
<1>2. PICK z : <<b, Head(q), z>> \in RequestSteps(text, loc) /\ Chain(RequestSteps(text, loc), Tail(q), z, e)
  BY <1>1, ChainTail
<1>3. z = b
  BY <1>2, RequestStep
<1> QED BY <1>1, <1>2, <1>3 DEF FlowOf

-----------------------------------------------------------------------------
(* The steps of a cat or a frombigfs.                                      *)

\* The chunk that a cat finds is the one that was stored.
LEMMA CatSees ==
    ASSUME Sync, Entries, NEW V, Tracks(V), NEW F, Stores(V, F), Books(F), pc \in {"cat_send", "cat_data"},
           nspc = "command", NEW k \in DOMAIN dir, NEW s \in Servers, c2d[s] # <<>>, Head(c2d[s]).op = "cat",
           NEW c \in 0..(Len(dir[k].text) - 1), Server(c) = s
    PROVE  ChunkPath(dir[k].loc, c) \in DOMAIN disk[s] /\ disk[s][ChunkPath(dir[k].loc, c)] = dir[k].text[c + 1]
<1>1. disk[s] = V[s]
  <2>1. c2d[s] \in Seq(Request) /\ Ahead(c2d[s], disk[s], V[s])
    BY Types, WireCounts DEF Tracks
  <2> QED BY <2>1, AheadServe
<1> DEFINE l == dir[k].loc
<1>2. l # <<>> /\ l \in DOMAIN F /\ F[l].text = dir[k].text
  <2>1. l # <<>>
    BY DEF Entries, Nodes
  <2> QED BY <2>1 DEF Books, Listing, Ours
<1>3. Growing = <<>> /\ Leaving = <<>>
  BY Elsewhere
<1>4. F[l].lo = 0 /\ F[l].hi = Len(dir[k].text)
  BY <1>2, <1>3 DEF Books, Extents, Low, High
<1>5. c \in Nat /\ HasChunk(l, c, s, F)
  BY <1>4 DEF HasChunk
<1>6. Holds(V[s], s, F)
  BY DEF Stores
<1>7. ChunkPath(l, c) \in DOMAIN V[s] /\ V[s][ChunkPath(l, c)] = F[l].text[c + 1]
  BY <1>2, <1>5, <1>6 DEF Holds
<1> QED BY <1>1, <1>2, <1>7

\* Nobody else does anything while the client is at it.
LEMMA NameServerRests == ASSUME Sync, pc \in {"cat_send", "cat_data"}, nspc = "command", NameServer PROVE FALSE
<1>1. c2n = <<>> /\ Len(c2n) = 0
  <2>1. Len(c2n) = 0
    BY Types DEF Sync, InCall, Calls, Owing, Needs
  <2> QED BY <2>1, Types
<1>2. ~NameParts /\ ~NameLocation /\ ~NameIgnores
  BY <1>1 DEF NameParts, NameLocation, NameIgnores
<1>3. ASSUME NEW w, NEW n \in {2, 3} PROVE ~Takes(w, n)
  BY <1>1 DEF Takes
<1> QED BY <1>2, <1>3 DEF NameServer, NameToBigFS, NameCat, NameRm, NameCp, NameMv

LEMMA NotFetching == ASSUME pc' \notin {"cat_send", "cat_data"} PROVE Fetching'
BY DEF Fetching

\* A data server serves one request.
LEMMA ServerFetching ==
    ASSUME AsksLast, Sync, Entries, NEW V, Tracks(V), NEW F, Stores(V, F), Books(F), Stock, Fetching,
           NEW s \in Servers, DataServer(s)
    PROVE  Fetching'
<1> SUFFICES ASSUME pc' \in {"cat_send", "cat_data"} PROVE Fetching'
  BY NotFetching
<1>1. UNCHANGED <<pc, job, nspc, dir>>
  BY DEF DataServer, DataToBigFS, DataCat, DataRm, DataCp, clientVars, nameVars
<1>2. Talk /\ TypeOK /\ pc \in {"cat_send", "cat_data"} /\ nspc = "command"
  BY <1>1, Types DEF Fetching
<1>3. PICK k \in DOMAIN dir : Fetches(k) /\ Got(dir[k].text) /\ \A t \in Servers : Flow(dir[k].text, t)
  BY <1>2 DEF Fetching
<1> DEFINE text == dir[k].text
<1>4. (Fetches(k) /\ Got(dir[k].text))'
  BY <1>1, <1>3 DEF Fetches, Got
<1>5. /\ \A t \in Servers : t # s => c2d'[t] = c2d[t] /\ d2c'[t] = d2c[t]
      /\ c2d[s] \in Seq(Request) /\ d2c[s] \in Seq(Answer) /\ c2d[s] # <<>> /\ c2d'[s] = Tail(c2d[s])
  <2>1. \E op : Requested(s, op)
    BY DEF DataServer, DataToBigFS, DataCat, DataRm, DataCp
  <2>2. \A t \in Servers : t # s => d2c'[t] = d2c[t]
    BY <1>2 DEF DataServer, DataToBigFS, DataCat, DataRm, DataCp, Answers, TypeOK, WireType
  <2> QED BY <1>2, <2>1, <2>2, ServeTakes, WireCounts
<1>6. Flow(text, s)'
  <2>0. FlowOf(text, job.loc, Read, Begun, Unsent, d2c[s], c2d[s], s) /\ text \in Contents
    BY <1>3 DEF Flow, Stock
  <2> DEFINE r == Head(c2d[s])
  <2>1. CASE DataCat(s)
    <3>1. r.op = "cat"
      BY <2>1 DEF DataCat, Requested
    <3>2. /\ r.loc = job.loc /\ r.num \in 0..(Len(text) - 1) /\ Server(r.num) = s
          /\ FlowOf(text, job.loc, Read, Begun, Unsent, Answered(d2c[s], text[r.num + 1]), Tail(c2d[s]), s)
      <4> HIDE DEF text
      <4> QED BY <1>5, <2>0, <3>1, FlowServe
    <3>3. dir[k].loc = job.loc
      BY <1>3 DEF Fetches
    <3>4. disk[s][ChunkPath(r.loc, r.num)] = text[r.num + 1] /\ ChunkPath(r.loc, r.num) \in DOMAIN disk[s]
      <4>1. PICK n \in 0..(Len(dir[k].text) - 1) : n = r.num /\ Server(n) = s
        BY <3>2
      <4>2. Head(c2d[s]).op = "cat"
        BY <3>1
      <4>3. ChunkPath(dir[k].loc, n) \in DOMAIN disk[s] /\ disk[s][ChunkPath(dir[k].loc, n)] = dir[k].text[n + 1]
        BY <1>2, <1>5, <4>1, <4>2, CatSees
      <4> QED BY <3>2, <3>3, <4>1, <4>3
    <3>5. Answers(s, IF text[r.num + 1] = Empty THEN <<>> ELSE <<Segment(text[r.num + 1]), EndOfChunk>>)
      BY <2>1, <3>4 DEF DataCat
    <3>6. d2c'[s] = Answered(d2c[s], text[r.num + 1])
      <4>1. d2c[s] \o <<>> = d2c[s]
        BY <1>5, ConcatEmptySeq
      <4> QED BY <1>2, <3>5, <4>1 DEF Answers, Answered, TypeOK, WireType
    <3>7. FlowOf(text, job.loc, Read, Begun, Unsent, d2c'[s], c2d'[s], s)
      BY <1>5, <3>2, <3>6
    <3> QED BY <1>1, <3>7 DEF Flow, Read, Begun, Unsent
  <2>2. CASE ~DataCat(s)
    <3>1. ~DataToBigFS(s)
      BY <1>2, StoredAt
    <3>2. ~(DataCp(s) /\ Head(c2d[s]).num = 0)
      BY <1>2, CopiedAt
    <3>3. DataRm(s) \/ (DataCp(s) /\ Head(c2d[s]).num # 0)
      BY <2>2, <3>1, <3>2 DEF DataServer
    <3>4. r.op # "cat"
      BY <3>3 DEF DataRm, DataCp, Requested
    <3>5. d2c'[s] = d2c[s]
      <4>1. d2c[s] \o <<>> = d2c[s]
        BY <1>5, ConcatEmptySeq
      <4> QED BY <1>2, <3>3, <4>1 DEF DataRm, DataCp, Answers, TypeOK, WireType
    <3>6. FlowOf(text, job.loc, Read, Begun, Unsent, d2c[s], Tail(c2d[s]), s)
      BY <1>5, <2>0, <3>4, FlowPast
    <3>7. FlowOf(text, job.loc, Read, Begun, Unsent, d2c'[s], c2d'[s], s)
      BY <1>5, <3>5, <3>6
    <3> QED BY <1>1, <3>7 DEF Flow, Read, Begun, Unsent
  <2> QED BY <2>1, <2>2
<1>7. ASSUME NEW t \in Servers, t # s PROVE Flow(text, t)'
  BY <1>1, <1>3, <1>5, <1>7 DEF Flow, Read, Begun, Unsent
<1> HIDE DEF text
<1>8. \A t \in Servers : Flow(text, t)'
  BY <1>6, <1>7
<1> QED BY <1>1, <1>2, <1>4, <1>8 DEF Fetching, text

\* A cat begins.
LEMMA FoundWhole == ASSUME Sync, Found, pc = "cat_ack" PROVE Len(n2c) = 3 /\ nspc = "command"
<1>1. Len(n2c) >= 3
  BY DEF Found
<1>2. Waits \/ Served
  BY DEF Sync, InCall, Calls
<1>3. Len(<<>>) = 0
  OBVIOUS
<1>4. Served
  BY <1>1, <1>2, <1>3 DEF Waits
<1>5. (Len(n2c) = 1 \/ Len(n2c) = 3) /\ nspc = "command"
  BY <1>1, <1>4 DEF Served
<1> QED BY <1>1, <1>5

LEMMA FoundFetching == ASSUME Sync, Entries, Offer, Found PROVE Fetching'
<1> SUFFICES ASSUME pc' \in {"cat_send", "cat_data"} PROVE Fetching'
  BY NotFetching
<1>1. /\ pc = "cat_ack" /\ pc' = "cat_send" /\ Len(n2c) >= 3
      /\ job' = [job EXCEPT !.loc = n2c[2], !.chunks = Atoi(n2c[3])]
      /\ UNCHANGED <<nspc, dir, c2d, d2c>>
  BY DEF Found, Prompt, Await, nameVars
<1>2. Len(n2c) = 3 /\ nspc = "command"
  BY <1>1, FoundWhole
<1>3. PICK k \in DOMAIN dir : dir[k].name = job.name /\ n2c[2] = dir[k].loc /\ Atoi(n2c[3]) = dir[k].chunks
  BY <1>1, <1>2 DEF Offer
<1>4. /\ job'.name = job.name /\ job'.loc = dir[k].loc /\ job'.chunks = dir[k].chunks
      /\ job'.got = <<>> /\ job'.i = 0
  <2>1. job \in Job /\ job.i = 0 /\ job.got = <<>>
    BY <1>1, Types DEF Talk, Counters, Offer
  <2> QED BY <1>1, <1>3, <2>1 DEF Job
<1>5. (Fetches(k) /\ Got(dir[k].text))'
  BY <1>1, <1>3, <1>4 DEF Fetches, Got
<1>6. ASSUME NEW s \in Servers PROVE Flow(dir[k].text, s)'
  <2>1. Silent(s) /\ TypeOK
    BY <1>1, Types DEF Talk, Dialogue, Talks
  <2>2. /\ d2c[s] = <<>> /\ c2d[s] \in Seq(Request)
        /\ \A p \in 1..Len(c2d[s]) : c2d[s][p].op # "cat"
    BY <2>1, NoneWanted, WireCounts DEF Silent
  <2>3. FlowOf(dir[k].text, job'.loc, 0, FALSE, 0, <<>>, c2d[s], s)
    BY <2>2, FlowStart
  <2> QED BY <1>1, <1>4, <2>2, <2>3 DEF Flow, Read, Begun, Unsent
<1> QED BY <1>1, <1>2, <1>5, <1>6 DEF Fetching

LEMMA CatSendFetching == ASSUME Sync, Entries, Fetching, CatSend PROVE Fetching'
<1>1. /\ pc = "cat_send" /\ nspc = "command" /\ UNCHANGED <<nspc, dir, d2c>>
      /\ SendData(Server(job.i), ChunkRequest("cat", job.loc, job.i, <<>>))
      /\ job \in Job /\ job.i \in Nat /\ job.i < job.chunks /\ job.chunks \in Nat /\ Server(job.i) \in Servers
      /\ TypeOK
  BY Types DEF CatSend, Fetching, nameVars, Talk, Counters
<1>2. PICK k \in DOMAIN dir : Fetches(k) /\ Got(dir[k].text) /\ \A t \in Servers : Flow(dir[k].text, t)
  BY <1>1 DEF Fetching
<1>3. job.chunks = Len(dir[k].text) /\ job.got = <<>> /\ Len(<<>>) = 0
  BY <1>1, <1>2 DEF Fetches, Got, Entries, Nodes
<1>4. /\ job'.loc = job.loc /\ job'.chunks = job.chunks /\ job'.name = job.name /\ job'.got = <<>>
      /\ \/ pc' = "cat_send" /\ job'.i = job.i + 1
         \/ pc' = "cat_data" /\ job'.i = 0 /\ job.chunks = job.i + 1
  <2>1. CASE job.i + 1 < job.chunks
    BY <1>1, <1>3, <2>1 DEF CatSend, Await, Job
  <2>2. CASE ~(job.i + 1 < job.chunks)
    <3>1. job.chunks = job.i + 1
      BY <1>1, <2>2
    <3> QED BY <1>1, <1>3, <2>2, <3>1 DEF CatSend, Await, Job
  <2> QED BY <2>1, <2>2
<1>5. (Fetches(k) /\ Got(dir[k].text))'
  <2>1. Fetches(k)'
    BY <1>1, <1>2, <1>4 DEF Fetches
  <2>2. Got(dir[k].text)'
    BY <1>1, <1>3, <1>4 DEF Got
  <2> QED BY <2>1, <2>2
<1>6. Read = 0 /\ Read' = 0 /\ Begun = FALSE /\ Begun' = FALSE /\ Unsent = job.i /\ Unsent' = job.i + 1
  BY <1>1, <1>3, <1>4 DEF Read, Begun, Unsent
<1>7. ASSUME NEW s \in Servers PROVE Flow(dir[k].text, s)'
  <2> DEFINE r == ChunkRequest("cat", job.loc, job.i, <<>>)
  <2>1. FlowOf(dir[k].text, job.loc, 0, FALSE, job.i, d2c[s], c2d[s], s)
    BY <1>2, <1>6 DEF Flow
  <2>2. c2d[s] \in Seq(Request)
    BY <1>1, WireCounts
  <2>3. r \in Request /\ r.op = "cat" /\ r.loc = job.loc /\ r.num = job.i
    <3>1. r \in Request
      BY <1>1, ChunkRequestType, EmptyString, Types
    <3> QED BY <3>1 DEF ChunkRequest
  <2>4. FlowOf(dir[k].text, job.loc, 0, FALSE, job.i + 1, d2c[s], c2d'[s], s)
    <3>1. CASE s = Server(job.i)
      <4>1. c2d'[s] = Append(c2d[s], r)
        BY <1>1, <2>3, <3>1, SendAppends
      <4> HIDE DEF r
      <4> QED BY <1>1, <1>3, <2>1, <2>2, <2>3, <3>1, <4>1, FlowAsk
    <3>2. CASE s # Server(job.i)
      <4>1. c2d'[s] = c2d[s]
        BY <1>1, <2>3, <3>2, SendAppends
      <4> QED BY <1>1, <2>1, <3>2, <4>1, FlowElsewhere
    <3> QED BY <3>1, <3>2
  <2>5. FlowOf(dir[k].text, job'.loc, Read', Begun', Unsent', d2c'[s], c2d'[s], s)
    BY <1>1, <1>4, <1>6, <2>4
  <2> QED BY <1>1, <2>5 DEF Flow
<1> QED BY <1>1, <1>5, <1>7 DEF Fetching

\* The client reads a string: the text of the present chunk, or its end.
LEMMA Reads ==
    ASSUME Sync, CatData, NEW k \in DOMAIN dir, Got(dir[k].text), \A t \in Servers : Flow(dir[k].text, t)
    PROVE  LET s == Server(job.i)
               x == Head(d2c[s])
           IN  \/ ~Begun /\ Len(job.got) = job.i /\ x = Segment(dir[k].text[job.i + 1])
                  /\ \A t \in Servers : FlowOf(dir[k].text, job.loc, job.i, TRUE, job.chunks, d2c'[t], c2d[t], t)
               \/ Begun /\ Len(job.got) = job.i + 1 /\ x = EndOfChunk
                  /\ \A t \in Servers : FlowOf(dir[k].text, job.loc, job.i + 1, FALSE, job.chunks, d2c'[t], c2d[t], t)
<1> DEFINE s == Server(job.i)
           x == Head(d2c[s])
<1>1. /\ pc = "cat_data" /\ d2c[s] # <<>> /\ job.i \in Nat /\ s \in Servers /\ d2c[s] \in Seq(Answer)
      /\ d2c' = [d2c EXCEPT ![s] = Tail(@)] /\ d2c \in [Servers -> Seq(Answer)]
  BY Types, WireCounts DEF CatData
<1>2. d2c'[s] = Tail(d2c[s]) /\ \A t \in Servers : t # s => d2c'[t] = d2c[t]
  BY <1>1
<1>3. \A t \in Servers : FlowOf(dir[k].text, job.loc, job.i, Begun, job.chunks, d2c[t], c2d[t], t)
  BY <1>1 DEF Flow, Read, Unsent
<1>4. CASE Begun
  <2>1. Begun = TRUE /\ Len(job.got) = job.i + 1
    BY <1>4 DEF Begun
  <2>2. x = EndOfChunk /\ FlowOf(dir[k].text, job.loc, job.i + 1, FALSE, job.chunks, d2c'[s], c2d[s], s)
    <3>1. FlowOf(dir[k].text, job.loc, job.i, TRUE, job.chunks, d2c[s], c2d[s], s)
      BY <1>1, <1>3, <2>1
    <3>2. Server(job.i) = s /\ d2c[s] # <<>>
      BY <1>1
    <3> HIDE DEF s
    <3>3. /\ Head(d2c[s]) = EndOfChunk
          /\ FlowOf(dir[k].text, job.loc, job.i + 1, FALSE, job.chunks, Tail(d2c[s]), c2d[s], s)
      BY <1>1, <3>1, <3>2, FlowEnd
    <3> QED BY <1>2, <3>3
  <2>3. ASSUME NEW t \in Servers, t # s
        PROVE  FlowOf(dir[k].text, job.loc, job.i + 1, FALSE, job.chunks, d2c'[t], c2d[t], t)
    BY <1>1, <1>2, <1>3, <2>3, FlowUnread
  <2> QED BY <1>4, <2>1, <2>2, <2>3
<1>5. CASE ~Begun
  <2>1. Begun = FALSE /\ Len(job.got) = job.i
    BY <1>1, <1>5 DEF Begun, Got
  <2>2. x = Segment(dir[k].text[job.i + 1]) /\ FlowOf(dir[k].text, job.loc, job.i, TRUE, job.chunks, d2c'[s], c2d[s], s)
    <3>1. FlowOf(dir[k].text, job.loc, job.i, FALSE, job.chunks, d2c[s], c2d[s], s)
      BY <1>1, <1>3, <2>1
    <3>2. Server(job.i) = s /\ d2c[s] # <<>>
      BY <1>1
    <3> HIDE DEF s
    <3>3. /\ Head(d2c[s]) = Segment(dir[k].text[job.i + 1])
          /\ FlowOf(dir[k].text, job.loc, job.i, TRUE, job.chunks, Tail(d2c[s]), c2d[s], s)
      BY <1>1, <3>1, <3>2, FlowText
    <3> QED BY <1>2, <3>3
  <2>3. ASSUME NEW t \in Servers, t # s
        PROVE  FlowOf(dir[k].text, job.loc, job.i, TRUE, job.chunks, d2c'[t], c2d[t], t)
    BY <1>1, <1>2, <1>3, <2>3, FlowUnread
  <2> QED BY <1>5, <2>1, <2>2, <2>3
<1> QED BY <1>4, <1>5

LEMMA CatDataFetching == ASSUME Sync, Entries, Stock, Fetching, CatData PROVE Fetching'
<1> SUFFICES ASSUME pc' \in {"cat_send", "cat_data"} PROVE Fetching'
  BY NotFetching
<1>1. /\ pc = "cat_data" /\ nspc = "command" /\ UNCHANGED <<nspc, dir, c2d>>
      /\ job \in Job /\ job.i \in Nat /\ job.chunks \in Nat /\ job.got \in Seq(Block) /\ TypeOK
  BY Types DEF CatData, Fetching, nameVars, Job
<1>2. PICK k \in DOMAIN dir : Fetches(k) /\ Got(dir[k].text) /\ \A t \in Servers : Flow(dir[k].text, t)
  BY <1>1 DEF Fetching
<1>3. /\ job.i < job.chunks /\ job.chunks = Len(dir[k].text) /\ dir[k].text \in Seq(Block)
      /\ \A n \in 1..Len(job.got) : job.got[n] = dir[k].text[n]
  BY <1>1, <1>2, Types DEF Fetches, Got, Entries, Nodes, Node
<1> DEFINE x == Head(d2c[Server(job.i)])
<1>4. CASE x = Segment(dir[k].text[job.i + 1]) /\ Len(job.got) = job.i
           /\ \A t \in Servers : FlowOf(dir[k].text, job.loc, job.i, TRUE, job.chunks, d2c'[t], c2d[t], t)
  <2>1. x.kind # "end" /\ x.data = dir[k].text[job.i + 1] /\ x.data \in Block
    <3>1. dir[k].text[job.i + 1] \in Block
      BY <1>1, <1>3, ElementOfSeq
    <3> QED BY <1>4, <3>1 DEF Segment
  <2>2. pc' = "cat_data" /\ job' = [job EXCEPT !.got = Append(job.got, x.data)]
    BY <2>1 DEF CatData, Await
  <2>3. /\ job'.got = Append(job.got, x.data) /\ job'.i = job.i /\ job'.chunks = job.chunks
        /\ job'.loc = job.loc /\ job'.name = job.name
    BY <1>1, <2>2 DEF Job
  <2>4. Len(job'.got) = job.i + 1 /\ \A n \in 1..Len(job'.got) : job'.got[n] = dir[k].text[n]
    <3>1. /\ Len(job'.got) = job.i + 1 /\ job'.got[job.i + 1] = x.data
          /\ \A n \in 1..job.i : job'.got[n] = job.got[n]
      BY <1>1, <1>4, <2>1, <2>3, AppendProperties
    <3>2. \A n \in 1..job.i : job'.got[n] = dir[k].text[n]
      BY <1>3, <1>4, <3>1
    <3>3. job'.got[job.i + 1] = dir[k].text[job.i + 1]
      BY <2>1, <3>1
    <3>4. \A n \in 1..(job.i + 1) : n \in 1..job.i \/ n = job.i + 1
      BY <1>1
    <3> QED BY <3>1, <3>2, <3>3, <3>4
  <2>5. Fetches(k)' /\ Got(dir[k].text)'
    BY <1>1, <1>2, <1>3, <2>2, <2>3, <2>4 DEF Fetches, Got
  <2>6. Read' = job.i /\ Begun' = TRUE /\ Unsent' = job.chunks
    BY <2>2, <2>3, <2>4 DEF Read, Begun, Unsent
  <2>7. \A t \in Servers : Flow(dir[k].text, t)'
    BY <1>1, <1>4, <2>3, <2>6 DEF Flow
  <2> QED BY <1>1, <2>5, <2>7 DEF Fetching
<1>5. CASE x = EndOfChunk /\ Len(job.got) = job.i + 1
           /\ \A t \in Servers : FlowOf(dir[k].text, job.loc, job.i + 1, FALSE, job.chunks, d2c'[t], c2d[t], t)
  <2>1. x.kind = "end"
    BY <1>5 DEF EndOfChunk
  <2>2. pc' = "cat_data" /\ job' = [job EXCEPT !.i = job.i + 1] /\ job.i + 1 < job.chunks
    BY <2>1 DEF CatData, Await, Prompt
  <2>3. /\ job'.got = job.got /\ job'.i = job.i + 1 /\ job'.chunks = job.chunks
        /\ job'.loc = job.loc /\ job'.name = job.name
    BY <1>1, <2>2 DEF Job
  <2>5. Fetches(k)' /\ Got(dir[k].text)'
    BY <1>1, <1>2, <1>3, <1>5, <2>2, <2>3 DEF Fetches, Got
  <2>6. Read' = job.i + 1 /\ Begun' = FALSE /\ Unsent' = job.chunks
    BY <1>1, <1>5, <2>2, <2>3 DEF Read, Begun, Unsent
  <2>7. \A t \in Servers : Flow(dir[k].text, t)'
    BY <1>1, <1>5, <2>3, <2>6 DEF Flow
  <2> QED BY <1>1, <2>5, <2>7 DEF Fetching
<1> QED BY <1>2, <1>4, <1>5, Reads

\* What a cat delivers is what is stored under the name.
LEMMA CatShows ==
    ASSUME Sync, Entries, Stock, Fetching, CatData, shown' # shown
    PROVE  job.name \in Names /\ \E k \in DOMAIN dir : dir[k].name = job.name /\ shown' = [name |-> job.name, text |-> dir[k].text, nul |-> job.nul]
<1>1. /\ pc = "cat_data" /\ job \in Job /\ job.i \in Nat /\ job.chunks \in Nat /\ job.got \in Seq(Block)
  BY Types DEF CatData, Job
<1>2. PICK k \in DOMAIN dir : Fetches(k) /\ Got(dir[k].text) /\ \A t \in Servers : Flow(dir[k].text, t)
  BY <1>1 DEF Fetching
<1>3. /\ job.i < job.chunks /\ job.chunks = Len(dir[k].text) /\ dir[k].text \in Seq(Block)
      /\ \A n \in 1..Len(job.got) : job.got[n] = dir[k].text[n] /\ dir[k].name = job.name
  BY <1>1, <1>2, Types DEF Fetches, Got, Entries, Nodes, Node
<1>4. Head(d2c[Server(job.i)]).kind = "end" /\ job.i + 1 >= job.chunks /\ shown' = [name |-> job.name, text |-> job.got, nul |-> job.nul]
  BY DEF CatData, Delivered
<1>5. Len(job.got) = job.i + 1
  <2>1. \/ Head(d2c[Server(job.i)]) = Segment(dir[k].text[job.i + 1])
        \/ Len(job.got) = job.i + 1
    BY <1>2, Reads
  <2>2. Segment(dir[k].text[job.i + 1]).kind = "data"
    BY DEF Segment
  <2> QED BY <1>4, <2>1, <2>2
<1>6. job.got = dir[k].text
  <2>1. Len(job.got) = Len(dir[k].text)
    BY <1>1, <1>3, <1>4, <1>5
  <2> QED BY <1>1, <1>3, <2>1, SeqEqual
<1>7. dir[k].name = job.name /\ job.name \in Names
  BY <1>1, <1>2 DEF Fetches, Stock
<1> QED BY <1>4, <1>6, <1>7

-----------------------------------------------------------------------------
(* The refinement.                                                         *)

PromiseInv == Stock /\ Offer /\ Fetching

LEMMA CarefulBooks ==
    ASSUME DiskInv, Mannerly, Careful
    PROVE  /\ Sync /\ Entries /\ AsksLast /\ TypeOK /\ Unique(dir)
           /\ \E V, F : Tracks(V) /\ Stores(V, F) /\ Books(F)
<1>1. PICK V : Tracks(V) /\ Kempt(V)
  BY CarefulKempt
<1>2. Sync /\ Entries /\ \E F : Stores(V, F) /\ Books(F)
  BY <1>1 DEF Kempt
<1>3. AsksLast /\ Unique(dir)
  BY DEF DiskInv, Mannerly, UniqueNames, Unique
<1> QED BY <1>1, <1>2, <1>3, Types

LEMMA InitPromise == Init => PromiseInv
<1>1. ASSUME Init PROVE pc = "prompt" /\ nspc = "command" /\ DOMAIN dir = {}
  BY <1>1, LenProperties DEF Init
<1> QED BY <1>1 DEF PromiseInv, Stock, Offer, Fetching

LEMMA StepPromise ==
    ASSUME NoNumerals, Careful, DiskInv, Mannerly, PromiseInv, [Next]_vars
    PROVE  PromiseInv'
<1>1. Sync /\ Entries /\ AsksLast /\ TypeOK /\ Unique(dir) /\ Stock /\ Offer /\ Fetching
  BY CarefulBooks DEF PromiseInv
<1>2. PICK V, F : Tracks(V) /\ Stores(V, F) /\ Books(F)
  BY CarefulBooks
<1>3. CASE User
  <2>1. pc' \notin {"cat_send", "cat_data"}
    BY <1>3 DEF User, StartPut, StartCat, StartGet, StartRm, StartCp, StartMv, Await
  <2> QED BY <1>1, <1>3, <2>1, UserStock, UserOffer, NotFetching DEF PromiseInv
<1>4. CASE Client
  <2>1. Fetching'
    <3>1. CASE Found
      BY <1>1, <3>1, FoundFetching
    <3>2. CASE CatSend
      BY <1>1, <3>2, CatSendFetching
    <3>3. CASE CatData
      BY <1>1, <3>3, CatDataFetching
    <3>4. CASE PutRefused \/ PutAccepted \/ PutLocated \/ NotFound \/ RmSend \/ CpAccepted \/ CpLocated \/ CpSend
               \/ MvDoneOrCpRefused
      <4>1. pc' \in {"prompt", "put_loc", "rm_send", "cp_loc", "cp_send"}
        BY <3>4 DEF PutRefused, PutAccepted, PutLocated, NotFound, RmSend, CpAccepted, CpLocated, CpSend,
           MvDoneOrCpRefused, Prompt, Await
      <4> QED BY <4>1, NotFetching
    <3> QED BY <1>4, <3>1, <3>2, <3>3, <3>4 DEF Client
  <2> QED BY <1>1, <1>4, <2>1, ClientStock, ClientOffer DEF PromiseInv
<1>5. CASE NameServer
  <2>1. pc' = pc
    BY <1>5 DEF NameServer, NameToBigFS, NameParts, NameLocation, NameCat, NameRm, NameCp, NameMv, NameIgnores,
       clientVars
  <2>2. pc \notin {"cat_send", "cat_data"}
    BY <1>1, <1>5, NameServerRests DEF Fetching
  <2>3. Fetching'
    BY <2>1, <2>2, NotFetching
  <2> QED BY <1>1, <1>5, <2>3, NameServerStock, NameServerOffer DEF PromiseInv
<1>6. ASSUME NEW s \in Servers, DataServer(s) PROVE PromiseInv'
  BY <1>1, <1>2, <1>6, ServerStock, ServerOffer, ServerFetching DEF PromiseInv
<1>7. CASE UNCHANGED vars
  <2>1. UNCHANGED <<pc, job, n2c, nspc, nsnew, dir, c2d, d2c>>
    BY <1>7 DEF vars, clientVars, nameVars, wires
  <2>2. Stock' /\ Offer'
    BY <1>1, <2>1, StockKept, OfferKept
  <2>3. Fetching'
    BY <1>1, <2>1 DEF Fetching, Fetches, Got, Flow, Read, Begun, Unsent
  <2> QED BY <2>2, <2>3 DEF PromiseInv
<1> QED BY <1>3, <1>4, <1>5, <1>6, <1>7 DEF Next

\* The map of the names of the directory to their texts, and what it takes to
\* be a step of FileStore.
LEMMA PromisedSteps ==
    /\ \A n \in Names, c \in Contents :
          /\ n \notin DOMAIN Stored(dir) /\ Stored(dir') = With(Stored(dir), n, c) /\ UNCHANGED shown
          => Promise!Next
    /\ \A a, b \in Names :
          /\ a \in DOMAIN Stored(dir) /\ b \notin DOMAIN Stored(dir)
          /\ Stored(dir') = With(Stored(dir), b, Stored(dir)[a]) /\ UNCHANGED shown
          => Promise!Next
    /\ \A n \in Names :
          /\ n \in DOMAIN Stored(dir) /\ UNCHANGED shown
          /\ Stored(dir') = [m \in DOMAIN Stored(dir) \ {n} |-> Stored(dir)[m]]
          => Promise!Next
    /\ \A a, b \in Names :
          /\ a \in DOMAIN Stored(dir) /\ b \notin DOMAIN Stored(dir) /\ UNCHANGED shown
          /\ Stored(dir') = Moved(Stored(dir), a, b)
          => Promise!Next
    /\ \A n \in Names, nuls \in {0, 1} :
          /\ n \in DOMAIN Stored(dir) /\ Stored(dir') = Stored(dir)
          /\ shown' = [name |-> n, text |-> Stored(dir)[n], nul |-> nuls]
          => Promise!Next
    /\ Stored(dir') = Stored(dir) /\ UNCHANGED shown => UNCHANGED Promise!vars
<1>1. ASSUME NEW n \in Names, NEW c \in Contents, n \notin DOMAIN Stored(dir),
             Stored(dir') = With(Stored(dir), n, c), UNCHANGED shown
      PROVE  Promise!Next
  <2>1. Promise!Create(n, c)
    BY <1>1 DEF Promise!Create, Stored, StoredUnder, With
  <2> QED BY <2>1 DEF Promise!Next, Contents
<1>2. ASSUME NEW a \in Names, NEW b \in Names, a \in DOMAIN Stored(dir), b \notin DOMAIN Stored(dir),
             Stored(dir') = With(Stored(dir), b, Stored(dir)[a]), UNCHANGED shown
      PROVE  Promise!Next
  <2>1. Promise!Copy(a, b)
    BY <1>2 DEF Promise!Copy, Promise!Create, Stored, StoredUnder, With
  <2> QED BY <2>1 DEF Promise!Next
<1>3. ASSUME NEW n \in Names, n \in DOMAIN Stored(dir), UNCHANGED shown,
             Stored(dir') = [m \in DOMAIN Stored(dir) \ {n} |-> Stored(dir)[m]]
      PROVE  Promise!Next
  <2>1. Promise!Remove(n)
    BY <1>3 DEF Promise!Remove, Stored, StoredUnder
  <2> QED BY <2>1 DEF Promise!Next
<1>4. ASSUME NEW a \in Names, NEW b \in Names, a \in DOMAIN Stored(dir), b \notin DOMAIN Stored(dir), UNCHANGED shown,
             Stored(dir') = Moved(Stored(dir), a, b)
      PROVE  Promise!Next
  <2>1. Promise!Rename(a, b)
    BY <1>4 DEF Promise!Rename, Stored, StoredUnder, Moved
  <2> QED BY <2>1 DEF Promise!Next
<1>5. ASSUME NEW n \in Names, NEW nuls \in {0, 1}, n \in DOMAIN Stored(dir), Stored(dir') = Stored(dir),
             shown' = [name |-> n, text |-> Stored(dir)[n], nul |-> nuls]
      PROVE  Promise!Next
  <2>1. Promise!Show(n) \/ Promise!Save(n)
    BY <1>5 DEF Promise!Show, Promise!Save, Promise!Deliver, Stored, StoredUnder
  <2> QED BY <2>1 DEF Promise!Next
<1>6. ASSUME Stored(dir') = Stored(dir), UNCHANGED shown PROVE UNCHANGED Promise!vars
  BY <1>6 DEF Promise!vars, Stored, StoredUnder
<1> QED BY <1>1, <1>2, <1>3, <1>4, <1>5, <1>6

\* Every step of the name server is a step of FileStore, or none.
LEMMA NameServerKeeps ==
    ASSUME Sync, Entries, Stock, Unique(dir), Unique(dir)', NameServer
    PROVE  Promise!Next \/ UNCHANGED Promise!vars
<1> DEFINE P == Files(dir)
           Q == Files(dir')
           f == Stored(dir)
           g == Stored(dir')
<1>1. Maps(f, P) /\ Maps(g, Q) /\ UNCHANGED shown
  BY StoredMaps DEF NameServer, NameToBigFS, NameParts, NameLocation, NameCat, NameRm, NameCp, NameMv, NameIgnores,
     clientVars
<1>2. NamesOf(P, f) /\ PairsOf(P, f) /\ NamesOf(Q, g) /\ PairsOf(Q, g)
  BY <1>1, MapValues
<1>3. \A k \in DOMAIN dir : <<dir[k].name, dir[k].text>> \in P /\ dir[k].name \in DOMAIN f /\ f[dir[k].name] = dir[k].text
  <2>1. \A k \in DOMAIN dir : <<dir[k].name, dir[k].text>> \in P
    BY DEF Files
  <2> QED BY <1>2, <2>1 DEF PairsOf
<1>4. \A n \in DOMAIN f : \E k \in DOMAIN dir : dir[k].name = n
  BY DEF Stored
<1>5. ASSUME Q = P PROVE UNCHANGED Promise!vars
  <2>1. f = g
    BY <1>1, <1>5, MapSame
  <2> QED BY <1>1, <2>1, PromisedSteps
<1> HIDE DEF P, Q, f, g
<1>6. CASE NameToBigFS \/ NameCat("cat") \/ NameCat("frombigfs") \/ NameIgnores
  <2>1. UNCHANGED dir
    BY <1>6 DEF NameToBigFS, NameCat, NameIgnores, nameVars
  <2> QED BY <1>5, <2>1 DEF P, Q
<1>7. CASE NameLocation
  BY <1>5, <1>7, LocationFiles DEF P, Q
<1>8. CASE NameParts
  <2>1. nsnew.name \in Names /\ nsnew.text \in Contents
    BY <1>8 DEF NameParts, Stock
  <2>2. Q = P \cup {<<nsnew.name, nsnew.text>>}
    BY <1>8, PartsFiles DEF P, Q
  <2>3. nsnew.name \notin DOMAIN f
    <3>1. SUFFICES ASSUME NEW k \in DOMAIN dir, dir[k].name = nsnew.name PROVE FALSE
      BY <1>4
    <3>2. /\ Len(dir') = Len(dir) + 1 /\ DOMAIN dir' = 1..(Len(dir) + 1) /\ dir'[k] = dir[k] /\ k \in DOMAIN dir'
          /\ Len(dir') \in DOMAIN dir' /\ k # Len(dir') /\ DOMAIN dir = 1..Len(dir)
      BY <1>8, NamePartsNode, Types
    <3>3. dir'[Len(dir')].name = nsnew.name
      BY <1>8, <3>2, PartsFiles
    <3> QED BY <3>1, <3>2, <3>3 DEF Unique
  <2>4. g = With(f, nsnew.name, nsnew.text)
    BY <1>1, <2>2, <2>3, MapCreate
  <2> QED BY <1>1, <2>1, <2>3, <2>4, PromisedSteps DEF f, g
<1>9. CASE NameRm
  <2>1. c2n[2] \in Names
    BY <1>9, TakesCommand DEF NameRm, Arity, Says, Words, Stock
  <2>2. ASSUME NEW k \in DOMAIN dir, dir[k].name = c2n[2], Q = P \ {<<c2n[2], dir[k].text>>} PROVE Promise!Next
    <3>1. c2n[2] \in DOMAIN f /\ g = [m \in DOMAIN f \ {c2n[2]} |-> f[m]]
      BY <1>1, <1>3, <2>2, MapRemove
    <3> QED BY <1>1, <2>1, <3>1, PromisedSteps DEF f, g
  <2> QED BY <1>5, <1>9, <2>2, RmFiles DEF P, Q
<1>10. CASE NameCp
  <2>1. c2n[2] \in Names /\ c2n[3] \in Names
    BY <1>10, TakesCommand DEF NameCp, Arity, Says, Words, Stock
  <2>2. ASSUME NEW k \in DOMAIN dir, dir[k].name = c2n[2], ~Exists(c2n[3]), Q = P \cup {<<c2n[3], dir[k].text>>}
        PROVE  Promise!Next
    <3>1. c2n[3] \notin DOMAIN f
      BY <1>4, <2>2 DEF Exists
    <3>2. g = With(f, c2n[3], f[c2n[2]]) /\ c2n[2] \in DOMAIN f
      BY <1>1, <1>3, <2>2, <3>1, MapCreate
    <3> QED BY <1>1, <2>1, <3>1, <3>2, PromisedSteps DEF f, g
  <2> QED BY <1>5, <1>10, <2>2, CpFiles DEF P, Q
<1>11. CASE NameMv
  <2>1. c2n[2] \in Names /\ c2n[3] \in Names
    BY <1>11, TakesCommand DEF NameMv, Arity, Says, Words, Stock
  <2>2. ASSUME NEW k \in DOMAIN dir, dir[k].name = c2n[2], Q = P \ {<<c2n[2], dir[k].text>>} PROVE Promise!Next
    <3>1. c2n[2] \in DOMAIN f /\ g = [m \in DOMAIN f \ {c2n[2]} |-> f[m]]
      BY <1>1, <1>3, <2>2, MapRemove
    <3> QED BY <1>1, <2>1, <3>1, PromisedSteps DEF f, g
  <2>3. ASSUME NEW k \in DOMAIN dir, dir[k].name = c2n[2], \A h \in DOMAIN dir \ {k} : dir[h].name # c2n[3],
               Q = (P \ {<<c2n[2], dir[k].text>>}) \cup {<<c2n[3], dir[k].text>>}
        PROVE  Promise!Next \/ UNCHANGED Promise!vars
    <3>1. CASE c2n[2] = c2n[3]
      <4>1. Q = P
        BY <1>3, <2>3, <3>1
      <4> QED BY <1>5, <4>1
    <3>2. CASE c2n[2] # c2n[3]
      <4>1. c2n[3] \notin DOMAIN f
        BY <1>4, <2>3, <3>2
      <4>2. <<c2n[2], dir[k].text>> \in P
        BY <1>3, <2>3
      <4>3. Maps(g, (P \ {<<c2n[2], dir[k].text>>}) \cup {<<c2n[3], dir[k].text>>})
        BY <1>1, <2>3
      <4>4. PICK a, b, c : a = c2n[2] /\ b = c2n[3] /\ c = dir[k].text
        OBVIOUS
      <4>5. /\ Maps(f, P) /\ <<a, c>> \in P /\ b \notin DOMAIN f
            /\ Maps(g, (P \ {<<a, c>>}) \cup {<<b, c>>})
        BY <1>1, <4>1, <4>2, <4>3, <4>4
      <4>6. a \in DOMAIN f /\ g = Moved(f, a, b)
        BY <4>5, MapRename
      <4>7. c2n[2] \in DOMAIN f /\ g = Moved(f, c2n[2], c2n[3])
        BY <4>4, <4>6
      <4> QED BY <1>1, <2>1, <4>1, <4>7, PromisedSteps DEF f, g
    <3> QED BY <3>1, <3>2
  <2> QED BY <1>5, <1>11, <2>2, <2>3, MvFiles DEF P, Q
<1> QED BY <1>6, <1>7, <1>8, <1>9, <1>10, <1>11 DEF NameServer

LEMMA StepKeeps ==
    ASSUME Careful, DiskInv, Mannerly, PromiseInv, Unique(dir)', [Next]_vars
    PROVE  Promise!Next \/ UNCHANGED Promise!vars
<1>1. Sync /\ Entries /\ Unique(dir) /\ Stock /\ Offer /\ Fetching
  BY CarefulBooks DEF PromiseInv
<1>2. ASSUME UNCHANGED <<dir, shown>> PROVE UNCHANGED Promise!vars
  BY <1>2, PromisedSteps
<1>3. CASE User
  BY <1>2, <1>3 DEF User, StartPut, StartCat, StartGet, StartRm, StartCp, StartMv, nameVars
<1>4. CASE NameServer
  BY <1>1, <1>4, NameServerKeeps
<1>5. ASSUME NEW s \in Servers, DataServer(s) PROVE UNCHANGED <<dir, shown>>
  BY <1>5 DEF DataServer, DataToBigFS, DataCat, DataRm, DataCp, clientVars, nameVars
<1>6. CASE CatData
  <2>1. UNCHANGED dir
    BY <1>6 DEF CatData, nameVars
  <2>2. CASE shown' # shown
    <3>1. PICK k \in DOMAIN dir : /\ dir[k].name = job.name /\ job.name \in Names
                                  /\ shown' = [name |-> job.name, text |-> dir[k].text, nul |-> job.nul]
      BY <1>1, <1>6, <2>2, CatShows
    <3>2. job.name \in DOMAIN Stored(dir) /\ Stored(dir)[job.name] = dir[k].text
      <4>1. PairsOf(Files(dir), Stored(dir)) /\ <<job.name, dir[k].text>> \in Files(dir)
        BY <1>1, <3>1, StoredMaps, MapValues DEF Files
      <4> QED BY <4>1 DEF PairsOf
    <3>3. job.nul \in {0, 1}
      BY <1>1, Types DEF Job
    <3> QED BY <2>1, <3>1, <3>2, <3>3, PromisedSteps
  <2> QED BY <1>2, <2>1, <2>2
<1>7. CASE Client /\ ~CatData
  <2>1. CASE Found
    <3>1. pc = "cat_ack" => Atoi(n2c[3]) # 0
      <4>1. SUFFICES ASSUME pc = "cat_ack" PROVE Atoi(n2c[3]) # 0
        OBVIOUS
      <4>2. PICK k \in DOMAIN dir : Atoi(n2c[3]) = dir[k].chunks
        BY <1>1, <2>1, <4>1, FoundWhole DEF Offer
      <4> QED BY <1>1, <4>2, Chunks
    <3>2. UNCHANGED <<dir, shown>>
      BY <2>1, <3>1 DEF Found, nameVars
    <3> QED BY <1>2, <3>2
  <2>2. CASE ~Found
    <3>1. UNCHANGED <<dir, shown>>
      BY <1>7, <2>2 DEF Client, PutRefused, PutAccepted, PutLocated, NotFound, CatSend, RmSend,
         CpAccepted, CpLocated, CpSend, MvDoneOrCpRefused, nameVars
    <3> QED BY <1>2, <3>1
  <2> QED BY <2>1, <2>2
<1>8. CASE UNCHANGED vars
  BY <1>2, <1>8 DEF vars, clientVars, nameVars
<1> QED BY <1>2, <1>3, <1>4, <1>5, <1>6, <1>7, <1>8 DEF Next

LEMMA InitKeeps == Init => Promise!Init
<1>1. SUFFICES ASSUME Init PROVE Promise!Init
  OBVIOUS
<1>2. shown = [name |-> <<>>, text |-> <<>>, nul |-> 0] /\ DOMAIN dir = {}
  BY <1>1, LenProperties DEF Init, Delivered, Idle
<1>3. Stored(dir) = <<>>
  BY <1>2 DEF Stored
<1> QED BY <1>2, <1>3 DEF Promise!Init, Stored, StoredUnder

\* What BigFS promises a careful user, it keeps: whatever the order in which
\* the processes take their steps, the directory is a map from names to
\* contents that each command changes at once or not at all, and cat and
\* frombigfs deliver the blocks that were stored under the name, in order,
\* though they come from several servers over connections of their own; cat
\* prints nothing else, frombigfs puts one NUL byte into the file it saves.
THEOREM BigFSKeepsPromise == NoNumerals /\ Careful => (Spec => KeepsPromise)
<1> SUFFICES ASSUME NoNumerals, Careful PROVE Spec => KeepsPromise
  OBVIOUS
<1>1. Spec => [](DiskInv /\ Mannerly)
  BY AlwaysKempt
<1>2. Init => PromiseInv
  BY InitPromise
<1>3. DiskInv /\ Mannerly /\ PromiseInv /\ [Next]_vars => PromiseInv'
  BY StepPromise
<1>4. DiskInv /\ Mannerly /\ PromiseInv /\ Mannerly' /\ [Next]_vars => [Promise!Next]_(Promise!vars)
  <2>1. SUFFICES ASSUME DiskInv, Mannerly, PromiseInv, Mannerly', [Next]_vars
                 PROVE  Promise!Next \/ UNCHANGED Promise!vars
    OBVIOUS
  <2>2. Unique(dir)'
    BY <2>1 DEF Mannerly, UniqueNames, Unique
  <2> QED BY <2>1, <2>2, StepKeeps
<1>5. Init => Promise!Init
  BY InitKeeps
<1> QED BY <1>1, <1>2, <1>3, <1>4, <1>5, PTL DEF Spec, KeepsPromise, Promise!Spec

=============================================================================
