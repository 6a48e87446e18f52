--------------------------- MODULE BigFSDiskProof ---------------------------
(***************************************************************************)
(* Theorems about the disks of BigFS: that no block of a file is lost,     *)
(* overwritten or left behind, whatever requests are under way, and that   *)
(* no process dies of a careful user's commands.                           *)
(***************************************************************************)
EXTENDS BigFSProof

-----------------------------------------------------------------------------
(* Paths.  A data server names the file of a chunk by appending a numeral  *)
(* to a location, so the theorems are about names that do not end with a   *)
(* numeral: the others may be the names of other files' chunks.            *)

Plain(p) == p # <<>> /\ p[Len(p)][1] # "num"

\* So is what an earlier session left: files with such names, each with a
\* location of its own and at least one chunk.
NoNumerals ==
    /\ \A n \in Names : Plain(n)
    /\ \A f \in OldFiles : Plain(f.loc) /\ f.text # <<>>
    /\ \A f, g \in OldFiles : f.loc = g.loc => f = g

LEMMA ChunkPaths ==
    ASSUME NEW l \in String, NEW i \in Nat
    PROVE  /\ ChunkPath(l, i) \in String /\ ~Plain(ChunkPath(l, i))
           /\ \A m \in String, j \in Nat : ChunkPath(l, i) = ChunkPath(m, j) => l = m /\ i = j
           /\ Plain(Variant(l, i)) /\ Variant(l, i) \in String
<1>1. Num(i) \in Token /\ Dup(i) \in Token /\ Num(i)[1] = "num" /\ Dup(i)[1] = "dup" /\ l \in Seq(Token)
  BY DEF Num, Dup, Token, String
<1>2. ASSUME NEW x \in Token
      PROVE  /\ Append(l, x) # <<>> /\ Append(l, x) \in Seq(Token)
             /\ Append(l, x)[Len(Append(l, x))] = x
  BY <1>1, AppendProperties
<1>3. ASSUME NEW m \in String, NEW j \in Nat, ChunkPath(l, i) = ChunkPath(m, j) PROVE l = m /\ i = j
  <2>1. Num(j) \in Token /\ m \in Seq(Token)
    BY DEF Num, Token, String
  <2>2. l = m /\ Num(i) = Num(j)
    BY <1>1, <1>3, <2>1, AppendInjective DEF ChunkPath
  <2> QED BY <2>2 DEF Num
<1> QED BY <1>1, <1>2, <1>3 DEF Plain, ChunkPath, Variant, String

\* Chunk i < D is the first that its server gets, and only those are.
LEMMA ServerOf ==
    ASSUME NEW i \in Nat
    PROVE  /\ Server(i) \in Servers /\ Server(i) <= i /\ Server(i) \in Nat
           /\ i \in Servers <=> Server(i) = i
           /\ Count(i) = 0 <=> i \in Servers
<1>1. D \in Nat \ {0}
  BY BigFSConstants DEF ConstantsOK
<1>2. i = D * (i \div D) + (i % D) /\ i % D \in 0..(D - 1) /\ i \div D \in Nat
  BY <1>1
<1>3. i \div D # 0 => D <= D * (i \div D)
  BY <1>1, <1>2
<1>4. i \div D = 0 => D * (i \div D) = 0
  BY <1>1
<1>5. D * (i \div D) \in Nat
  BY <1>1, <1>2
<1> QED BY <1>1, <1>2, <1>3, <1>4, <1>5 DEF Server, Servers, Count

-----------------------------------------------------------------------------
(* What the requests under way will make of a disk.                        *)

\* A request for a location takes effect when it is served, not when it is
\* sent: the server has still to choose.
Apply(d, r) ==
    CASE r.op = "cp" /\ ~Asks(r) ->
            Put(Put(d, r.to, Empty), ChunkPath(r.to, r.num), d[ChunkPath(r.loc, r.num)])
      [] r.op = "rm" -> Drop(d, {r.loc, ChunkPath(r.loc, r.num)})
      [] OTHER -> d

\* Can the request be served on that disk?
Possible(d, r) == r.op \in {"cat", "cp"} /\ ~Asks(r) => ChunkPath(r.loc, r.num) \in DOMAIN d

\* One by one the requests of q turn the disk d into v, and behind a cat comes
\* none that changes it.
Leads(h, q, v) ==
    \A p \in 1..Len(q) : /\ Possible(h[p - 1], q[p]) /\ h[p] = Apply(h[p - 1], q[p])
                         /\ q[p].op = "cat" => h[p - 1] = v

Ahead(q, d, v) == \E h : h[0] = d /\ h[Len(q)] = v /\ Leads(h, q, v)

LEMMA AheadEmpty == \A d, v : Ahead(<<>>, d, v) <=> v = d
<1>1. Len(<<>>) = 0
  OBVIOUS
<1>2. ASSUME NEW d PROVE Ahead(<<>>, d, d)
  <2> DEFINE h == [p \in {0} |-> d]
  <2>1. h[0] = d /\ h[Len(<<>>)] = d
    BY <1>1
  <2>2. 1..Len(<<>>) = {}
    BY <1>1
  <2> QED BY <2>1, <2>2 DEF Ahead, Leads
<1>3. ASSUME NEW d, NEW v, Ahead(<<>>, d, v) PROVE v = d
  BY <1>1, <1>3 DEF Ahead
<1> QED BY <1>2, <1>3

LEMMA AheadSend ==
    ASSUME NEW q \in Seq(Request), NEW r \in Request, NEW d, NEW v, Ahead(q, d, v), Possible(v, r),
           Apply(v, r) = v \/ \A p \in 1..Len(q) : q[p].op # "cat"
    PROVE  Ahead(Append(q, r), d, Apply(v, r))
<1>1. PICK h : h[0] = d /\ h[Len(q)] = v /\ Leads(h, q, v)
  BY DEF Ahead
<1> DEFINE a == Append(q, r)
           g == [p \in 0..Len(a) |-> IF p <= Len(q) THEN h[p] ELSE Apply(v, r)]
<1>2. /\ Len(q) \in Nat /\ Len(a) = Len(q) + 1 /\ a[Len(q) + 1] = r
      /\ \A p \in 1..Len(q) : a[p] = q[p]
  BY AppendProperties, LenProperties
<1>3. /\ \A p \in 0..Len(q) : g[p] = h[p]
      /\ g[Len(a)] = Apply(v, r)
  BY <1>2
<1> HIDE DEF a, g
<1>4. g[0] = d /\ g[Len(q)] = v
  BY <1>1, <1>2, <1>3
<1>5. ASSUME NEW p \in 1..Len(a)
      PROVE  /\ Possible(g[p - 1], a[p]) /\ g[p] = Apply(g[p - 1], a[p])
             /\ a[p].op = "cat" => g[p - 1] = Apply(v, r)
  <2>1. CASE p \in 1..Len(q)
    <3>1. p - 1 \in 0..Len(q) /\ p \in 0..Len(q)
      BY <1>2, <2>1
    <3>2. g[p - 1] = h[p - 1] /\ g[p] = h[p] /\ a[p] = q[p]
      BY <1>2, <1>3, <2>1, <3>1
    <3>3. /\ Possible(h[p - 1], q[p]) /\ h[p] = Apply(h[p - 1], q[p])
          /\ q[p].op = "cat" => h[p - 1] = Apply(v, r)
      BY <1>1, <2>1 DEF Leads
    <3> QED BY <3>2, <3>3
  <2>2. CASE p = Len(a)
    <3>1. p - 1 = Len(q) /\ p = Len(q) + 1
      BY <1>2, <2>2
    <3>2. r.op = "cat" => Apply(v, r) = v
      BY DEF Apply, Asks
    <3> QED BY <1>2, <1>3, <1>4, <2>2, <3>1, <3>2
  <2> QED BY <1>2, <2>1, <2>2
<1>6. Leads(g, a, Apply(v, r))
  BY <1>5 DEF Leads
<1> QED BY <1>3, <1>4, <1>6 DEF Ahead, a

LEMMA AheadServe ==
    ASSUME NEW q \in Seq(Request), q # <<>>, NEW d, NEW v, Ahead(q, d, v)
    PROVE  /\ Possible(d, Head(q)) /\ Ahead(Tail(q), Apply(d, Head(q)), v)
           /\ Head(q).op = "cat" => d = v
<1>1. PICK h : h[0] = d /\ h[Len(q)] = v /\ Leads(h, q, v)
  BY DEF Ahead
<1> DEFINE b == Tail(q)
           g == [p \in 0..Len(b) |-> h[p + 1]]
<1>2. /\ Len(q) \in Nat \ {0} /\ Len(b) = Len(q) - 1 /\ \A p \in 1..Len(b) : b[p] = q[p + 1]
      /\ Head(q) = q[1]
  BY HeadTailProperties, EmptySeq
<1>3. \A p \in 0..Len(b) : g[p] = h[p + 1]
  OBVIOUS
<1> HIDE DEF b, g
<1>4. Possible(h[0], q[1]) /\ h[1] = Apply(h[0], q[1]) /\ (q[1].op = "cat" => h[0] = v)
  <2>1. 1 \in 1..Len(q) /\ 1 - 1 = 0
    BY <1>2
  <2> QED BY <1>1, <2>1 DEF Leads
<1>5. g[0] = Apply(d, Head(q)) /\ g[Len(b)] = v
  <2>1. 0 \in 0..Len(b) /\ Len(b) \in 0..Len(b) /\ Len(b) + 1 = Len(q) /\ 0 + 1 = 1
    BY <1>2
  <2> QED BY <1>1, <1>2, <1>3, <1>4, <2>1
<1>6. ASSUME NEW p \in 1..Len(b)
      PROVE  /\ Possible(g[p - 1], b[p]) /\ g[p] = Apply(g[p - 1], b[p])
             /\ b[p].op = "cat" => g[p - 1] = v
  <2>1. p - 1 \in 0..Len(b) /\ p \in 0..Len(b) /\ (p - 1) + 1 = p /\ p + 1 \in 1..Len(q) /\ (p + 1) - 1 = p
    BY <1>2
  <2>2. g[p - 1] = h[p] /\ g[p] = h[p + 1] /\ b[p] = q[p + 1]
    BY <1>2, <1>3, <2>1
  <2>3. Possible(h[p], q[p + 1]) /\ h[p + 1] = Apply(h[p], q[p + 1]) /\ (q[p + 1].op = "cat" => h[p] = v)
    BY <1>1, <2>1 DEF Leads
  <2> QED BY <2>2, <2>3
<1>7. Leads(g, b, v)
  BY <1>6 DEF Leads
<1> QED BY <1>1, <1>4, <1>5, <1>7, <1>2 DEF Ahead, b

-----------------------------------------------------------------------------
(* What the disks hold of the files.  A ledger says for each location that  *)
(* is in use which text was or is being stored there, and which of its      *)
(* chunks are there: a file grows by one chunk at a time when it is stored  *)
(* or copied, and shrinks by one at a time when it is removed.             *)

Entry == [text : Seq(Block), lo : Nat, hi : Nat]

Ledger(F) == F \in [DOMAIN F -> Entry] /\ \A l \in DOMAIN F : l \in String /\ Plain(l)

HasMarker(l, s, F)   == F[l].lo <= s /\ s < F[l].hi
HasChunk(l, i, s, F) == F[l].lo <= i /\ i < F[l].hi /\ Server(i) = s

\* The disk of server s holds the markers and chunks of the ledger, and
\* nothing else.
Holds(d, s, F) ==
    /\ \A p \in DOMAIN d :
          \/ p \in DOMAIN F /\ HasMarker(p, s, F)
          \/ \E l \in DOMAIN F, i \in Nat : HasChunk(l, i, s, F) /\ p = ChunkPath(l, i)
    /\ \A l \in DOMAIN F : HasMarker(l, s, F) => l \in DOMAIN d /\ d[l] = Empty
    /\ \A l \in DOMAIN F, i \in Nat : HasChunk(l, i, s, F) =>
          ChunkPath(l, i) \in DOMAIN d /\ d[ChunkPath(l, i)] = F[l].text[i + 1]

Stores(V, F) == \A s \in Servers : Holds(V[s], s, F)

\* A marker on a disk is that of a file which has chunks there.
LEMMA MarkerHeld ==
    ASSUME NEW F, Ledger(F), NEW s, NEW d, Holds(d, s, F), NEW l \in DOMAIN d, Plain(l)
    PROVE  l \in DOMAIN F /\ HasMarker(l, s, F)
<1>1. \A m \in DOMAIN F, i \in Nat : l # ChunkPath(m, i)
  BY ChunkPaths DEF Ledger
<1> QED BY <1>1 DEF Holds

\* Entries without chunks may come and go.
LEMMA EmptyEntries ==
    ASSUME NEW F, NEW G, Ledger(F), Ledger(G), NEW s \in Servers, NEW d, Holds(d, s, F),
           \A l \in DOMAIN F \cap DOMAIN G : G[l] = F[l],
           \A l \in DOMAIN F \ DOMAIN G : F[l].hi <= F[l].lo,
           \A l \in DOMAIN G \ DOMAIN F : G[l].hi <= G[l].lo
    PROVE  Holds(d, s, G)
<1>1. /\ \A l \in DOMAIN F : F[l].lo \in Nat /\ F[l].hi \in Nat
      /\ \A l \in DOMAIN G : G[l].lo \in Nat /\ G[l].hi \in Nat
  BY DEF Ledger, Entry
<1>2. s \in Nat /\ \A l \in DOMAIN G \ DOMAIN F, i \in Nat : ~HasMarker(l, s, G) /\ ~HasChunk(l, i, s, G)
  BY <1>1, BigFSConstants DEF HasMarker, HasChunk, Servers, ConstantsOK
<1>3. \A l \in DOMAIN F \ DOMAIN G, i \in Nat : ~HasMarker(l, s, F) /\ ~HasChunk(l, i, s, F)
  BY <1>1, <1>2 DEF HasMarker, HasChunk
<1>4. \A l \in DOMAIN F \cap DOMAIN G, i \in Nat :
          (HasMarker(l, s, G) <=> HasMarker(l, s, F)) /\ (HasChunk(l, i, s, G) <=> HasChunk(l, i, s, F))
  BY DEF HasMarker, HasChunk
<1> QED BY <1>2, <1>3, <1>4 DEF Holds

\* Chunk i of l is stored.
LEMMA HoldsGrown ==
    ASSUME NEW F, NEW G, Ledger(F), Ledger(G), DOMAIN G = DOMAIN F, NEW l \in DOMAIN F, NEW i \in Nat,
           \A m \in DOMAIN F \ {l} : G[m] = F[m],
           F[l].lo = 0, F[l].hi = i, G[l].lo = 0, G[l].hi = i + 1, G[l].text = F[l].text,
           NEW s \in Servers, NEW d, Holds(d, s, F), NEW e,
           e = IF s = Server(i) THEN Put(Put(d, l, Empty), ChunkPath(l, i), F[l].text[i + 1]) ELSE d
    PROVE  Holds(e, s, G)
<1>1. s \in Nat /\ Server(i) <= i /\ (s = i => Server(i) = s) /\ Server(i) \in Nat
  BY ServerOf, BigFSConstants DEF Servers, ConstantsOK
<1>2. /\ \A m \in DOMAIN F : m \in String /\ Plain(m)
      /\ \A m \in DOMAIN F, j \in Nat : ChunkPath(m, j) = ChunkPath(l, i) => m = l /\ j = i
      /\ \A m, n \in DOMAIN F, j \in Nat : ChunkPath(m, j) # n
  BY ChunkPaths DEF Ledger
<1>3. \A m \in DOMAIN F : HasMarker(m, s, G) <=> HasMarker(m, s, F) \/ (m = l /\ s = Server(i))
  BY <1>1 DEF HasMarker
<1>4. \A m \in DOMAIN F, j \in Nat :
          HasChunk(m, j, s, G) <=> HasChunk(m, j, s, F) \/ (m = l /\ j = i /\ s = Server(i))
  BY <1>1 DEF HasChunk
<1>5. CASE s # Server(i)
  <2>1. e = d
    BY <1>5
  <2> QED BY <1>3, <1>4, <1>5, <2>1 DEF Holds
<1>6. CASE s = Server(i)
  <2> DEFINE c == ChunkPath(l, i)
             b == F[l].text[i + 1]
             e1 == Put(d, l, Empty)
  <2>1. DOMAIN e1 = DOMAIN d \cup {l} /\ e1[l] = Empty /\ \A q \in DOMAIN d : q # l => e1[q] = d[q]
    BY DEF Put
  <2>2. e = Put(e1, c, b)
    BY <1>6
  <2>3. DOMAIN e = DOMAIN e1 \cup {c} /\ e[c] = b /\ \A q \in DOMAIN e1 : q # c => e[q] = e1[q]
    BY <2>2 DEF Put
  <2> HIDE DEF e1
  <2>4. DOMAIN e = DOMAIN d \cup {l, c} /\ e[l] = Empty /\ \A q \in DOMAIN d : q # l /\ q # c => e[q] = d[q]
    BY <1>2, <2>1, <2>3
  <2> HIDE DEF b
  <2>5. ASSUME NEW p \in DOMAIN e
        PROVE  \/ p \in DOMAIN G /\ HasMarker(p, s, G)
               \/ \E m \in DOMAIN G, j \in Nat : HasChunk(m, j, s, G) /\ p = ChunkPath(m, j)
    BY <1>3, <1>4, <1>6, <2>4 DEF Holds, c
  <2>6. ASSUME NEW m \in DOMAIN G, HasMarker(m, s, G) PROVE m \in DOMAIN e /\ e[m] = Empty
    BY <1>2, <1>3, <2>4, <2>6 DEF Holds, c
  <2>7. ASSUME NEW m \in DOMAIN G, NEW j \in Nat, HasChunk(m, j, s, G)
        PROVE  ChunkPath(m, j) \in DOMAIN e /\ e[ChunkPath(m, j)] = G[m].text[j + 1]
    <3>1. CASE m = l /\ j = i
      BY <2>3, <2>4, <3>1 DEF c, b
    <3>2. CASE ~(m = l /\ j = i)
      <4>1. HasChunk(m, j, s, F) /\ ChunkPath(m, j) # c /\ ChunkPath(m, j) # l
        BY <1>2, <1>4, <2>7, <3>2 DEF c
      <4>2. ChunkPath(m, j) \in DOMAIN d /\ d[ChunkPath(m, j)] = F[m].text[j + 1]
        BY <4>1 DEF Holds
      <4> QED BY <2>4, <4>1, <4>2
    <3> QED BY <3>1, <3>2
  <2> QED BY <2>5, <2>6, <2>7 DEF Holds
<1> QED BY <1>5, <1>6

\* Chunk i of l is removed, and with it the marker of its server.
Without(d, l, i) == Drop(d, {l, ChunkPath(l, i)})

LEMMA HoldsShrunk ==
    ASSUME NEW F, NEW G, Ledger(F), Ledger(G), DOMAIN G = DOMAIN F, NEW l \in DOMAIN F, NEW i \in Nat,
           \A m \in DOMAIN F \ {l} : G[m] = F[m],
           F[l].lo = i, i < F[l].hi, G[l].lo = i + 1, G[l].hi = F[l].hi, G[l].text = F[l].text,
           NEW s \in Servers, NEW d, Holds(d, s, F), NEW e,
           e = IF s = Server(i) THEN Without(d, l, i) ELSE d
    PROVE  Holds(e, s, G)
<1>1. s \in Nat /\ Server(i) <= i /\ (s = i => Server(i) = s) /\ Server(i) \in Nat
      /\ F[l].hi \in Nat
  BY ServerOf, BigFSConstants DEF Servers, ConstantsOK, Ledger, Entry
<1>2. /\ \A m \in DOMAIN F : m \in String /\ Plain(m)
      /\ \A m \in DOMAIN F, j \in Nat : ChunkPath(m, j) = ChunkPath(l, i) => m = l /\ j = i
      /\ \A m, n \in DOMAIN F, j \in Nat : ChunkPath(m, j) # n
  BY ChunkPaths DEF Ledger
<1>3. \A m \in DOMAIN F : HasMarker(m, s, G) <=> HasMarker(m, s, F) /\ ~(m = l /\ s = Server(i))
  BY <1>1 DEF HasMarker
<1>4. \A m \in DOMAIN F, j \in Nat :
          HasChunk(m, j, s, G) <=> HasChunk(m, j, s, F) /\ ~(m = l /\ j = i /\ s = Server(i))
  BY <1>1 DEF HasChunk
<1>5. CASE s # Server(i)
  <2>1. e = d
    BY <1>5
  <2> QED BY <1>3, <1>4, <1>5, <2>1 DEF Holds
<1>6. CASE s = Server(i)
  <2> DEFINE c == ChunkPath(l, i)
  <2>1. e = Drop(d, {l, c})
    BY <1>6 DEF Without
  <2>2. DOMAIN e = DOMAIN d \ {l, c} /\ \A q \in DOMAIN d : q # l /\ q # c => e[q] = d[q]
    <3>1. DOMAIN e = DOMAIN d \ {l, c} /\ \A q \in DOMAIN d \ {l, c} : e[q] = d[q]
      BY <2>1 DEF Drop
    <3> QED BY <3>1
  <2>3. ASSUME NEW p \in DOMAIN e
        PROVE  \/ p \in DOMAIN G /\ HasMarker(p, s, G)
               \/ \E m \in DOMAIN G, j \in Nat : HasChunk(m, j, s, G) /\ p = ChunkPath(m, j)
    <3>1. p \in DOMAIN d /\ p # l /\ p # c
      BY <2>2
    <3>2. CASE p \in DOMAIN F /\ HasMarker(p, s, F)
      BY <1>3, <3>1, <3>2
    <3>3. ASSUME NEW m \in DOMAIN F, NEW j \in Nat, HasChunk(m, j, s, F), p = ChunkPath(m, j)
          PROVE  HasChunk(m, j, s, G) /\ m \in DOMAIN G
      BY <1>4, <3>1, <3>3 DEF c
    <3> QED BY <3>1, <3>2, <3>3 DEF Holds
  <2>4. ASSUME NEW m \in DOMAIN G, HasMarker(m, s, G) PROVE m \in DOMAIN e /\ e[m] = Empty
    <3>1. HasMarker(m, s, F) /\ m # l /\ m # c
      BY <1>2, <1>3, <1>6, <2>4 DEF c
    <3>2. m \in DOMAIN d /\ d[m] = Empty
      BY <3>1 DEF Holds
    <3> QED BY <2>2, <3>1, <3>2
  <2>5. ASSUME NEW m \in DOMAIN G, NEW j \in Nat, HasChunk(m, j, s, G)
        PROVE  ChunkPath(m, j) \in DOMAIN e /\ e[ChunkPath(m, j)] = G[m].text[j + 1]
    <3>1. HasChunk(m, j, s, F) /\ ChunkPath(m, j) # c /\ ChunkPath(m, j) # l
      BY <1>2, <1>4, <1>6, <2>5 DEF c
    <3>2. ChunkPath(m, j) \in DOMAIN d /\ d[ChunkPath(m, j)] = F[m].text[j + 1]
      BY <3>1 DEF Holds
    <3>3. G[m].text = F[m].text
      OBVIOUS
    <3> QED BY <2>2, <3>1, <3>2, <3>3
  <2> QED BY <2>3, <2>4, <2>5 DEF Holds
<1> QED BY <1>5, <1>6

-----------------------------------------------------------------------------
(* A request for a location is the last one in its queue, and is the one   *)
(* the client waits for.                                                   *)

CurrentAsk ==
    IF pc = "put_loc"
    THEN PutRequest(IF job.i = 0 THEN job.name ELSE job.loc, job.i, job.text[job.i + 1])
    ELSE ChunkRequest("cp", job.loc, 0, <<>>)

Asking == {"put_loc", "cp_loc"}

AskLast(s) ==
    \A p \in 1..Len(c2d[s]) : Asks(c2d[s][p]) =>
        /\ p = Len(c2d[s]) /\ c2d[s][p] = CurrentAsk
        /\ pc \in Asking /\ s = Server(job.i) /\ d2c[s] = <<>>

AsksLast == \A s \in Servers : AskLast(s)

LEMMA SendAppends ==
    ASSUME TypeOK, NEW s \in Servers, NEW req \in Request, SendData(s, req), NEW t \in Servers
    PROVE  /\ t # s => c2d'[t] = c2d[t]
           /\ c2d'[s] = Append(c2d[s], req) /\ Len(c2d'[s]) = Len(c2d[s]) + 1 /\ Len(c2d[s]) \in Nat
           /\ \A p \in 1..Len(c2d[s]) : c2d'[s][p] = c2d[s][p]
           /\ c2d'[s][Len(c2d[s]) + 1] = req
<1>1. c2d[s] \in Seq(Request)
  BY WireCounts
<1>2. c2d'[t] = IF t = s THEN Append(c2d[s], req) ELSE c2d[t]
  BY DEF SendData, TypeOK, WireType
<1>3. c2d'[s] = Append(c2d[s], req)
  BY DEF SendData, TypeOK, WireType
<1> QED BY <1>1, <1>2, <1>3, AppendProperties, LenProperties

LEMMA ServeTakes ==
    ASSUME TypeOK, NEW s \in Servers, NEW op, Requested(s, op), NEW t \in Servers
    PROVE  /\ t # s => c2d'[t] = c2d[t]
           /\ c2d[s] # <<>> /\ c2d[s] \in Seq(Request) /\ Head(c2d[s]) = c2d[s][1] /\ Head(c2d[s]).op = op
           /\ Head(c2d[s]) \in Request
           /\ c2d'[s] = Tail(c2d[s]) /\ Len(c2d[s]) \in Nat /\ Len(c2d[s]) # 0 /\ Len(c2d'[s]) = Len(c2d[s]) - 1
           /\ \A p \in 1..Len(c2d'[s]) : c2d'[s][p] = c2d[s][p + 1]
<1>1. c2d[s] \in Seq(Request) /\ c2d[s] # <<>> /\ Head(c2d[s]).op = op
  BY WireCounts DEF Requested
<1>2. c2d'[t] = IF t = s THEN Tail(c2d[s]) ELSE c2d[t]
  BY DEF Requested, TypeOK, WireType
<1>3. c2d'[s] = Tail(c2d[s])
  BY DEF Requested, TypeOK, WireType
<1>4. Len(c2d[s]) \in Nat /\ Len(c2d[s]) # 0
  BY <1>1, EmptySeq
<1> QED BY <1>1, <1>2, <1>3, <1>4, HeadTailProperties

\* No request for a location is under way.
LEMMA NoneAsked ==
    ASSUME AsksLast, pc \notin Asking \/ d2c[Server(job.i)] # <<>>, NEW s \in Servers
    PROVE  \A p \in 1..Len(c2d[s]) : ~Asks(c2d[s][p])
BY DEF AsksLast, AskLast

LEMMA AsksUnsent ==
    ASSUME AsksLast, pc \notin Asking \/ d2c[Server(job.i)] # <<>>, c2d' = c2d
    PROVE  AsksLast'
BY NoneAsked DEF AsksLast, AskLast

\* The client sends a request that is no such request.
LEMMA AsksBehind ==
    ASSUME AsksLast, TypeOK, pc \notin Asking, NEW s \in Servers, NEW req \in Request, ~Asks(req), SendData(s, req)
    PROVE  AsksLast'
<1> SUFFICES ASSUME NEW t \in Servers, NEW p \in 1..Len(c2d'[t]), Asks(c2d'[t][p]) PROVE FALSE
  BY DEF AsksLast, AskLast
<1>1. CASE t = s
  BY <1>1, NoneAsked, SendAppends
<1>2. CASE t # s
  BY <1>2, NoneAsked, SendAppends
<1> QED BY <1>1, <1>2

\* The client sends such a request, with nothing to read from that server.
LEMMA AsksSent ==
    ASSUME AsksLast, TypeOK, pc \notin Asking \/ d2c[Server(job.i)] # <<>>,
           NEW s \in Servers, NEW req \in Request, SendData(s, req),
           pc' \in Asking, s = Server(job'.i), d2c'[s] = <<>>, req = CurrentAsk'
    PROVE  AsksLast'
<1> SUFFICES ASSUME NEW t \in Servers, NEW p \in 1..Len(c2d'[t]), Asks(c2d'[t][p])
             PROVE  /\ p = Len(c2d'[t]) /\ c2d'[t][p] = CurrentAsk'
                    /\ pc' \in Asking /\ t = Server(job'.i) /\ d2c'[t] = <<>>
  BY DEF AsksLast, AskLast
<1>1. t = s
  BY NoneAsked, SendAppends
<1>2. p = Len(c2d[s]) + 1
  BY <1>1, NoneAsked, SendAppends
<1> QED BY <1>1, <1>2, SendAppends

\* A data server takes a request, and answers if it is such a request.
LEMMA AsksServed ==
    ASSUME AsksLast, TypeOK, NEW s \in Servers, NEW op, Requested(s, op), UNCHANGED <<pc, job>>,
           \A t \in Servers : t # s => d2c'[t] = d2c[t],
           Asks(Head(c2d[s])) \/ d2c'[s] = d2c[s] \/ pc \notin Asking
    PROVE  AsksLast' /\ (Asks(Head(c2d[s])) => c2d'[s] = <<>> /\ c2d[s] = <<CurrentAsk>>)
<1>1. CurrentAsk' = CurrentAsk
  BY DEF CurrentAsk
<1>2. Asks(Head(c2d[s])) => Len(c2d[s]) = 1 /\ Len(c2d'[s]) = 0 /\ c2d[s][1] = CurrentAsk
  <2>1. /\ 1 \in 1..Len(c2d[s]) /\ Head(c2d[s]) = c2d[s][1]
        /\ Len(c2d'[s]) = Len(c2d[s]) - 1 /\ Len(c2d[s]) \in Nat
    BY ServeTakes
  <2>2. Asks(c2d[s][1]) => 1 = Len(c2d[s]) /\ c2d[s][1] = CurrentAsk
    BY <2>1 DEF AsksLast, AskLast
  <2> QED BY <2>1, <2>2
<1>3. ASSUME NEW t \in Servers PROVE AskLast(t)'
  <2>1. CASE t # s
    BY <1>1, <2>1, ServeTakes DEF AsksLast, AskLast
  <2>2. CASE t = s
    <3> SUFFICES ASSUME NEW p \in 1..Len(c2d'[s]), Asks(c2d'[s][p])
                 PROVE  /\ p = Len(c2d'[s]) /\ c2d'[s][p] = CurrentAsk'
                        /\ pc' \in Asking /\ s = Server(job'.i) /\ d2c'[s] = <<>>
      BY <2>2 DEF AskLast
    <3>1. p + 1 \in 1..Len(c2d[s]) /\ c2d'[s][p] = c2d[s][p + 1] /\ Len(c2d'[s]) = Len(c2d[s]) - 1
          /\ Len(c2d[s]) \in Nat
      BY ServeTakes
    <3>2. ~Asks(Head(c2d[s]))
      BY <1>2
    <3>3. /\ p + 1 = Len(c2d[s]) /\ c2d[s][p + 1] = CurrentAsk
          /\ pc \in Asking /\ s = Server(job.i) /\ d2c[s] = <<>>
      BY <3>1 DEF AsksLast, AskLast
    <3> QED BY <1>1, <3>1, <3>2, <3>3
  <2> QED BY <2>1, <2>2
<1>4. Asks(Head(c2d[s])) => c2d'[s] = <<>> /\ c2d[s] = <<CurrentAsk>>
  <2> SUFFICES ASSUME Asks(Head(c2d[s])) PROVE c2d'[s] = <<>> /\ c2d[s] = <<CurrentAsk>>
    OBVIOUS
  <2>1. c2d[s] \in Seq(Request) /\ c2d'[s] = Tail(c2d[s]) /\ c2d[s] # <<>>
    BY ServeTakes
  <2>2. Tail(c2d[s]) \in Seq(Request)
    BY <2>1, HeadTailProperties
  <2>3. c2d'[s] = <<>>
    BY <1>2, <2>1, <2>2, NoLength
  <2>4. c2d[s] = <<c2d[s][1]>>
    BY <1>2, <2>1
  <2> QED BY <1>2, <2>3, <2>4
<1> QED BY <1>3, <1>4 DEF AsksLast

LEMMA ServerAsks == ASSUME Talk, AsksLast, NEW s \in Servers, DataServer(s) PROVE AsksLast'
<1>0. TypeOK /\ d2c \in [Servers -> Seq(Answer)]
  BY DEF Talk, TypeOK, WireType
<1>1. CASE DataToBigFS(s)
  <2>1. PICK strings : Answers(s, strings)
    BY <1>1 DEF DataToBigFS
  <2>2. \A t \in Servers : t # s => d2c'[t] = d2c[t]
    BY <1>0, <2>1 DEF Answers
  <2>3. Asks(Head(c2d[s]))
    BY <1>1 DEF DataToBigFS, Requested, Asks
  <2> QED BY <1>0, <1>1, <2>2, <2>3, AsksServed DEF DataToBigFS, clientVars
<1>2. CASE DataCat(s)
  <2>1. pc \notin Asking
    <3>1. Wanted(s) = Wanted(s)' + 1 /\ Wanted(s)' \in Nat
      BY <1>0, <1>2, RequestCounts DEF DataCat
    <3>2. Wanted(s) # 0
      BY <3>1
    <3> QED BY <3>2 DEF Asking, Talk, Dialogue, Storing
  <2>2. \A t \in Servers : t # s => d2c'[t] = d2c[t]
    BY <1>0, <1>2 DEF DataCat, Answers
  <2> QED BY <1>0, <1>2, <2>1, <2>2, AsksServed DEF DataCat, clientVars
<1>3. CASE DataRm(s)
  BY <1>0, <1>3, AsksServed DEF DataRm, clientVars
<1>4. CASE DataCp(s)
  <2>1. PICK strings : Answers(s, strings) /\ (Head(c2d[s]).num # 0 => strings = <<>>)
    BY <1>4 DEF DataCp
  <2>2. \A t \in Servers : t # s => d2c'[t] = d2c[t]
    BY <1>0, <2>1 DEF Answers
  <2>3. Asks(Head(c2d[s])) \/ d2c'[s] = d2c[s]
    <3>1. CASE Head(c2d[s]).num = 0
      BY <1>4, <3>1 DEF DataCp, Requested, Asks
    <3>2. CASE Head(c2d[s]).num # 0
      <4>1. d2c[s] \o <<>> = d2c[s]
        BY <1>0, ConcatEmptySeq
      <4> QED BY <1>0, <2>1, <3>2, <4>1 DEF Answers
    <3> QED BY <3>1, <3>2
  <2> QED BY <1>0, <1>4, <2>2, <2>3, AsksServed DEF DataCp, clientVars
<1> QED BY <1>1, <1>2, <1>3, <1>4 DEF DataServer

LEMMA ClientAsks == ASSUME Talk, AsksLast, Client, TypeOK' PROVE AsksLast'
<1>0. /\ TypeOK /\ job \in Job /\ job.i \in Nat /\ Server(0) \in Servers /\ Server(job.i) \in Servers
      /\ job.loc \in String /\ job.name \in String /\ job.text \in Seq(Block) /\ job.to \in String
      /\ job.chunks \in Nat /\ (pc = "put_loc" => job.chunks = Len(job.text))
  BY ServerType DEF Talk, TypeOK, ClientType, Job
<1>1. CASE PutAccepted
  <2>1. job.i = 0 /\ job.text[1] \in Block
    BY <1>0, <1>1 DEF Talk, Counters, PutAccepted
  <2>2. PutRequest(job.name, 0, job.text[1]) \in Request
    BY <1>0, <2>1, PutRequestType
  <2>3. pc' = "put_loc" /\ job'.i = 0 /\ job'.name = job.name /\ job'.text = job.text
    BY <1>0, <1>1, <2>1 DEF PutAccepted, Await, Job
  <2>4. CurrentAsk' = PutRequest(job.name, 0, job.text[1])
    BY <2>3 DEF CurrentAsk
  <2>5. d2c'[Server(0)] = <<>> /\ pc \notin Asking
    BY <1>0, <1>1 DEF Talk, Dialogue, Silent, Talks, Asking, PutAccepted
  <2> QED BY <1>0, <1>1, <2>2, <2>3, <2>4, <2>5, AsksSent DEF PutAccepted, Asking
<1>2. CASE CpAccepted
  <2>1. CASE Atoi(n2c[3]) = 0
    BY <1>2, <2>1, AsksUnsent DEF CpAccepted, Asking
  <2>2. CASE Atoi(n2c[3]) # 0
    <3>1. n2c[2] \in String
      BY <1>2, StringsOnWire DEF CpAccepted, Talk, TypeOK, WireType
    <3>2. ChunkRequest("cp", n2c[2], 0, <<>>) \in Request
      BY <3>1, EmptyString, ChunkRequestType
    <3>3. pc' = "cp_loc" /\ job'.i = 0 /\ job'.loc = n2c[2]
      BY <1>0, <1>2, <2>2 DEF CpAccepted, Await, Job, Talk, Counters
    <3>4. CurrentAsk' = ChunkRequest("cp", n2c[2], 0, <<>>)
      BY <3>3 DEF CurrentAsk
    <3>5. d2c'[Server(0)] = <<>> /\ pc \notin Asking
      BY <1>0, <1>2 DEF Talk, Dialogue, Silent, Talks, Asking, CpAccepted
    <3> QED BY <1>0, <1>2, <2>2, <3>2, <3>3, <3>4, <3>5, AsksSent DEF CpAccepted, Asking
  <2> QED BY <2>1, <2>2
<1>3. CASE PutLocated
  <2> DEFINE next == job.i + 1
             loc  == IF job.i = 0 THEN Head(d2c[Server(job.i)]).loc ELSE job.loc
  <2>1. d2c[Server(job.i)] # <<>> /\ d2c' = [d2c EXCEPT ![Server(job.i)] = Tail(@)] /\ pc = "put_loc"
    BY <1>3 DEF PutLocated
  <2>2. CASE next < job.chunks
    <3> DEFINE req == PutRequest(loc, next, job.text[next + 1])
    <3>1. next \in Nat /\ Server(next) \in Servers /\ next + 1 \in 1..Len(job.text) /\ next # 0
      <4>1. next \in Nat /\ next # 0 /\ next + 1 \in 1..job.chunks
        BY <1>0, <2>2
      <4>2. Server(next) \in Servers
        BY <4>1, ServerType
      <4> QED BY <1>0, <2>1, <4>1, <4>2
    <3>2. loc \in String
      <4>1. Head(d2c[Server(job.i)]).loc \in String
        BY <1>0, <2>1, ReadAnswerType DEF TypeOK, WireType, Answer
      <4> QED BY <1>0, <4>1
    <3>3. req \in Request
      <4>1. job.text[next + 1] \in Block
        BY <1>0, <3>1, ElementOfSeq
      <4> QED BY <3>1, <3>2, <4>1, PutRequestType
    <3>4. SendData(Server(next), req) /\ pc' = "put_loc" /\ job'.i = next /\ job'.loc = loc /\ job'.text = job.text
      BY <1>0, <1>3, <2>2 DEF PutLocated, Await, Job
    <3>5. CurrentAsk' = req
      BY <3>1, <3>4 DEF CurrentAsk
    <3>6. d2c'[Server(next)] = <<>>
      BY <2>1, <3>1, AnswerTaken DEF Talk
    <3> HIDE DEF req, next, loc
    <3> QED BY <1>0, <2>1, <3>1, <3>3, <3>4, <3>5, <3>6, AsksSent DEF Asking
  <2>3. CASE ~(next < job.chunks)
    BY <1>3, <2>1, <2>3, AsksUnsent DEF PutLocated
  <2> QED BY <2>2, <2>3
<1>4. CASE CpLocated
  <2>1. job.i = 0
    BY <1>4 DEF CpLocated, Talk, Counters
  <2> QED BY <1>4, <2>1, AsksUnsent DEF CpLocated
<1>5. CASE PutRefused \/ NotFound \/ Found \/ CatData \/ MvDoneOrCpRefused
  <2>1. pc \notin Asking /\ c2d' = c2d
    BY <1>5 DEF PutRefused, NotFound, Found, CatData, MvDoneOrCpRefused, Asking
  <2> QED BY <2>1, AsksUnsent
<1>6. CASE CatSend
  <2>1. ChunkRequest("cat", job.loc, job.i, <<>>) \in Request /\ ~Asks(ChunkRequest("cat", job.loc, job.i, <<>>))
    BY <1>0, EmptyString, ChunkRequestType DEF Asks, ChunkRequest
  <2> QED BY <1>0, <1>6, <2>1, AsksBehind DEF CatSend, Asking
<1>7. CASE RmSend
  <2>1. ChunkRequest("rm", job.loc, job.i, <<>>) \in Request /\ ~Asks(ChunkRequest("rm", job.loc, job.i, <<>>))
    BY <1>0, EmptyString, ChunkRequestType DEF Asks, ChunkRequest
  <2> QED BY <1>0, <1>7, <2>1, AsksBehind DEF RmSend, Asking
<1>8. CASE CpSend
  <2>1. ChunkRequest("cp", job.loc, job.i, job.to) \in Request /\ ~Asks(ChunkRequest("cp", job.loc, job.i, job.to))
    <3>1. job.i # 0
      BY <1>8 DEF CpSend, Talk, Counters
    <3> QED BY <1>0, <3>1, ChunkRequestType DEF Asks, ChunkRequest
  <2> QED BY <1>0, <1>8, <2>1, AsksBehind DEF CpSend, Asking
<1> QED BY <1>1, <1>2, <1>3, <1>4, <1>5, <1>6, <1>7, <1>8 DEF Client

LEMMA StepAsks == ASSUME Talk, AsksLast, [Next]_vars PROVE AsksLast'
<1>0. TypeOK'
  BY StepTalk DEF Talk
<1>1. ASSUME UNCHANGED <<pc, job, c2d, d2c>> PROVE AsksLast'
  BY <1>1 DEF AsksLast, AskLast, CurrentAsk
<1>2. CASE User
  <2>1. pc \notin Asking /\ c2d' = c2d
    BY <1>2 DEF User, StartPut, StartCat, StartGet, StartRm, StartCp, StartMv, Asking
  <2> QED BY <2>1, AsksUnsent
<1>3. CASE Client
  BY <1>0, <1>3, ClientAsks
<1>4. CASE NameServer
  BY <1>1, <1>4 DEF NameServer, NameToBigFS, NameParts, NameLocation, NameCat, NameRm, NameCp, NameMv,
     NameIgnores, clientVars
<1>5. CASE \E s \in Servers : DataServer(s)
  BY <1>5, ServerAsks
<1>6. CASE UNCHANGED vars
  BY <1>1, <1>6 DEF vars, clientVars, wires
<1> QED BY <1>2, <1>3, <1>4, <1>5, <1>6 DEF Next

-----------------------------------------------------------------------------
(* What the directory and the conversation with the name server say about  *)
(* the files.                                                              *)

Lost == Astray \/ Stuck

\* The location on its way to the name server.
Named == IF Needs > 0 /\ ~Owing /\ Len(c2n) >= Needs THEN c2n[Needs] ELSE <<>>

\* The text of the file whose node the name server is making.
NewText == IF nspc = "parts" THEN nsnew.text ELSE dir[Len(dir)].text

\* Every node has as many chunks as its text, and a location unless it is the
\* one that is being made.
Nodes ==
    /\ \A k \in DOMAIN dir : /\ dir[k].chunks = Len(dir[k].text)
                             /\ dir[k].loc = <<>> => k = Len(dir) /\ nspc = "location"
    /\ nspc = "location" => dir # <<>> /\ dir[Len(dir)].loc = <<>>
    /\ nspc = "parts" => nsnew.loc = <<>>

\* The number and the location under way are right, or at least not empty.
LettersRight ==
    /\ nspc = "parts" /\ c2n # <<>> => c2n[1] = <<Num(Len(nsnew.text))>>
    /\ Needs > 0 /\ ~Owing /\ Len(c2n) >= Needs => Named # <<>>

\* What the client is about.
Task ==
    /\ pc \in {"put_ack", "put_loc"} => job.name \in Names
    /\ pc = "put_ack" /\ nspc = "parts" /\ c2n = <<>> => nsnew.text = job.text
    /\ pc \in {"put_loc", "cp_send", "rm_send"} => job.i < job.chunks
    /\ pc = "rm_send" => nspc = "command"
    /\ pc = "put_loc" /\ job.i = 0 => NewText = job.text
    /\ Owing /\ d2c[Server(0)] # <<>> => Head(d2c[Server(0)]).loc # <<>>

Entries == Nodes /\ LettersRight /\ Task

LEMMA Types ==
    ASSUME Sync
    PROVE  /\ TypeOK /\ Talk /\ c2n \in Seq(String) /\ n2c \in Seq(String) /\ dir \in Seq(Node)
           /\ Len(c2n) \in Nat /\ Len(n2c) \in Nat /\ Needs \in 0..2 /\ Needs \in Nat
           /\ (Needs = 0 <=> nspc = "command") /\ (Needs = 2 <=> nspc = "parts") /\ (Needs = 1 <=> nspc = "location")
           /\ Len(dir) \in Nat /\ DOMAIN dir = 1..Len(dir) /\ \A k \in DOMAIN dir : dir[k] \in Node
           /\ job \in Job /\ job.i \in Nat /\ job.chunks \in Nat /\ job.text \in Seq(Block) /\ Len(job.text) \in Nat
           /\ job.loc \in String /\ job.to \in String /\ job.name \in String
           /\ nsnew \in Node /\ nsnew.text \in Seq(Block) /\ Len(nsnew.text) \in Nat
           /\ Server(0) \in Servers /\ Server(job.i) \in Servers
           /\ d2c \in [Servers -> Seq(Answer)] /\ (c2n = <<>> <=> Len(c2n) = 0)
<1>1. TypeOK /\ Talk
  BY DEF Sync, Talk
<1>2. /\ c2n \in Seq(String) /\ n2c \in Seq(String) /\ dir \in Seq(Node)
      /\ Len(c2n) \in Nat /\ Len(n2c) \in Nat /\ Needs \in 0..2
  BY <1>1, Strings
<1>3. /\ Len(dir) \in Nat /\ DOMAIN dir = 1..Len(dir) /\ \A k \in DOMAIN dir : dir[k] \in Node
      /\ (c2n = <<>> <=> Len(c2n) = 0)
  BY <1>2, LenProperties, NoLength
<1>4. job \in Job /\ nsnew \in Node /\ d2c \in [Servers -> Seq(Answer)] /\ nspc \in {"command", "parts", "location"}
  BY <1>1 DEF TypeOK, ClientType, NameType, WireType
<1>5. /\ job.i \in Nat /\ job.chunks \in Nat /\ job.text \in Seq(Block) /\ job.loc \in String /\ job.to \in String
      /\ job.name \in String /\ nsnew.text \in Seq(Block)
  BY <1>4 DEF Job, Node
<1>6. Len(job.text) \in Nat /\ Len(nsnew.text) \in Nat
  BY <1>5, LenProperties
<1>7. Server(0) \in Servers /\ Server(job.i) \in Servers
  BY <1>5, ServerType
<1>8. (Needs = 0 <=> nspc = "command") /\ (Needs = 2 <=> nspc = "parts") /\ (Needs = 1 <=> nspc = "location")
  BY <1>4 DEF Needs
<1> QED BY <1>1, <1>2, <1>3, <1>4, <1>5, <1>6, <1>7, <1>8

\* Strings go behind those that are there.
LEMMA SentBehind ==
    ASSUME Sync, NEW more \in Seq(String), SendName(more)
    PROVE  /\ Len(c2n') = Len(c2n) + Len(more) /\ c2n' = c2n \o more
           /\ \A i \in 1..Len(c2n) : c2n'[i] = c2n[i]
           /\ Len(more) = 1 => c2n'[Len(c2n) + 1] = more[1]
<1>1. /\ Len(c2n \o more) = Len(c2n) + Len(more)
      /\ \A i \in 1..(Len(c2n) + Len(more)) : (c2n \o more)[i] = IF i <= Len(c2n) THEN c2n[i] ELSE more[i - Len(c2n)]
  BY Types, ConcatProperties
<1>2. Len(c2n) \in Nat /\ Len(more) \in Nat
  BY Types, LenProperties
<1>3. c2n' = c2n \o more
  BY DEF SendName
<1>4. \A i \in 1..Len(c2n) : c2n'[i] = c2n[i]
  BY <1>1, <1>2, <1>3
<1>5. Len(more) = 1 => c2n'[Len(c2n) + 1] = more[1]
  <2>1. Len(more) = 1 => Len(c2n) + 1 \in 1..(Len(c2n) + Len(more)) /\ ~(Len(c2n) + 1 <= Len(c2n))
                         /\ (Len(c2n) + 1) - Len(c2n) = 1
    BY <1>2
  <2> QED BY <1>1, <1>3, <2>1
<1> QED BY <1>1, <1>3, <1>4, <1>5

\* A command leaves the letters of the one before as they are.
LEMMA CommandBehind ==
    ASSUME Sync, pc = "prompt", pc' \in Calls, NEW more \in Seq(String), Len(more) > 0, SendName(more), UNCHANGED nspc
    PROVE  /\ Named' = Named /\ Needs' = Needs /\ ~Owing /\ ~Owing' /\ Len(c2n) = Needs /\ c2n' # <<>>
           /\ nspc = "parts" => c2n # <<>> /\ c2n'[1] = c2n[1]
<1>1. Len(c2n) = Needs /\ ~Owing /\ ~Owing'
  BY DEF Sync, InCall, Calls, Owing
<1>2. Needs' = Needs
  BY DEF Needs
<1>3. Len(c2n') = Len(c2n) + Len(more) /\ (\A i \in 1..Len(c2n) : c2n'[i] = c2n[i]) /\ Len(more) \in Nat
  BY SentBehind, LenProperties
<1>4. Needs > 0 => Needs \in 1..Len(c2n)
  BY <1>1, Types
<1>5. Len(c2n') >= Needs'
  BY <1>1, <1>2, <1>3, Types
<1>6. Named' = Named
  BY <1>1, <1>2, <1>3, <1>4, <1>5, Types DEF Named
<1>7. nspc = "parts" => c2n # <<>> /\ c2n'[1] = c2n[1]
  BY <1>1, <1>3, Types
<1>8. c2n' # <<>>
  BY <1>1, <1>3, Types, ConcatEqualIffEmpty DEF SendName
<1> QED BY <1>1, <1>2, <1>6, <1>7, <1>8

\* The location goes where the name server expects it.
LEMMA LocationBehind ==
    ASSUME Sync, Owing, ~Owing', NEW loc \in String, SendName(<<loc>>), UNCHANGED nspc
    PROVE  /\ Named' = loc /\ Needs' = Needs /\ Needs > 0 /\ Len(c2n') = Needs
           /\ nspc = "parts" => c2n # <<>> /\ c2n'[1] = c2n[1]
<1>1. Len(c2n) = Needs - 1 /\ Needs > 0
  BY Types DEF Sync, InCall, Calls, Owing
<1>2. Needs' = Needs
  BY DEF Needs
<1>3. /\ Len(c2n') = Len(c2n) + 1 /\ (\A i \in 1..Len(c2n) : c2n'[i] = c2n[i])
      /\ c2n'[Len(c2n) + 1] = loc
  <2>1. <<loc>> \in Seq(String) /\ Len(<<loc>>) = 1 /\ <<loc>>[1] = loc
    OBVIOUS
  <2> QED BY <2>1, SentBehind
<1>4. Len(c2n') = Needs /\ c2n'[Needs] = loc
  BY <1>1, <1>3, Types
<1>5. nspc = "parts" => c2n # <<>> /\ c2n'[1] = c2n[1]
  BY <1>1, <1>3, Types
<1> QED BY <1>1, <1>2, <1>4, <1>5, Types DEF Named

\* The name server reads the number, or the location.
LEMMA RestRead ==
    ASSUME Sync, c2n # <<>>, c2n' = Tail(c2n), UNCHANGED <<pc, job>>, Needs > 0, Needs' = Needs - 1
    PROVE  /\ Needs' > 0 => Named' = Named /\ (Owing' <=> Owing)
           /\ Needs = 1 => ~Owing /\ Named = Head(c2n)
           /\ Len(c2n') = Len(c2n) - 1
           /\ Len(c2n) >= Needs \/ Owing
<1>1. /\ Len(c2n') = Len(c2n) - 1 /\ \A i \in 1..(Len(c2n) - 1) : c2n'[i] = c2n[i + 1]
  BY Types, HeadTailProperties
<1>2. Len(c2n) \in Nat /\ Len(c2n) # 0 /\ Head(c2n) = c2n[1]
  BY Types
<1>3. Owing' <=> Owing
  BY DEF Owing
<1>4. Owing => Len(c2n) = Needs - 1
  BY DEF Sync, InCall, Owing, Calls
<1>5. Needs' > 0 => Needs = 2 /\ Needs' = 1
  BY Types
<1>6. ASSUME Needs' > 0 PROVE Named' = Named
  <2>1. ~Owing /\ Len(c2n) >= 2 => c2n'[1] = c2n[2]
    BY <1>1, <1>2
  <2> QED BY <1>1, <1>2, <1>3, <1>5, <1>6, <2>1 DEF Named
<1>7. Needs = 1 => ~Owing /\ Named = Head(c2n)
  BY <1>2, <1>4 DEF Named
<1>8. Len(c2n) >= Needs \/ Owing
  <2>1. CASE pc \in Calls
    <3>1. Waits
      BY <2>1 DEF Sync, InCall, Served
    <3>2. Len(c2n) = Needs + 1 + Args /\ Args \in 1..2 /\ Needs \in Nat
      BY <3>1, Types DEF Waits, Args
    <3> QED BY <3>2
  <2>2. CASE pc \notin Calls
    BY <2>2, Types DEF Sync, InCall
  <2> QED BY <2>1, <2>2
<1> QED BY <1>1, <1>3, <1>6, <1>7, <1>8

LEMMA UserEntries == ASSUME Sync, Entries, User PROVE Entries'
<1>1. ASSUME pc = "prompt", pc' \in Calls, UNCHANGED <<nspc, nsnew, dir>>, pc' = "put_ack" => job'.name \in Names,
             NEW more \in Seq(String), Len(more) > 0, SendName(more)
      PROVE  Entries'
  <2>1. /\ Named' = Named /\ Needs' = Needs /\ ~Owing /\ ~Owing' /\ Len(c2n) = Needs /\ c2n' # <<>>
        /\ nspc = "parts" => c2n # <<>> /\ c2n'[1] = c2n[1]
    BY <1>1, CommandBehind
  <2>2. LettersRight'
    BY <1>1, <2>1, Types DEF Entries, LettersRight
  <2>3. Task'
    BY <1>1, <2>1 DEF Task, Calls
  <2>4. Nodes'
    BY <1>1 DEF Entries, Nodes
  <2> QED BY <2>2, <2>3, <2>4 DEF Entries
<1>2. ASSUME NEW w \in Words, NEW a \in Names, NEW b \in Names
      PROVE  /\ <<Word(w), a>> \in Seq(String) /\ Len(<<Word(w), a>>) > 0
             /\ <<Word(w), a, b>> \in Seq(String) /\ Len(<<Word(w), a, b>>) > 0
  BY WordType, BigFSConstants DEF ConstantsOK
<1>3. ASSUME NEW n \in Names, NEW text \in Texts, StartPut(n, text) PROVE Entries'
  <2>1. /\ SendName(<<Word("tobigfs"), n>>) /\ UNCHANGED <<nspc, nsnew, dir>> /\ pc' \in Calls /\ "tobigfs" \in Words
        /\ job'.name = n /\ pc = "prompt"
    BY <1>3 DEF StartPut, Await, nameVars, Calls, Words, Idle
  <2> QED BY <1>1, <1>2, <2>1
<1>4. ASSUME NEW n \in Names, NEW op \in {"cat", "frombigfs"}, Fetch(op, n) PROVE Entries'
  <2>1. /\ SendName(<<Word(op), n>>) /\ UNCHANGED <<nspc, nsnew, dir>> /\ pc' = "cat_ack" /\ op \in Words
        /\ pc = "prompt" /\ pc' \in Calls
    BY <1>4 DEF Fetch, StartCat, StartGet, Await, nameVars, Calls, Words
  <2> QED BY <1>1, <1>2, <2>1
<1>5. ASSUME NEW n \in Names, StartRm(n) PROVE Entries'
  <2>1. /\ SendName(<<Word("rm"), n>>) /\ UNCHANGED <<nspc, nsnew, dir>> /\ pc' = "rm_ack" /\ "rm" \in Words
        /\ pc = "prompt" /\ pc' \in Calls
    BY <1>5 DEF StartRm, Await, nameVars, Calls, Words
  <2> QED BY <1>1, <1>2, <2>1
<1>6. ASSUME NEW a \in Names, NEW b \in Names, StartCp(a, b) PROVE Entries'
  <2>1. /\ SendName(<<Word("cp"), a, b>>) /\ UNCHANGED <<nspc, nsnew, dir>> /\ pc' = "cp_ack" /\ "cp" \in Words
        /\ pc = "prompt" /\ pc' \in Calls
    BY <1>6 DEF StartCp, Await, nameVars, Calls, Words
  <2> QED BY <1>1, <1>2, <2>1
<1>7. ASSUME NEW a \in Names, NEW b \in Names, StartMv(a, b) PROVE Entries'
  <2>1. /\ SendName(<<Word("mv"), a, b>>) /\ UNCHANGED <<nspc, nsnew, dir>> /\ pc' = "mv_ack" /\ "mv" \in Words
        /\ pc = "prompt" /\ pc' \in Calls
    BY <1>7 DEF StartMv, Await, nameVars, Calls, Words
  <2> QED BY <1>1, <1>2, <2>1
<1> QED BY <1>3, <1>4, <1>5, <1>6, <1>7, FetchWords DEF User

\* The client at a new place, with the letters as they were.
LEMMA EntriesMoved ==
    ASSUME Entries, UNCHANGED <<c2n, nspc, nsnew, dir>>, ~Owing, ~Owing',
           pc' \notin {"put_ack", "put_loc"}, pc' \in {"cp_send", "rm_send"} => job'.i < job'.chunks,
           pc' = "rm_send" => nspc = "command"
    PROVE  Entries'
<1>1. Needs' = Needs
  BY DEF Needs
<1>2. Named' = Named
  BY <1>1 DEF Named
<1> QED BY <1>1, <1>2 DEF Entries, Nodes, LettersRight, Task

LEMMA ClientReadEntries ==
    ASSUME Sync, Entries, PutRefused \/ NotFound \/ Found \/ MvDoneOrCpRefused PROVE Entries'
<1>1. /\ UNCHANGED <<c2n, nspc, nsnew, dir>> /\ ~Owing /\ ~Owing' /\ pc' \in {"prompt", "cat_send", "rm_send"}
  BY DEF PutRefused, NotFound, Found, MvDoneOrCpRefused, Await, Prompt, nameVars, Owing
<1>2. ASSUME pc' = "rm_send" PROVE nspc = "command" /\ job'.i < job'.chunks
  <2>1. Found /\ pc = "rm_ack" /\ Atoi(n2c[3]) # 0 /\ Len(n2c) >= 3
    BY <1>2 DEF PutRefused, NotFound, Found, MvDoneOrCpRefused, Await, Prompt
  <2>2. n2c # <<>>
    BY <2>1, Types
  <2>3. Served
    BY <2>1, <2>2, IsServed DEF Calls
  <2>4. job'.i = 0 /\ job'.chunks = Atoi(n2c[3]) /\ Atoi(n2c[3]) \in Nat
    BY <2>1, ThreeStrings, Types DEF Found, Await, Job, Talk, Counters
  <2> QED BY <2>1, <2>3, <2>4 DEF Served
<1> QED BY <1>1, <1>2, EntriesMoved

LEMMA ClientSendEntries ==
    ASSUME Sync, Entries, CatSend \/ CatData \/ RmSend \/ CpSend PROVE Entries'
<1>1. /\ UNCHANGED <<c2n, nspc, nsnew, dir>> /\ ~Owing /\ ~Owing'
      /\ pc' \in {"prompt", pc, "cat_data"} /\ pc \in {"cat_send", "cat_data", "rm_send", "cp_send"}
  BY DEF CatSend, CatData, RmSend, CpSend, Await, Prompt, nameVars, Owing
<1>2. ASSUME pc' \in {"rm_send", "cp_send"} PROVE pc' = pc /\ job'.i < job'.chunks
  <2>1. RmSend \/ CpSend
    BY <1>2 DEF CatSend, CatData, Await, Prompt
  <2>2. job' = [job EXCEPT !.i = @ + 1] /\ job.i + 1 < job.chunks /\ pc' = pc
    BY <1>2, <2>1 DEF RmSend, CpSend, Await, Prompt
  <2> QED BY <2>2, Types DEF Job
<1> QED BY <1>1, <1>2, EntriesMoved DEF Entries, Task

LEMMA PutAcceptedEntries == ASSUME Sync, Entries, PutAccepted PROVE Entries'
<1>1. /\ pc = "put_ack" /\ n2c # <<>> /\ Head(n2c) # <<Num(1)>> /\ UNCHANGED <<nspc, nsnew, dir, d2c>>
      /\ job.text # <<>> /\ job.i = 0
  BY Types DEF PutAccepted, nameVars, Talk, Counters
<1>2. Served /\ c2n = <<>> /\ n2c[1] = Head(n2c)
  BY <1>1, IsServed, Types DEF Calls
<1>3. nspc = "parts" /\ nsnew.text = job.text
  BY <1>1, <1>2 DEF Served, Entries, Task
<1>4. pc' = "put_loc" /\ job'.i = 0 /\ job'.name = job.name /\ job'.text = job.text /\ job'.chunks = Len(job.text)
  BY <1>1, Types DEF PutAccepted, Await, Job
<1>5. c2n' = << <<Num(Len(job.text))>> >>
  BY <1>2 DEF PutAccepted, SendName
<1>6. Len(job.text) # 0 /\ Len(job.text) \in Nat
  BY <1>1, Types, EmptySeq
<1>7. d2c'[Server(0)] = <<>>
  BY <1>1, Types DEF Talk, Dialogue, Silent, Talks
<1>8. Owing'
  BY <1>4 DEF Owing
<1>9. LettersRight'
  BY <1>1, <1>3, <1>5, <1>8 DEF LettersRight
<1>10. Task'
  BY <1>1, <1>3, <1>4, <1>6, <1>7 DEF Task, NewText, Entries
<1> QED BY <1>1, <1>9, <1>10 DEF Entries, Nodes

\* A location arrives, and is passed on if it is the first.
LEMMA LocatedEntries ==
    ASSUME Sync, Entries, PutLocated \/ CpLocated PROVE Entries'
<1>1. /\ UNCHANGED <<nspc, nsnew, dir>> /\ pc' \notin {"put_ack", "rm_send"}
      /\ Needs' = Needs
  BY DEF PutLocated, CpLocated, Await, Prompt, nameVars, Needs
<1>2. ~Owing' /\ (pc' = "put_loc" => job'.name = job.name /\ pc = "put_loc" /\ job'.i # 0)
      /\ (pc' \in {"put_loc", "cp_send"} => job'.i < job'.chunks)
  <2>1. CASE PutLocated
    <3>1. job.i + 1 # 0
      BY Types
    <3> QED BY <2>1, <3>1, Types DEF PutLocated, Await, Prompt, Owing, Job
  <2>2. CASE CpLocated
    BY <2>2, Types DEF CpLocated, Await, Prompt, Owing, Job
  <2> QED BY <2>1, <2>2
<1>3. Task'
  BY <1>1, <1>2 DEF Entries, Task
<1>4. CASE ~Owing
  <2>1. c2n' = c2n
    BY <1>4, Types, ConcatEmptySeq DEF PutLocated, CpLocated, SendName, Owing
  <2>2. Named' = Named
    BY <1>1, <1>2, <1>4, <2>1 DEF Named
  <2>3. LettersRight'
    BY <1>1, <1>2, <1>4, <2>1, <2>2 DEF Entries, LettersRight
  <2> QED BY <1>1, <1>3, <2>3 DEF Entries, Nodes
<1>5. CASE Owing
  <2> DEFINE loc == Head(d2c[Server(0)]).loc
  <2>1. d2c[Server(0)] # <<>> /\ SendName(<<loc>>)
    BY <1>5 DEF PutLocated, CpLocated, Owing
  <2>2. loc \in String /\ loc # <<>>
    BY <1>5, <2>1, Types, ReadAnswerType DEF Answer, Entries, Task
  <2> HIDE DEF loc
  <2>3. /\ Named' = loc /\ Len(c2n') = Needs /\ Needs > 0
        /\ nspc = "parts" => c2n # <<>> /\ c2n'[1] = c2n[1]
    BY <1>1, <1>2, <1>5, <2>1, <2>2, LocationBehind
  <2>4. LettersRight'
    BY <1>1, <2>2, <2>3 DEF Entries, LettersRight
  <2> QED BY <1>1, <1>3, <2>4 DEF Entries, Nodes
<1> QED BY <1>4, <1>5

LEMMA CpAcceptedEntries == ASSUME Sync, Entries, CpAccepted PROVE Entries'
<1>1. /\ pc = "cp_ack" /\ n2c # <<>> /\ Head(n2c) # <<Num(1)>> /\ UNCHANGED <<c2n, nspc, nsnew, dir, d2c>>
      /\ n2c[1] = Head(n2c)
  BY Types DEF CpAccepted, nameVars
<1>2. Served /\ c2n = <<>>
  BY <1>1, IsServed DEF Calls
<1>3. Atoi(n2c[3]) # 0 /\ nspc = "location"
  BY <1>1, <1>2 DEF Served
<1>4. pc' = "cp_loc"
  BY <1>3 DEF CpAccepted, Await
<1>5. d2c'[Server(0)] = <<>>
  BY <1>1, Types DEF Talk, Dialogue, Silent, Talks
<1>6. LettersRight' /\ Task'
  BY <1>1, <1>2, <1>3, <1>4, <1>5 DEF LettersRight, Task, Owing
<1> QED BY <1>1, <1>6 DEF Entries, Nodes

LEMMA ClientEntries == ASSUME Sync, Entries, Client PROVE Entries'
BY ClientReadEntries, ClientSendEntries, PutAcceptedEntries, LocatedEntries, CpAcceptedEntries DEF Client

\* The name server takes a command: the client waits, and all is read.
LEMMA AnsweredEntries ==
    ASSUME Sync, Entries, pc \in Calls, pc # "put_ack", c2n' = <<>>, UNCHANGED <<pc, job>>,
           nspc' \in {"command", "location"}, Nodes'
    PROVE  Entries'
<1>1. Needs' > 0 => ~(Len(c2n') >= Needs')
  <2>1. Len(c2n') = 0 /\ Needs' \in {0, 1}
    BY DEF Needs
  <2> QED BY <2>1
<1>2. LettersRight'
  BY <1>1 DEF LettersRight
<1> QED BY <1>2 DEF Entries, Task, Owing, Calls

LEMMA NameToBigFSEntries == ASSUME Sync, Entries, NameToBigFS PROVE Entries'
<1>1. pc = "put_ack" /\ c2n' = <<>> /\ nspc = "command" /\ UNCHANGED <<pc, job, dir>>
  BY TakesCommand DEF NameToBigFS, Arity, Says, Words, clientVars
<1>2. nspc' = "command" \/ (nspc' = "parts" /\ nsnew' = [NoNode EXCEPT !.name = c2n[2], !.text = job.text])
  BY <1>1 DEF NameToBigFS
<1>3. Needs' > 0 => ~(Len(c2n') >= Needs')
  <2>1. Len(c2n') = 0 /\ Needs' \in {0, 2}
    BY <1>1, <1>2 DEF Needs
  <2> QED BY <2>1
<1>4. LettersRight' /\ Task'
  BY <1>1, <1>2, <1>3 DEF Entries, LettersRight, Task, Owing, NoNode
<1>5. Nodes'
  BY <1>1, <1>2 DEF Entries, Nodes, NoNode
<1> QED BY <1>4, <1>5 DEF Entries

\* The node that tobigfs links has the text, and no location.
LEMMA NamePartsNode ==
    ASSUME Sync, Entries, NameParts
    PROVE  /\ Len(dir') = Len(dir) + 1 /\ DOMAIN dir' = 1..(Len(dir) + 1)
           /\ dir'[Len(dir')].loc = <<>> /\ dir'[Len(dir')].text = nsnew.text /\ dir'[Len(dir')].chunks = Len(nsnew.text)
           /\ \A k \in DOMAIN dir : dir'[k] = dir[k]
<1> DEFINE parts == Atoi(Head(c2n))
           new   == [nsnew EXCEPT !.chunks = parts, !.text = IF Len(@) = parts THEN @ ELSE <<>>]
<1>1. /\ c2n # <<>> /\ c2n' = Tail(c2n) /\ UNCHANGED <<pc, job, d2c>> /\ nspc = "parts" /\ nspc' = "location"
      /\ Head(c2n) = c2n[1]
  BY Types DEF NameParts, clientVars
<1>2. parts = Len(nsnew.text)
  <2>1. Head(c2n) = <<Num(Len(nsnew.text))>>
    BY <1>1 DEF Entries, LettersRight
  <2>2. \A i : Atoi(<<Num(i)>>) = i
    BY DEF Atoi, Num
  <2> QED BY <2>1, <2>2
<1>3. new.chunks = Len(nsnew.text) /\ new.text = nsnew.text /\ new.loc = <<>>
  <2> HIDE DEF parts
  <2> QED BY <1>1, <1>2, Types DEF Node, Entries, Nodes
<1>4. new \in Node
  <2>1. parts \in Nat
    BY <1>2, Types
  <2> HIDE DEF parts
  <2> QED BY <2>1, PartsNode, Types
<1>5. dir' = Append(dir, new)
  BY DEF NameParts
<1> HIDE DEF new
<1>6. /\ Len(dir') = Len(dir) + 1 /\ DOMAIN dir' = 1..(Len(dir) + 1) /\ dir'[Len(dir) + 1] = new
      /\ \A k \in DOMAIN dir : dir'[k] = dir[k]
  BY <1>4, <1>5, Types, AppendProperties
<1>7. Len(dir') = Len(dir) + 1
  BY <1>6
<1> QED BY <1>3, <1>6, <1>7

LEMMA NamePartsEntries == ASSUME Sync, Entries, NameParts PROVE Entries'
<1>1. /\ c2n # <<>> /\ c2n' = Tail(c2n) /\ UNCHANGED <<pc, job, d2c>> /\ nspc = "parts" /\ nspc' = "location"
  BY DEF NameParts, clientVars
<1>2. /\ Len(dir') = Len(dir) + 1 /\ DOMAIN dir' = 1..(Len(dir) + 1)
      /\ dir'[Len(dir')].loc = <<>> /\ dir'[Len(dir')].text = nsnew.text /\ dir'[Len(dir')].chunks = Len(nsnew.text)
      /\ \A k \in DOMAIN dir : dir'[k] = dir[k]
  BY NamePartsNode
<1>3. Nodes'
  <2>1. ASSUME NEW k \in DOMAIN dir' PROVE dir'[k].chunks = Len(dir'[k].text) /\ (dir'[k].loc = <<>> => k = Len(dir'))
    <3>1. CASE k = Len(dir) + 1
      BY <1>2, <3>1
    <3>2. CASE k # Len(dir) + 1
      <4>1. k \in DOMAIN dir /\ dir'[k] = dir[k]
        BY <1>2, <3>2, Types
      <4> QED BY <1>1, <4>1 DEF Entries, Nodes
    <3> QED BY <3>1, <3>2
  <2>2. dir' # <<>> /\ dir'[Len(dir')].loc = <<>>
    BY <1>2, Types
  <2> QED BY <1>1, <2>1, <2>2 DEF Nodes
<1>4. /\ Needs = 2 /\ Needs' = 1 /\ Named' = Named /\ (Owing' <=> Owing)
      /\ Len(c2n') = Len(c2n) - 1 /\ (Len(c2n) >= Needs \/ Owing)
  <2>1. Needs = 2 /\ Needs' = 1
    BY <1>1 DEF Needs
  <2> QED BY <1>1, <2>1, RestRead
<1>5. LettersRight'
  BY <1>1, <1>4, Types DEF Entries, LettersRight
<1>6. NewText' = NewText
  BY <1>1, <1>2 DEF NewText
<1>7. Task'
  BY <1>1, <1>4, <1>6 DEF Entries, Task
<1> QED BY <1>3, <1>5, <1>7 DEF Entries

LEMMA NameLocationEntries ==
    ASSUME Sync, Entries, NameLocation
    PROVE  /\ Entries' /\ ~Owing /\ Needs = 1 /\ Named = Head(c2n) /\ Named # <<>> /\ nspc' = "command"
           /\ Len(dir) \in DOMAIN dir /\ DOMAIN dir' = DOMAIN dir /\ dir[Len(dir)].loc = <<>>
           /\ dir'[Len(dir)].loc = Named /\ dir'[Len(dir)].text = dir[Len(dir)].text
           /\ \A k \in DOMAIN dir : k # Len(dir) => dir'[k] = dir[k]
<1>1. /\ c2n # <<>> /\ c2n' = Tail(c2n) /\ UNCHANGED <<pc, job, d2c>> /\ nspc = "location" /\ nspc' = "command"
      /\ dir' = [dir EXCEPT ![Len(dir)].loc = Head(c2n)]
  BY DEF NameLocation, clientVars
<1>2. Needs = 1 /\ Needs' = 0
  BY <1>1 DEF Needs
<1>3. ~Owing /\ ~Owing' /\ Named = Head(c2n)
  <2>1. ~Owing /\ Named = Head(c2n)
    BY <1>1, <1>2, RestRead
  <2> QED BY <1>1, <2>1 DEF Owing
<1>4. Named # <<>>
  <2>1. Len(c2n) >= 1
    BY <1>1, Types
  <2> QED BY <1>2, <1>3, <2>1 DEF Entries, LettersRight
<1>5. Len(dir) \in DOMAIN dir
  <2>1. Len(dir) # 0
    BY <1>1, Types, EmptySeq DEF Entries, Nodes
  <2> QED BY <2>1, Types
<1>6. /\ DOMAIN dir' = DOMAIN dir /\ Len(dir') = Len(dir) /\ dir'[Len(dir)].loc = Named
      /\ dir'[Len(dir)].text = dir[Len(dir)].text /\ dir'[Len(dir)].chunks = dir[Len(dir)].chunks
      /\ \A k \in DOMAIN dir : k # Len(dir) => dir'[k] = dir[k]
  <2>1. dir[Len(dir)] \in Node
    BY <1>5, Types
  <2>2. dir' = [dir EXCEPT ![Len(dir)] = [dir[Len(dir)] EXCEPT !.loc = Named]]
    BY <1>1, <1>3
  <2> DEFINE new == [dir[Len(dir)] EXCEPT !.loc = Named]
  <2>3. /\ new.loc = Named /\ new.text = dir[Len(dir)].text /\ new.chunks = dir[Len(dir)].chunks /\ new \in Node
    BY <1>1, <1>3, <2>1, Types, StringsOnWire DEF Node
  <2>4. dir' = [dir EXCEPT ![Len(dir)] = new]
    BY <2>2
  <2> HIDE DEF new
  <2>5. Len(dir') = Len(dir)
    BY <1>5, <2>3, <2>4, Types, ExceptSeq
  <2> QED BY <1>5, <2>3, <2>4, <2>5
<1>7. Nodes' /\ dir[Len(dir)].loc = <<>>
  <2>1. dir[Len(dir)].loc = <<>> /\ \A k \in DOMAIN dir : dir[k].chunks = Len(dir[k].text)
    BY <1>1 DEF Entries, Nodes
  <2>2. \A k \in DOMAIN dir : k # Len(dir) => dir[k].loc # <<>>
    BY DEF Entries, Nodes
  <2>3. \A k \in DOMAIN dir' : dir'[k].chunks = Len(dir'[k].text) /\ dir'[k].loc # <<>>
    BY <1>4, <1>5, <1>6, <2>1, <2>2
  <2> QED BY <1>1, <2>1, <2>3 DEF Nodes
<1>8. LettersRight'
  BY <1>1, <1>2 DEF LettersRight
<1>9. Task'
  BY <1>1, <1>3 DEF Entries, Task, Owing
<1> QED BY <1>1, <1>2, <1>3, <1>4, <1>5, <1>6, <1>7, <1>8, <1>9 DEF Entries

\* Where the nodes that are left when one is unlinked were before.
Was(k, i) == IF i < k THEN i ELSE i + 1

LEMMA Unlinked ==
    ASSUME TypeOK, NEW k \in DOMAIN dir
    PROVE  /\ \A i \in DOMAIN Unlink(k) : Was(k, i) \in DOMAIN dir /\ Was(k, i) # k /\ Unlink(k)[i] = dir[Was(k, i)]
           /\ \A i, h \in DOMAIN Unlink(k) : Was(k, i) = Was(k, h) => i = h
           /\ \A j \in DOMAIN dir : j # k => \E i \in DOMAIN Unlink(k) : Was(k, i) = j
           /\ DOMAIN Unlink(k) = 1..(Len(dir) - 1) /\ Unlink(k) \in Seq(Node)
<1>1. /\ Len(dir) \in Nat /\ DOMAIN dir = 1..Len(dir) /\ Unlink(k) \in Seq(Node) /\ Len(Unlink(k)) = Len(dir) - 1
      /\ \A i \in 1..(Len(dir) - 1) : Unlink(k)[i] = IF i < k THEN dir[i] ELSE dir[i + 1]
  BY UnlinkType, LenProperties DEF TypeOK, NameType
<1>2. DOMAIN Unlink(k) = 1..(Len(dir) - 1) /\ k \in 1..Len(dir)
  BY <1>1, LenProperties
<1>3. ASSUME NEW i \in 1..(Len(dir) - 1) PROVE Was(k, i) \in 1..Len(dir) /\ Was(k, i) # k /\ Unlink(k)[i] = dir[Was(k, i)]
  BY <1>1, <1>2 DEF Was
<1>4. ASSUME NEW i \in 1..(Len(dir) - 1), NEW h \in 1..(Len(dir) - 1), Was(k, i) = Was(k, h) PROVE i = h
  BY <1>1, <1>2, <1>4 DEF Was
<1>5. ASSUME NEW j \in DOMAIN dir, j # k PROVE \E i \in 1..(Len(dir) - 1) : Was(k, i) = j
  <2> DEFINE i == IF j < k THEN j ELSE j - 1
  <2>1. i \in 1..(Len(dir) - 1) /\ Was(k, i) = j
    BY <1>1, <1>2, <1>5 DEF Was
  <2> QED BY <2>1
<1> QED BY <1>1, <1>2, <1>3, <1>4, <1>5

\* With the name server dispatching, every node has its chunks and its place.
WellMade(d) == \A k \in DOMAIN d : d[k].chunks = Len(d[k].text) /\ d[k].loc # <<>>

LEMMA Dispatching ==
    ASSUME nspc = "command" PROVE Nodes <=> WellMade(dir)
BY DEF Nodes, WellMade

LEMMA UnlinkedMade ==
    ASSUME TypeOK, WellMade(dir), NEW k \in DOMAIN dir PROVE WellMade(Unlink(k))
BY Unlinked DEF WellMade

LEMMA AppendMade ==
    ASSUME NEW d \in Seq(Node), WellMade(d), NEW x \in Node, x.chunks = Len(x.text), x.loc # <<>>
    PROVE  WellMade(Append(d, x))
<1>1. /\ DOMAIN Append(d, x) = DOMAIN d \cup {Len(d) + 1} /\ Append(d, x)[Len(d) + 1] = x
      /\ \A k \in DOMAIN d : Append(d, x)[k] = d[k]
  BY AppendProperties, LenProperties
<1> QED BY <1>1 DEF WellMade

LEMMA NameCatEntries == ASSUME Sync, Entries, NEW op \in {"cat", "frombigfs"}, NameCat(op) PROVE Entries'
<1>1. pc = "cat_ack" /\ pc \in Calls /\ c2n' = <<>> /\ nspc = "command" /\ nspc' = "command" /\ UNCHANGED <<pc, job, dir, nsnew>>
  BY TakesCommand DEF NameCat, Arity, Says, Words, clientVars
<1>2. Nodes'
  BY <1>1 DEF Entries, Nodes
<1> QED BY <1>1, <1>2, AnsweredEntries

LEMMA NameRmEntries == ASSUME Sync, Entries, NameRm PROVE Entries'
<1>1. pc = "rm_ack" /\ pc \in Calls /\ c2n' = <<>> /\ nspc = "command" /\ nspc' = "command" /\ UNCHANGED <<pc, job>>
  BY TakesCommand DEF NameRm, Arity, Says, Words, clientVars
<1>2. WellMade(dir')
  <2>1. WellMade(dir) /\ TypeOK
    BY <1>1, Dispatching, Types DEF Entries
  <2> QED BY <2>1, UnlinkedMade DEF NameRm
<1>3. Nodes'
  BY <1>1, <1>2 DEF Nodes, WellMade
<1> QED BY <1>1, <1>3, AnsweredEntries

LEMMA NameMvEntries == ASSUME Sync, Entries, NameMv PROVE Entries'
<1>1. pc = "mv_ack" /\ pc \in Calls /\ c2n' = <<>> /\ nspc = "command" /\ nspc' = "command" /\ UNCHANGED <<pc, job>>
  BY TakesCommand DEF NameMv, Arity, Says, Words, clientVars
<1>2. WellMade(dir) /\ TypeOK /\ c2n[3] \in String
  <2>1. Takes("mv", 3)
    BY DEF NameMv
  <2> QED BY <1>1, <2>1, Dispatching, Types, TakesType DEF Entries
<1>3. ASSUME NEW k \in DOMAIN dir, dir' = Append(Unlink(k), [dir[k] EXCEPT !.name = c2n[3]])
      PROVE  WellMade(dir')
  <2>1. /\ [dir[k] EXCEPT !.name = c2n[3]] \in Node
        /\ [dir[k] EXCEPT !.name = c2n[3]].chunks = Len([dir[k] EXCEPT !.name = c2n[3]].text)
        /\ [dir[k] EXCEPT !.name = c2n[3]].loc # <<>>
    BY <1>2, Types DEF WellMade, Node
  <2> QED BY <1>2, <1>3, <2>1, AppendMade, UnlinkedMade, Unlinked
<1>4. WellMade(dir')
  BY <1>2, <1>3, UnlinkedMade DEF NameMv
<1>5. Nodes'
  BY <1>1, <1>4 DEF Nodes, WellMade
<1> QED BY <1>1, <1>5, AnsweredEntries

\* A copy is a node with the text and without a location.
LEMMA CopyMade ==
    ASSUME Sync, NEW k \in DOMAIN dir, NEW n \in String,
           dir' = Append([dir EXCEPT ![k].linked = TRUE], [dir[k] EXCEPT !.name = n, !.loc = <<>>, !.linked = FALSE])
    PROVE  /\ Len(dir') = Len(dir) + 1 /\ DOMAIN dir' = 1..(Len(dir) + 1)
           /\ dir'[Len(dir')].loc = <<>> /\ dir'[Len(dir')].text = dir[k].text /\ dir'[Len(dir')].chunks = dir[k].chunks
           /\ \A i \in DOMAIN dir : /\ dir'[i].loc = dir[i].loc /\ dir'[i].text = dir[i].text
                                    /\ dir'[i].chunks = dir[i].chunks /\ dir'[i].name = dir[i].name
<1> DEFINE new == [dir[k] EXCEPT !.name = n, !.loc = <<>>, !.linked = FALSE]
           was == [dir[k] EXCEPT !.linked = TRUE]
           old == [dir EXCEPT ![k] = was]
<1>1. dir \in Seq(Node) /\ dir[k] \in Node /\ k \in 1..Len(dir) /\ Len(dir) \in Nat
  BY Types
<1>2. /\ was \in Node /\ was.loc = dir[k].loc /\ was.text = dir[k].text /\ was.chunks = dir[k].chunks
      /\ was.name = dir[k].name
      /\ new \in Node /\ new.loc = <<>> /\ new.text = dir[k].text /\ new.chunks = dir[k].chunks
  BY <1>1, EmptyString DEF Node
<1>3. dir' = Append(old, new)
  OBVIOUS
<1> HIDE DEF new, was
<1>4. old \in Seq(Node) /\ Len(old) = Len(dir) /\ old[k] = was /\ \A i \in DOMAIN dir : i # k => old[i] = dir[i]
  BY <1>1, <1>2, ExceptSeq
<1> HIDE DEF old
<1>5. /\ Len(dir') = Len(old) + 1 /\ DOMAIN dir' = 1..(Len(old) + 1) /\ dir'[Len(old) + 1] = new
      /\ \A i \in 1..Len(old) : dir'[i] = old[i]
  <2>1. Append(old, new) \in Seq(Node) /\ Len(old) \in Nat
    BY <1>2, <1>4, AppendProperties, LenProperties
  <2>2. DOMAIN Append(old, new) = 1..Len(Append(old, new))
    BY <2>1, LenProperties
  <2>3. /\ Len(Append(old, new)) = Len(old) + 1 /\ Append(old, new)[Len(old) + 1] = new
        /\ \A i \in 1..Len(old) : Append(old, new)[i] = old[i]
    BY <1>2, <1>4, AppendProperties
  <2> QED BY <1>3, <2>2, <2>3
<1> QED BY <1>1, <1>2, <1>4, <1>5

LEMMA NameCpEntries == ASSUME Sync, Entries, NameCp PROVE Entries'
<1>1. pc = "cp_ack" /\ pc \in Calls /\ c2n' = <<>> /\ nspc = "command" /\ nspc' \in {"command", "location"}
      /\ UNCHANGED <<pc, job>>
  BY TakesCommand DEF NameCp, Arity, Says, Words, clientVars
<1>2. WellMade(dir) /\ c2n[3] \in String
  <2>1. Takes("cp", 3)
    BY DEF NameCp
  <2> QED BY <1>1, <2>1, Dispatching, Types, TakesType DEF Entries
<1>3. ASSUME NEW k \in DOMAIN dir, nspc' = "location",
             dir' = Append([dir EXCEPT ![k].linked = TRUE], [dir[k] EXCEPT !.name = c2n[3], !.loc = <<>>, !.linked = FALSE])
      PROVE  Nodes'
  <2>1. /\ Len(dir') = Len(dir) + 1 /\ DOMAIN dir' = 1..(Len(dir) + 1)
        /\ dir'[Len(dir')].loc = <<>> /\ dir'[Len(dir')].text = dir[k].text /\ dir'[Len(dir')].chunks = dir[k].chunks
        /\ \A i \in DOMAIN dir : /\ dir'[i].loc = dir[i].loc /\ dir'[i].text = dir[i].text
                                 /\ dir'[i].chunks = dir[i].chunks
    BY <1>2, <1>3, CopyMade
  <2>2. \A i \in DOMAIN dir' : i \in DOMAIN dir \/ i = Len(dir')
    BY <2>1, Types
  <2>3. dir' # <<>>
    BY <2>1, Types
  <2> QED BY <1>2, <1>3, <2>1, <2>2, <2>3 DEF Nodes, WellMade
<1>4. ASSUME UNCHANGED <<nspc, dir>> PROVE Nodes'
  BY <1>1, <1>4 DEF Entries, Nodes
<1>5. Nodes'
  BY <1>3, <1>4 DEF NameCp
<1> QED BY <1>1, <1>5, AnsweredEntries

LEMMA NameServerEntries == ASSUME Sync, Entries, NameServer PROVE Entries'
BY NameToBigFSEntries, NamePartsEntries, NameLocationEntries, NameCatEntries, NameRmEntries, NameCpEntries,
   NameMvEntries, NothingIgnored DEF NameServer

\* A data server stores the chunk it was sent, and answers where.
LEMMA StoredAt ==
    ASSUME Talk, AsksLast, NEW s \in Servers, DataToBigFS(s)
    PROVE  /\ pc = "put_loc" /\ s = Server(job.i) /\ d2c[s] = <<>> /\ c2d[s] = <<CurrentAsk>> /\ c2d'[s] = <<>>
           /\ \A t \in Servers : t # s => c2d'[t] = c2d[t] /\ d2c'[t] = d2c[t] /\ disk'[t] = disk[t]
           /\ \E q \in Candidates(CurrentAsk.loc) :
                 /\ Chosen(disk[s], CurrentAsk, q) /\ d2c'[s] = <<Located(q)>>
                 /\ disk'[s] = Put(Put(disk[s], q, Empty), ChunkPath(q, job.i), job.text[job.i + 1])
<1>1. TypeOK /\ d2c \in [Servers -> Seq(Answer)] /\ disk = [t \in Servers |-> disk[t]]
  BY DEF Talk, TypeOK, WireType, DataType
<1>2. Requested(s, "tobigfs") /\ Asks(Head(c2d[s])) /\ UNCHANGED <<pc, job>>
  BY DEF DataToBigFS, Requested, Asks, clientVars
<1>3. PICK q \in Candidates(Head(c2d[s]).loc) :
         /\ Chosen(disk[s], Head(c2d[s]), q)
         /\ disk' = [disk EXCEPT ![s] =
                       Put(Put(@, q, Empty), ChunkPath(q, Head(c2d[s]).num), Head(c2d[s]).data)]
         /\ Answers(s, <<Located(q)>>)
  BY DEF DataToBigFS
<1>4. \A t \in Servers : t # s => c2d'[t] = c2d[t] /\ d2c'[t] = d2c[t] /\ disk'[t] = disk[t]
  BY <1>1, <1>2, <1>3, ServeTakes DEF Answers
<1>5. c2d[s] = <<CurrentAsk>> /\ c2d'[s] = <<>>
  BY <1>1, <1>2, <1>4, AsksServed
<1>6. pc \in Asking /\ s = Server(job.i) /\ d2c[s] = <<>>
  <2>1. 1 \in 1..Len(c2d[s]) /\ Asks(c2d[s][1])
    BY <1>2, <1>5
  <2> QED BY <2>1 DEF AsksLast, AskLast
<1>7. Head(c2d[s]) = CurrentAsk
  BY <1>5
<1>8. pc = "put_loc"
  BY <1>2, <1>6, <1>7 DEF Requested, CurrentAsk, Asking, ChunkRequest
<1>9. CurrentAsk.num = job.i /\ CurrentAsk.data = job.text[job.i + 1]
  BY <1>8 DEF CurrentAsk, PutRequest
<1>10. d2c'[s] = <<Located(q)>>
  <2>1. d2c'[s] = d2c[s] \o <<Located(q)>>
    BY <1>1, <1>3 DEF Answers
  <2> QED BY <1>6, <2>1
<1>11. disk'[s] = Put(Put(disk[s], q, Empty), ChunkPath(q, job.i), job.text[job.i + 1])
  BY <1>1, <1>3, <1>7, <1>9
<1> QED BY <1>3, <1>4, <1>5, <1>6, <1>7, <1>8, <1>10, <1>11

\* A data server chooses the place of a copy, copies its first chunk or dies.
LEMMA CopiedAt ==
    ASSUME Talk, AsksLast, NEW s \in Servers, DataCp(s), Head(c2d[s]).num = 0
    PROVE  /\ pc = "cp_loc" /\ s = Server(0) /\ job.i = 0 /\ d2c[s] = <<>> /\ c2d[s] = <<CurrentAsk>> /\ c2d'[s] = <<>>
           /\ \A t \in Servers : t # s => c2d'[t] = c2d[t] /\ d2c'[t] = d2c[t] /\ disk'[t] = disk[t]
           /\ \E q :
                 /\ FreeVariant(disk[s], job.loc, q) /\ d2c'[s] = <<Located(q)>>
                 /\ ChunkPath(job.loc, 0) \in DOMAIN disk[s] =>
                       /\ UNCHANGED dsup
                       /\ disk'[s] = Put(Put(disk[s], q, Empty), ChunkPath(q, 0), disk[s][ChunkPath(job.loc, 0)])
<1>1. TypeOK /\ d2c \in [Servers -> Seq(Answer)] /\ disk = [t \in Servers |-> disk[t]]
  BY DEF Talk, TypeOK, WireType, DataType
<1>2. Requested(s, "cp") /\ Asks(Head(c2d[s])) /\ UNCHANGED <<pc, job>>
  BY DEF DataCp, Requested, Asks, clientVars
<1>3. PICK q :
         /\ FreeVariant(disk[s], Head(c2d[s]).loc, q)
         /\ Answers(s, <<Located(q)>>)
         /\ \/ /\ ChunkPath(Head(c2d[s]).loc, 0) \in DOMAIN disk[s]
               /\ disk' = [disk EXCEPT ![s] =
                             Put(Put(@, q, Empty), ChunkPath(q, 0), @[ChunkPath(Head(c2d[s]).loc, 0)])]
               /\ UNCHANGED dsup
            \/ /\ ChunkPath(Head(c2d[s]).loc, 0) \notin DOMAIN disk[s]
               /\ UNCHANGED disk
  BY DEF DataCp
<1>4. \A t \in Servers : t # s => c2d'[t] = c2d[t] /\ d2c'[t] = d2c[t] /\ disk'[t] = disk[t]
  BY <1>1, <1>2, <1>3, ServeTakes DEF Answers
<1>5. c2d[s] = <<CurrentAsk>> /\ c2d'[s] = <<>>
  BY <1>1, <1>2, <1>4, AsksServed
<1>6. pc \in Asking /\ s = Server(job.i) /\ d2c[s] = <<>>
  <2>1. 1 \in 1..Len(c2d[s]) /\ Asks(c2d[s][1])
    BY <1>2, <1>5
  <2> QED BY <2>1 DEF AsksLast, AskLast
<1>7. Head(c2d[s]) = CurrentAsk
  BY <1>5
<1>8. pc = "cp_loc"
  BY <1>2, <1>6, <1>7 DEF Requested, CurrentAsk, Asking, PutRequest
<1>9. CurrentAsk.loc = job.loc /\ job.i = 0
  BY <1>8 DEF CurrentAsk, ChunkRequest, Talk, Counters
<1>10. d2c'[s] = <<Located(q)>>
  <2>1. d2c'[s] = d2c[s] \o <<Located(q)>>
    BY <1>1, <1>3 DEF Answers
  <2> QED BY <1>6, <2>1
<1>11. ChunkPath(job.loc, 0) \in DOMAIN disk[s] =>
          /\ UNCHANGED dsup
          /\ disk'[s] = Put(Put(disk[s], q, Empty), ChunkPath(q, 0), disk[s][ChunkPath(job.loc, 0)])
  BY <1>1, <1>3, <1>7, <1>9
<1> QED BY <1>3, <1>4, <1>5, <1>6, <1>7, <1>8, <1>9, <1>10, <1>11

\* Other requests leave the answers on their way to a client that asks for a
\* location as they are.
LEMMA OthersServed ==
    ASSUME Talk, NEW s \in Servers, DataCat(s) \/ DataRm(s) \/ (DataCp(s) /\ Head(c2d[s]).num # 0)
    PROVE  /\ pc \in Asking => d2c' = d2c
           /\ ~Asks(Head(c2d[s])) /\ UNCHANGED <<pc, job, nspc, nsnew, dir, c2n, n2c, nsup>>
           /\ \E op : Requested(s, op)
<1>1. TypeOK /\ d2c \in [Servers -> Seq(Answer)]
  BY DEF Talk, TypeOK, WireType
<1>2. CASE DataCat(s)
  <2>1. Wanted(s) = Wanted(s)' + 1 /\ Wanted(s)' \in Nat
    BY <1>1, <1>2, RequestCounts DEF DataCat
  <2>2. Wanted(s) # 0
    BY <2>1
  <2>3. pc \notin Asking
    BY <2>2 DEF Asking, Talk, Dialogue, Storing
  <2> QED BY <1>2, <2>3 DEF DataCat, Requested, Asks, clientVars, nameVars
<1>3. CASE DataRm(s)
  BY <1>3 DEF DataRm, Requested, Asks, clientVars, nameVars
<1>4. CASE DataCp(s) /\ Head(c2d[s]).num # 0
  <2>1. Answers(s, <<>>)
    BY <1>4 DEF DataCp
  <2>2. d2c[s] \o <<>> = d2c[s]
    BY <1>1, ConcatEmptySeq
  <2>3. d2c' = d2c
    BY <1>1, <2>1, <2>2 DEF Answers
  <2> QED BY <1>4, <2>3 DEF DataCp, Requested, Asks, clientVars, nameVars
<1> QED BY <1>2, <1>3, <1>4

\* Where a file is stored is no other file's chunk.
LEMMA NewPlaces ==
    ASSUME NEW p \in String, NEW q, q \in Candidates(p), Plain(p) \/ q # p
    PROVE  q \in String /\ Plain(q)
BY ChunkPaths DEF Candidates

LEMMA FreePlaces ==
    ASSUME NEW p \in String, NEW q, NEW d, FreeVariant(d, p, q)
    PROVE  q \in String /\ Plain(q) /\ q \notin DOMAIN d
BY ChunkPaths DEF FreeVariant

LEMMA ServerEntries ==
    ASSUME NoNumerals, Sync, AsksLast, Entries, NEW s \in Servers, DataServer(s) PROVE Entries'
<1>1. UNCHANGED <<pc, job, nspc, nsnew, dir, c2n>>
  BY DEF DataServer, DataToBigFS, DataCat, DataRm, DataCp, clientVars, nameVars
<1>2. Nodes' /\ LettersRight' /\ (Owing' <=> Owing) /\ NewText' = NewText
  <2>1. Owing' <=> Owing
    BY <1>1 DEF Owing
  <2>2. Needs' = Needs
    BY <1>1 DEF Needs
  <2>3. Named' = Named
    BY <1>1, <2>1, <2>2 DEF Named
  <2> QED BY <1>1, <2>1, <2>2, <2>3 DEF Entries, Nodes, LettersRight, NewText
<1>3. Owing => pc \in Asking
  BY DEF Owing, Asking
<1>4. CASE DataToBigFS(s)
  <2>1. PICK q \in Candidates(CurrentAsk.loc) : d2c'[s] = <<Located(q)>>
    BY <1>4, StoredAt, Types
  <2>2. /\ pc = "put_loc" /\ s = Server(job.i)
        /\ \A t \in Servers : t # s => d2c'[t] = d2c[t]
    BY <1>4, StoredAt, Types
  <2>3. Owing => Head(d2c'[s]).loc # <<>>
    <3>1. SUFFICES ASSUME Owing PROVE q # <<>>
      BY <2>1 DEF Located
    <3>2. CurrentAsk.loc = job.name /\ job.name \in Names /\ Plain(job.name) /\ job.name \in String
      BY <2>2, <3>1, Types DEF Owing, CurrentAsk, PutRequest, Entries, Task, NoNumerals
    <3> QED BY <2>1, <3>2, NewPlaces DEF Plain
  <2>4. Owing /\ d2c'[Server(0)] # <<>> => Head(d2c'[Server(0)]).loc # <<>>
    BY <2>2, <2>3, Types DEF Entries, Task
  <2> QED BY <1>1, <1>2, <2>4 DEF Entries, Task
<1>5. CASE DataCp(s) /\ Head(c2d[s]).num = 0
  <2>1. PICK q : FreeVariant(disk[s], job.loc, q) /\ d2c'[s] = <<Located(q)>>
    BY <1>5, CopiedAt, Types
  <2>2. pc = "cp_loc" /\ s = Server(0)
    BY <1>5, CopiedAt, Types
  <2>3. Head(d2c'[s]).loc # <<>>
    BY <2>1, Types, FreePlaces DEF Located, Plain
  <2> QED BY <1>1, <1>2, <2>2, <2>3 DEF Entries, Task
<1>6. CASE DataCat(s) \/ DataRm(s) \/ (DataCp(s) /\ Head(c2d[s]).num # 0)
  <2>1. Owing => d2c' = d2c
    BY <1>3, <1>6, OthersServed, Types
  <2> QED BY <1>1, <1>2, <2>1 DEF Entries, Task
<1> QED BY <1>4, <1>5, <1>6 DEF DataServer

LEMMA InitEntries == Init => Entries
BY EmptySeq DEF Init, Entries, Nodes, LettersRight, Task, Needs, Owing

LEMMA StepEntries == ASSUME NoNumerals, Sync, AsksLast, Entries, [Next]_vars PROVE Entries'
<1>1. CASE UNCHANGED vars
  <2>1. UNCHANGED <<pc, job, nspc, nsnew, dir, c2n, d2c>>
    BY <1>1 DEF vars, clientVars, nameVars, wires
  <2>2. (Owing' <=> Owing) /\ Needs' = Needs
    BY <2>1 DEF Owing, Needs
  <2>3. Named' = Named
    BY <2>1, <2>2 DEF Named
  <2> QED BY <2>1, <2>2, <2>3 DEF Entries, Nodes, LettersRight, Task, NewText
<1> QED BY <1>1, UserEntries, ClientEntries, NameServerEntries, ServerEntries DEF Next

-----------------------------------------------------------------------------
(* A careful user's commands do not kill the name server: what the user     *)
(* knew of the files when the command was typed is true when it is taken.   *)

Movable ==
    /\ \A k \in DOMAIN dir : dir[k].name = job.name => dir[k].linked
    /\ job.name = job.to \/ ~UserHas(job.name) \/ ~UserHas(job.to)

Polite ==
    /\ nsup
    /\ pc = "put_ack" => job.text # <<>>
    /\ pc \in {"cat_ack", "rm_ack"} /\ n2c = <<>> => UserHas(job.name)
    /\ pc = "mv_ack" /\ n2c = <<>> => Movable
    /\ nspc = "parts" => nsnew.linked

LEMMA PolitelySame ==
    ASSUME Polite, UNCHANGED <<pc, job, n2c, nameVars>> PROVE Polite'
<1>1. UNCHANGED <<nspc, nsnew, nsup, dir>>
  BY DEF nameVars
<1>2. \A n : UserHas(n)' <=> UserHas(n)
  BY <1>1 DEF UserHas, Exists
<1>3. Movable' <=> Movable
  BY <1>1, <1>2 DEF Movable
<1> QED BY <1>1, <1>2, <1>3 DEF Polite

LEMMA PoliteUser == ASSUME Careful, Sync, Polite, User PROVE Polite'
<1>1. UNCHANGED <<nspc, nsnew, nsup, dir>>
  BY DEF User, StartPut, StartCat, StartGet, StartRm, StartCp, StartMv, nameVars
<1>2. \A n : UserHas(n)' <=> UserHas(n)
  BY <1>1 DEF UserHas, Exists
<1>3. ASSUME NEW n \in Names, NEW text \in Texts, StartPut(n, text) PROVE pc' = "put_ack" /\ job'.text # <<>>
  BY <1>3 DEF StartPut, Await, Idle
<1>4. ASSUME NEW n \in Names, NEW op \in {"cat", "frombigfs"}, Fetch(op, n) \/ StartRm(n)
      PROVE  pc' \in {"cat_ack", "rm_ack"} /\ UserHas(job'.name)
  BY <1>4 DEF Fetch, StartCat, StartGet, StartRm, Await, Idle
<1>5. ASSUME NEW a \in Names, NEW b \in Names, StartCp(a, b) PROVE pc' = "cp_ack"
  BY <1>5 DEF StartCp, Await
<1>6. ASSUME NEW a \in Names, NEW b \in Names, StartMv(a, b) PROVE pc' = "mv_ack" /\ Movable'
  <2>1. job'.name = a /\ job'.to = b
    BY <1>6 DEF StartMv, Await, Idle
  <2>2. /\ \A k \in DOMAIN dir : dir[k].name = a => dir[k].linked
        /\ a = b \/ ~UserHas(a) \/ ~UserHas(b)
    BY <1>6 DEF StartMv
  <2>3. (\A k \in DOMAIN dir : dir[k].name = job.name => dir[k].linked)'
    BY <1>1, <2>1, <2>2
  <2>4. (job.name = job.to \/ ~UserHas(job.name) \/ ~UserHas(job.to))'
    BY <1>2, <2>1, <2>2
  <2>5. pc' = "mv_ack"
    BY <1>6 DEF StartMv, Await
  <2> QED BY <2>3, <2>4, <2>5 DEF Movable
<1>7. /\ nsup' /\ (nspc' = "parts" => nsnew'.linked)
  BY <1>1 DEF Polite
<1>8. CASE pc' = "put_ack" /\ job'.text # <<>>
  BY <1>7, <1>8 DEF Polite
<1>9. CASE pc' \in {"cat_ack", "rm_ack"} /\ UserHas(job'.name)
  <2>1. UserHas(job.name)'
    BY <1>2, <1>9
  <2> QED BY <1>7, <1>9, <2>1 DEF Polite
<1>10. CASE pc' = "cp_ack"
  BY <1>7, <1>10 DEF Polite
<1>11. CASE pc' = "mv_ack" /\ Movable'
  BY <1>7, <1>11 DEF Polite
<1> QED BY <1>3, <1>4, <1>5, <1>6, <1>8, <1>9, <1>10, <1>11, FetchWords DEF User

LEMMA PoliteClient == ASSUME Polite, Client PROVE Polite'
<1>1. pc' \notin Calls /\ UNCHANGED <<nspc, nsnew, nsup>>
  BY DEF Client, PutRefused, PutAccepted, PutLocated, NotFound, Found, CatSend, CatData, RmSend,
     CpAccepted, CpLocated, CpSend, MvDoneOrCpRefused, Await, Prompt, nameVars, Calls
<1> QED BY <1>1 DEF Polite, Calls

\* The name server takes a command.
LEMMA PoliteTakes ==
    ASSUME Sync, Polite, NEW w \in Words, Takes(w, Arity(w))
    PROVE  /\ UNCHANGED <<pc, job>> =>
                 /\ pc' = "put_ack" => job'.text # <<>>
                 /\ pc' = pc
           /\ w \in {"cat", "frombigfs", "rm"} => Exists(c2n[2])
           /\ w = "mv" => /\ \A k \in DOMAIN dir : dir[k].name = c2n[2] => dir[k].linked
                          /\ c2n[2] = c2n[3] \/ ~Exists(c2n[2]) \/ ~Exists(c2n[3])
<1>1. Says(w) /\ n2c = <<>> /\ nspc = "command" /\ c2n[2] = job.name /\ (Arity(w) = 3 => c2n[3] = job.to)
  BY TakesCommand
<1>2. \A n : UserHas(n) <=> Exists(n)
  BY <1>1 DEF UserHas
<1>3. w \in {"cat", "frombigfs", "rm"} => Exists(c2n[2])
  BY <1>1, <1>2 DEF Says, Polite
<1>4. w = "mv" => Movable /\ c2n[3] = job.to
  BY <1>1 DEF Says, Polite, Arity
<1> QED BY <1>1, <1>2, <1>3, <1>4 DEF Movable, Polite

LEMMA PoliteNames == ASSUME Sync, Polite, NameServer PROVE Polite'
<1>0. UNCHANGED <<pc, job>> /\ TypeOK
  BY Types DEF NameServer, NameToBigFS, NameParts, NameLocation, NameCat, NameRm, NameCp, NameMv,
     NameIgnores, clientVars
<1>1. CASE NameToBigFS
  <2>1. pc = "put_ack"
    BY <1>1, TakesCommand DEF NameToBigFS, Arity, Says, Words
  <2>2. nsup' /\ (nspc' = "parts" => nsnew'.linked)
    BY <1>1 DEF NameToBigFS, Polite, NoNode
  <2> QED BY <1>0, <2>1, <2>2 DEF Polite
<1>2. CASE NameParts
  <2> DEFINE parts == Atoi(Head(c2n))
             new   == [nsnew EXCEPT !.chunks = parts, !.text = IF Len(@) = parts THEN @ ELSE <<>>]
  <2>1. dir' = Append(dir, new) /\ nspc = "parts" /\ nspc' = "location" /\ UNCHANGED <<nsup, n2c>>
    BY <1>2 DEF NameParts
  <2>2. new \in Node /\ new.name = nsnew.name /\ new.linked = nsnew.linked
    <3>1. parts \in Nat
      <4>1. Head(c2n) \in String
        BY <1>2, Types, StringsOnWire DEF NameParts
      <4> QED BY <4>1, AtoiType
    <3> HIDE DEF parts
    <3>2. new \in Node
      BY <3>1, PartsNode, Types
    <3> QED BY <3>2, Types DEF Node
  <2> HIDE DEF new
  <2>3. /\ DOMAIN dir' = DOMAIN dir \cup {Len(dir) + 1} /\ dir'[Len(dir) + 1] = new
        /\ \A k \in DOMAIN dir : dir'[k] = dir[k]
    BY <2>1, <2>2, Types, AppendProperties
  <2>4. ASSUME NEW n PROVE UserHas(n)' <=> UserHas(n)
    BY <2>1, <2>2, <2>3 DEF UserHas, Exists
  <2>5. Movable => Movable'
    <3>1. (\A k \in DOMAIN dir : dir[k].name = job.name => dir[k].linked)
            => \A k \in DOMAIN dir' : dir'[k].name = job.name => dir'[k].linked
      BY <2>1, <2>2, <2>3 DEF Polite
    <3> QED BY <1>0, <2>4, <3>1 DEF Movable
  <2> QED BY <1>0, <2>1, <2>4, <2>5 DEF Polite
<1>3. CASE NameLocation
  <2>1. UNCHANGED <<nsup, n2c, nsnew>> /\ nspc = "location" /\ nspc' = "command"
    BY <1>3 DEF NameLocation
  <2>2. DOMAIN dir' = DOMAIN dir /\ \A k \in DOMAIN dir : dir'[k].name = dir[k].name /\ dir'[k].linked = dir[k].linked
    BY <1>3, Types DEF NameLocation, Node
  <2>3. ASSUME NEW n PROVE UserHas(n)' <=> UserHas(n)
    BY <2>1, <2>2 DEF UserHas, Exists
  <2>4. Movable => Movable'
    BY <1>0, <2>2, <2>3 DEF Movable
  <2> QED BY <1>0, <2>1, <2>3, <2>4 DEF Polite
<1>4. ASSUME NEW op \in {"cat", "frombigfs"}, NameCat(op) PROVE Polite'
  <2>1. Exists(c2n[2]) /\ n2c = <<>> /\ nspc' = "command" /\ pc = "cat_ack"
    BY <1>4, PoliteTakes, TakesCommand DEF NameCat, Arity, Words, Says
  <2>2. PICK k \in DOMAIN dir :
           /\ Reply(<< <<Num(1)>>, dir[k].loc, <<Num(dir[k].chunks)>> >>) /\ UNCHANGED nsup
    BY <1>4, <2>1 DEF NameCat
  <2>3. n2c' = << <<Num(1)>>, dir[k].loc, <<Num(dir[k].chunks)>> >>
    BY <1>0, <2>1, <2>2, NodeTypes, NewReply
  <2> QED BY <1>0, <2>1, <2>2, <2>3 DEF Polite
<1>5. CASE NameRm
  <2>1. Exists(c2n[2]) /\ n2c = <<>> /\ nspc' = "command" /\ pc = "rm_ack"
    BY <1>5, PoliteTakes, TakesCommand DEF NameRm, Arity, Words, Says
  <2>2. PICK k \in DOMAIN dir :
           /\ Reply(<< <<Num(1)>>, dir[k].loc, <<Num(dir[k].chunks)>> >>) /\ UNCHANGED nsup
    BY <1>5, <2>1 DEF NameRm
  <2>3. n2c' = << <<Num(1)>>, dir[k].loc, <<Num(dir[k].chunks)>> >>
    BY <1>0, <2>1, <2>2, NodeTypes, NewReply
  <2> QED BY <1>0, <2>1, <2>2, <2>3 DEF Polite
<1>6. CASE NameCp
  <2>1. pc = "cp_ack" /\ nspc = "command"
    BY <1>6, TakesCommand DEF NameCp, Arity, Words, Says
  <2>2. nsup' /\ nspc' # "parts"
    BY <1>6, <2>1 DEF NameCp, Polite
  <2> QED BY <1>0, <2>1, <2>2 DEF Polite
<1>7. CASE NameMv
  <2>1. pc = "mv_ack" /\ nspc' = "command" /\ n2c = <<>>
    BY <1>7, TakesCommand DEF NameMv, Arity, Words, Says
  <2>2. \A k \in DOMAIN dir : dir[k].name = c2n[2] => dir[k].linked
    BY <1>7, PoliteTakes DEF NameMv, Arity, Words
  <2>3. UNCHANGED nsup /\ \E i \in {0, 1} : Reply(<< <<Num(i)>> >>)
    BY <1>7, <2>2 DEF NameMv
  <2>4. n2c' # <<>>
    <3>1. PICK i \in {0, 1} : Reply(<< <<Num(i)>> >>)
      BY <2>3
    <3>2. << <<Num(i)>> >> \in Seq(String)
      BY NumeralType
    <3>3. n2c' = << <<Num(i)>> >>
      BY <2>1, <3>1, <3>2, NewReply
    <3> QED BY <3>3
  <2> QED BY <1>0, <2>1, <2>3, <2>4 DEF Polite
<1>8. CASE NameIgnores
  BY <1>8, NothingIgnored
<1> QED BY <1>1, <1>2, <1>3, <1>4, <1>5, <1>6, <1>7, <1>8 DEF NameServer

LEMMA StepPolite == ASSUME Careful, Sync, Polite, [Next]_vars PROVE Sync' /\ Polite'
<1>1. Polite'
  <2>1. CASE \E s \in Servers : DataServer(s)
    BY <2>1, PolitelySame DEF DataServer, DataToBigFS, DataCat, DataRm, DataCp, clientVars
  <2>2. CASE UNCHANGED vars
    BY <2>2, PolitelySame DEF vars, clientVars, wires
  <2> QED BY <2>1, <2>2, PoliteUser, PoliteClient, PoliteNames DEF Next
<1>2. ~(PutRefused /\ job.text = <<>>) /\ nsup'
  BY <1>1 DEF Polite, PutRefused
<1> QED BY <1>1, <1>2, StepSync

LEMMA PoliteAlways == Careful => (Spec => [](Sync /\ Polite))
<1> SUFFICES ASSUME Careful PROVE Spec => [](Sync /\ Polite)
  OBVIOUS
<1>1. Init => Sync /\ Polite
  BY InitSync DEF Init, Polite
<1>2. Sync /\ Polite /\ [Next]_vars => Sync' /\ Polite'
  BY StepPolite
<1> QED BY <1>1, <1>2, PTL DEF Spec

-----------------------------------------------------------------------------
(* The books: what client, name server and the wires between them say about *)
(* the ledger.                                                             *)

OldLocs == {f.loc : f \in OldFiles}
Ours(F) == DOMAIN F \ OldLocs

\* The file that is being stored or copied, once its place is known, and how
\* many of its chunks the client knows of.
Growing ==
    IF Owing THEN IF d2c[Server(0)] # <<>> THEN Head(d2c[Server(0)]).loc ELSE <<>>
    ELSE IF pc = "put_loc" THEN job.loc ELSE IF pc = "cp_send" THEN job.to ELSE <<>>
Grown == IF pc \in Asking /\ d2c[Server(job.i)] # <<>> THEN job.i + 1 ELSE job.i

\* The file that is being removed.
Leaving == IF pc = "rm_send" THEN job.loc ELSE <<>>

\* The place that no node has: not yet, or no longer.
Fetched == IF pc = "rm_ack" /\ Len(n2c) = 3 THEN n2c[2] ELSE Leaving
Hand    == IF Needs > 0 THEN IF Owing THEN Growing ELSE Named ELSE Fetched

Low(l)        == IF l = Leaving THEN job.i ELSE 0
High(l, text) == IF l = Growing THEN Grown ELSE Len(text)

Extents(F) ==
    \A l \in DOMAIN F : /\ F[l].lo = Low(l) /\ F[l].hi = High(l, F[l].text)
                        /\ F[l].lo < F[l].hi /\ F[l].hi <= Len(F[l].text)

OldKept(F) == \A f \in OldFiles : f.loc \in DOMAIN F /\ F[f.loc].text = f.text

Places(F) ==
    /\ Growing # <<>> => Growing \in Ours(F)
    /\ Hand # <<>> => Hand \in Ours(F) /\ (Needs > 0 => F[Hand].text = NewText)

\* A node with a location: its text is there, and no other has it.
Listing(F) ==
    /\ \A k \in DOMAIN dir : dir[k].loc # <<>> =>
          dir[k].loc \in Ours(F) /\ F[dir[k].loc].text = dir[k].text /\ dir[k].loc # Hand
    /\ \A k, h \in DOMAIN dir : dir[k].loc # <<>> /\ dir[k].loc = dir[h].loc => k = h

Full(F, l, n) == l \in DOMAIN F /\ F[l].lo = 0 /\ F[l].hi = n /\ Len(F[l].text) = n

\* What the client was told and goes by.
Told(F) == Full(F, n2c[2], Atoi(n2c[3])) /\ (pc = "cp_ack" => F[n2c[2]].text = NewText)
Jobs(F) ==
    /\ pc \in {"cat_ack", "rm_ack", "cp_ack"} /\ Len(n2c) = 3 => Told(F)
    /\ pc \in {"cp_loc", "cp_send", "cat_send"} => Full(F, job.loc, job.chunks)
    /\ pc = "cp_loc" => F[job.loc].text = NewText
    /\ pc = "cp_send" => job.to \in DOMAIN F /\ F[job.to].text = F[job.loc].text
    /\ pc = "put_loc" /\ job.i # 0 => job.loc \in DOMAIN F /\ F[job.loc].text = job.text
    /\ pc = "rm_send" => job.loc \in DOMAIN F /\ Len(F[job.loc].text) = job.chunks

\* No file is left without a node by a careful user.
Known(F) == Careful => \A l \in DOMAIN F : l \in OldLocs \/ l = Hand \/ \E k \in DOMAIN dir : dir[k].loc = l

Books(F) ==
    Ledger(F) /\ OldKept(F) /\ Extents(F) /\ Places(F) /\ Listing(F) /\ Jobs(F) /\ Known(F)

LEMMA BookTypes ==
    ASSUME NEW F, Ledger(F)
    PROVE  /\ <<>> \notin DOMAIN F
           /\ \A l \in DOMAIN F : /\ F[l].text \in Seq(Block) /\ F[l].lo \in Nat /\ F[l].hi \in Nat
                                  /\ Len(F[l].text) \in Nat /\ l \in String /\ Plain(l)
<1>1. <<>> \notin DOMAIN F
  BY DEF Ledger, Plain
<1>2. \A l \in DOMAIN F : F[l] \in Entry
  BY DEF Ledger
<1>3. \A l \in DOMAIN F : F[l].text \in Seq(Block) /\ F[l].lo \in Nat /\ F[l].hi \in Nat
  BY <1>2 DEF Entry
<1> QED BY <1>1, <1>3, LenProperties DEF Ledger

\* The file that grows and the one that leaves are the same as before.
LEMMA ExtentsSame ==
    ASSUME NEW F, Ledger(F), Extents(F), Growing' = Growing, Growing = <<>> \/ Grown' = Grown,
           Leaving' = Leaving, Leaving = <<>> \/ job'.i = job.i
    PROVE  Extents(F)'
<1>1. \A l \in DOMAIN F : Low(l)' = Low(l)
  BY BookTypes DEF Low
<1>2. \A l \in DOMAIN F : High(l, F[l].text)' = High(l, F[l].text)
  BY BookTypes DEF High
<1> QED BY <1>1, <1>2 DEF Extents

\* The file has grown to its length.
LEMMA ExtentsDone ==
    ASSUME NEW F, Ledger(F), Extents(F), Growing' = <<>>, Growing \in DOMAIN F, Grown = Len(F[Growing].text),
           Leaving' = Leaving, Leaving = <<>>
    PROVE  Extents(F)'
<1>1. \A l \in DOMAIN F : Low(l)' = Low(l)
  BY BookTypes DEF Low
<1>2. \A l \in DOMAIN F : High(l, F[l].text)' = High(l, F[l].text)
  BY BookTypes DEF High
<1> QED BY <1>1, <1>2 DEF Extents

\* Chunks come and go; texts and places stay.
LEMMA BooksKept ==
    ASSUME NEW F, Books(F), NEW G, Ledger(G), DOMAIN G = DOMAIN F, \A l \in DOMAIN F : G[l].text = F[l].text,
           Extents(G)', Growing' \in {Growing, <<>>}, Hand' = Hand, dir' = dir,
           Hand = <<>> \/ (Needs' = Needs /\ NewText' = NewText), Jobs(G)'
    PROVE  Books(G)'
<1>1. Ours(G) = Ours(F) /\ \A l \in Ours(F) : l \in DOMAIN F
  BY DEF Ours
<1>2. Places(G)'
  BY <1>1 DEF Books, Places
<1>3. Listing(G)'
  BY <1>1 DEF Books, Listing
<1>4. Known(G)'
  BY DEF Books, Known
<1>5. OldKept(G)'
  BY DEF Books, OldKept
<1> QED BY <1>2, <1>3, <1>4, <1>5 DEF Books

LEMMA BooksSame ==
    ASSUME NEW F, Books(F), Extents(F)', Growing' \in {Growing, <<>>}, Hand' = Hand, dir' = dir,
           Hand = <<>> \/ (Needs' = Needs /\ NewText' = NewText), Jobs(F)'
    PROVE  Books(F)'
BY BooksKept DEF Books

\* Nothing grows or leaves, nor is in the client's hands.
LEMMA BooksIdle ==
    ASSUME NEW F, Books(F), Growing = <<>>, Growing' = <<>>, Leaving = <<>>, Leaving' = <<>>, Hand' = Hand, dir' = dir,
           Hand = <<>> \/ (Needs' = Needs /\ NewText' = NewText), Jobs(F)'
    PROVE  Books(F)'
<1>1. Extents(F)'
  BY ExtentsSame DEF Books
<1> QED BY <1>1, BooksSame

\* What the definitions come to at most places.
LEMMA Elsewhere ==
    /\ pc \notin {"put_loc", "cp_loc", "cp_send"} => Growing = <<>> /\ ~Owing
    /\ pc # "rm_send" => Leaving = <<>>
    /\ pc # "rm_ack" => Fetched = Leaving
BY DEF Growing, Owing, Leaving, Fetched

LEMMA ElsewhereNext ==
    /\ pc' \notin {"put_loc", "cp_loc", "cp_send"} => Growing' = <<>> /\ ~Owing'
    /\ pc' # "rm_send" => Leaving' = <<>>
    /\ pc' # "rm_ack" => Fetched' = Leaving'
BY DEF Growing, Owing, Leaving, Fetched

LEMMA UserBooks == ASSUME Sync, NEW F, Books(F), User PROVE Books(F)'
<1>1. /\ pc = "prompt" /\ pc' \in Calls /\ UNCHANGED <<n2c, nspc, nsnew, dir>>
  BY DEF User, StartPut, StartCat, StartGet, StartRm, StartCp, StartMv, Await, nameVars, Calls
<1>2. n2c = <<>>
  BY <1>1 DEF Sync, InCall, Calls
<1>3. Len(n2c') # 3
  BY <1>1, <1>2
<1>4. Jobs(F)'
  BY <1>1, <1>3 DEF Jobs, Calls
<1>5. /\ Growing = <<>> /\ Growing' = <<>> /\ Leaving = <<>> /\ Leaving' = <<>> /\ Fetched = <<>> /\ ~Owing /\ ~Owing'
  BY <1>1, Elsewhere, ElsewhereNext DEF Calls
<1>6. Fetched' = <<>>
  BY <1>3, <1>5 DEF Fetched
<1>7. \E more \in Seq(String) : Len(more) > 0 /\ SendName(more)
  <2> DEFINE Sent == \E more \in Seq(String) : Len(more) > 0 /\ SendName(more)
  <2>1. ASSUME NEW w \in Words, NEW a \in Names, NEW b \in Names, SendName(<<Word(w), a>>) \/ SendName(<<Word(w), a, b>>)
        PROVE  Sent
    <3>1. /\ <<Word(w), a>> \in Seq(String) /\ Len(<<Word(w), a>>) > 0
          /\ <<Word(w), a, b>> \in Seq(String) /\ Len(<<Word(w), a, b>>) > 0
      BY WordType, BigFSConstants DEF ConstantsOK
    <3> QED BY <2>1, <3>1
  <2>2. ASSUME NEW n \in Names, NEW text \in Texts, StartPut(n, text) PROVE Sent
    <3>1. SendName(<<Word("tobigfs"), n>>) /\ "tobigfs" \in Words
      BY <2>2 DEF StartPut, Words
    <3> QED BY <2>1, <3>1
  <2>3. ASSUME NEW n \in Names, NEW op \in {"cat", "frombigfs"}, Fetch(op, n) PROVE Sent
    <3>1. SendName(<<Word(op), n>>) /\ op \in Words
      BY <2>3 DEF Fetch, StartCat, StartGet, Words
    <3> QED BY <2>1, <3>1
  <2>4. ASSUME NEW n \in Names, StartRm(n) PROVE Sent
    <3>1. SendName(<<Word("rm"), n>>) /\ "rm" \in Words
      BY <2>4 DEF StartRm, Words
    <3> QED BY <2>1, <3>1
  <2>5. ASSUME NEW a \in Names, NEW b \in Names, StartCp(a, b) PROVE Sent
    <3>1. SendName(<<Word("cp"), a, b>>) /\ "cp" \in Words
      BY <2>5 DEF StartCp, Words
    <3> QED BY <2>1, <3>1
  <2>6. ASSUME NEW a \in Names, NEW b \in Names, StartMv(a, b) PROVE Sent
    <3>1. SendName(<<Word("mv"), a, b>>) /\ "mv" \in Words
      BY <2>6 DEF StartMv, Words
    <3> QED BY <2>1, <3>1
  <2> HIDE DEF Sent
  <2>7. Sent
    BY <2>2, <2>3, <2>4, <2>5, <2>6, FetchWords DEF User
  <2> QED BY <2>7 DEF Sent
<1>8. Named' = Named /\ Needs' = Needs
  BY <1>1, <1>7, CommandBehind
<1>9. Hand' = Hand /\ NewText' = NewText
  BY <1>1, <1>5, <1>6, <1>8 DEF Hand, NewText
<1> QED BY <1>1, <1>4, <1>5, <1>8, <1>9, BooksIdle

LEMMA ClientReadBooks ==
    ASSUME Sync, Entries, NEW F, Books(F), PutRefused \/ NotFound \/ MvDoneOrCpRefused PROVE Books(F)'
<1>1. /\ pc \in Calls /\ pc' = "prompt" /\ UNCHANGED <<c2n, nspc, nsnew, dir>> /\ n2c # <<>>
      /\ pc = "rm_ack" => n2c[1] = <<Num(0)>>
  BY Types DEF PutRefused, NotFound, MvDoneOrCpRefused, Prompt, nameVars, Calls
<1>2. pc = "rm_ack" => Len(n2c) = 1
  BY <1>1, IsServed DEF Served
<1>3. /\ Growing = <<>> /\ Growing' = <<>> /\ Leaving = <<>> /\ Leaving' = <<>> /\ Fetched' = <<>> /\ ~Owing /\ ~Owing'
  BY <1>1, Elsewhere, ElsewhereNext DEF Calls
<1>4. Fetched = <<>>
  BY <1>2, <1>3 DEF Fetched
<1>5. Needs' = Needs
  BY <1>1 DEF Needs
<1>6. Named' = Named
  BY <1>1, <1>3, <1>5 DEF Named
<1>7. Hand' = Hand /\ NewText' = NewText
  BY <1>1, <1>3, <1>4, <1>5, <1>6 DEF Hand, NewText
<1>8. Jobs(F)'
  BY <1>1 DEF Jobs
<1> QED BY <1>1, <1>3, <1>5, <1>7, <1>8, BooksIdle

LEMMA FoundBooks == ASSUME Sync, Entries, NEW F, Books(F), Found PROVE Books(F)'
<1>1. /\ pc \in {"cat_ack", "rm_ack"} /\ Len(n2c) >= 3 /\ Head(n2c) # <<Num(0)>> /\ UNCHANGED <<c2n, nspc, nsnew, dir>>
  BY DEF Found, nameVars
<1>2. n2c # <<>> /\ n2c[1] = Head(n2c)
  BY <1>1, Types
<1>3. Len(n2c) = 3 /\ nspc = "command"
  BY <1>1, <1>2, IsServed DEF Served, Calls
<1>4. Full(F, n2c[2], Atoi(n2c[3]))
  BY <1>1, <1>3 DEF Books, Jobs, Told
<1>5. Atoi(n2c[3]) # 0
  BY <1>4, BookTypes DEF Books, Full, Extents
<1>6. /\ pc' = IF pc = "cat_ack" THEN "cat_send" ELSE "rm_send"
      /\ job' = [job EXCEPT !.loc = n2c[2], !.chunks = Atoi(n2c[3])]
  BY <1>5 DEF Found, Await
<1>7. job'.loc = n2c[2] /\ job'.chunks = Atoi(n2c[3]) /\ job'.i = job.i /\ job.i = 0
  BY <1>1, <1>6, Types DEF Job, Talk, Counters
<1>8. ~Owing /\ ~Owing' /\ Growing = <<>> /\ Growing' = <<>> /\ Needs = 0 /\ Needs' = 0 /\ Leaving = <<>>
  BY <1>1, <1>3, <1>6, Elsewhere, ElsewhereNext DEF Needs
<1>9. Hand' = Hand
  BY <1>1, <1>3, <1>6, <1>7, <1>8 DEF Hand, Fetched, Leaving
<1>10. Jobs(F)'
  BY <1>4, <1>6, <1>7 DEF Jobs, Full
<1>11. Extents(F)'
  <2>1. \A l \in DOMAIN F : Low(l)' = Low(l)
    BY <1>6, <1>7, <1>8, BookTypes DEF Low, Books
  <2>2. \A l \in DOMAIN F : High(l, F[l].text)' = High(l, F[l].text)
    BY <1>8, BookTypes DEF High, Books
  <2> QED BY <2>1, <2>2 DEF Books, Extents
<1>12. NewText' = NewText /\ Needs' = Needs
  BY <1>1, <1>8 DEF NewText
<1> QED BY <1>1, <1>8, <1>9, <1>10, <1>11, <1>12, BooksSame

LEMMA PutAcceptedBooks == ASSUME Sync, Entries, NEW F, Books(F), PutAccepted PROVE Books(F)'
<1>1. /\ pc = "put_ack" /\ n2c # <<>> /\ UNCHANGED <<nspc, nsnew, dir, d2c>> /\ job.i = 0
  BY Types DEF PutAccepted, nameVars, Talk, Counters
<1>2. c2n = <<>>
  BY <1>1, IsServed DEF Calls
<1>3. pc' = "put_loc" /\ job'.i = 0
  BY <1>1, Types DEF PutAccepted, Await, Job
<1>4. d2c'[Server(0)] = <<>>
  BY <1>1, Types DEF Talk, Dialogue, Silent, Talks
<1>5. Growing = <<>> /\ Growing' = <<>> /\ Leaving = <<>> /\ Leaving' = <<>> /\ ~Owing /\ Owing' /\ Fetched = <<>> /\ Fetched' = <<>>
  <2>1. Owing'
    BY <1>3 DEF Owing
  <2> QED BY <1>1, <1>3, <1>4, <2>1, Elsewhere, ElsewhereNext DEF Growing
<1>6. Hand = <<>> /\ Hand' = <<>>
  <2>1. Named = <<>>
    BY <1>2, Types DEF Named
  <2> QED BY <1>5, <2>1 DEF Hand
<1>7. Jobs(F)'
  BY <1>3 DEF Jobs
<1> QED BY <1>1, <1>5, <1>6, <1>7, BooksIdle

LEMMA CpAcceptedBooks == ASSUME Sync, Entries, NEW F, Books(F), CpAccepted PROVE Books(F)'
<1>1. /\ pc = "cp_ack" /\ n2c # <<>> /\ Head(n2c) # <<Num(1)>> /\ UNCHANGED <<nspc, nsnew, dir, d2c>> /\ n2c[1] = Head(n2c)
  BY Types DEF CpAccepted, nameVars
<1>2. Served /\ c2n = <<>>
  BY <1>1, IsServed DEF Calls
<1>3. Len(n2c) = 3 /\ Atoi(n2c[3]) # 0
  BY <1>1, <1>2 DEF Served
<1>4. Full(F, n2c[2], Atoi(n2c[3])) /\ F[n2c[2]].text = NewText
  BY <1>1, <1>3 DEF Books, Jobs, Told
<1>5. pc' = "cp_loc" /\ job'.loc = n2c[2] /\ job'.chunks = Atoi(n2c[3])
  BY <1>1, <1>3, Types DEF CpAccepted, Await, Job
<1>6. d2c'[Server(0)] = <<>>
  BY <1>1, Types DEF Talk, Dialogue, Silent, Talks
<1>7. Growing = <<>> /\ Growing' = <<>> /\ Leaving = <<>> /\ Leaving' = <<>> /\ ~Owing /\ Owing' /\ Fetched = <<>> /\ Fetched' = <<>>
  <2>1. Owing'
    BY <1>5 DEF Owing
  <2> QED BY <1>1, <1>5, <1>6, <2>1, Elsewhere, ElsewhereNext DEF Growing
<1>8. Hand = <<>> /\ Hand' = <<>>
  <2>1. Named = <<>>
    BY <1>2, Types DEF Named
  <2> QED BY <1>7, <2>1 DEF Hand
<1>9. NewText' = NewText
  BY <1>1 DEF NewText
<1>10. Jobs(F)'
  BY <1>4, <1>5, <1>9 DEF Jobs, Full
<1> QED BY <1>1, <1>7, <1>8, <1>10, BooksIdle

LEMMA CatBooks == ASSUME Sync, Entries, NEW F, Books(F), CatSend \/ CatData PROVE Books(F)'
<1>1. /\ pc \in {"cat_send", "cat_data"} /\ pc' \in {"cat_send", "cat_data", "prompt"}
      /\ UNCHANGED <<c2n, n2c, nspc, nsnew, dir>>
  BY DEF CatSend, CatData, Await, Prompt, nameVars
<1>2. pc' = "cat_send" => pc = "cat_send" /\ job'.loc = job.loc /\ job'.chunks = job.chunks
  BY Types DEF CatSend, CatData, Await, Prompt, Job
<1>3. Jobs(F)'
  BY <1>1, <1>2 DEF Books, Jobs, Full
<1>4. Growing = <<>> /\ Growing' = <<>> /\ Leaving = <<>> /\ Leaving' = <<>> /\ ~Owing /\ ~Owing' /\ Fetched = <<>> /\ Fetched' = <<>>
  BY <1>1, Elsewhere, ElsewhereNext
<1>5. Needs' = Needs
  BY <1>1 DEF Needs
<1>6. Named' = Named
  BY <1>1, <1>4, <1>5 DEF Named
<1>7. Hand' = Hand /\ NewText' = NewText
  BY <1>1, <1>4, <1>5, <1>6 DEF Hand, NewText
<1> QED BY <1>1, <1>3, <1>4, <1>5, <1>7, BooksIdle

\* The location arrives that names the file, and goes to the name server.
LEMMA PlaceTold ==
    ASSUME Sync, Entries, NEW F, Books(F), Owing, ~Owing', d2c[Server(0)] # <<>>, NEW loc, loc = Head(d2c[Server(0)]).loc,
           SendName(<<loc>>), UNCHANGED <<nspc, nsnew, dir>>
    PROVE  /\ Growing = loc /\ Grown = 1 /\ Hand = loc /\ Hand' = loc /\ Needs' = Needs /\ NewText' = NewText
           /\ loc \in DOMAIN F /\ F[loc].text = NewText
<1>1. loc # <<>> /\ Growing = loc
  BY DEF Entries, Task, Growing
<1>2. loc \in DOMAIN F /\ loc \in String
  BY <1>1, BookTypes DEF Books, Places, Ours
<1>3. Named' = loc /\ Needs' = Needs /\ Needs > 0
  BY <1>2, LocationBehind
<1>4. Hand = loc /\ Hand' = loc
  BY <1>1, <1>3 DEF Hand
<1>5. F[loc].text = NewText
  BY <1>1, <1>3, <1>4 DEF Books, Places
<1>6. Grown = 1
  <2>1. pc \in Asking /\ job.i = 0
    BY Types DEF Owing, Asking, Talk, Counters
  <2> QED BY <2>1 DEF Grown
<1> QED BY <1>1, <1>2, <1>3, <1>4, <1>5, <1>6 DEF NewText

LEMMA PutLocatedBooks == ASSUME Sync, Entries, NEW F, Books(F), PutLocated PROVE Books(F)'
<1> DEFINE loc == IF job.i = 0 THEN Head(d2c[Server(job.i)]).loc ELSE job.loc
<1>1. /\ pc = "put_loc" /\ d2c[Server(job.i)] # <<>> /\ UNCHANGED <<nspc, nsnew, dir, n2c>>
      /\ d2c' = [d2c EXCEPT ![Server(job.i)] = Tail(@)] /\ SendName(IF job.i = 0 THEN <<loc>> ELSE <<>>)
  BY DEF PutLocated, nameVars
<1>2. \A t \in Servers : d2c'[t] = <<>>
  BY <1>1, AnswerTaken, Types
<1>3. /\ job.i < job.chunks /\ job.chunks = Len(job.text) /\ (job.i = 0 => NewText = job.text)
  BY <1>1, Types DEF Entries, Task, TypeOK, ClientType
<1>4. \/ /\ pc' = "put_loc" /\ job' = [job EXCEPT !.loc = loc, !.i = job.i + 1]
      \/ pc' = "prompt" /\ job.i + 1 = job.chunks /\ job'.i = 0
  <2>1. job.i + 1 < job.chunks \/ job.i + 1 = job.chunks
    BY <1>3, Types
  <2> QED BY <2>1, Types DEF PutLocated, Await, Prompt, Idle
<1>5. pc' = "put_loc" => job'.loc = loc /\ job'.i = job.i + 1 /\ job'.text = job.text
  BY <1>4, Types DEF Job
<1>6. job.i + 1 # 0 /\ Server(job'.i) \in Servers
  <2>1. job'.i \in Nat
    BY <1>4, <1>5, Types
  <2>2. Server(job'.i) \in Servers
    BY <2>1, ServerType
  <2> QED BY <2>2, Types
<1>7. ~Owing' /\ Leaving = <<>> /\ Leaving' = <<>> /\ Fetched = <<>> /\ Fetched' = <<>>
  <2>1. ~Owing'
    BY <1>4, <1>5, <1>6 DEF Owing
  <2> QED BY <1>1, <1>4, <2>1 DEF Leaving, Fetched
<1>8. Grown = job.i + 1 /\ Grown' = job'.i
  BY <1>1, <1>2, <1>6 DEF Grown, Asking
<1>9. /\ Growing = loc /\ loc \in DOMAIN F /\ F[loc].text = job.text /\ Hand' = Hand /\ Needs' = Needs /\ NewText' = NewText
  <2>1. CASE job.i = 0
    <3>1. Owing /\ loc = Head(d2c[Server(0)]).loc /\ SendName(<<loc>>) /\ d2c[Server(0)] # <<>>
      BY <1>1, <2>1 DEF Owing
    <3> HIDE DEF loc
    <3> QED BY <1>1, <1>3, <1>7, <2>1, <3>1, PlaceTold
  <2>2. CASE job.i # 0
    <3>1. ~Owing /\ Growing = loc /\ loc = job.loc
      BY <1>1, <2>2 DEF Owing, Growing
    <3>2. c2n' = c2n
      BY <1>1, <2>2, Types, ConcatEmptySeq DEF SendName
    <3>3. Needs' = Needs
      BY <1>1 DEF Needs
    <3>4. Named' = Named
      BY <1>7, <3>1, <3>2, <3>3 DEF Named
    <3>5. Hand' = Hand /\ NewText' = NewText
      BY <1>1, <1>7, <3>1, <3>3, <3>4 DEF Hand, NewText
    <3>6. loc \in DOMAIN F /\ F[loc].text = job.text
      BY <1>1, <2>2, <3>1 DEF Books, Jobs
    <3> QED BY <3>1, <3>3, <3>5, <3>6
  <2> QED BY <2>1, <2>2
<1> HIDE DEF loc
<1>10. Jobs(F)'
  BY <1>4, <1>5, <1>9 DEF Jobs
<1>11. CASE pc' = "put_loc"
  <2>1. Growing' = loc
    BY <1>5, <1>7, <1>11 DEF Growing
  <2>2. Extents(F)'
    BY <1>5, <1>7, <1>8, <1>9, <1>11, <2>1, ExtentsSame DEF Books
  <2> QED BY <1>1, <1>9, <1>10, <2>1, <2>2, BooksSame
<1>12. CASE pc' = "prompt" /\ job.i + 1 = job.chunks
  <2>1. Growing' = <<>>
    BY <1>7, <1>12 DEF Growing
  <2>2. Extents(F)'
    BY <1>3, <1>7, <1>8, <1>9, <1>12, <2>1, ExtentsDone DEF Books
  <2> QED BY <1>1, <1>9, <1>10, <2>1, <2>2, BooksSame
<1> QED BY <1>4, <1>11, <1>12

LEMMA CpLocatedBooks == ASSUME Sync, Entries, NEW F, Books(F), CpLocated PROVE Books(F)'
<1> DEFINE loc == Head(d2c[Server(0)]).loc
<1>1. /\ pc = "cp_loc" /\ d2c[Server(0)] # <<>> /\ UNCHANGED <<nspc, nsnew, dir, n2c>> /\ SendName(<<loc>>) /\ Owing
  BY DEF CpLocated, nameVars, Owing
<1>2. \/ pc' = "cp_send" /\ job' = [job EXCEPT !.to = loc, !.i = 1]
      \/ pc' = "prompt" /\ ~(job.chunks > 1)
  BY DEF CpLocated, Await, Prompt
<1>3. pc' = "cp_send" => job'.to = loc /\ job'.i = 1 /\ job'.loc = job.loc /\ job'.chunks = job.chunks
  BY <1>2, Types DEF Job
<1>4. ~Owing' /\ Leaving = <<>> /\ Leaving' = <<>>
  BY <1>1, <1>2 DEF Owing, Leaving
<1>5. /\ Growing = loc /\ Grown = 1 /\ loc \in DOMAIN F /\ F[loc].text = NewText
      /\ Hand' = Hand /\ Needs' = Needs /\ NewText' = NewText
  <2> HIDE DEF loc
  <2>1. loc = Head(d2c[Server(0)]).loc
    BY DEF loc
  <2> QED BY <1>1, <1>4, <2>1, PlaceTold
<1> HIDE DEF loc
<1>6. Full(F, job.loc, job.chunks) /\ F[job.loc].text = NewText
  BY <1>1 DEF Books, Jobs
<1>7. Jobs(F)'
  BY <1>2, <1>3, <1>5, <1>6 DEF Jobs, Full
<1>8. CASE pc' = "cp_send"
  <2>1. Growing' = loc /\ Grown' = 1
    BY <1>3, <1>4, <1>8 DEF Growing, Grown, Asking
  <2>2. Extents(F)'
    BY <1>4, <1>5, <2>1, ExtentsSame DEF Books
  <2> QED BY <1>1, <1>5, <1>7, <2>1, <2>2, BooksSame
<1>9. CASE pc' = "prompt" /\ ~(job.chunks > 1)
  <2>1. Growing' = <<>>
    BY <1>4, <1>9 DEF Growing
  <2>2. Len(F[loc].text) = 1
    <3>1. Len(F[loc].text) = job.chunks
      BY <1>5, <1>6 DEF Full
    <3>2. Len(F[loc].text) >= 1
      BY <1>5, BookTypes DEF Books, Extents
    <3> QED BY <1>9, <3>1, <3>2, Types
  <2>3. Extents(F)'
    BY <1>4, <1>5, <2>1, <2>2, ExtentsDone DEF Books
  <2> QED BY <1>1, <1>5, <1>7, <2>1, <2>3, BooksSame
<1> QED BY <1>2, <1>8, <1>9

\* The name server takes a command: nothing is in the client's hands.
LEMMA TakenBooks ==
    ASSUME Sync, NEW F, Books(F), NEW w \in Words, Takes(w, Arity(w)), UNCHANGED <<pc, job>>,
           nspc' \in {"command", "parts", "location"}
    PROVE  /\ pc \in Calls /\ Says(w) /\ n2c = <<>> /\ nspc = "command"
           /\ Growing = <<>> /\ Growing' = <<>> /\ Leaving = <<>> /\ Leaving' = <<>> /\ Hand = <<>>
           /\ Hand' = IF Needs' > 0 THEN <<>> ELSE Fetched'
           /\ (pc # "rm_ack" => Hand' = <<>>) /\ Extents(F)'
<1>1. pc \in Calls /\ Says(w) /\ n2c = <<>> /\ c2n' = <<>> /\ nspc = "command" /\ Needs = 0
  BY TakesCommand
<1>2. Growing = <<>> /\ Growing' = <<>> /\ Leaving = <<>> /\ Leaving' = <<>> /\ ~Owing' /\ (pc # "rm_ack" => Fetched' = <<>>)
  BY <1>1, Elsewhere, ElsewhereNext DEF Calls
<1>3. Fetched = <<>>
  BY <1>1, <1>2 DEF Fetched
<1>4. Named' = <<>>
  <2>1. Len(c2n') = 0 /\ (Needs' > 0 => ~(0 >= Needs'))
    BY <1>1 DEF Needs
  <2> QED BY <2>1 DEF Named
<1>5. Hand = <<>> /\ Hand' = IF Needs' > 0 THEN <<>> ELSE Fetched'
  BY <1>1, <1>2, <1>3, <1>4 DEF Hand
<1>6. Extents(F)'
  BY <1>2, ExtentsSame DEF Books
<1> QED BY <1>1, <1>2, <1>5, <1>6

\* What the name server says of a node is right.
LEMMA NodeTold ==
    ASSUME Sync, Entries, NEW F, Books(F), Growing = <<>>, Leaving = <<>>, nspc = "command", NEW k \in DOMAIN dir
    PROVE  /\ dir[k].loc # <<>> /\ dir[k].loc \in Ours(F) /\ F[dir[k].loc].text = dir[k].text
           /\ Full(F, dir[k].loc, Atoi(<<Num(dir[k].chunks)>>))
           /\ \A h \in DOMAIN dir : dir[h].loc = dir[k].loc => h = k
<1>1. dir[k].loc # <<>> /\ dir[k].chunks = Len(dir[k].text)
  BY DEF Entries, Nodes
<1>2. dir[k].loc \in Ours(F) /\ F[dir[k].loc].text = dir[k].text /\ \A h \in DOMAIN dir : dir[h].loc = dir[k].loc => h = k
  BY <1>1 DEF Books, Listing
<1>3. dir[k].loc \in DOMAIN F
  BY <1>2 DEF Ours
<1>4. F[dir[k].loc].lo = 0 /\ F[dir[k].loc].hi = dir[k].chunks
  BY <1>1, <1>2, <1>3 DEF Books, Extents, Low, High
<1>5. Atoi(<<Num(dir[k].chunks)>>) = dir[k].chunks
  BY Chunks
<1> QED BY <1>1, <1>2, <1>3, <1>4, <1>5 DEF Full

LEMMA NameToBigFSBooks == ASSUME Sync, Entries, NEW F, Books(F), NameToBigFS PROVE Books(F)'
<1>1. Takes("tobigfs", Arity("tobigfs")) /\ "tobigfs" \in Words /\ UNCHANGED <<pc, job, dir>>
      /\ nspc' \in {"command", "parts", "location"}
  BY DEF NameToBigFS, Arity, Words, clientVars, Takes
<1>2. /\ n2c = <<>> /\ pc = "put_ack" /\ Growing = <<>> /\ Growing' = <<>> /\ Leaving = <<>> /\ Leaving' = <<>>
      /\ Hand = <<>> /\ Hand' = <<>>
  BY <1>1, TakenBooks DEF Says
<1>3. Jobs(F)'
  BY <1>1, <1>2 DEF Jobs
<1> QED BY <1>1, <1>2, <1>3, BooksIdle

LEMMA NameCatBooks ==
    ASSUME Sync, Entries, NEW F, Books(F), NEW op \in {"cat", "frombigfs"}, NameCat(op) PROVE Books(F)'
<1>1. Takes(op, Arity(op)) /\ op \in Words /\ UNCHANGED <<pc, job, dir>> /\ nspc' = "command"
  BY DEF NameCat, Arity, Words, clientVars, Takes
<1>2. /\ n2c = <<>> /\ pc = "cat_ack" /\ nspc = "command"
      /\ Growing = <<>> /\ Growing' = <<>> /\ Leaving = <<>> /\ Leaving' = <<>>
      /\ Hand = <<>> /\ Hand' = <<>>
  BY <1>1, TakenBooks DEF Says
<1>3. Len(n2c') = 3 => Full(F, n2c'[2], Atoi(n2c'[3]))
  <2>1. ASSUME NEW k \in DOMAIN dir, Reply(<< <<Num(1)>>, dir[k].loc, <<Num(dir[k].chunks)>> >>)
        PROVE  n2c'[2] = dir[k].loc /\ n2c'[3] = <<Num(dir[k].chunks)>>
    <3>1. << <<Num(1)>>, dir[k].loc, <<Num(dir[k].chunks)>> >> \in Seq(String)
      BY Chunks, NumeralType
    <3>2. n2c' = << <<Num(1)>>, dir[k].loc, <<Num(dir[k].chunks)>> >>
      BY <1>2, <2>1, <3>1, NewReply
    <3> QED BY <3>2
  <2>2. ASSUME Reply(<< <<Num(0)>> >>) PROVE Len(n2c') = 1
    <3>1. << <<Num(0)>> >> \in Seq(String)
      BY NumeralType
    <3>2. n2c' = << <<Num(0)>> >>
      BY <1>2, <2>2, <3>1, NewReply
    <3> QED BY <3>2
  <2>3. CASE \E k \in DOMAIN dir : Reply(<< <<Num(1)>>, dir[k].loc, <<Num(dir[k].chunks)>> >>)
    BY <1>2, <2>1, <2>3, NodeTold
  <2>4. CASE Reply(<< <<Num(0)>> >>)
    BY <2>2, <2>4
  <2> QED BY <2>3, <2>4 DEF NameCat
<1>4. Jobs(F)'
  BY <1>1, <1>2, <1>3 DEF Jobs, Told, Full
<1> QED BY <1>1, <1>2, <1>4, BooksIdle

LEMMA NameRmBooks == ASSUME Sync, Entries, NEW F, Books(F), NameRm PROVE Books(F)'
<1>1. Takes("rm", Arity("rm")) /\ "rm" \in Words /\ UNCHANGED <<pc, job, nspc>> /\ nspc' = "command"
  BY DEF NameRm, Arity, Words, clientVars, Takes
<1>2. /\ n2c = <<>> /\ pc = "rm_ack" /\ nspc = "command"
      /\ Growing = <<>> /\ Growing' = <<>> /\ Leaving = <<>> /\ Leaving' = <<>> /\ Hand = <<>> /\ Extents(F)'
      /\ Hand' = IF Needs' > 0 THEN <<>> ELSE Fetched'
  BY <1>1, TakenBooks DEF Says
<1>3. Needs' = 0 /\ Hand' = Fetched'
  <2>1. Needs' = 0
    BY <1>1, <1>2 DEF Needs
  <2> QED BY <1>2, <2>1
<1>4. ASSUME NEW k \in DOMAIN dir, dir' = Unlink(k), Reply(<< <<Num(1)>>, dir[k].loc, <<Num(dir[k].chunks)>> >>)
      PROVE  Books(F)'
  <2>1. n2c' = << <<Num(1)>>, dir[k].loc, <<Num(dir[k].chunks)>> >>
    <3>1. << <<Num(1)>>, dir[k].loc, <<Num(dir[k].chunks)>> >> \in Seq(String)
      BY Chunks, NumeralType
    <3> QED BY <1>2, <1>4, <3>1, NewReply
  <2>2. Len(n2c') = 3 /\ n2c'[2] = dir[k].loc /\ n2c'[3] = <<Num(dir[k].chunks)>>
    BY <2>1
  <2>3. Hand' = dir[k].loc
    BY <1>1, <1>2, <1>3, <2>2 DEF Fetched
  <2>4. /\ dir[k].loc \in Ours(F) /\ Full(F, dir[k].loc, Atoi(<<Num(dir[k].chunks)>>))
        /\ \A h \in DOMAIN dir : dir[h].loc = dir[k].loc => h = k
    BY <1>2, NodeTold
  <2>5. Jobs(F)'
    BY <1>1, <1>2, <2>2, <2>4 DEF Jobs, Told, Full
  <2>6. Places(F)'
    BY <1>2, <1>3, <2>3, <2>4 DEF Places
  <2>7. TypeOK
    BY Types
  <2>8. Listing(F)'
    <3>1. \A i \in DOMAIN dir' : Was(k, i) \in DOMAIN dir /\ Was(k, i) # k /\ dir'[i] = dir[Was(k, i)]
      BY <1>4, <2>7, Unlinked
    <3>2. \A i, h \in DOMAIN dir' : Was(k, i) = Was(k, h) => i = h
      BY <1>4, <2>7, Unlinked
    <3>3. ASSUME NEW i \in DOMAIN dir', dir'[i].loc # <<>>
          PROVE  dir'[i].loc \in Ours(F) /\ F[dir'[i].loc].text = dir'[i].text /\ dir'[i].loc # Hand'
      BY <2>3, <2>4, <3>1, <3>3 DEF Books, Listing
    <3>4. ASSUME NEW i \in DOMAIN dir', NEW h \in DOMAIN dir', dir'[i].loc # <<>>, dir'[i].loc = dir'[h].loc
          PROVE  i = h
      BY <3>1, <3>2, <3>4 DEF Books, Listing
    <3> QED BY <3>3, <3>4 DEF Listing
  <2>9. Known(F)'
    <3>1. \A j \in DOMAIN dir : j # k => \E i \in DOMAIN dir' : dir'[i] = dir[j]
      BY <1>4, <2>7, Unlinked
    <3>2. ASSUME Careful, NEW l \in DOMAIN F, l \notin OldLocs PROVE l = Hand' \/ \E i \in DOMAIN dir' : dir'[i].loc = l
      <4>1. PICK j \in DOMAIN dir : dir[j].loc = l
        BY <1>2, <3>2, BookTypes DEF Books, Known
      <4> QED BY <2>3, <3>1, <4>1
    <3> QED BY <3>2 DEF Known
  <2> QED BY <1>2, <2>5, <2>6, <2>8, <2>9 DEF Books, OldKept
<1>5. ASSUME UNCHANGED dir, Reply(<< <<Num(0)>> >>) PROVE Books(F)'
  <2>1. << <<Num(0)>> >> \in Seq(String)
    BY NumeralType
  <2>2. n2c' = << <<Num(0)>> >>
    BY <1>2, <1>5, <2>1, NewReply
  <2>3. Len(n2c') # 3
    BY <2>2
  <2>4. Jobs(F)'
    BY <1>1, <1>2, <2>3 DEF Jobs
  <2>5. Hand' = <<>>
    BY <1>2, <1>3, <2>3 DEF Fetched
  <2> QED BY <1>2, <1>5, <2>4, <2>5, BooksIdle
<1> QED BY <1>4, <1>5 DEF NameRm

LEMMA NameCpBooks == ASSUME Sync, Entries, NEW F, Books(F), NameCp PROVE Books(F)'
<1>1. /\ Takes("cp", Arity("cp")) /\ "cp" \in Words /\ UNCHANGED <<pc, job>> /\ nspc' \in {"command", "location"}
      /\ Takes("cp", 3)
  BY DEF NameCp, Arity, Words, clientVars, Takes
<1>2. /\ n2c = <<>> /\ pc = "cp_ack" /\ nspc = "command"
      /\ Growing = <<>> /\ Growing' = <<>> /\ Leaving = <<>> /\ Leaving' = <<>> /\ Hand = <<>> /\ Hand' = <<>> /\ Extents(F)'
  BY <1>1, TakenBooks DEF Says
<1>3. c2n[3] \in String
  BY <1>1, Types, TakesType
<1>4. ASSUME NEW k \in DOMAIN dir, nspc' = "location", Reply(<< <<Num(0)>>, dir[k].loc, <<Num(dir[k].chunks)>> >>),
             dir' = Append([dir EXCEPT ![k].linked = TRUE],
                           [dir[k] EXCEPT !.name = c2n[3], !.loc = <<>>, !.linked = FALSE])
      PROVE  Books(F)'
  <2>1. n2c' = << <<Num(0)>>, dir[k].loc, <<Num(dir[k].chunks)>> >>
    <3>1. << <<Num(0)>>, dir[k].loc, <<Num(dir[k].chunks)>> >> \in Seq(String)
      BY Chunks, NumeralType
    <3> QED BY <1>2, <1>4, <3>1, NewReply
  <2>2. n2c'[2] = dir[k].loc /\ n2c'[3] = <<Num(dir[k].chunks)>>
    BY <2>1
  <2>3. /\ Full(F, dir[k].loc, Atoi(<<Num(dir[k].chunks)>>)) /\ F[dir[k].loc].text = dir[k].text
    BY <1>2, NodeTold
  <2>4. /\ Len(dir') = Len(dir) + 1 /\ DOMAIN dir' = 1..(Len(dir) + 1)
        /\ dir'[Len(dir')].loc = <<>> /\ dir'[Len(dir')].text = dir[k].text
        /\ \A i \in DOMAIN dir : dir'[i].loc = dir[i].loc /\ dir'[i].text = dir[i].text
    BY <1>3, <1>4, CopyMade
  <2>5. NewText' = dir[k].text
    BY <1>4, <2>4 DEF NewText
  <2>6. Jobs(F)'
    BY <1>1, <1>2, <2>2, <2>3, <2>5 DEF Jobs, Told, Full
  <2>7. Places(F)'
    BY <1>2 DEF Places
  <2>8. \A i \in DOMAIN dir' : dir'[i].loc # <<>> => i \in DOMAIN dir
    BY <2>4, Types
  <2>9. Listing(F)'
    BY <1>2, <2>4, <2>8 DEF Books, Listing
  <2>10. Known(F)'
    <3>1. \A i \in DOMAIN dir : i \in DOMAIN dir' /\ dir'[i].loc = dir[i].loc
      BY <2>4, Types
    <3> QED BY <1>2, <3>1 DEF Books, Known
  <2> QED BY <1>2, <2>6, <2>7, <2>9, <2>10 DEF Books, OldKept
<1>5. ASSUME UNCHANGED dir, Reply(<< <<Num(1)>> >>) PROVE Books(F)'
  <2>1. << <<Num(1)>> >> \in Seq(String)
    BY NumeralType
  <2>2. n2c' = << <<Num(1)>> >>
    BY <1>2, <1>5, <2>1, NewReply
  <2>3. Len(n2c') # 3
    BY <2>2
  <2>4. Jobs(F)'
    BY <1>1, <1>2, <2>3 DEF Jobs
  <2> QED BY <1>2, <1>5, <2>4, BooksIdle
<1> QED BY <1>4, <1>5 DEF NameCp

\* A careful user's mv loses no node.
LEMMA NameMvBooks ==
    ASSUME Sync, Entries, Careful => Polite /\ UniqueNames, NEW F, Books(F), NameMv PROVE Books(F)'
<1>1. /\ Takes("mv", Arity("mv")) /\ "mv" \in Words /\ UNCHANGED <<pc, job>> /\ nspc' = "command"
      /\ Takes("mv", 3)
  BY DEF NameMv, Arity, Words, clientVars, Takes
<1>2. /\ n2c = <<>> /\ pc = "mv_ack" /\ nspc = "command"
      /\ Growing = <<>> /\ Growing' = <<>> /\ Leaving = <<>> /\ Leaving' = <<>> /\ Hand = <<>> /\ Hand' = <<>> /\ Extents(F)'
  BY <1>1, TakenBooks DEF Says
<1>3. Jobs(F)' /\ Places(F)' /\ TypeOK
  BY <1>1, <1>2, Types DEF Jobs, Places
<1>4. ASSUME UNCHANGED dir PROVE Books(F)'
  BY <1>2, <1>3, <1>4, BooksIdle
<1>5. ASSUME \A i \in DOMAIN dir' : \E j \in DOMAIN dir : dir'[i].loc = dir[j].loc /\ dir'[i].text = dir[j].text,
             \A i, h \in DOMAIN dir', j \in DOMAIN dir : dir'[i].loc = dir[j].loc /\ dir'[h].loc = dir[j].loc => i = h,
             Careful => \A j \in DOMAIN dir : \E i \in DOMAIN dir' : dir'[i].loc = dir[j].loc
      PROVE  Books(F)'
  <2>1. Listing(F)'
    <3>1. \A i \in DOMAIN dir' : dir'[i].loc # <<>> =>
              dir'[i].loc \in Ours(F) /\ F[dir'[i].loc].text = dir'[i].text /\ dir'[i].loc # Hand'
      BY <1>2, <1>5 DEF Books, Listing
    <3>2. \A i, h \in DOMAIN dir' : dir'[i].loc = dir'[h].loc => i = h
      BY <1>5
    <3> QED BY <3>1, <3>2 DEF Listing
  <2>2. Known(F)'
    BY <1>2, <1>5, BookTypes DEF Books, Known
  <2> QED BY <1>2, <1>3, <2>1, <2>2 DEF Books, OldKept
<1>6. ASSUME NEW k \in DOMAIN dir PROVE
        /\ \A i \in DOMAIN Unlink(k) : Was(k, i) \in DOMAIN dir /\ Was(k, i) # k /\ Unlink(k)[i] = dir[Was(k, i)]
        /\ \A i, h \in DOMAIN Unlink(k) : Was(k, i) = Was(k, h) => i = h
        /\ \A j \in DOMAIN dir : j # k => \E i \in DOMAIN Unlink(k) : Was(k, i) = j
        /\ \A i, j \in DOMAIN dir : dir[i].loc = dir[j].loc => i = j
  <2>1. \A i, j \in DOMAIN dir : dir[i].loc = dir[j].loc => i = j
    BY <1>2, NodeTold
  <2> QED BY <1>3, <2>1, Unlinked
<1>7. ASSUME NEW k \in DOMAIN dir, dir[k].name = c2n[2], dir' = Unlink(k),
             \E h \in DOMAIN dir \ {k} : dir[h].name = c2n[3]
      PROVE  Books(F)'
  <2>1. ~Careful
    <3> SUFFICES ASSUME Careful PROVE FALSE
      OBVIOUS
    <3>1. c2n[2] = c2n[3] \/ ~Exists(c2n[2]) \/ ~Exists(c2n[3])
      BY <1>1, PoliteTakes
    <3> QED BY <1>7, <3>1 DEF Exists, UniqueNames
  <2>2. \A i \in DOMAIN dir' : \E j \in DOMAIN dir : dir'[i].loc = dir[j].loc /\ dir'[i].text = dir[j].text
    BY <1>6, <1>7
  <2>3. \A i, h \in DOMAIN dir', j \in DOMAIN dir : dir'[i].loc = dir[j].loc /\ dir'[h].loc = dir[j].loc => i = h
    BY <1>6, <1>7
  <2> QED BY <1>5, <2>1, <2>2, <2>3
<1>8. ASSUME NEW k \in DOMAIN dir, dir' = Append(Unlink(k), [dir[k] EXCEPT !.name = c2n[3]]) PROVE Books(F)'
  <2> DEFINE rest == Unlink(k)
             new  == [dir[k] EXCEPT !.name = c2n[3]]
             n    == Len(rest) + 1
  <2>1. rest \in Seq(Node) /\ DOMAIN rest = 1..Len(rest) /\ Len(rest) \in Nat
    BY <1>3, Unlinked, LenProperties
  <2>2. new \in Node /\ new.loc = dir[k].loc /\ new.text = dir[k].text
    <3>1. c2n[3] \in String /\ dir[k] \in Node
      BY <1>1, Types, TakesType
    <3> QED BY <3>1 DEF Node
  <2>3. dir' = Append(rest, new)
    BY <1>8
  <2> HIDE DEF new
  <2>4. /\ DOMAIN dir' = DOMAIN rest \cup {n} /\ dir'[n] = new /\ n \notin DOMAIN rest
        /\ \A i \in DOMAIN rest : dir'[i] = rest[i]
    BY <2>1, <2>2, <2>3, AppendProperties
  <2> HIDE DEF rest, n
  <2>5. /\ \A i \in DOMAIN rest : Was(k, i) \in DOMAIN dir /\ Was(k, i) # k /\ dir'[i] = dir[Was(k, i)]
        /\ \A i, h \in DOMAIN rest : Was(k, i) = Was(k, h) => i = h
        /\ \A j \in DOMAIN dir : j # k => \E i \in DOMAIN rest : Was(k, i) = j
        /\ \A i, j \in DOMAIN dir : dir[i].loc = dir[j].loc => i = j
    BY <1>6, <2>4 DEF rest
  <2>6. \A i \in DOMAIN dir' : \E j \in DOMAIN dir : dir'[i].loc = dir[j].loc /\ dir'[i].text = dir[j].text
    BY <2>2, <2>4, <2>5
  <2>7. \A i, h \in DOMAIN dir', j \in DOMAIN dir : dir'[i].loc = dir[j].loc /\ dir'[h].loc = dir[j].loc => i = h
    BY <2>2, <2>4, <2>5
  <2>8. \A j \in DOMAIN dir : \E i \in DOMAIN dir' : dir'[i].loc = dir[j].loc
    BY <2>2, <2>4, <2>5
  <2> QED BY <1>5, <2>6, <2>7, <2>8
<1> QED BY <1>4, <1>7, <1>8 DEF NameMv

LEMMA NamePartsBooks == ASSUME Sync, Entries, NEW F, Books(F), NameParts PROVE Books(F)'
<1>1. /\ c2n # <<>> /\ c2n' = Tail(c2n) /\ UNCHANGED <<pc, job, n2c, d2c>> /\ nspc = "parts" /\ nspc' = "location"
  BY DEF NameParts, clientVars
<1>2. /\ Needs = 2 /\ Needs' = 1 /\ Named' = Named /\ (Owing' <=> Owing)
  <2>1. Needs = 2 /\ Needs' = 1
    BY <1>1 DEF Needs
  <2> QED BY <1>1, <2>1, RestRead
<1>3. /\ Growing' = Growing /\ Grown' = Grown /\ Leaving' = Leaving /\ Hand' = Hand
  <2>1. Growing' = Growing /\ Grown' = Grown /\ Leaving' = Leaving
    BY <1>1, <1>2 DEF Growing, Grown, Leaving
  <2> QED BY <1>2, <2>1 DEF Hand
<1>4. /\ Len(dir') = Len(dir) + 1 /\ DOMAIN dir' = 1..(Len(dir) + 1)
      /\ dir'[Len(dir')].loc = <<>> /\ dir'[Len(dir')].text = nsnew.text
      /\ \A k \in DOMAIN dir : dir'[k] = dir[k]
  BY NamePartsNode
<1>5. NewText' = NewText
  BY <1>1, <1>4 DEF NewText
<1>6. Jobs(F)'
  <2>1. ~(pc \in {"cat_ack", "rm_ack", "cp_ack"} /\ Len(n2c) = 3)
    <3> SUFFICES ASSUME pc \in {"cat_ack", "rm_ack", "cp_ack"}, Len(n2c) = 3 PROVE FALSE
      OBVIOUS
    <3>1. n2c # <<>> /\ pc \in Calls
      BY DEF Calls
    <3> QED BY <1>1, <3>1, IsServed
  <2> QED BY <1>1, <1>5, <2>1 DEF Books, Jobs, Full
<1>7. Places(F)'
  BY <1>2, <1>3, <1>5 DEF Books, Places
<1>8. Listing(F)'
  <2>1. \A i \in DOMAIN dir' : dir'[i].loc # <<>> => i \in DOMAIN dir
    BY <1>4, Types
  <2> QED BY <1>3, <1>4, <2>1 DEF Books, Listing
<1>9. Known(F)'
  <2>1. \A i \in DOMAIN dir : i \in DOMAIN dir' /\ dir'[i].loc = dir[i].loc
    BY <1>4, Types
  <2> QED BY <1>3, <2>1 DEF Books, Known
<1>10. Extents(F)'
  BY <1>1, <1>3, ExtentsSame DEF Books
<1> QED BY <1>6, <1>7, <1>8, <1>9, <1>10 DEF Books, OldKept

\* The file in the client's hands gets its node.
LEMMA NameLocationBooks == ASSUME Sync, Entries, NEW F, Books(F), NameLocation PROVE Books(F)'
<1>1. /\ c2n # <<>> /\ UNCHANGED <<pc, job, n2c, d2c>> /\ nspc = "location" /\ nspc' = "command"
  BY DEF NameLocation, clientVars
<1> DEFINE last == Len(dir)
<1>2. /\ ~Owing /\ Needs = 1 /\ Named # <<>> /\ last \in DOMAIN dir /\ DOMAIN dir' = DOMAIN dir /\ dir[last].loc = <<>>
      /\ dir'[last].loc = Named /\ dir'[last].text = dir[last].text
      /\ \A k \in DOMAIN dir : k # last => dir'[k] = dir[k]
  BY NameLocationEntries
<1>3. Hand = Named /\ NewText = dir[last].text
  BY <1>1, <1>2 DEF Hand, NewText
<1> HIDE DEF last
<1>4. pc \in Calls => n2c = <<>> /\ Len(n2c) # 3
  <2>1. pc \in Calls => n2c = <<>>
    BY <1>1, IsServed
  <2> QED BY <2>1
<1>5. Growing' = Growing /\ Grown' = Grown /\ Leaving' = Leaving /\ pc # "rm_send" /\ pc # "cp_loc"
  BY <1>1, <1>2 DEF Growing, Grown, Leaving, Owing, Entries, Task
<1>6. Hand' = <<>>
  <2>1. Needs' = 0
    BY <1>1 DEF Needs
  <2>2. Leaving' = <<>>
    BY <1>5 DEF Leaving
  <2>3. Fetched' = <<>>
    BY <1>1, <1>4, <2>2 DEF Fetched, Calls
  <2> QED BY <2>1, <2>3 DEF Hand
<1>7. Hand \in Ours(F) /\ F[Hand].text = NewText
  BY <1>2, <1>3 DEF Books, Places
<1>8. Places(F)'
  BY <1>5, <1>6 DEF Books, Places
<1>9. Jobs(F)'
  BY <1>1, <1>4, <1>5 DEF Books, Jobs, Calls, Full
<1>10. Listing(F)'
  <2>1. ASSUME NEW k \in DOMAIN dir', dir'[k].loc # <<>>
        PROVE  dir'[k].loc \in Ours(F) /\ F[dir'[k].loc].text = dir'[k].text /\ (dir'[k].loc = Hand => k = last)
    BY <1>2, <1>3, <1>7, <2>1 DEF Books, Listing
  <2>2. ASSUME NEW k \in DOMAIN dir', NEW h \in DOMAIN dir', dir'[k].loc # <<>>, dir'[k].loc = dir'[h].loc
        PROVE  k = h
    BY <1>2, <1>3, <2>1, <2>2 DEF Books, Listing
  <2> QED BY <1>6, <2>1, <2>2 DEF Listing
<1>11. Known(F)'
  BY <1>2, <1>3, BookTypes DEF Books, Known
<1>12. Extents(F)'
  BY <1>1, <1>5, ExtentsSame DEF Books
<1> QED BY <1>8, <1>9, <1>10, <1>11, <1>12 DEF Books, OldKept

LEMMA NameServerBooks ==
    ASSUME Sync, Entries, Careful => Polite /\ UniqueNames, NEW F, Books(F), NameServer PROVE Books(F)'
BY NameToBigFSBooks, NamePartsBooks, NameLocationBooks, NameCatBooks, NameRmBooks, NameCpBooks, NameMvBooks,
   NothingIgnored DEF NameServer

-----------------------------------------------------------------------------
(* What the disks will be once all requests under way are served.           *)

Tracks(V) == \A s \in Servers : Ahead(c2d[s], disk[s], V[s])

LEMMA TracksSame == ASSUME NEW V, Tracks(V), UNCHANGED <<c2d, disk>> PROVE Tracks(V)'
BY DEF Tracks

LEMMA NoneWanted ==
    ASSUME TypeOK, NEW s \in Servers, Wanted(s) = 0
    PROVE  \A p \in 1..Len(c2d[s]) : c2d[s][p] \in Request /\ c2d[s][p].op # "cat"
<1> DEFINE A == {p \in 1..Len(c2d[s]) : c2d[s][p] \in CatRequests}
<1>1. c2d[s] \in Seq(Request)
  BY WireCounts
<1>2. IsFiniteSet(A) /\ Cardinality(A) = 0
  BY <1>1, NumberType DEF Wanted, Number
<1>3. \A p \in 1..Len(c2d[s]) : c2d[s][p] \in Request
  BY <1>1, ElementOfSeq
<1> HIDE DEF A
<1>4. A = {}
  BY <1>2, FS_EmptySet
<1> QED BY <1>3, <1>4 DEF A, CatRequests

\* A request is sent.
LEMMA TracksSent ==
    ASSUME TypeOK, NEW V, Tracks(V), NEW s \in Servers, NEW req \in Request, SendData(s, req), disk' = disk,
           Possible(V[s], req), Apply(V[s], req) = V[s] \/ Wanted(s) = 0,
           NEW W, \A t \in Servers : W[t] = IF t = s THEN Apply(V[s], req) ELSE V[t]
    PROVE  Tracks(W)'
<1> SUFFICES ASSUME NEW t \in Servers PROVE Ahead(c2d'[t], disk'[t], W[t])
  BY DEF Tracks
<1>1. CASE t = s
  <2>1. Ahead(c2d[s], disk[s], V[s]) /\ c2d[s] \in Seq(Request)
    BY WireCounts DEF Tracks
  <2>2. Ahead(Append(c2d[s], req), disk[s], Apply(V[s], req))
    <3>1. Wanted(s) = 0 => \A p \in 1..Len(c2d[s]) : c2d[s][p].op # "cat"
      BY NoneWanted
    <3> QED BY <2>1, <3>1, AheadSend
  <2>3. c2d'[s] = Append(c2d[s], req) /\ W[s] = Apply(V[s], req)
    BY SendAppends
  <2> QED BY <1>1, <2>2, <2>3
<1>2. CASE t # s
  BY <1>2, SendAppends DEF Tracks
<1> QED BY <1>1, <1>2

\* One that changes no disk for certain.
LEMMA TracksAsked ==
    ASSUME TypeOK, NEW V, Tracks(V), NEW s \in Servers, NEW req \in Request, SendData(s, req), disk' = disk,
           Possible(V[s], req), Asks(req) \/ req.op = "cat"
    PROVE  Tracks(V)'
<1>1. Apply(V[s], req) = V[s]
  BY DEF Apply, Asks
<1> QED BY <1>1, TracksSent

LEMMA ClientTracks ==
    ASSUME Sync, Entries, NEW F, Books(F), NEW V, Tracks(V), Stores(V, F), Client, ~CpSend, ~RmSend
    PROVE  Tracks(V)'
<1>0. TypeOK /\ disk' = disk
  BY Types DEF Client, PutRefused, PutAccepted, PutLocated, NotFound, Found, CatSend, CatData,
     CpAccepted, CpLocated, MvDoneOrCpRefused, dataVars
<1>1. ASSUME NEW s \in Servers, NEW req \in Request, SendData(s, req), Asks(req) PROVE Tracks(V)'
  BY <1>0, <1>1, TracksAsked DEF Possible
<1>2. CASE PutAccepted
  <2>1. job.text[1] \in Block
    BY <1>2, Types, EmptySeq DEF PutAccepted
  <2>2. PutRequest(job.name, 0, job.text[1]) \in Request
    BY <2>1, Types, PutRequestType
  <2> QED BY <1>1, <1>2, <2>2, Types DEF PutAccepted, PutRequest, Asks
<1>3. CASE PutLocated
  <2> DEFINE next == job.i + 1
             loc  == IF job.i = 0 THEN Head(d2c[Server(job.i)]).loc ELSE job.loc
  <2>1. CASE next < job.chunks
    <3>1. loc \in String /\ next \in Nat /\ job.text[next + 1] \in Block /\ Server(next) \in Servers
      <4>1. job.text[next + 1] \in Block /\ next \in Nat
        <5>1. job.chunks = Len(job.text) /\ next \in Nat
          <6>1. pc = "put_loc"
            BY <1>3 DEF PutLocated
          <6> QED BY <6>1, Types DEF TypeOK, ClientType
        <5>3. job.text \in Seq(Block) /\ Len(job.text) \in Nat
          BY Types
        <5>2. next + 1 \in 1..Len(job.text)
          BY <2>1, <5>1, <5>3
        <5> HIDE DEF next
        <5> QED BY <5>1, <5>2, <5>3
      <4>2. loc \in String
        BY <1>3, Types, ReadAnswerType DEF PutLocated, Answer
      <4> QED BY <4>1, <4>2, ServerType
    <3>2. SendData(Server(next), PutRequest(loc, next, job.text[next + 1]))
      BY <1>3, <2>1 DEF PutLocated
    <3> HIDE DEF loc, next
    <3>3. PutRequest(loc, next, job.text[next + 1]) \in Request
      BY <3>1, PutRequestType
    <3> QED BY <1>1, <3>1, <3>2, <3>3 DEF PutRequest, Asks
  <2>2. CASE ~(next < job.chunks)
    BY <1>0, <1>3, <2>2, TracksSame DEF PutLocated
  <2> QED BY <2>1, <2>2
<1>4. CASE CpAccepted
  <2>1. CASE Atoi(n2c[3]) = 0
    BY <1>0, <1>4, <2>1, TracksSame DEF CpAccepted
  <2>2. CASE Atoi(n2c[3]) # 0
    <3>1. n2c[2] \in String
      BY <1>4, Types, ThreeStrings DEF CpAccepted
    <3>2. ChunkRequest("cp", n2c[2], 0, <<>>) \in Request
      BY <3>1, EmptyString, ChunkRequestType
    <3> QED BY <1>1, <1>4, <2>2, <3>2, Types DEF CpAccepted, ChunkRequest, Asks
  <2> QED BY <2>1, <2>2
<1>5. CASE CatSend
  <2> DEFINE s   == Server(job.i)
             req == ChunkRequest("cat", job.loc, job.i, <<>>)
  <2>1. req \in Request /\ s \in Servers /\ req.op = "cat" /\ SendData(s, req)
    BY <1>5, Types, EmptyString, ChunkRequestType DEF CatSend, ChunkRequest
  <2>2. Full(F, job.loc, job.chunks) /\ job.i < job.chunks
    BY <1>5, Types DEF CatSend, Books, Jobs, Talk, Counters
  <2>3. HasChunk(job.loc, job.i, s, F)
    BY <2>2, Types DEF Full, HasChunk
  <2>4. Possible(V[s], req)
    <3>1. ChunkPath(job.loc, job.i) \in DOMAIN V[s]
      BY <2>1, <2>2, <2>3, Types DEF Stores, Holds, Full
    <3> QED BY <3>1 DEF Possible, ChunkRequest
  <2> HIDE DEF req, s
  <2> QED BY <1>0, <2>1, <2>4, TracksAsked
<1>6. CASE PutRefused \/ NotFound \/ Found \/ CatData \/ CpLocated \/ MvDoneOrCpRefused
  <2>1. c2d' = c2d
    BY <1>6 DEF PutRefused, NotFound, Found, CatData, CpLocated, MvDoneOrCpRefused
  <2> QED BY <1>0, <2>1, TracksSame
<1> QED BY <1>2, <1>3, <1>4, <1>5, <1>6 DEF Client

LEMMA ClientBooks ==
    ASSUME Sync, Entries, NEW F, Books(F), Client, ~CpSend, ~RmSend
    PROVE  Books(F)'
BY ClientReadBooks, FoundBooks, PutAcceptedBooks, PutLocatedBooks, CpAcceptedBooks, CpLocatedBooks, CatBooks DEF Client

\* The ledger with one more chunk of l, or with one less.
Longer(F, l, n)  == [F EXCEPT ![l] = [F[l] EXCEPT !.hi = n]]
Shorter(F, l, n) == [F EXCEPT ![l] = [F[l] EXCEPT !.lo = n]]

LEMMA OneMore ==
    ASSUME NEW F, Books(F), NEW l \in DOMAIN F, l = Growing, Leaving = <<>>, Leaving' = <<>>, NEW i \in Nat, i = Grown,
           Growing' = l => Grown' = i + 1, Growing' # l => Growing' = <<>> /\ i + 1 = Len(F[l].text),
           i < Len(F[l].text), NEW G, G = Longer(F, l, i + 1)
    PROVE  /\ Ledger(G) /\ DOMAIN G = DOMAIN F /\ \A m \in DOMAIN F \ {l} : G[m] = F[m]
           /\ F[l].lo = 0 /\ F[l].hi = i /\ G[l].lo = 0 /\ G[l].hi = i + 1
           /\ \A m \in DOMAIN F : G[m].text = F[m].text
           /\ Extents(G)'
<1>1. F \in [DOMAIN F -> Entry] /\ F[l] \in Entry /\ Ledger(F) /\ l # <<>>
  BY BookTypes DEF Books, Ledger
<1>2. F[l].lo = 0 /\ F[l].hi = i
  BY <1>1 DEF Books, Extents, Low, High
<1>3. /\ [F[l] EXCEPT !.hi = i + 1] \in Entry /\ [F[l] EXCEPT !.hi = i + 1].text = F[l].text
      /\ [F[l] EXCEPT !.hi = i + 1].lo = F[l].lo /\ [F[l] EXCEPT !.hi = i + 1].hi = i + 1
  <2>1. PICK n \in Nat : n = i + 1
    OBVIOUS
  <2>2. /\ [F[l] EXCEPT !.hi = n] \in Entry /\ [F[l] EXCEPT !.hi = n].text = F[l].text
        /\ [F[l] EXCEPT !.hi = n].lo = F[l].lo /\ [F[l] EXCEPT !.hi = n].hi = n
    BY <1>1 DEF Entry
  <2> QED BY <2>1, <2>2
<1>4. /\ DOMAIN G = DOMAIN F /\ G[l] = [F[l] EXCEPT !.hi = i + 1] /\ \A m \in DOMAIN F \ {l} : G[m] = F[m]
      /\ G \in [DOMAIN F -> Entry]
  BY <1>1, <1>3 DEF Longer
<1>5. Ledger(G) /\ G[l].lo = 0 /\ G[l].hi = i + 1 /\ \A m \in DOMAIN F : G[m].text = F[m].text
  BY <1>1, <1>2, <1>3, <1>4 DEF Ledger
<1>6. Extents(G)'
  <2> SUFFICES ASSUME NEW m \in DOMAIN F
               PROVE  /\ G[m].lo = Low(m)' /\ G[m].hi = High(m, G[m].text)'
                      /\ G[m].lo < G[m].hi /\ G[m].hi <= Len(G[m].text)
    BY <1>4 DEF Extents
  <2>1. m # <<>> /\ Low(m) = 0 /\ Low(m)' = 0
    BY <1>1, BookTypes DEF Low
  <2>2. CASE m = l
    <3>1. High(m, G[m].text)' = i + 1
      BY <1>1, <1>5, <2>2 DEF High
    <3>2. 0 < i + 1 /\ i + 1 <= Len(F[l].text)
      BY <1>1, BookTypes
    <3> QED BY <1>5, <2>1, <2>2, <3>1, <3>2
  <2>3. CASE m # l
    <3>1. High(m, F[m].text) = Len(F[m].text) /\ High(m, G[m].text)' = Len(F[m].text) /\ G[m] = F[m]
      BY <1>4, <2>1, <2>3 DEF High
    <3> QED BY <2>1, <3>1 DEF Books, Extents
  <2> QED BY <2>2, <2>3
<1> QED BY <1>2, <1>4, <1>5, <1>6

LEMMA OneLess ==
    ASSUME NEW F, Books(F), NEW l \in DOMAIN F, l = Leaving, Growing = <<>>, job.i < Len(F[l].text), job.i \in Nat,
           NEW G, G = Shorter(F, l, job.i + 1)
    PROVE  /\ Ledger(G) /\ DOMAIN G = DOMAIN F /\ \A m \in DOMAIN F \ {l} : G[m] = F[m]
           /\ F[l].lo = job.i /\ F[l].hi = Len(F[l].text) /\ G[l].lo = job.i + 1 /\ G[l].hi = F[l].hi
           /\ \A m \in DOMAIN F : G[m].text = F[m].text
<1>1. F \in [DOMAIN F -> Entry] /\ F[l] \in Entry /\ Ledger(F) /\ l # <<>>
  BY BookTypes DEF Books, Ledger
<1>2. F[l].lo = job.i /\ F[l].hi = Len(F[l].text)
  BY <1>1 DEF Books, Extents, Low, High
<1>3. /\ [F[l] EXCEPT !.lo = job.i + 1] \in Entry /\ [F[l] EXCEPT !.lo = job.i + 1].text = F[l].text
      /\ [F[l] EXCEPT !.lo = job.i + 1].lo = job.i + 1 /\ [F[l] EXCEPT !.lo = job.i + 1].hi = F[l].hi
  <2>1. job.i + 1 \in Nat
    OBVIOUS
  <2> QED BY <1>1, <2>1 DEF Entry
<1>4. /\ DOMAIN G = DOMAIN F /\ G[l] = [F[l] EXCEPT !.lo = job.i + 1] /\ \A m \in DOMAIN F \ {l} : G[m] = F[m]
      /\ G \in [DOMAIN F -> Entry]
  BY <1>1, <1>3 DEF Shorter
<1> QED BY <1>1, <1>2, <1>3, <1>4 DEF Ledger

\* The next chunk of a copy.
LEMMA CpSendBooks ==
    ASSUME Sync, Entries, NEW F, Books(F), NEW V, Tracks(V), Stores(V, F), CpSend
    PROVE  \E W, G : Tracks(W)' /\ Stores(W, G) /\ Books(G)'
<1> DEFINE i   == job.i
           s   == Server(i)
           l   == job.to
           req == ChunkRequest("cp", job.loc, i, l)
<1> PICK G : G = Longer(F, l, i + 1)
  OBVIOUS
<1> PICK W : W = [t \in Servers |-> IF t = s THEN Apply(V[s], req) ELSE V[t]]
  OBVIOUS
<1>1. /\ pc = "cp_send" /\ SendData(s, req) /\ UNCHANGED <<c2n, n2c, nspc, nsnew, dir, disk, d2c>>
      /\ i # 0 /\ i < job.chunks /\ i \in Nat /\ s \in Servers
  BY Types DEF CpSend, nameVars, dataVars, Talk, Counters, Entries, Task
<1>2. \/ pc' = "cp_send" /\ job' = [job EXCEPT !.i = i + 1] /\ i + 1 < job.chunks
      \/ pc' = "prompt" /\ i + 1 = job.chunks
  <2>1. i + 1 < job.chunks \/ i + 1 = job.chunks
    BY <1>1, Types
  <2> QED BY <2>1 DEF CpSend, Await, Prompt
<1>3. pc' = "cp_send" => job'.i = i + 1 /\ job'.loc = job.loc /\ job'.chunks = job.chunks /\ job'.to = l
  BY <1>2, Types DEF Job
<1>4. /\ Full(F, job.loc, job.chunks) /\ l \in DOMAIN F /\ F[l].text = F[job.loc].text /\ job.loc \in DOMAIN F
      /\ Len(F[l].text) = job.chunks
  BY <1>1 DEF Books, Jobs, Full
<1>5. /\ Growing = l /\ Grown = i /\ Leaving = <<>> /\ Leaving' = <<>> /\ ~Owing /\ ~Owing'
      /\ Fetched = <<>> /\ Fetched' = <<>>
      /\ pc' = "cp_send" => Growing' = l /\ Grown' = i + 1
      /\ pc' = "prompt" => Growing' = <<>>
  BY <1>1, <1>2, <1>3 DEF Growing, Grown, Leaving, Owing, Fetched, Asking
<1>6. Needs' = Needs /\ NewText' = NewText
  BY <1>1 DEF Needs, NewText
<1>7. Hand' = Hand
  <2>1. Named' = Named
    BY <1>1, <1>5, <1>6 DEF Named
  <2> QED BY <1>5, <1>6, <2>1 DEF Hand
<1>8. /\ Ledger(G) /\ DOMAIN G = DOMAIN F /\ \A m \in DOMAIN F \ {l} : G[m] = F[m]
      /\ F[l].lo = 0 /\ F[l].hi = i /\ G[l].lo = 0 /\ G[l].hi = i + 1
      /\ \A m \in DOMAIN F : G[m].text = F[m].text
      /\ Extents(G)'
  <2>1. (Growing' = l => Grown' = i + 1) /\ (Growing' # l => Growing' = <<>> /\ i + 1 = Len(F[l].text)) /\ i < Len(F[l].text)
    <3>1. l # <<>>
      BY <1>4, BookTypes DEF Books
    <3> QED BY <1>1, <1>2, <1>4, <1>5, <3>1
  <2> HIDE DEF i, l
  <2> QED BY <1>1, <1>4, <1>5, <2>1, OneMore
<1>9. job.loc # l
  BY <1>1, <1>4, <1>8, Types DEF Full
<1>10. Jobs(G)'
  BY <1>2, <1>3, <1>4, <1>8, <1>9 DEF Jobs, Full
<1>11. Books(G)'
  <2>1. Growing' \in {Growing, <<>>}
    BY <1>2, <1>5
  <2> QED BY <1>1, <1>6, <1>7, <1>8, <1>10, <2>1, BooksKept
<1>12. ChunkPath(job.loc, i) \in DOMAIN V[s] /\ V[s][ChunkPath(job.loc, i)] = F[l].text[i + 1]
  <2>1. HasChunk(job.loc, i, s, F)
    BY <1>1, <1>4, Types DEF HasChunk, Full
  <2> HIDE DEF i, s, l
  <2> QED BY <1>1, <1>4, <2>1 DEF Stores, Holds
<1>13. /\ req \in Request /\ Possible(V[s], req)
       /\ Apply(V[s], req) = Put(Put(V[s], l, Empty), ChunkPath(l, i), F[l].text[i + 1])
  <2>1. req \in Request /\ req.op = "cp" /\ req.loc = job.loc /\ req.num = i /\ req.to = l
    BY <1>1, Types, ChunkRequestType DEF ChunkRequest
  <2>2. ~Asks(req)
    BY <1>1, <2>1 DEF Asks
  <2> HIDE DEF req, i, s, l
  <2> QED BY <1>12, <2>1, <2>2 DEF Possible, Apply
<1>14. Tracks(W)'
  <2>1. Wanted(s) = 0
    BY <1>1, Types DEF Talk, Dialogue, Talks, Silent
  <2> HIDE DEF req, s
  <2> QED BY <1>1, <1>13, <2>1, Types, TracksSent
<1>15. Stores(W, G)
  <2> SUFFICES ASSUME NEW t \in Servers PROVE Holds(W[t], t, G)
    BY DEF Stores
  <2>1. W[t] = IF t = s THEN Put(Put(V[t], l, Empty), ChunkPath(l, i), F[l].text[i + 1]) ELSE V[t]
    BY <1>13
  <2>2. Holds(V[t], t, F) /\ Ledger(F)
    BY DEF Stores, Books
  <2> HIDE DEF i, l
  <2> QED BY <1>1, <1>4, <1>8, <2>1, <2>2, HoldsGrown
<1> QED BY <1>11, <1>14, <1>15

\* The next chunk of a file that is removed; with the last one its place is
\* free again, though a data server may still hold all of it.
LEMMA RmSendBooks ==
    ASSUME Sync, Entries, NEW F, Books(F), NEW V, Tracks(V), Stores(V, F), RmSend
    PROVE  \E W, G : Tracks(W)' /\ Stores(W, G) /\ Books(G)'
<1> DEFINE i   == job.i
           s   == Server(i)
           l   == job.loc
           req == ChunkRequest("rm", l, i, <<>>)
<1> PICK H : H = Shorter(F, l, i + 1)
  OBVIOUS
<1> PICK W : W = [t \in Servers |-> IF t = s THEN Apply(V[s], req) ELSE V[t]]
  OBVIOUS
<1>1. /\ pc = "rm_send" /\ SendData(s, req) /\ UNCHANGED <<c2n, n2c, nspc, nsnew, dir, disk, d2c>>
      /\ i < job.chunks /\ i \in Nat /\ s \in Servers /\ nspc = "command"
  BY Types DEF RmSend, nameVars, dataVars, Entries, Task
<1>2. \/ pc' = "rm_send" /\ job' = [job EXCEPT !.i = i + 1] /\ i + 1 < job.chunks
      \/ pc' = "prompt" /\ i + 1 = job.chunks
  <2>1. i + 1 < job.chunks \/ i + 1 = job.chunks
    BY <1>1, Types
  <2> QED BY <2>1 DEF RmSend, Await, Prompt
<1>3. pc' = "rm_send" => job'.i = i + 1 /\ job'.loc = l /\ job'.chunks = job.chunks
  BY <1>2, Types DEF Job
<1>4. l \in DOMAIN F /\ Len(F[l].text) = job.chunks /\ l # <<>>
  BY <1>1, BookTypes DEF Books, Jobs
<1>5. /\ Growing = <<>> /\ Growing' = <<>> /\ Leaving = l /\ Needs = 0 /\ Needs' = 0 /\ Hand = l /\ Hand' = Leaving'
      /\ pc' = "rm_send" => Leaving' = l
      /\ pc' = "prompt" => Leaving' = <<>>
  <2>1. Growing = <<>> /\ Growing' = <<>> /\ Leaving = l /\ Fetched = Leaving /\ Fetched' = Leaving'
    BY <1>1, <1>2, Elsewhere, ElsewhereNext DEF Leaving
  <2>2. Needs = 0 /\ Needs' = 0
    BY <1>1 DEF Needs
  <2>3. (pc' = "rm_send" => Leaving' = l) /\ (pc' = "prompt" => Leaving' = <<>>)
    BY <1>3 DEF Leaving
  <2> QED BY <2>1, <2>2, <2>3 DEF Hand
<1>6. /\ Ledger(H) /\ DOMAIN H = DOMAIN F /\ \A m \in DOMAIN F \ {l} : H[m] = F[m]
      /\ F[l].lo = i /\ F[l].hi = Len(F[l].text) /\ H[l].lo = i + 1 /\ H[l].hi = F[l].hi
      /\ \A m \in DOMAIN F : H[m].text = F[m].text
  BY <1>1, <1>4, <1>5, OneLess
<1>7. /\ req \in Request /\ Possible(V[s], req) /\ Apply(V[s], req) = Without(V[s], l, i)
  <2>1. req \in Request /\ req.op = "rm" /\ req.loc = l /\ req.num = i
    BY <1>1, Types, EmptyString, ChunkRequestType DEF ChunkRequest
  <2> HIDE DEF req, s
  <2> QED BY <2>1 DEF Possible, Apply, Without
<1>8. Tracks(W)'
  <2>1. Wanted(s) = 0
    BY <1>1, Types DEF Talk, Dialogue, Talks, Silent
  <2> HIDE DEF req, s
  <2> QED BY <1>1, <1>7, <2>1, Types, TracksSent
<1>9. Stores(W, H)
  <2> SUFFICES ASSUME NEW t \in Servers PROVE Holds(W[t], t, H)
    BY DEF Stores
  <2>1. W[t] = IF t = s THEN Without(V[t], l, i) ELSE V[t]
    BY <1>7
  <2>2. Holds(V[t], t, F) /\ Ledger(F) /\ i < F[l].hi /\ H[l].text = F[l].text
    BY <1>1, <1>4, <1>6 DEF Stores, Books
  <2> HIDE DEF i, l
  <2>3. /\ Ledger(H) /\ DOMAIN H = DOMAIN F /\ (\A m \in DOMAIN F \ {l} : H[m] = F[m]) /\ l \in DOMAIN F /\ i \in Nat
        /\ F[l].lo = i /\ H[l].lo = i + 1 /\ H[l].hi = F[l].hi
    BY <1>1, <1>4, <1>6
  <2> QED BY <2>1, <2>2, <2>3, HoldsShrunk
<1>10. \A m \in DOMAIN F \ {l} : /\ F[m].lo = 0 /\ F[m].hi = Len(F[m].text) /\ 0 < F[m].hi /\ F[m].hi <= Len(F[m].text)
                                 /\ m # <<>>
  BY <1>5, BookTypes DEF Books, Extents, Low, High
<1>11. CASE pc' = "rm_send"
  <2>1. Extents(H)'
    <3> SUFFICES ASSUME NEW m \in DOMAIN F
                 PROVE  /\ H[m].lo = Low(m)' /\ H[m].hi = High(m, H[m].text)'
                        /\ H[m].lo < H[m].hi /\ H[m].hi <= Len(H[m].text)
      BY <1>6 DEF Extents
    <3>1. High(m, H[m].text)' = Len(F[m].text)
      BY <1>4, <1>5, <1>6, <1>10 DEF High
    <3>2. CASE m = l
      <4>1. Low(m)' = i + 1
        BY <1>3, <1>5, <1>11, <3>2 DEF Low
      <4>2. i + 1 < Len(F[l].text) /\ Len(F[l].text) <= Len(F[l].text)
        BY <1>2, <1>4, <1>11, Types
      <4> QED BY <1>6, <3>1, <3>2, <4>1, <4>2
    <3>3. CASE m # l
      <4>1. Low(m)' = 0
        BY <1>5, <1>11, <3>3 DEF Low
      <4> QED BY <1>6, <1>10, <3>1, <3>3, <4>1
    <3> QED BY <3>2, <3>3
  <2>2. Jobs(H)'
    BY <1>3, <1>4, <1>6, <1>11 DEF Jobs
  <2>3. NewText' = NewText
    BY <1>1 DEF NewText
  <2>4. Books(H)'
    BY <1>1, <1>5, <1>6, <1>11, <2>1, <2>2, <2>3, BooksKept
  <2> QED BY <1>8, <1>9, <2>4
<1>12. CASE pc' = "prompt" /\ i + 1 = job.chunks
  <2> PICK G : G = [m \in DOMAIN F \ {l} |-> F[m]]
    OBVIOUS
  <2>1. /\ DOMAIN G = DOMAIN F \ {l} /\ \A m \in DOMAIN G : G[m] = F[m]
        /\ Ledger(F) /\ Ledger(G)
    BY DEF Books, Ledger
  <2>2. Stores(W, G)
    <3> SUFFICES ASSUME NEW t \in Servers PROVE Holds(W[t], t, G)
      BY DEF Stores
    <3>1. Holds(W[t], t, H)
      BY <1>9 DEF Stores
    <3>2. \A m \in DOMAIN H \cap DOMAIN G : G[m] = H[m]
      BY <1>6, <2>1
    <3>3. \A m \in DOMAIN H \ DOMAIN G : H[m].hi <= H[m].lo
      BY <1>4, <1>6, <1>12, <2>1, Types
    <3>4. \A m \in DOMAIN G \ DOMAIN H : G[m].hi <= G[m].lo
      BY <1>6, <2>1
    <3> QED BY <1>6, <2>1, <3>1, <3>2, <3>3, <3>4, EmptyEntries
  <2>3. l \notin OldLocs /\ Ours(G) = Ours(F) \ {l}
    BY <1>4, <1>5, <2>1 DEF Books, Places, Ours
  <2>4. OldKept(G)'
    BY <2>1, <2>3 DEF Books, OldKept, OldLocs
  <2>5. Extents(G)'
    BY <1>5, <1>10, <1>12, <2>1 DEF Extents, Low, High
  <2>6. Places(G)' /\ Jobs(G)'
    BY <1>5, <1>12 DEF Places, Jobs
  <2>7. Listing(G)'
    <3>1. \A k \in DOMAIN dir : dir[k].loc # <<>> =>
              dir[k].loc \in Ours(G) /\ G[dir[k].loc].text = dir[k].text /\ dir[k].loc # Hand'
      BY <1>5, <1>12, <2>1, <2>3 DEF Books, Listing, Ours
    <3> QED BY <1>1, <3>1 DEF Books, Listing
  <2>8. Known(G)'
    BY <1>1, <1>5, <2>1 DEF Books, Known
  <2>9. Books(G)'
    BY <2>1, <2>4, <2>5, <2>6, <2>7, <2>8 DEF Books
  <2> QED BY <1>8, <2>2, <2>9
<1> QED BY <1>2, <1>11, <1>12

LEMMA ClientDisks ==
    ASSUME Sync, Entries, NEW F, Books(F), NEW V, Tracks(V), Stores(V, F), Client
    PROVE  \E W, G : Tracks(W)' /\ Stores(W, G) /\ Books(G)'
BY CpSendBooks, RmSendBooks, ClientTracks, ClientBooks

-----------------------------------------------------------------------------
(* The data servers.                                                       *)

\* A request that was foreseen when it was sent: the disks become what they
\* were to become, and nobody dies.
LEMMA ServedTracks ==
    ASSUME Talk, NEW s \in Servers, DataCat(s) \/ DataRm(s) \/ (DataCp(s) /\ Head(c2d[s]).num # 0), NEW V, Tracks(V)
    PROVE  Tracks(V)' /\ UNCHANGED dsup
<1> DEFINE req  == Head(c2d[s])
           path == ChunkPath(req.loc, req.num)
<1>1. TypeOK /\ disk = [t \in Servers |-> disk[t]]
  BY DEF Talk, TypeOK, DataType
<1>2. PICK op : Requested(s, op)
  BY OthersServed
<1>3. /\ c2d[s] # <<>> /\ c2d[s] \in Seq(Request) /\ req.op = op /\ c2d'[s] = Tail(c2d[s])
      /\ \A t \in Servers : t # s => c2d'[t] = c2d[t]
  BY <1>1, <1>2, ServeTakes
<1>4. Possible(disk[s], req) /\ Ahead(c2d'[s], Apply(disk[s], req), V[s])
  BY <1>3, AheadServe DEF Tracks
<1>5. disk'[s] = Apply(disk[s], req) /\ (\A t \in Servers : t # s => disk'[t] = disk[t]) /\ dsup' = dsup
  <2>1. CASE DataCat(s)
    <3>1. req.op = "cat"
      BY <2>1 DEF DataCat, Requested
    <3>2. path \in DOMAIN disk[s]
      BY <1>4, <3>1 DEF Possible, Asks
    <3> QED BY <2>1, <3>1, <3>2 DEF DataCat, Apply
  <2>2. CASE DataRm(s)
    <3>1. req.op = "rm" /\ dsup' = dsup /\ disk' = [disk EXCEPT ![s] = Drop(@, {req.loc, path})]
      BY <2>2 DEF DataRm, Requested
    <3>2. Apply(disk[s], req) = Drop(disk[s], {req.loc, path})
      BY <3>1 DEF Apply
    <3> HIDE DEF req, path
    <3> QED BY <1>1, <3>1, <3>2
  <2>3. CASE DataCp(s) /\ req.num # 0
    <3>1. req.op = "cp" /\ ~Asks(req)
      BY <2>3 DEF DataCp, Requested, Asks
    <3>2. path \in DOMAIN disk[s]
      BY <1>4, <3>1 DEF Possible
    <3>3. /\ disk' = [disk EXCEPT ![s] = Put(Put(@, req.to, Empty), ChunkPath(req.to, req.num), @[path])]
          /\ UNCHANGED dsup
      BY <2>3, <3>2 DEF DataCp
    <3>4. Apply(disk[s], req) = Put(Put(disk[s], req.to, Empty), ChunkPath(req.to, req.num), disk[s][path])
      BY <3>1 DEF Apply
    <3> HIDE DEF req, path
    <3> QED BY <1>1, <3>3, <3>4
  <2> QED BY <2>1, <2>2, <2>3
<1> HIDE DEF req
<1> QED BY <1>3, <1>4, <1>5 DEF Tracks

LEMMA ServedBooks ==
    ASSUME Sync, NEW s \in Servers, DataCat(s) \/ DataRm(s) \/ (DataCp(s) /\ Head(c2d[s]).num # 0), NEW F, Books(F)
    PROVE  Books(F)'
<1>1. UNCHANGED <<pc, job, nspc, nsnew, dir, c2n, n2c>> /\ (pc \in Asking => d2c' = d2c)
  BY OthersServed, Types
<1>2. /\ Growing' = Growing /\ Grown' = Grown /\ Leaving' = Leaving /\ Fetched' = Fetched /\ (Owing' <=> Owing)
      /\ Needs' = Needs /\ NewText' = NewText
  BY <1>1 DEF Growing, Grown, Leaving, Fetched, Owing, Needs, NewText, Asking
<1>3. Named' = Named
  BY <1>1, <1>2 DEF Named
<1>4. Hand' = Hand
  BY <1>2, <1>3 DEF Hand
<1>5. Jobs(F)'
  BY <1>1, <1>2 DEF Books, Jobs, Told, Full
<1>6. Extents(F)'
  BY <1>1, <1>2, ExtentsSame DEF Books
<1> QED BY <1>1, <1>2, <1>4, <1>5, <1>6, BooksSame

\* A request for a location is alone in its queue: the server's disk is as it
\* will be, but for what the server now chooses.
LEMMA AskedTracks ==
    ASSUME NEW s \in Servers, c2d[s] = <<CurrentAsk>>, c2d'[s] = <<>>,
           \A t \in Servers : t # s => c2d'[t] = c2d[t] /\ disk'[t] = disk[t],
           Talk, NEW V, Tracks(V), NEW W, \A t \in Servers : W[t] = IF t = s THEN disk'[s] ELSE V[t]
    PROVE  V[s] = disk[s] /\ Tracks(W)'
<1>1. Apply(disk[s], CurrentAsk) = disk[s]
  BY DEF Apply, Asks, CurrentAsk, PutRequest, ChunkRequest
<1>2. c2d[s] # <<>> /\ c2d[s] \in Seq(Request) /\ Head(c2d[s]) = CurrentAsk /\ Tail(c2d[s]) = <<>>
  <2>1. c2d[s] \in Seq(Request)
    BY WireCounts DEF Talk
  <2> HIDE DEF CurrentAsk
  <2> QED BY <2>1
<1>3. Ahead(<<>>, disk[s], V[s])
  BY <1>1, <1>2, AheadServe DEF Tracks
<1>4. V[s] = disk[s]
  BY <1>3, AheadEmpty
<1>5. ASSUME NEW t \in Servers PROVE Ahead(c2d'[t], disk'[t], W[t])
  <2>1. CASE t = s
    BY <2>1, AheadEmpty
  <2>2. CASE t # s
    BY <2>2 DEF Tracks
  <2> QED BY <2>1, <2>2
<1> QED BY <1>4, <1>5 DEF Tracks

\* The next chunk of a file that is stored.
LEMMA StoredBooks ==
    ASSUME Sync, AsksLast, Entries, NEW F, Books(F), NEW V, Tracks(V), Stores(V, F),
           NEW s \in Servers, DataToBigFS(s), job.i # 0
    PROVE  \E W, G : Tracks(W)' /\ Stores(W, G) /\ Books(G)'
<1> DEFINE i == job.i
           l == job.loc
<1> PICK G : G = Longer(F, l, i + 1)
  OBVIOUS
<1> PICK W : W = [t \in Servers |-> IF t = s THEN disk'[s] ELSE V[t]]
  OBVIOUS
<1>1. UNCHANGED <<pc, job, nspc, nsnew, dir, c2n, n2c>>
  BY DEF DataToBigFS, clientVars, nameVars
<1>2. /\ pc = "put_loc" /\ s = Server(i) /\ d2c[s] = <<>> /\ c2d[s] = <<CurrentAsk>> /\ c2d'[s] = <<>>
      /\ \A t \in Servers : t # s => c2d'[t] = c2d[t] /\ d2c'[t] = d2c[t] /\ disk'[t] = disk[t]
  BY Types, StoredAt
<1>3. PICK q \in Candidates(CurrentAsk.loc) :
         /\ Chosen(disk[s], CurrentAsk, q) /\ d2c'[s] = <<Located(q)>>
         /\ disk'[s] = Put(Put(disk[s], q, Empty), ChunkPath(q, i), job.text[i + 1])
  BY Types, StoredAt
<1>4. /\ CurrentAsk.loc = l /\ CurrentAsk.count = Count(i)
  BY <1>2 DEF CurrentAsk, PutRequest
<1>5. V[s] = disk[s] /\ Tracks(W)'
  <2>1. Talk /\ \A t \in Servers : W[t] = IF t = s THEN disk'[s] ELSE V[t]
    BY Types
  <2> QED BY <1>2, <2>1, AskedTracks
<1>6. /\ l \in DOMAIN F /\ F[l].text = job.text /\ i \in Nat /\ i < Len(F[l].text)
  BY <1>2, Types DEF Books, Jobs, Entries, Task, TypeOK, ClientType
<1>7. /\ Growing = l /\ Growing' = l /\ Grown = i /\ Grown' = i + 1 /\ Leaving = <<>> /\ Leaving' = <<>>
      /\ Fetched = <<>> /\ Fetched' = <<>> /\ ~Owing /\ ~Owing'
  <2>1. d2c'[s] # <<>>
    BY <1>3
  <2> QED BY <1>1, <1>2, <2>1 DEF Growing, Grown, Leaving, Fetched, Owing, Asking
<1>8. /\ Ledger(G) /\ DOMAIN G = DOMAIN F /\ \A m \in DOMAIN F \ {l} : G[m] = F[m]
      /\ F[l].lo = 0 /\ F[l].hi = i /\ G[l].lo = 0 /\ G[l].hi = i + 1
      /\ \A m \in DOMAIN F : G[m].text = F[m].text
      /\ Extents(G)'
  BY <1>6, <1>7, OneMore
<1>9. q = l
  <2>1. ASSUME Count(i) = 0, l \in DOMAIN disk[s] PROVE FALSE
    <3>1. s = i
      BY <1>2, <1>6, <2>1, ServerOf
    <3>2. Plain(l) /\ Ledger(F) /\ Holds(V[s], s, F)
      BY <1>6, BookTypes DEF Books, Stores
    <3>3. HasMarker(l, s, F)
      BY <1>5, <2>1, <3>2, MarkerHeld
    <3> QED BY <1>6, <1>8, <3>1, <3>3 DEF HasMarker
  <2> QED BY <1>3, <1>4, <2>1 DEF Chosen
<1>10. Needs' = Needs /\ NewText' = NewText
  BY <1>1 DEF Needs, NewText
<1>11. Hand' = Hand
  <2>1. Named' = Named
    BY <1>1, <1>7, <1>10 DEF Named
  <2> QED BY <1>7, <1>10, <2>1 DEF Hand
<1>12. Jobs(G)'
  BY <1>1, <1>2, <1>6, <1>8 DEF Jobs
<1>13. Books(G)'
  BY <1>1, <1>7, <1>8, <1>10, <1>11, <1>12, BooksKept
<1>14. Stores(W, G)
  <2> SUFFICES ASSUME NEW t \in Servers PROVE Holds(W[t], t, G)
    BY DEF Stores
  <2>1. W[t] = IF t = s THEN Put(Put(V[t], l, Empty), ChunkPath(l, i), F[l].text[i + 1]) ELSE V[t]
    BY <1>3, <1>5, <1>6, <1>9
  <2>2. Holds(V[t], t, F) /\ Ledger(F) /\ s = Server(i)
    BY <1>2 DEF Stores, Books
  <2> HIDE DEF i, l
  <2> QED BY <1>6, <1>8, <2>1, <2>2, HoldsGrown
<1> QED BY <1>5, <1>13, <1>14

\* A place is found for a new file: the ledger gets an entry.
NewEntry(F, q, text) ==
    [m \in DOMAIN F \cup {q} |-> IF m = q THEN [text |-> text, lo |-> 0, hi |-> 0] ELSE F[m]]

PlacedAt(W, V, q, text) ==
    \A t \in Servers : W[t] = IF t = Server(0) THEN Put(Put(V[t], q, Empty), ChunkPath(q, 0), text[1]) ELSE V[t]

LEMMA PlaceFound ==
    ASSUME Sync, NEW F, Books(F), NEW V, Stores(V, F), Owing, UNCHANGED <<pc, job, nspc, nsnew, dir, c2n, n2c>>,
           NEW q \in String, Plain(q), q \notin DOMAIN V[Server(0)],
           d2c[Server(0)] = <<>>, d2c'[Server(0)] = <<Located(q)>>,
           NEW text \in Seq(Block), text = NewText, Len(text) > 0,
           NEW W, PlacedAt(W, V, q, text)
    PROVE  \E G : Stores(W, G) /\ Books(G)'
<1> PICK E : E = NewEntry(F, q, text)
  OBVIOUS
<1> PICK G : G = Longer(E, q, 1)
  OBVIOUS
<1>1. /\ q # <<>> /\ Ledger(F) /\ <<>> \notin DOMAIN F
      /\ Server(0) = 0 /\ 0 \in Servers /\ job.i = 0 /\ pc \in Asking /\ pc # "rm_send" /\ pc # "rm_ack" /\ pc \notin Calls
  <2>1. Server(0) = 0 /\ 0 \in Servers
    BY ServerOf
  <2>2. job.i = 0 /\ pc \in Asking /\ pc # "rm_send" /\ pc # "rm_ack" /\ pc \notin Calls
    BY Types DEF Talk, Counters, Owing, Asking, Calls
  <2> QED BY <2>1, <2>2, BookTypes DEF Plain, Books
<1>2. /\ Growing = <<>> /\ Growing' = q /\ Grown' = 1 /\ Leaving = <<>> /\ Leaving' = <<>> /\ Owing'
  <2>1. Owing' /\ d2c'[Server(0)] # <<>> /\ Head(d2c'[Server(0)]).loc = q
    BY DEF Owing, Located
  <2>2. Server(job'.i) = Server(0)
    BY <1>1
  <2>3. pc' \in Asking /\ job'.i = 0 /\ d2c'[Server(job'.i)] # <<>>
    BY <1>1, <2>1, <2>2
  <2>4. Grown' = job'.i + 1 /\ job'.i + 1 = 1
    BY <2>1, <2>3 DEF Grown
  <2> QED BY <1>1, <2>1, <2>2, <2>4 DEF Growing, Leaving
<1>3. q \notin DOMAIN F
  <2> SUFFICES ASSUME q \in DOMAIN F PROVE FALSE
    OBVIOUS
  <2>1. F[q].lo = 0 /\ F[q].lo < F[q].hi
    BY <1>1, <1>2 DEF Books, Extents, Low
  <2>2. HasMarker(q, 0, F)
    BY <2>1 DEF HasMarker
  <2> QED BY <1>1, <2>2 DEF Stores, Holds
<1>4. /\ DOMAIN E = DOMAIN F \cup {q} /\ E[q] = [text |-> text, lo |-> 0, hi |-> 0]
      /\ \A m \in DOMAIN F : E[m] = F[m]
  BY <1>3 DEF NewEntry
<1>5. Ledger(E)
  <2>1. [text |-> text, lo |-> 0, hi |-> 0] \in Entry
    BY DEF Entry
  <2>2. \A m \in DOMAIN F : F[m] \in Entry
    BY <1>1 DEF Ledger
  <2>3. \A m \in DOMAIN E : E[m] \in Entry
    BY <1>4, <2>1, <2>2
  <2>4. E \in [DOMAIN E -> Entry]
    BY <2>3 DEF NewEntry
  <2> QED BY <1>1, <1>4, <2>4 DEF Ledger
<1>6. /\ DOMAIN G = DOMAIN E /\ \A m \in DOMAIN E \ {q} : G[m] = E[m]
      /\ G[q].text = text /\ G[q].lo = 0 /\ G[q].hi = 1 /\ Ledger(G)
  <2>1. E[q] \in Entry /\ E \in [DOMAIN E -> Entry]
    BY <1>4, <1>5 DEF Ledger
  <2>2. /\ [E[q] EXCEPT !.hi = 1] \in Entry /\ [E[q] EXCEPT !.hi = 1].text = E[q].text
        /\ [E[q] EXCEPT !.hi = 1].lo = E[q].lo /\ [E[q] EXCEPT !.hi = 1].hi = 1
    BY <2>1 DEF Entry
  <2>3. /\ DOMAIN G = DOMAIN E /\ G[q] = [E[q] EXCEPT !.hi = 1] /\ (\A m \in DOMAIN E \ {q} : G[m] = E[m])
        /\ G \in [DOMAIN E -> Entry]
    BY <1>4, <2>1, <2>2 DEF Longer
  <2> QED BY <1>4, <1>5, <2>2, <2>3 DEF Ledger
<1>7. Stores(W, G)
  <2> SUFFICES ASSUME NEW t \in Servers PROVE Holds(W[t], t, G)
    BY DEF Stores
  <2>1. Holds(V[t], t, F)
    BY DEF Stores
  <2>2. Holds(V[t], t, E)
    BY <1>1, <1>3, <1>4, <1>5, <2>1, EmptyEntries
  <2>3. W[t] = IF t = Server(0) THEN Put(Put(V[t], q, Empty), ChunkPath(q, 0), E[q].text[0 + 1]) ELSE V[t]
    BY <1>4 DEF PlacedAt
  <2>4. E[q].lo = 0 /\ E[q].hi = 0 /\ E[q].text = text /\ q \in DOMAIN E /\ 0 + 1 = 1 /\ 0 \in Nat
    BY <1>4
  <2> QED BY <1>5, <1>6, <2>2, <2>3, <2>4, HoldsGrown
<1>8. DOMAIN G = DOMAIN F \cup {q} /\ \A m \in DOMAIN F : G[m] = F[m] /\ m # q
  BY <1>3, <1>4, <1>6
<1>9. q \notin OldLocs /\ \A m \in Ours(F) : m \in Ours(G) /\ m \in DOMAIN F
  BY <1>3, <1>8 DEF Books, OldKept, OldLocs, Ours
<1>10. Hand = <<>> /\ Hand' = q /\ NewText' = NewText
  <2>1. Needs > 0
    BY <1>1, Types DEF Sync, InCall
  <2>2. Needs' = Needs /\ NewText' = NewText
    BY DEF Needs, NewText
  <2> QED BY <1>2, <2>1, <2>2 DEF Hand
<1>11. OldKept(G)'
  BY <1>8 DEF Books, OldKept
<1>12. Extents(G)'
  <2>1. \A m \in DOMAIN F : F[m].lo = 0 /\ F[m].hi = Len(F[m].text) /\ F[m].lo < F[m].hi /\ F[m].hi <= Len(F[m].text)
    BY <1>1, <1>2 DEF Books, Extents, Low, High
  <2>2. 0 < 1 /\ 1 <= Len(text)
    BY LenProperties
  <2> QED BY <1>1, <1>2, <1>6, <1>8, <2>1, <2>2 DEF Extents, Low, High
<1>13. Places(G)'
  BY <1>2, <1>6, <1>8, <1>9, <1>10 DEF Places, Ours
<1>14. Listing(G)'
  <2>1. \A k \in DOMAIN dir : dir[k].loc # <<>> =>
            dir[k].loc \in Ours(G) /\ G[dir[k].loc].text = dir[k].text /\ dir[k].loc # q
    BY <1>3, <1>8, <1>9 DEF Books, Listing
  <2> QED BY <1>10, <2>1 DEF Books, Listing
<1>15. Jobs(G)'
  <2>1. pc = "cp_loc" => Full(F, job.loc, job.chunks) /\ F[job.loc].text = NewText
    BY DEF Books, Jobs
  <2>2. pc \in {"put_loc", "cp_loc"}
    BY DEF Owing
  <2> QED BY <1>1, <1>8, <1>10, <2>1, <2>2 DEF Jobs, Full
<1>16. Known(G)'
  BY <1>1, <1>8, <1>10 DEF Books, Known
<1>17. Books(G)'
  BY <1>6, <1>11, <1>12, <1>13, <1>14, <1>15, <1>16 DEF Books
<1> QED BY <1>7, <1>17

\* The first chunk of a file that is stored.
LEMMA FirstStoredBooks ==
    ASSUME NoNumerals, Sync, AsksLast, Entries, NEW F, Books(F), NEW V, Tracks(V), Stores(V, F),
           NEW s \in Servers, DataToBigFS(s), job.i = 0
    PROVE  \E W, G : Tracks(W)' /\ Stores(W, G) /\ Books(G)'
<1> PICK W : W = [t \in Servers |-> IF t = s THEN disk'[s] ELSE V[t]]
  OBVIOUS
<1>1. UNCHANGED <<pc, job, nspc, nsnew, dir, c2n, n2c>>
  BY DEF DataToBigFS, clientVars, nameVars
<1>2. /\ pc = "put_loc" /\ s = Server(0) /\ d2c[s] = <<>> /\ c2d[s] = <<CurrentAsk>> /\ c2d'[s] = <<>>
      /\ \A t \in Servers : t # s => c2d'[t] = c2d[t] /\ d2c'[t] = d2c[t] /\ disk'[t] = disk[t]
  BY Types, StoredAt
<1>3. PICK q \in Candidates(CurrentAsk.loc) :
         /\ Chosen(disk[s], CurrentAsk, q) /\ d2c'[s] = <<Located(q)>>
         /\ disk'[s] = Put(Put(disk[s], q, Empty), ChunkPath(q, 0), job.text[0 + 1])
  BY Types, StoredAt
<1>4. CurrentAsk.loc = job.name /\ CurrentAsk.count = 0 /\ Plain(job.name) /\ job.name \in String
  <2>1. Count(0) = 0
    BY ServerOf
  <2> QED BY <1>2, <2>1, Types DEF CurrentAsk, PutRequest, Entries, Task, NoNumerals
<1>5. V[s] = disk[s] /\ Tracks(W)'
  <2>1. Talk /\ \A t \in Servers : W[t] = IF t = s THEN disk'[s] ELSE V[t]
    BY Types
  <2> QED BY <1>2, <2>1, AskedTracks
<1>6. q \in String /\ Plain(q) /\ q \notin DOMAIN disk[s]
  <2>1. CASE job.name \in DOMAIN disk[s]
    <3>1. FreeVariant(disk[s], job.name, q)
      BY <1>3, <1>4, <2>1 DEF Chosen
    <3> QED BY <1>4, <3>1, FreePlaces
  <2>2. CASE job.name \notin DOMAIN disk[s]
    BY <1>3, <1>4, <2>2 DEF Chosen
  <2> QED BY <2>1, <2>2
<1>7. job.text = NewText /\ Len(job.text) > 0 /\ Owing /\ job.text \in Seq(Block)
  BY <1>2, Types DEF Entries, Task, TypeOK, ClientType, Owing
<1>8. PlacedAt(W, V, q, job.text)
  BY <1>2, <1>3, <1>5 DEF PlacedAt
<1>9. \E G : Stores(W, G) /\ Books(G)'
  <2> PICK text : text = job.text
    OBVIOUS
  <2>1. q \notin DOMAIN V[Server(0)] /\ d2c[Server(0)] = <<>> /\ d2c'[Server(0)] = <<Located(q)>>
    BY <1>2, <1>3, <1>5, <1>6
  <2>2. text = NewText /\ Len(text) > 0 /\ text \in Seq(Block) /\ Owing
    BY <1>7
  <2>3. PlacedAt(W, V, q, text)
    BY <1>8
  <2>4. q \in String /\ Plain(q)
    BY <1>6
  <2> QED BY <1>1, <2>1, <2>2, <2>3, <2>4, PlaceFound
<1> QED BY <1>5, <1>9

\* The first chunk of a copy: it is there.
LEMMA CopiedBooks ==
    ASSUME Sync, AsksLast, Entries, NEW F, Books(F), NEW V, Tracks(V), Stores(V, F),
           NEW s \in Servers, DataCp(s), Head(c2d[s]).num = 0
    PROVE  UNCHANGED dsup /\ \E W, G : Tracks(W)' /\ Stores(W, G) /\ Books(G)'
<1> PICK W : W = [t \in Servers |-> IF t = s THEN disk'[s] ELSE V[t]]
  OBVIOUS
<1>1. UNCHANGED <<pc, job, nspc, nsnew, dir, c2n, n2c>>
  BY DEF DataCp, clientVars, nameVars
<1>2. /\ pc = "cp_loc" /\ s = Server(0) /\ d2c[s] = <<>> /\ c2d[s] = <<CurrentAsk>> /\ c2d'[s] = <<>>
      /\ \A t \in Servers : t # s => c2d'[t] = c2d[t] /\ d2c'[t] = d2c[t] /\ disk'[t] = disk[t]
  BY Types, CopiedAt
<1>3. PICK q : /\ FreeVariant(disk[s], job.loc, q) /\ d2c'[s] = <<Located(q)>>
               /\ ChunkPath(job.loc, 0) \in DOMAIN disk[s] =>
                     /\ UNCHANGED dsup
                     /\ disk'[s] = Put(Put(disk[s], q, Empty), ChunkPath(q, 0), disk[s][ChunkPath(job.loc, 0)])
  BY Types, CopiedAt
<1>4. V[s] = disk[s] /\ Tracks(W)'
  <2>1. Talk /\ \A t \in Servers : W[t] = IF t = s THEN disk'[s] ELSE V[t]
    BY Types
  <2> QED BY <1>2, <2>1, AskedTracks
<1>5. q \in String /\ Plain(q) /\ q \notin DOMAIN disk[s]
  BY <1>3, Types, FreePlaces
<1>6. Full(F, job.loc, job.chunks) /\ F[job.loc].text = NewText /\ Owing
  BY <1>2 DEF Books, Jobs, Owing
<1>7. NewText \in Seq(Block) /\ Len(NewText) > 0 /\ job.loc \in DOMAIN F /\ F[job.loc].lo = 0 /\ 0 < F[job.loc].hi
  BY <1>6, BookTypes DEF Full, Books, Extents
<1>8. ChunkPath(job.loc, 0) \in DOMAIN disk[s] /\ disk[s][ChunkPath(job.loc, 0)] = NewText[1]
  <2>1. HasChunk(job.loc, 0, s, F) /\ 0 \in Nat /\ 0 + 1 = 1
    BY <1>2, <1>7 DEF HasChunk
  <2>2. ChunkPath(job.loc, 0) \in DOMAIN V[s] /\ V[s][ChunkPath(job.loc, 0)] = F[job.loc].text[0 + 1]
    BY <1>7, <2>1 DEF Stores, Holds
  <2> QED BY <1>4, <1>6, <2>2
<1>9. PlacedAt(W, V, q, NewText)
  BY <1>2, <1>3, <1>4, <1>8 DEF PlacedAt
<1>10. \E G : Stores(W, G) /\ Books(G)'
  <2> PICK text : text = NewText
    OBVIOUS
  <2>1. q \notin DOMAIN V[Server(0)] /\ d2c[Server(0)] = <<>> /\ d2c'[Server(0)] = <<Located(q)>>
    BY <1>2, <1>3, <1>4, <1>5
  <2>2. text = NewText /\ Len(text) > 0 /\ text \in Seq(Block) /\ Owing
    BY <1>6, <1>7
  <2>3. PlacedAt(W, V, q, text)
    BY <1>9
  <2>4. q \in String /\ Plain(q)
    BY <1>5
  <2> QED BY <1>1, <2>1, <2>2, <2>3, <2>4, PlaceFound
<1> QED BY <1>3, <1>4, <1>8, <1>10

\* No data server dies of what it is asked.
LEMMA ServerDisks ==
    ASSUME NoNumerals, Sync, AsksLast, Entries, NEW F, Books(F), NEW V, Tracks(V), Stores(V, F),
           NEW s \in Servers, DataServer(s)
    PROVE  UNCHANGED dsup /\ \E W, G : Tracks(W)' /\ Stores(W, G) /\ Books(G)'
<1>1. CASE DataToBigFS(s)
  BY <1>1, FirstStoredBooks, StoredBooks DEF DataToBigFS
<1>2. CASE DataCp(s) /\ Head(c2d[s]).num = 0
  BY <1>2, CopiedBooks
<1>3. CASE DataCat(s) \/ DataRm(s) \/ (DataCp(s) /\ Head(c2d[s]).num # 0)
  BY <1>3, ServedTracks, ServedBooks, Types
<1> QED BY <1>1, <1>2, <1>3 DEF DataServer

-----------------------------------------------------------------------------
(* The ledger and what OldPairs and Kept say are on a disk.                 *)

LEMMA KeptPairs ==
    ASSUME NEW s \in Servers, NEW l, NEW text \in Seq(Block), NEW x
    PROVE  x \in Kept(s, l, text) <=>
              \/ \E i \in Nat : i < Len(text) /\ Server(i) = s /\ x = <<ChunkPath(l, i), text[i + 1]>>
              \/ s < Len(text) /\ x = <<l, Empty>>
<1>1. Len(text) \in Nat /\ s \in Nat
  BY LenProperties, BigFSConstants DEF Servers, ConstantsOK
<1>2. \A i : i \in 0..(Len(text) - 1) <=> i \in Nat /\ i < Len(text)
  BY <1>1
<1>3. x \in Kept(s, l, text) <=>
         \/ \E i \in 0..(Len(text) - 1) : Server(i) = s /\ x = <<ChunkPath(l, i), text[i + 1]>>
         \/ Len(text) > s /\ x = <<l, Empty>>
  BY DEF Kept
<1> QED BY <1>1, <1>2, <1>3

\* A file of which nothing is missing is held ...
LEMMA KeptHeld ==
    ASSUME NEW F, Ledger(F), NEW s \in Servers, NEW d, Holds(d, s, F), NEW l \in DOMAIN F,
           F[l].lo = 0, F[l].hi = Len(F[l].text), NEW x \in Kept(s, l, F[l].text)
    PROVE  x[1] \in DOMAIN d /\ d[x[1]] = x[2]
<1>1. F[l].text \in Seq(Block) /\ s \in Nat /\ 0 <= s
  BY BookTypes, BigFSConstants DEF Servers, ConstantsOK
<1>2. CASE \E i \in Nat : i < Len(F[l].text) /\ Server(i) = s /\ x = <<ChunkPath(l, i), F[l].text[i + 1]>>
  <2>1. PICK i \in Nat : i < Len(F[l].text) /\ Server(i) = s /\ x = <<ChunkPath(l, i), F[l].text[i + 1]>>
    BY <1>2
  <2>2. HasChunk(l, i, s, F)
    BY <2>1 DEF HasChunk
  <2>3. ChunkPath(l, i) \in DOMAIN d /\ d[ChunkPath(l, i)] = F[l].text[i + 1]
    BY <2>2 DEF Holds
  <2> QED BY <2>1, <2>3
<1>3. CASE s < Len(F[l].text) /\ x = <<l, Empty>>
  <2>1. HasMarker(l, s, F)
    BY <1>1, <1>3 DEF HasMarker
  <2>2. l \in DOMAIN d /\ d[l] = Empty
    BY <2>1 DEF Holds
  <2> QED BY <1>3, <2>2
<1> QED BY <1>1, <1>2, <1>3, KeptPairs

\* ... and if that is so of all of them, the disk holds nothing else.
LEMMA HeldKept ==
    ASSUME NEW F, Ledger(F), NEW s \in Servers, NEW d, Holds(d, s, F), NEW p \in DOMAIN d,
           \A l \in DOMAIN F : F[l].lo = 0 /\ F[l].hi = Len(F[l].text)
    PROVE  \E l \in DOMAIN F : <<p, d[p]>> \in Kept(s, l, F[l].text)
<1>1. CASE p \in DOMAIN F /\ HasMarker(p, s, F)
  <2>1. F[p].text \in Seq(Block) /\ s < Len(F[p].text) /\ d[p] = Empty
    BY <1>1, BookTypes DEF HasMarker, Holds
  <2>2. <<p, d[p]>> \in Kept(s, p, F[p].text)
    BY <2>1, KeptPairs
  <2> QED BY <1>1, <2>2
<1>2. ASSUME NEW l \in DOMAIN F, NEW i \in Nat, HasChunk(l, i, s, F), p = ChunkPath(l, i)
      PROVE  <<p, d[p]>> \in Kept(s, l, F[l].text)
  <2>1. F[l].text \in Seq(Block) /\ i < Len(F[l].text) /\ Server(i) = s /\ d[p] = F[l].text[i + 1]
    BY <1>2, BookTypes DEF HasChunk, Holds
  <2> QED BY <1>2, <2>1, KeptPairs
<1> QED BY <1>1, <1>2 DEF Holds

\* The ledger at the start.
OldText(l) == (CHOOSE f \in OldFiles : f.loc = l).text
OldLedger  == [l \in OldLocs |-> [text |-> OldText(l), lo |-> 0, hi |-> Len(OldText(l))]]

LEMMA OldEntries ==
    ASSUME NoNumerals
    PROVE  /\ DOMAIN OldLedger = OldLocs /\ Ledger(OldLedger)
           /\ \A f \in OldFiles : f.loc \in OldLocs /\ OldLedger[f.loc].text = f.text
           /\ \A l \in OldLocs : /\ OldLedger[l].lo = 0 /\ OldLedger[l].hi = Len(OldLedger[l].text)
                                 /\ 0 < OldLedger[l].hi
<1>1. \A f \in OldFiles : f.loc \in String /\ f.text \in Seq(Block) /\ Plain(f.loc) /\ f.text # <<>> /\ f.loc \in OldLocs
  BY BigFSConstants DEF ConstantsOK, NoNumerals, OldLocs
<1>2. \A f \in OldFiles : OldText(f.loc) = f.text
  BY DEF OldText, NoNumerals
<1>3. DOMAIN OldLedger = OldLocs /\ \A l \in OldLocs : OldLedger[l] = [text |-> OldText(l), lo |-> 0, hi |-> Len(OldText(l))]
  BY DEF OldLedger
<1>4. ASSUME NEW l \in OldLocs
      PROVE  /\ l \in String /\ Plain(l) /\ OldText(l) \in Seq(Block)
             /\ Len(OldText(l)) \in Nat /\ 0 < Len(OldText(l))
  <2>1. PICK f \in OldFiles : f.loc = l
    BY DEF OldLocs
  <2>2. OldText(l) = f.text /\ f.text \in Seq(Block) /\ f.text # <<>>
    BY <1>1, <1>2, <2>1
  <2>3. Len(f.text) \in Nat /\ Len(f.text) # 0
    BY <2>2, LenProperties, EmptySeq
  <2> QED BY <1>1, <2>1, <2>2, <2>3
<1>5. ASSUME NEW l \in OldLocs PROVE OldLedger[l] \in Entry
  BY <1>3, <1>4 DEF Entry
<1>6. Ledger(OldLedger)
  <2>1. OldLedger \in [OldLocs -> Entry]
    BY <1>5 DEF OldLedger
  <2> QED BY <1>3, <1>4, <2>1 DEF Ledger
<1> HIDE DEF OldLedger
<1> QED BY <1>1, <1>2, <1>3, <1>4, <1>6

LEMMA OldOnce ==
    ASSUME NoNumerals, NEW s \in Servers, NEW x \in OldPairs(s), NEW y \in OldPairs(s), x[1] = y[1]
    PROVE  x = y
<1>1. PICK f \in OldFiles : x \in Kept(s, f.loc, f.text)
  BY DEF OldPairs
<1>2. PICK g \in OldFiles : y \in Kept(s, g.loc, g.text)
  BY DEF OldPairs
<1>3. \A h \in OldFiles : h.loc \in String /\ h.text \in Seq(Block) /\ Plain(h.loc)
  BY BigFSConstants DEF ConstantsOK, NoNumerals
<1>4. /\ \/ \E i \in Nat : Server(i) = s /\ x = <<ChunkPath(f.loc, i), f.text[i + 1]>>
         \/ x = <<f.loc, Empty>>
      /\ \/ \E i \in Nat : Server(i) = s /\ y = <<ChunkPath(g.loc, i), g.text[i + 1]>>
         \/ y = <<g.loc, Empty>>
  BY <1>1, <1>2, <1>3, KeptPairs
<1>5. ASSUME NEW h \in OldFiles, NEW e \in OldFiles, NEW i \in Nat
      PROVE  /\ ChunkPath(h.loc, i) # e.loc
             /\ \A j \in Nat : ChunkPath(h.loc, i) = ChunkPath(e.loc, j) => h = e /\ i = j
  <2>1. h.loc \in String /\ e.loc \in String /\ Plain(e.loc)
    BY <1>3
  <2>2. /\ ~Plain(ChunkPath(h.loc, i))
        /\ \A j \in Nat : ChunkPath(h.loc, i) = ChunkPath(e.loc, j) => h.loc = e.loc /\ i = j
    BY <2>1, ChunkPaths
  <2>3. h.loc = e.loc => h = e
    BY DEF NoNumerals
  <2> QED BY <2>1, <2>2, <2>3
<1>6. ASSUME NEW i \in Nat, x = <<ChunkPath(f.loc, i), f.text[i + 1]>> PROVE x = y
  <2>1. y[1] = ChunkPath(f.loc, i)
    BY <1>6
  <2>2. y # <<g.loc, Empty>>
    <3>1. y[1] # g.loc
      BY <1>5, <2>1
    <3> QED BY <3>1
  <2>3. PICK j \in Nat : y = <<ChunkPath(g.loc, j), g.text[j + 1]>>
    BY <1>4, <2>2
  <2>4. y[1] = ChunkPath(g.loc, j)
    BY <2>3
  <2>5. f = g /\ i = j
    <3>1. ChunkPath(f.loc, i) = ChunkPath(g.loc, j)
      BY <2>1, <2>4
    <3>2. \A k \in Nat : ChunkPath(f.loc, i) = ChunkPath(g.loc, k) => f = g /\ i = k
      BY <1>5
    <3> QED BY <3>1, <3>2
  <2> QED BY <1>6, <2>3, <2>5
<1>7. CASE x = <<f.loc, Empty>>
  <2>1. y[1] = f.loc
    BY <1>7
  <2>2. \A j \in Nat : y # <<ChunkPath(g.loc, j), g.text[j + 1]>>
    <3> SUFFICES ASSUME NEW j \in Nat, y = <<ChunkPath(g.loc, j), g.text[j + 1]>> PROVE FALSE
      OBVIOUS
    <3>1. y[1] = ChunkPath(g.loc, j)
      OBVIOUS
    <3> QED BY <1>5, <2>1, <3>1
  <2>3. y = <<g.loc, Empty>>
    BY <1>4, <2>2
  <2>4. f.loc = g.loc
    BY <2>1, <2>3
  <2> QED BY <1>7, <2>3, <2>4
<1> QED BY <1>4, <1>6, <1>7

LEMMA InitHolds == ASSUME NoNumerals, Init, NEW s \in Servers PROVE Holds(disk[s], s, OldLedger)
<1> PICK F : F = OldLedger
  OBVIOUS
<1>1. /\ DOMAIN F = OldLocs /\ Ledger(F) /\ \A f \in OldFiles : f.loc \in OldLocs /\ F[f.loc].text = f.text
      /\ \A l \in OldLocs : F[l].lo = 0 /\ F[l].hi = Len(F[l].text)
  BY OldEntries
<1>2. disk[s] = [p \in {x[1] : x \in OldPairs(s)} |-> (CHOOSE x \in OldPairs(s) : x[1] = p)[2]]
  BY DEF Init
<1>3. ASSUME NEW x \in OldPairs(s) PROVE x[1] \in DOMAIN disk[s] /\ disk[s][x[1]] = x[2]
  <2>1. (CHOOSE y \in OldPairs(s) : y[1] = x[1]) = x
    BY OldOnce
  <2>2. x[1] \in {y[1] : y \in OldPairs(s)}
    OBVIOUS
  <2>3. disk[s][x[1]] = (CHOOSE y \in OldPairs(s) : y[1] = x[1])[2] /\ x[1] \in DOMAIN disk[s]
    BY <1>2, <2>2
  <2> QED BY <2>1, <2>3
<1>4. ASSUME NEW l \in DOMAIN F, NEW x \in Kept(s, l, F[l].text) PROVE x \in OldPairs(s)
  <2>1. PICK f \in OldFiles : f.loc = l
    BY <1>1 DEF OldLocs
  <2> QED BY <1>1, <1>4, <2>1 DEF OldPairs
<1>5. ASSUME NEW p \in DOMAIN disk[s]
      PROVE  \/ p \in DOMAIN F /\ HasMarker(p, s, F)
             \/ \E l \in DOMAIN F, i \in Nat : HasChunk(l, i, s, F) /\ p = ChunkPath(l, i)
  <2>1. PICK x \in OldPairs(s) : p = x[1]
    BY <1>2
  <2>2. PICK f \in OldFiles : x \in Kept(s, f.loc, f.text)
    BY <2>1 DEF OldPairs
  <2>3. f.loc \in DOMAIN F /\ F[f.loc].text = f.text /\ f.text \in Seq(Block) /\ F[f.loc].lo = 0 /\ F[f.loc].hi = Len(f.text)
    BY <1>1, BookTypes
  <2>4. CASE \E i \in Nat : i < Len(f.text) /\ Server(i) = s /\ x = <<ChunkPath(f.loc, i), f.text[i + 1]>>
    <3>1. PICK i \in Nat : i < Len(f.text) /\ Server(i) = s /\ x = <<ChunkPath(f.loc, i), f.text[i + 1]>>
      BY <2>4
    <3>2. HasChunk(f.loc, i, s, F) /\ p = ChunkPath(f.loc, i)
      BY <2>1, <2>3, <3>1 DEF HasChunk
    <3> QED BY <2>3, <3>2
  <2>5. CASE s < Len(f.text) /\ x = <<f.loc, Empty>>
    <3>1. s \in Nat /\ p = f.loc
      BY <2>1, <2>5, BigFSConstants DEF Servers, ConstantsOK
    <3>2. HasMarker(f.loc, s, F)
      BY <2>3, <2>5, <3>1 DEF HasMarker
    <3> QED BY <2>3, <3>1, <3>2
  <2> QED BY <2>2, <2>3, <2>4, <2>5, KeptPairs
<1>6. ASSUME NEW l \in DOMAIN F, HasMarker(l, s, F) PROVE l \in DOMAIN disk[s] /\ disk[s][l] = Empty
  <2>1. s < Len(F[l].text) /\ F[l].text \in Seq(Block)
    BY <1>1, <1>6, BookTypes DEF HasMarker
  <2>2. <<l, Empty>> \in Kept(s, l, F[l].text)
    BY <2>1, KeptPairs
  <2>3. <<l, Empty>> \in OldPairs(s)
    BY <1>4, <2>2
  <2> QED BY <1>3, <2>3
<1>7. ASSUME NEW l \in DOMAIN F, NEW i \in Nat, HasChunk(l, i, s, F)
      PROVE  ChunkPath(l, i) \in DOMAIN disk[s] /\ disk[s][ChunkPath(l, i)] = F[l].text[i + 1]
  <2>1. i < Len(F[l].text) /\ F[l].text \in Seq(Block) /\ Server(i) = s
    BY <1>1, <1>7, BookTypes DEF HasChunk
  <2>2. <<ChunkPath(l, i), F[l].text[i + 1]>> \in Kept(s, l, F[l].text)
    BY <2>1, KeptPairs
  <2>3. <<ChunkPath(l, i), F[l].text[i + 1]>> \in OldPairs(s)
    BY <1>4, <2>2
  <2> QED BY <1>3, <2>3
<1> QED BY <1>5, <1>6, <1>7 DEF Holds

LEMMA InitBooks == ASSUME NoNumerals, Init PROVE Books(OldLedger)
<1> PICK F : F = OldLedger
  OBVIOUS
<1>1. /\ DOMAIN F = OldLocs /\ Ledger(F) /\ \A f \in OldFiles : f.loc \in OldLocs /\ F[f.loc].text = f.text
      /\ \A l \in OldLocs : F[l].lo = 0 /\ F[l].hi = Len(F[l].text) /\ 0 < F[l].hi
  BY OldEntries
<1>2. pc = "prompt" /\ nspc = "command" /\ DOMAIN dir = {}
  BY DEF Init
<1>3. Growing = <<>> /\ Leaving = <<>> /\ Hand = <<>>
  <2>1. Fetched = <<>> /\ Needs = 0
    BY <1>2 DEF Fetched, Leaving, Needs
  <2> QED BY <1>2, <2>1, Elsewhere DEF Hand
<1>4. Extents(F)
  <2> SUFFICES ASSUME NEW l \in DOMAIN F
               PROVE  /\ F[l].lo = Low(l) /\ F[l].hi = High(l, F[l].text)
                      /\ F[l].lo < F[l].hi /\ F[l].hi <= Len(F[l].text)
    BY DEF Extents
  <2>1. l # <<>> /\ Len(F[l].text) \in Nat
    BY <1>1, BookTypes
  <2>2. Low(l) = 0 /\ High(l, F[l].text) = Len(F[l].text)
    BY <1>3, <2>1 DEF Low, High
  <2> QED BY <1>1, <2>1, <2>2
<1>5. OldKept(F) /\ Places(F) /\ Listing(F) /\ Known(F)
  BY <1>1, <1>2, <1>3 DEF OldKept, Places, Listing, Known
<1>6. Jobs(F)
  BY <1>2 DEF Jobs
<1> QED BY <1>1, <1>4, <1>5, <1>6 DEF Books

-----------------------------------------------------------------------------
(* The invariant.                                                          *)

\* While the conversation with the name server goes on the books are right;
\* once it is lost for good the disks stay as they are but for the requests
\* under way, and those can be served.
Kempt(V) == Sync /\ Entries /\ \E F : Stores(V, F) /\ Books(F)

DiskInv ==
    /\ Course /\ AsksLast /\ \A s \in Servers : dsup[s]
    /\ \E V : Tracks(V) /\ (Lost \/ Kempt(V))

\* What a careful user's care comes to.
Mannerly == Careful => Sync /\ Polite /\ UniqueNames

LEMMA AlwaysMannerly == Spec => []Mannerly
<1>1. CASE Careful
  <2>1. Spec => [](Sync /\ Polite)
    BY <1>1, PoliteAlways
  <2>2. Spec => []UniqueNames
    BY NamesStayUnique
  <2>3. Sync /\ Polite /\ UniqueNames => Mannerly
    BY DEF Mannerly
  <2> QED BY <2>1, <2>2, <2>3, PTL
<1>2. CASE ~Careful
  <2>1. Mannerly
    BY <1>2 DEF Mannerly
  <2> QED BY <2>1, PTL
<1> QED BY <1>1, <1>2

LEMMA InitDisks == ASSUME NoNumerals, Init PROVE DiskInv
<1>1. Sync /\ Course /\ Entries
  BY InitSync, InitEntries DEF Course, Sync
<1>2. AsksLast /\ (\A s \in Servers : dsup[s]) /\ \A s \in Servers : c2d[s] = <<>>
  BY LenProperties DEF Init, AsksLast, AskLast
<1>3. Tracks(disk)
  BY <1>2, AheadEmpty DEF Tracks
<1>4. Stores(disk, OldLedger) /\ Books(OldLedger)
  BY InitHolds, InitBooks DEF Stores
<1> HIDE DEF OldLedger
<1> QED BY <1>1, <1>2, <1>3, <1>4 DEF DiskInv, Kempt

\* A step while the conversation goes on.
LEMMA KemptStep ==
    ASSUME NoNumerals, Mannerly, AsksLast, NEW V, Tracks(V), Kempt(V), [Next]_vars
    PROVE  UNCHANGED dsup /\ \E W : Tracks(W)' /\ (Lost' \/ Kempt(W)')
<1>1. PICK F : Stores(V, F) /\ Books(F)
  BY DEF Kempt
<1>2. Sync /\ Entries
  BY DEF Kempt
<1>3. (Sync /\ Entries)' \/ Lost'
  <2>1. Sync' \/ Lost'
    BY <1>2, StepSync DEF Lost
  <2>2. Entries'
    BY <1>2, StepEntries
  <2> QED BY <2>1, <2>2
<1>4. UNCHANGED dsup /\ \E W, G : Tracks(W)' /\ Stores(W, G) /\ Books(G)'
  <2>1. CASE User
    <3>1. UNCHANGED <<c2d, disk, dsup>>
      BY <2>1 DEF User, StartPut, StartCat, StartGet, StartRm, StartCp, StartMv, dataVars
    <3> QED BY <1>1, <1>2, <2>1, <3>1, TracksSame, UserBooks
  <2>2. CASE Client
    <3>1. dsup' = dsup
      BY <2>2 DEF Client, PutRefused, PutAccepted, PutLocated, NotFound, Found, CatSend, CatData, RmSend,
         CpAccepted, CpLocated, CpSend, MvDoneOrCpRefused, dataVars
    <3> QED BY <1>1, <1>2, <2>2, <3>1, ClientDisks
  <2>3. CASE NameServer
    <3>1. UNCHANGED <<c2d, disk, dsup>>
      BY <2>3 DEF NameServer, NameToBigFS, NameParts, NameLocation, NameCat, NameRm, NameCp, NameMv, NameIgnores,
         dataVars
    <3>2. Careful => Polite /\ UniqueNames
      BY DEF Mannerly
    <3> QED BY <1>1, <1>2, <2>3, <3>1, <3>2, TracksSame, NameServerBooks
  <2>4. ASSUME NEW s \in Servers, DataServer(s)
        PROVE  UNCHANGED dsup /\ \E W, G : Tracks(W)' /\ Stores(W, G) /\ Books(G)'
    BY <1>1, <1>2, <2>4, ServerDisks
  <2>5. CASE UNCHANGED vars
    <3>1. UNCHANGED <<c2d, disk, dsup, pc, job, nspc, nsnew, dir, c2n, n2c, d2c>>
      BY <2>5 DEF vars, clientVars, nameVars, dataVars, wires
    <3>2. /\ Growing' = Growing /\ Grown' = Grown /\ Leaving' = Leaving /\ Hand' = Hand /\ Needs' = Needs
          /\ NewText' = NewText
      BY <3>1 DEF Growing, Grown, Leaving, Hand, Fetched, Owing, Named, Needs, NewText
    <3>3. Jobs(F)'
      BY <1>1, <3>1, <3>2 DEF Books, Jobs, Told, Full
    <3>4. Extents(F)'
      BY <1>1, <3>1, <3>2, ExtentsSame DEF Books
    <3>5. Books(F)'
      BY <1>1, <3>1, <3>2, <3>3, <3>4, BooksSame
    <3> QED BY <1>1, <3>1, <3>5, TracksSame
  <2> QED BY <2>1, <2>2, <2>3, <2>4, <2>5 DEF Next
<1>5. PICK W, G : Tracks(W)' /\ Stores(W, G) /\ Books(G)'
  BY <1>4
<1>6. Lost' \/ Kempt(W)'
  BY <1>3, <1>5 DEF Kempt
<1> QED BY <1>4, <1>5, <1>6

\* A step after it is lost: nobody is asked for a location any more.
LEMMA LostStep ==
    ASSUME Course, Lost, AsksLast, NEW V, Tracks(V), [Next]_vars
    PROVE  UNCHANGED dsup /\ Tracks(V)' /\ Lost'
<1>1. Talk /\ Lost' /\ pc \notin Asking
  <2>1. Talk /\ (Astray' \/ Stuck')
    BY StepStuck DEF Course, Lost
  <2>2. pc \notin Asking
    BY DEF Lost, Astray, Stuck, Calls, Asking
  <2> QED BY <2>1, <2>2 DEF Lost
<1>2. ASSUME UNCHANGED <<c2d, disk, dsup>> PROVE UNCHANGED dsup /\ Tracks(V)' /\ Lost'
  BY <1>1, <1>2, TracksSame
<1>3. CASE User
  <2>1. UNCHANGED <<c2d, disk, dsup>>
    BY <1>3 DEF User, StartPut, StartCat, StartGet, StartRm, StartCp, StartMv, dataVars
  <2> QED BY <1>2, <2>1
<1>4. CASE Client
  BY <1>1, <1>4, ClientStuck DEF Lost
<1>5. CASE NameServer
  <2>1. UNCHANGED <<c2d, disk, dsup>>
    BY <1>5 DEF NameServer, NameToBigFS, NameParts, NameLocation, NameCat, NameRm, NameCp, NameMv, NameIgnores,
       dataVars
  <2> QED BY <1>2, <2>1
<1>6. ASSUME NEW s \in Servers, DataServer(s) PROVE UNCHANGED dsup /\ Tracks(V)'
  <2>1. ~DataToBigFS(s)
    BY <1>1, StoredAt DEF Asking
  <2>2. ~(DataCp(s) /\ Head(c2d[s]).num = 0)
    BY <1>1, CopiedAt DEF Asking
  <2> QED BY <1>1, <1>6, <2>1, <2>2, ServedTracks DEF DataServer
<1>7. CASE UNCHANGED vars
  <2>1. UNCHANGED <<c2d, disk, dsup>>
    BY <1>7 DEF vars, dataVars, wires
  <2> QED BY <1>2, <2>1
<1> QED BY <1>1, <1>3, <1>4, <1>5, <1>6, <1>7 DEF Next

LEMMA StepDisks == ASSUME NoNumerals, Mannerly, DiskInv, [Next]_vars PROVE DiskInv'
<1>1. Talk /\ AsksLast /\ Course
  BY DEF DiskInv, Course
<1>2. Course' /\ AsksLast'
  BY <1>1, StepTalk, StepSync, StepStuck, StepAsks DEF Course
<1>3. PICK V : Tracks(V) /\ (Lost \/ Kempt(V))
  BY DEF DiskInv
<1>4. UNCHANGED dsup /\ \E W : Tracks(W)' /\ (Lost' \/ Kempt(W)')
  <2>1. CASE Lost
    BY <1>1, <1>3, <2>1, LostStep
  <2>2. CASE Kempt(V)
    BY <1>1, <1>3, <2>2, KemptStep
  <2> QED BY <1>3, <2>1, <2>2
<1> QED BY <1>2, <1>4 DEF DiskInv

LEMMA AlwaysKempt == NoNumerals => (Spec => [](DiskInv /\ Mannerly))
<1> SUFFICES ASSUME NoNumerals PROVE Spec => [](DiskInv /\ Mannerly)
  OBVIOUS
<1>1. Init => DiskInv
  BY InitDisks
<1>2. Mannerly /\ DiskInv /\ [Next]_vars => DiskInv'
  BY StepDisks
<1> QED BY <1>1, <1>2, AlwaysMannerly, PTL DEF Spec

-----------------------------------------------------------------------------
(* What follows from it.                                                   *)

\* When nothing is under way all files are whole.
LEMMA QuietBooks ==
    ASSUME DiskInv, Quiet
    PROVE  \E F : /\ Books(F) /\ Sync /\ Entries /\ Growing = <<>> /\ Leaving = <<>> /\ Hand = <<>>
                  /\ \A s \in Servers : Holds(disk[s], s, F)
                  /\ \A l \in DOMAIN F : F[l].lo = 0 /\ F[l].hi = Len(F[l].text)
<1>1. ~Lost
  BY DEF Lost, Astray, Stuck, Calls, Quiet
<1>2. PICK V, F : Tracks(V) /\ Sync /\ Entries /\ Stores(V, F) /\ Books(F)
  BY <1>1 DEF DiskInv, Kempt
<1>3. \A s \in Servers : V[s] = disk[s]
  BY <1>2, AheadEmpty DEF Tracks, Quiet
<1>4. Growing = <<>> /\ Leaving = <<>> /\ Hand = <<>>
  <2>1. Needs = 0 /\ pc = "prompt"
    BY DEF Needs, Quiet
  <2> QED BY <2>1, Elsewhere DEF Hand
<1>5. \A l \in DOMAIN F : F[l].lo = 0 /\ F[l].hi = Len(F[l].text)
  <2>1. \A l \in DOMAIN F : l # <<>>
    BY <1>2, BookTypes DEF Books
  <2> QED BY <1>2, <1>4, <2>1 DEF Books, Extents, Low, High
<1> QED BY <1>2, <1>3, <1>4, <1>5 DEF Stores

\* A file in the directory has an entry of its own.
LEMMA QuietNode ==
    ASSUME Sync, Entries, NEW F, Books(F), Quiet, NEW k \in DOMAIN dir
    PROVE  dir[k].loc # <<>> /\ dir[k].loc \in DOMAIN F /\ F[dir[k].loc].text = dir[k].text
<1>1. dir[k].loc # <<>>
  BY DEF Entries, Nodes, Quiet
<1> QED BY <1>1 DEF Books, Listing, Ours

\* Whatever the user types, no file that is in the directory ever loses a
\* block: when nothing is under way, each of its chunks and markers is on the
\* disk it belongs on.  Neither a crash of the name server nor a conversation
\* out of step, nor another file of the same name, costs a block.
THEOREM FilesAlwaysWhole == NoNumerals => (Spec => []FilesStayWhole)
<1> SUFFICES ASSUME NoNumerals PROVE Spec => []FilesStayWhole
  OBVIOUS
<1>1. ASSUME DiskInv PROVE FilesStayWhole
  <2> SUFFICES ASSUME Quiet, NEW s \in Servers, NEW k \in DOMAIN dir, NEW x \in Kept(s, dir[k].loc, dir[k].text)
               PROVE  x[1] \in DOMAIN disk[s] /\ disk[s][x[1]] = x[2]
    BY DEF FilesStayWhole
  <2>1. PICK F : /\ Books(F) /\ Sync /\ Entries /\ \A t \in Servers : Holds(disk[t], t, F)
                 /\ \A l \in DOMAIN F : F[l].lo = 0 /\ F[l].hi = Len(F[l].text)
    BY <1>1, QuietBooks
  <2>2. dir[k].loc \in DOMAIN F /\ F[dir[k].loc].text = dir[k].text
    BY <2>1, QuietNode
  <2>3. Ledger(F) /\ x \in Kept(s, dir[k].loc, F[dir[k].loc].text)
    BY <2>1, <2>2 DEF Books
  <2> QED BY <2>1, <2>2, <2>3, KeptHeld
<1> QED BY <1>1, AlwaysKempt, PTL

\* A careful user's disks hold what the directory says and nothing else: a
\* removed file leaves no block behind although no server reports its removal,
\* and a copy never lands on blocks of another file.
THEOREM DisksAlwaysMatch == NoNumerals /\ Careful => (Spec => []DisksMatchDirectory)
<1> SUFFICES ASSUME NoNumerals, Careful PROVE Spec => []DisksMatchDirectory
  OBVIOUS
<1>1. ASSUME DiskInv PROVE DisksMatchDirectory
  <2> SUFFICES ASSUME Quiet, NEW s \in Servers
               PROVE  {<<p, disk[s][p]>> : p \in DOMAIN disk[s]} =
                          OldPairs(s) \cup UNION {Kept(s, dir[k].loc, dir[k].text) : k \in DOMAIN dir}
    BY DEF DisksMatchDirectory
  <2>1. PICK F : /\ Books(F) /\ Sync /\ Entries /\ Hand = <<>> /\ Holds(disk[s], s, F)
                 /\ \A l \in DOMAIN F : F[l].lo = 0 /\ F[l].hi = Len(F[l].text)
    BY <1>1, QuietBooks
  <2>2. Ledger(F) /\ \A l \in DOMAIN F : l # <<>>
    BY <2>1, BookTypes DEF Books
  <2>3. ASSUME NEW p \in DOMAIN disk[s]
        PROVE  \/ <<p, disk[s][p]>> \in OldPairs(s)
               \/ \E k \in DOMAIN dir : <<p, disk[s][p]>> \in Kept(s, dir[k].loc, dir[k].text)
    <3>1. PICK l \in DOMAIN F : <<p, disk[s][p]>> \in Kept(s, l, F[l].text)
      BY <2>1, <2>2, HeldKept
    <3>2. CASE l \in OldLocs
      <4>1. PICK f \in OldFiles : f.loc = l
        BY <3>2 DEF OldLocs
      <4>2. <<p, disk[s][p]>> \in Kept(s, f.loc, f.text)
        BY <2>1, <3>1, <4>1 DEF Books, OldKept
      <4> QED BY <4>2 DEF OldPairs
    <3>3. CASE l \notin OldLocs
      <4>1. PICK k \in DOMAIN dir : dir[k].loc = l
        BY <2>1, <2>2, <3>3 DEF Books, Known
      <4>2. F[l].text = dir[k].text
        BY <2>1, <4>1, QuietNode
      <4> QED BY <3>1, <4>1, <4>2
    <3> QED BY <3>2, <3>3
  <2>4. ASSUME NEW l \in DOMAIN F, NEW x \in Kept(s, l, F[l].text)
        PROVE  x \in {<<p, disk[s][p]>> : p \in DOMAIN disk[s]}
    <3>1. x[1] \in DOMAIN disk[s] /\ disk[s][x[1]] = x[2]
      BY <2>1, <2>2, <2>4, KeptHeld
    <3>2. x = <<x[1], x[2]>>
      BY <2>2, <2>4, BookTypes, KeptPairs
    <3> QED BY <3>1, <3>2
  <2>5. ASSUME NEW x \in OldPairs(s) PROVE x \in {<<p, disk[s][p]>> : p \in DOMAIN disk[s]}
    <3>1. PICK f \in OldFiles : x \in Kept(s, f.loc, f.text)
      BY <2>5 DEF OldPairs
    <3>2. f.loc \in DOMAIN F /\ F[f.loc].text = f.text
      BY <2>1 DEF Books, OldKept
    <3> QED BY <2>4, <3>1, <3>2
  <2>6. ASSUME NEW k \in DOMAIN dir, NEW x \in Kept(s, dir[k].loc, dir[k].text)
        PROVE  x \in {<<p, disk[s][p]>> : p \in DOMAIN disk[s]}
    <3>1. dir[k].loc \in DOMAIN F /\ F[dir[k].loc].text = dir[k].text
      BY <2>1, QuietNode
    <3> QED BY <2>4, <2>6, <3>1
  <2> QED BY <2>3, <2>5, <2>6
<1> QED BY <1>1, AlwaysKempt, PTL

\* A careful user is never out of step.
LEMMA CarefulKempt == ASSUME DiskInv, Mannerly, Careful PROVE nsup /\ \E V : Tracks(V) /\ Kempt(V)
<1>1. Sync /\ Polite /\ nsup
  BY DEF Mannerly, Polite
<1>2. Len(c2n) \in Nat /\ Needs \in 0..2 /\ Args \in 1..2 /\ (c2n = <<>> => Len(c2n) = 0) /\ Len(<<>>) = 0
  BY <1>1, Types DEF Args
<1>3. ~Astray
  <2>1. ASSUME Astray PROVE FALSE
    <3>1. pc \notin Calls /\ ~Owing /\ Needs = 2 /\ Len(c2n) = 0
      BY <1>2, <2>1 DEF Astray, Calls, Owing, Needs
    <3> QED BY <1>1, <3>1 DEF Sync, InCall
  <2> QED BY <2>1
<1>4. ~Stuck
  <2>1. ASSUME Stuck PROVE FALSE
    <3>1. pc \in Calls /\ n2c = <<>> /\ Len(n2c) = 0
      BY <1>2, <2>1 DEF Stuck
    <3>2. ~Served
      BY <3>1 DEF Served, Calls
    <3>3. Len(c2n) = Needs + 1 + Args
      BY <1>1, <3>1, <3>2 DEF Sync, InCall, Waits
    <3>4. /\ nspc = "parts" => Len(c2n) > 3
          /\ nspc = "location" => Len(c2n) > 2
          /\ nspc = "command" => Len(c2n) > 1
      BY <1>2, <3>3 DEF Needs
    <3> QED BY <1>1, <1>2, <2>1, <3>4 DEF Stuck
  <2> QED BY <2>1
<1> QED BY <1>1, <1>3, <1>4 DEF DiskInv, Lost

\* No two files of a careful user share a location, at any time: not even
\* while one is being removed and another is being given its place.
THEOREM LocationsStayDistinct == NoNumerals /\ Careful => (Spec => []DistinctLocations)
<1> SUFFICES ASSUME NoNumerals, Careful PROVE Spec => []DistinctLocations
  OBVIOUS
<1>1. ASSUME DiskInv, Mannerly PROVE DistinctLocations
  <2>1. PICK F : Books(F)
    BY <1>1, CarefulKempt DEF Kempt
  <2>2. \A k \in DOMAIN dir : dir[k].loc # <<>> => dir[k].loc \notin OldLocs
    BY <2>1 DEF Books, Listing, Ours
  <2>3. \A k, h \in DOMAIN dir : dir[k].loc # <<>> /\ dir[k].loc = dir[h].loc => k = h
    BY <2>1 DEF Books, Listing
  <2> QED BY <2>2, <2>3 DEF DistinctLocations, OldLocs
<1> QED BY <1>1, AlwaysKempt, PTL

\* A data server is never asked for a chunk it has not got, whatever the user
\* types: the requests that reach it before make or keep that chunk.
THEOREM DataServersLive == NoNumerals => (Spec => [](\A s \in Servers : dsup[s]))
<1>1. DiskInv => \A s \in Servers : dsup[s]
  BY DEF DiskInv
<1> QED BY <1>1, AlwaysKempt, PTL

\* No process dies of a careful user's commands.
THEOREM AlwaysAlive == NoNumerals /\ Careful => (Spec => []NoneCrashes)
<1> SUFFICES ASSUME NoNumerals, Careful PROVE Spec => []NoneCrashes
  OBVIOUS
<1>1. DiskInv /\ Mannerly => NoneCrashes
  BY CarefulKempt DEF DiskInv, NoneCrashes
<1> QED BY <1>1, AlwaysKempt, PTL

=============================================================================
