----------------------- MODULE ManifestExchangeProofs -----------------------
(***************************************************************************)
(* Theorems about ManifestExchange, for any finite set of paths, any size  *)
(* of a message and any number of changes and connections.                 *)
(*                                                                         *)
(* What the listener makes of the messages on their way is a function of   *)
(* where it stands, message by message (Course): the invariant is that     *)
(* this course meets only whole trees the teller has had, and ends at the  *)
(* tree the present session sent last.                                     *)
(***************************************************************************)
EXTENDS ManifestExchange, FiniteSetTheorems, SequenceTheorems, TLAPS

-----------------------------------------------------------------------------
(* Patches.                                                                *)

Value == Content \union {Absent}
Entry == Path \X Value

\* An ordering of a finite set is a sequence of all its members.
LEMMA OrderingHasAll ==
    ASSUME NEW S, IsFiniteSet(S)
    PROVE  /\ SetToSeq(S) \in Seq(S)
           /\ \A x \in S : \E i \in 1..Len(SetToSeq(S)) : SetToSeq(S)[i] = x
<1> DEFINE n == Cardinality(S)
           s == SetToSeq(S)
<1>1. n \in Nat /\ \E f \in [1..n -> S] : IsInjective(f)
  <2>1. PICK f \in Bijection(1..n, S) : TRUE
    BY FS_CardinalityType DEF ExistsBijection
  <2>2. f \in [1..n -> S] /\ IsInjective(f)
    BY <2>1 DEF Bijection, Injection
  <2> QED BY <2>2, FS_CardinalityType
<1>2. s \in [1..n -> S] /\ IsInjective(s)
  BY <1>1, Zenon DEF SetToSeq
<1>3. s \in Injection(1..n, S)
  BY <1>2 DEF Injection
<1>4. Cardinality(1..n) = n
  BY <1>1, FS_Interval
<1>5. s \in Surjection(1..n, S)
  BY <1>3, <1>4, FS_Injection
<1>6. \A x \in S : \E i \in 1..n : s[i] = x
  BY <1>5 DEF Surjection
<1>7. s \in Seq(S) /\ Len(s) = n
  BY <1>1, <1>2
<1> QED BY <1>6, <1>7

\* es takes a tree from one to the other: its entries are of the other, and name just
\* the paths on which the two differ.
Takes(es, from, to) ==
    /\ es \in Seq(Entry)
    /\ \A i \in 1..Len(es) : es[i][1] \in Path /\ es[i][2] = to[es[i][1]]
    /\ \A f \in Path : from[f] # to[f] <=> \E i \in 1..Len(es) : es[i][1] = f

LEMMA EntriesOf ==
    ASSUME NEW S \in SUBSET Path, NEW to \in Tree
    PROVE  LET E == {<<f, to[f]>> : f \in S}
           IN  /\ SetToSeq(E) \in Seq(Entry)
               /\ \A i \in 1..Len(SetToSeq(E)) :
                     SetToSeq(E)[i][1] \in S /\ SetToSeq(E)[i][2] = to[SetToSeq(E)[i][1]]
               /\ \A f \in S : \E i \in 1..Len(SetToSeq(E)) : SetToSeq(E)[i][1] = f
<1> DEFINE E == {<<f, to[f]>> : f \in S}
           s == SetToSeq(E)
<1>1. IsFiniteSet(E)
  <2> DEFINE g == [f \in S |-> <<f, to[f]>>]
  <2>1. g \in Surjection(S, E)
    BY DEF Surjection
  <2>2. IsFiniteSet(S)
    BY ExchangeAssumption, FS_Subset
  <2> QED BY <2>1, <2>2, FS_Surjection
<1>2. s \in Seq(E) /\ \A x \in E : \E i \in 1..Len(s) : s[i] = x
  BY <1>1, OrderingHasAll
<1>3. E \subseteq Entry /\ \A x \in E : x[1] \in S /\ x[2] = to[x[1]]
  BY DEF Entry, Tree, Value
<1>4. ASSUME NEW f \in S PROVE \E x \in E : x[1] = f
  <2>1. <<f, to[f]>> \in E /\ <<f, to[f]>>[1] = f
    OBVIOUS
  <2> QED BY <2>1
<1> HIDE DEF E, s
<1>5. s \in Seq(Entry) /\ \A i \in 1..Len(s) : s[i] \in E
  BY <1>2, <1>3
<1>6. \A i \in 1..Len(s) : s[i][1] \in S /\ s[i][2] = to[s[i][1]]
  BY <1>3, <1>5
<1>7. ASSUME NEW f \in S PROVE \E i \in 1..Len(s) : s[i][1] = f
  <2>1. PICK x \in E : x[1] = f
    BY <1>4
  <2>2. PICK i \in 1..Len(s) : s[i] = x
    BY <1>2, <2>1
  <2> QED BY <2>1, <2>2
<1>8. /\ s \in Seq(Entry)
      /\ \A i \in 1..Len(s) : s[i][1] \in S /\ s[i][2] = to[s[i][1]]
      /\ \A f \in S : \E i \in 1..Len(s) : s[i][1] = f
  BY <1>5, <1>6, <1>7
<1> QED BY <1>8, Zenon DEF s, E

\* The difference of two trees takes the one to the other.
LEMMA DiffTakes ==
    ASSUME NEW from \in Tree, NEW to \in Tree
    PROVE  Takes(Diff(from, to), from, to)
<1> DEFINE S == {f \in Path : to[f] # Absent /\ to[f] # from[f]}
           R == {f \in Path : to[f] = Absent /\ from[f] # Absent}
           s == SetToSeq({<<f, to[f]>> : f \in S})
           r == SetToSeq({<<f, to[f]>> : f \in R})
<1>1. Diff(from, to) = s \o r
  BY DEF Diff
<1>2. S \in SUBSET Path /\ R \in SUBSET Path /\ \A f \in Path : from[f] # to[f] <=> f \in S \/ f \in R
  OBVIOUS
<1> HIDE DEF S, R
<1>3. /\ s \in Seq(Entry)
      /\ \A i \in 1..Len(s) : s[i][1] \in S /\ s[i][2] = to[s[i][1]]
      /\ \A f \in S : \E i \in 1..Len(s) : s[i][1] = f
  BY <1>2, EntriesOf
<1>4. /\ r \in Seq(Entry)
      /\ \A i \in 1..Len(r) : r[i][1] \in R /\ r[i][2] = to[r[i][1]]
      /\ \A f \in R : \E i \in 1..Len(r) : r[i][1] = f
  BY <1>2, EntriesOf
<1> HIDE DEF s, r
<1>5. /\ s \o r \in Seq(Entry) /\ Len(s) \in Nat /\ Len(r) \in Nat
      /\ Len(s \o r) = Len(s) + Len(r)
      /\ \A i \in 1..Len(s) : i \in 1..Len(s \o r) /\ (s \o r)[i] = s[i]
      /\ \A i \in 1..Len(r) : Len(s) + i \in 1..Len(s \o r) /\ (s \o r)[Len(s) + i] = r[i]
  BY <1>3, <1>4
<1>6. ASSUME NEW i \in 1..Len(s \o r)
      PROVE  \/ i \in 1..Len(s)
             \/ i - Len(s) \in 1..Len(r) /\ (s \o r)[i] = r[i - Len(s)]
  <2>1. i \notin 1..Len(s) => i - Len(s) \in 1..Len(r) /\ Len(s) + (i - Len(s)) = i
    BY <1>5
  <2> QED BY <1>5, <2>1
<1>7. \A i \in 1..Len(s \o r) :
         /\ (s \o r)[i][1] \in S \union R
         /\ (s \o r)[i][2] = to[(s \o r)[i][1]]
  BY <1>3, <1>4, <1>5, <1>6
<1>8. \A f \in S \union R : \E i \in 1..Len(s \o r) : (s \o r)[i][1] = f
  BY <1>3, <1>4, <1>5
<1> HIDE DEF Takes
<1>9. Takes(s \o r, from, to)
  <2> DEFINE j == s \o r
  <2>1. j \in Seq(Entry)
    BY <1>5
  <2>2. \A i \in 1..Len(j) : j[i][1] \in Path /\ j[i][2] = to[j[i][1]]
    BY <1>2, <1>7
  <2> HIDE DEF j
  <2>3. \A f \in Path : from[f] # to[f] => \E i \in 1..Len(j) : j[i][1] = f
    BY <1>2, <1>8 DEF j
  <2>4. \A i \in 1..Len(j) : from[j[i][1]] # to[j[i][1]]
    BY <1>2, <1>7 DEF j
  <2>5. Takes(j, from, to)
    BY ONLY <2>1, <2>2, <2>3, <2>4 DEF Takes
  <2> QED BY <2>5 DEF j
<1> QED BY <1>1, <1>9

\* The tree after the first k entries.
Part(from, to, es, k) ==
    [f \in Path |-> IF \E i \in 1..k : es[i][1] = f THEN to[f] ELSE from[f]]

LEMMA PartEnds ==
    ASSUME NEW from \in Tree, NEW to \in Tree, NEW old \in Tree, NEW es, Takes(es, old, to)
    PROVE  /\ Part(from, to, es, 0) = from
           /\ from = old => Part(from, to, es, Len(es)) = to
           /\ \A k \in Nat : Part(from, to, es, k) \in Tree
<1>1. Part(from, to, es, 0) = from
  BY DEF Part, Tree
<1>2. from = old => Part(from, to, es, Len(es)) = to
  BY DEF Part, Tree, Takes
<1>3. \A k \in Nat : Part(from, to, es, k) \in Tree
  BY DEF Part, Tree
<1> QED BY <1>1, <1>2, <1>3

\* Applying the entries from k + 1 to l takes the tree after k to the tree after l.
LEMMA ApplyPart ==
    ASSUME NEW from \in Tree, NEW to \in Tree, NEW old \in Tree, NEW es, Takes(es, old, to),
           NEW k \in Nat, NEW l \in Nat, k <= l, l <= Len(es)
    PROVE  /\ SubSeq(es, k + 1, l) \in Seq(Entry)
           /\ Apply(Part(from, to, es, k), SubSeq(es, k + 1, l)) = Part(from, to, es, l)
<1> DEFINE s == SubSeq(es, k + 1, l)
           t == Part(from, to, es, k)
<1>1. es \in Seq(Entry) /\ Len(es) \in Nat
  BY DEF Takes
<1>2. \A i \in (k + 1)..l : es[i] \in Entry
  BY <1>1
<1>3. /\ s \in Seq(Entry)
      /\ Len(s) = IF k + 1 <= l THEN l - (k + 1) + 1 ELSE 0
      /\ \A i \in 1..(l - (k + 1) + 1) : s[i] = es[(k + 1) + i - 1]
  BY <1>2, SubSeqProperties
<1>4. Len(s) = l - k /\ \A i \in 1..Len(s) : k + i \in 1..Len(es) /\ s[i] = es[k + i]
  <2>1. Len(s) = l - k /\ l - (k + 1) + 1 = l - k
    BY <1>3
  <2>2. ASSUME NEW i \in 1..(l - k)
        PROVE  /\ k + i \in 1..Len(es) /\ (k + 1) + i - 1 = k + i
               /\ i \in 1..(l - (k + 1) + 1)
    BY <1>1, <2>1
  <2> HIDE DEF s
  <2>3. ASSUME NEW i \in 1..(l - k) PROVE s[i] = es[k + i]
    BY ONLY <1>3, <2>2, i \in 1..(l - k)
  <2> QED BY ONLY <2>1, <2>2, <2>3
<1>5. \A j \in 1..l : j > k => j - k \in 1..Len(s) /\ s[j - k] = es[j]
  <2> SUFFICES ASSUME NEW j \in 1..l, j > k PROVE j - k \in 1..Len(s) /\ s[j - k] = es[j]
    OBVIOUS
  <2>1. j - k \in 1..Len(s) /\ k + (j - k) = j
    BY <1>4
  <2> QED BY <1>4, <2>1
<1> HIDE DEF s
<1>6. ASSUME NEW f \in Path PROVE Apply(t, s)[f] = Part(from, to, es, l)[f]
  <2>1. CASE \E i \in 1..Len(s) : s[i][1] = f
    <3> DEFINE c == CHOOSE i \in 1..Len(s) : s[i][1] = f
    <3>1. c \in 1..Len(s) /\ s[c][1] = f
      BY <2>1
    <3>2. Apply(t, s)[f] = s[c][2]
      BY <2>1 DEF Apply
    <3> HIDE DEF c
    <3>3. k + c \in 1..l /\ es[k + c][1] = f /\ s[c][2] = to[f]
      BY <1>4, <3>1 DEF Takes
    <3> QED BY <3>2, <3>3 DEF Part
  <2>2. CASE ~\E i \in 1..Len(s) : s[i][1] = f
    <3>1. Apply(t, s)[f] = t[f]
      BY <2>2 DEF Apply
    <3>2. (\E i \in 1..l : es[i][1] = f) <=> (\E i \in 1..k : es[i][1] = f)
      <4>1. ASSUME NEW i \in 1..l, es[i][1] = f PROVE i \in 1..k
        <5>1. ~(i > k)
          BY <1>5, <2>2, <4>1
        <5> QED BY ONLY <5>1, i \in 1..l, l \in Nat, k \in Nat
      <4>2. \A i \in 1..k : i \in 1..l
        OBVIOUS
      <4> QED BY ONLY <4>1, <4>2
    <3> QED BY <3>1, <3>2 DEF Part
  <2> QED BY <2>1, <2>2
<1>7. Apply(t, s) = [f \in Path |-> Apply(t, s)[f]]
  BY DEF Apply
<1>8. Part(from, to, es, l) = [f \in Path |-> Part(from, to, es, l)[f]]
  BY DEF Part
<1>9. Apply(t, s) = Part(from, to, es, l)
  BY <1>6, <1>7, <1>8
<1> QED BY <1>3, <1>9 DEF s

-----------------------------------------------------------------------------
(* What the listener makes of the messages.                                *)

Standing == [remote : Tree, have : BOOLEAN, staging : Tree, active : BOOLEAN,
             taint : BOOLEAN, version : Nat]

standing == [remote |-> remote, have |-> have_remote, staging |-> staging,
             active |-> staging_active, taint |-> tainted, version |-> version]

\* Whether the listener's view stays changed by a replaced session, and the tree that
\* the entries of a message make, in a listener that stands at s.
Taints(s, says) == says = "stale" \/ (s.taint /\ says # "whole")
Makes(s, reset, es) ==
    Apply(IF reset THEN NoFiles ELSE IF s.active THEN s.staging ELSE s.remote, es)

\* Where a message m leaves a listener that stands at s.
Hear(s, m) ==
    IF m.op = "Hello" THEN s
    ELSE IF m.more
    THEN [remote |-> s.remote, have |-> s.have, staging |-> Makes(s, m.reset, m.entries),
          active |-> TRUE, taint |-> Taints(s, m.says), version |-> s.version]
    ELSE [remote |-> Makes(s, m.reset, m.entries), have |-> TRUE, staging |-> NoFiles,
          active |-> FALSE, taint |-> Taints(s, m.says),
          version |-> IF Taints(s, m.says) THEN s.version ELSE m.version]

\* The view at s is a whole tree that the teller has had.
Whole(s) == /\ s.version \in 1..Len(past)
            /\ s.have /\ ~s.taint => s.remote = past[s.version]

\* The course g of the listener through the messages c.
Course(g, c) == /\ g \in [0..Len(c) -> Standing]
                /\ \A i \in 1..Len(c) : /\ g[i] = Hear(g[i - 1], c[i])
                                        /\ g[i - 1].version <= g[i].version
                /\ \A i \in 0..Len(c) : Whole(g[i])

\* At the end the listener has the tree that was sent last.
Ends(s, last) == /\ ~s.active
                 /\ last # Unknown /\ ~s.taint => s.have /\ s.remote = last

\* What the session of the present connection has sent.
said == IF linked THEN last_sent[connects] ELSE Unknown

Sound == \E g : Course(g, chan) /\ g[0] = standing /\ Ends(g[Len(chan)], said)

Sessions == /\ ~linked => chan = <<>> /\ ~hello /\ session = 0
            /\ linked => connects > 0
            /\ session \in {0, connects} /\ holding <= connects
            /\ \A e \in 1..MaxConnects : e > connects => last_sent[e] = Unknown

LEMMA NoFilesTree == NoFiles \in Tree
BY DEF NoFiles, Tree

LEMMA StandingParts ==
    ASSUME NEW r \in Tree, NEW h \in BOOLEAN, NEW t \in Tree, NEW a \in BOOLEAN,
           NEW b \in BOOLEAN, NEW v \in Nat
    PROVE  LET s == [remote |-> r, have |-> h, staging |-> t, active |-> a, taint |-> b, version |-> v]
           IN  /\ s \in Standing /\ s.remote = r /\ s.have = h /\ s.staging = t
               /\ s.active = a /\ s.taint = b /\ s.version = v
BY DEF Standing

\* The cuts of a list of len entries into messages.
LEMMA Cuts ==
    ASSUME NEW len \in Nat
    PROVE  LET n == len \div MaxEntries
           IN  /\ n \in Nat
               /\ \A i \in 1..n : /\ i * MaxEntries \in Nat /\ (i - 1) * MaxEntries \in Nat
                                  /\ (i - 1) * MaxEntries <= i * MaxEntries
                                  /\ i * MaxEntries <= len
               /\ n * MaxEntries \in Nat /\ n * MaxEntries <= len
<1> DEFINE n == len \div MaxEntries
<1>1. MaxEntries \in Nat /\ MaxEntries > 0
  BY ExchangeAssumption
<1>2. n \in Nat /\ MaxEntries * n <= len
  BY <1>1
<1> HIDE DEF n
<1>3. \A i \in Nat, m \in Nat : i * m \in Nat
  OBVIOUS
<1>4. \A m \in Nat, i \in Nat, j \in Nat : i <= j => i * m <= j * m
  OBVIOUS
<1>5. n * MaxEntries <= len
  BY <1>1, <1>2
<1>6. ASSUME NEW i \in 1..n
      PROVE  /\ i * MaxEntries \in Nat /\ (i - 1) * MaxEntries \in Nat
             /\ (i - 1) * MaxEntries <= i * MaxEntries
             /\ i * MaxEntries <= len
  <2>1. i \in Nat /\ i - 1 \in Nat /\ i <= n /\ i - 1 <= i
    BY <1>2
  <2>2. i * MaxEntries <= n * MaxEntries /\ (i - 1) * MaxEntries <= i * MaxEntries
    BY <1>1, <1>2, <1>4, <2>1
  <2>3. i * MaxEntries \in Nat /\ (i - 1) * MaxEntries \in Nat /\ n * MaxEntries \in Nat
    BY <1>1, <1>2, <1>3, <2>1
  <2> QED BY <1>5, <2>2, <2>3
<1> QED BY <1>1, <1>2, <1>3, <1>5, <1>6 DEF n

-----------------------------------------------------------------------------
(* Through the chunks of one update.                                       *)

UpdateFields(m, reset, more, entries, v, says) ==
    /\ m.op = "ManifestUpdate" /\ m.reset = reset /\ m.more = more /\ m.entries = entries
    /\ m.version = v /\ m.says = says

LEMMA UpdateParts ==
    ASSUME NEW reset, NEW more, NEW entries, NEW v, NEW says
    PROVE  UpdateFields(Update(reset, more, entries, v, says), reset, more, entries, v, says)
BY DEF Update, UpdateFields

\* The chunks of the update es, and where each leaves a listener that stood at s.
LEMMA ChunkParts ==
    ASSUME NEW es \in Seq(Entry), NEW reset \in BOOLEAN, NEW v \in 1..Len(past),
           NEW stale \in BOOLEAN
    PROVE  LET n == Len(es) \div MaxEntries
               c == Chunks(es, reset, v, stale)
           IN  /\ n \in Nat /\ c \in Seq(Message) /\ Len(c) = n + 1
               /\ \A i \in 1..n :
                     UpdateFields(c[i], reset /\ i = 1, TRUE,
                                  SubSeq(es, (i - 1) * MaxEntries + 1, i * MaxEntries), v,
                                  IF stale THEN "stale" ELSE "part")
               /\ UpdateFields(c[n + 1], reset /\ n = 0, FALSE,
                               SubSeq(es, n * MaxEntries + 1, Len(es)), v,
                               IF stale THEN "stale" ELSE IF reset THEN "whole" ELSE "part")
<1> DEFINE n == Len(es) \div MaxEntries
           c == Chunks(es, reset, v, stale)
           U(i) == Update(reset /\ i = 1, i <= n,
                          SubSeq(es, (i - 1) * MaxEntries + 1,
                                 IF i <= n THEN i * MaxEntries ELSE Len(es)), v,
                          IF stale THEN "stale"
                          ELSE IF reset /\ i = n + 1 THEN "whole" ELSE "part")
<1>1. c = [i \in 1..(n + 1) |-> U(i)]
  BY DEF Chunks
<1>2. Len(es) \in Nat
  OBVIOUS
<1>3. /\ n \in Nat
      /\ \A i \in 1..n : /\ i * MaxEntries \in Nat /\ (i - 1) * MaxEntries \in Nat
                         /\ i * MaxEntries <= Len(es)
      /\ n * MaxEntries \in Nat /\ n * MaxEntries <= Len(es)
  BY <1>2, Cuts
<1> HIDE DEF n, c
<1>4. ASSUME NEW i \in 1..n
      PROVE  U(i) = Update(reset /\ i = 1, TRUE,
                           SubSeq(es, (i - 1) * MaxEntries + 1, i * MaxEntries), v,
                           IF stale THEN "stale" ELSE "part")
  <2>1. i <= n /\ i # n + 1
    BY <1>3
  <2>2. (IF stale THEN "stale" ELSE IF reset /\ i = n + 1 THEN "whole" ELSE "part")
           = (IF stale THEN "stale" ELSE "part")
    BY <2>1
  <2>3. (i <= n) = TRUE
    BY <2>1
  <2> QED BY <2>1, <2>2, <2>3
<1>5. U(n + 1) = Update(reset /\ n = 0, FALSE, SubSeq(es, n * MaxEntries + 1, Len(es)), v,
                        IF stale THEN "stale" ELSE IF reset THEN "whole" ELSE "part")
  <2>1. ~(n + 1 <= n) /\ (n + 1) - 1 = n /\ (n + 1 = 1 <=> n = 0)
    BY <1>3
  <2>2. (IF stale THEN "stale" ELSE IF reset /\ n + 1 = n + 1 THEN "whole" ELSE "part")
           = (IF stale THEN "stale" ELSE IF reset THEN "whole" ELSE "part")
    OBVIOUS
  <2>3. (n + 1 <= n) = FALSE /\ (reset /\ n + 1 = 1) = (reset /\ n = 0)
    BY <2>1
  <2> QED BY <2>1, <2>2, <2>3
<1>6. \A i \in 1..n : SubSeq(es, (i - 1) * MaxEntries + 1, i * MaxEntries) \in Seq(Entry)
  <2> SUFFICES ASSUME NEW i \in 1..n
               PROVE  SubSeq(es, (i - 1) * MaxEntries + 1, i * MaxEntries) \in Seq(Entry)
    OBVIOUS
  <2> DEFINE a == (i - 1) * MaxEntries
             b == i * MaxEntries
  <2>1. a \in Nat /\ b \in Nat /\ b <= Len(es)
    BY <1>3
  <2> HIDE DEF a, b
  <2>2. SubSeq(es, a + 1, b) \in Seq(Entry)
    BY <1>2, <2>1, SubSeqProperties
  <2> QED BY <2>2 DEF a, b
<1>7. SubSeq(es, n * MaxEntries + 1, Len(es)) \in Seq(Entry)
  <2> DEFINE a == n * MaxEntries
  <2>1. a \in Nat
    BY <1>3
  <2> HIDE DEF a
  <2>2. SubSeq(es, a + 1, Len(es)) \in Seq(Entry)
    BY <1>2, <2>1, SubSeqProperties
  <2> QED BY <2>2 DEF a
<1>8. \A r \in BOOLEAN, more \in BOOLEAN, e \in Seq(Entry), says \in {"stale", "part", "whole"} :
         Update(r, more, e, v, says) \in Message
  BY DEF Update, Message, Entry, Value
<1>9. ASSUME NEW i \in 1..(n + 1) PROVE U(i) \in Message
  <2>1. i \in 1..n \/ i = n + 1
    BY <1>3
  <2>2. CASE i \in 1..n
    <3>1. (IF stale THEN "stale" ELSE "part") \in {"stale", "part", "whole"} /\ (reset /\ i = 1) \in BOOLEAN
      OBVIOUS
    <3> HIDE DEF U
    <3> QED BY <1>4, <1>6, <1>8, <2>2, <3>1
  <2>3. CASE i = n + 1
    <3>1. /\ (IF stale THEN "stale" ELSE IF reset THEN "whole" ELSE "part") \in {"stale", "part", "whole"}
          /\ (reset /\ n = 0) \in BOOLEAN
      OBVIOUS
    <3> HIDE DEF U
    <3> QED BY <1>5, <1>7, <1>8, <2>3, <3>1
  <2> QED BY <2>1, <2>2, <2>3
<1> HIDE DEF U
<1>10. c \in Seq(Message) /\ Len(c) = n + 1 /\ \A i \in 1..(n + 1) : c[i] = U(i)
  BY <1>1, <1>3, <1>9
<1>11. \A i \in 1..n : i \in 1..(n + 1)
  BY <1>3
<1>12. ASSUME NEW i \in 1..n
       PROVE  UpdateFields(c[i], reset /\ i = 1, TRUE,
                           SubSeq(es, (i - 1) * MaxEntries + 1, i * MaxEntries), v,
                           IF stale THEN "stale" ELSE "part")
  <2>1. c[i] = Update(reset /\ i = 1, TRUE,
                      SubSeq(es, (i - 1) * MaxEntries + 1, i * MaxEntries), v,
                      IF stale THEN "stale" ELSE "part")
    BY <1>4, <1>10, <1>11
  <2> QED BY <2>1, UpdateParts, Zenon
<1>13. n + 1 \in 1..(n + 1)
  BY <1>3
<1>14. UpdateFields(c[n + 1], reset /\ n = 0, FALSE, SubSeq(es, n * MaxEntries + 1, Len(es)), v,
                    IF stale THEN "stale" ELSE IF reset THEN "whole" ELSE "part")
  BY <1>5, <1>10, <1>13, UpdateParts
<1> QED BY <1>3, <1>10, <1>12, <1>14 DEF n, c

\* A chunk that others follow, and the last one.
MoreFields(m, reset, entries, v, says) ==
    /\ m.op = "ManifestUpdate" /\ m.reset = reset /\ m.more /\ m.entries = entries
    /\ m.version = v /\ m.says = says
LastFields(m, reset, entries, v, says) ==
    /\ m.op = "ManifestUpdate" /\ m.reset = reset /\ ~m.more /\ m.entries = entries
    /\ m.version = v /\ m.says = says

\* What a chunk makes of where the listener stands, when the listener is not at fault:
\* tree is the tree the chunk applies its entries to.
LEMMA HearChunk ==
    ASSUME NEW s \in Standing, NEW m, NEW reset, NEW es, NEW v, NEW says,
           MoreFields(m, reset, es, v, says)
    PROVE  Hear(s, m) =
              [remote |-> s.remote, have |-> s.have, staging |-> Makes(s, reset, es),
               active |-> TRUE, taint |-> Taints(s, says), version |-> s.version]
<1>1. m.op # "Hello"
  BY DEF MoreFields
<1> QED BY <1>1, Zenon DEF Hear, MoreFields

LEMMA HearLastChunk ==
    ASSUME NEW s, NEW m, NEW reset, NEW es, NEW v, NEW says,
           LastFields(m, reset, es, v, says)
    PROVE  Hear(s, m) =
              [remote |-> Makes(s, reset, es), have |-> TRUE, staging |-> NoFiles,
               active |-> FALSE, taint |-> Taints(s, says),
               version |-> IF Taints(s, says) THEN s.version ELSE v]
<1>1. m.op # "Hello"
  BY DEF LastFields
<1> QED BY <1>1, Zenon DEF Hear, LastFields

\* A listener in the middle of no update goes through the chunks of one without ever
\* having a view that is not whole, and ends with the tree of the update, unless a
\* replaced session sent it or one before it.
LEMMA ChunksCourse ==
    ASSUME past \in Seq(Tree), past # <<>>,
           NEW s \in Standing, ~s.active, Whole(s),
           NEW reset \in BOOLEAN, NEW stale \in BOOLEAN,
           NEW old \in Tree, NEW es, Takes(es, old, local),
           reset => old = NoFiles,
           ~reset /\ ~s.taint /\ ~stale => s.remote = old
    PROVE  LET c == Chunks(es, reset, Len(past), stale)
           IN  /\ c \in Seq(Message)
               /\ \E h : /\ Course(h, c) /\ h[0] = s
                         /\ ~h[Len(c)].active
                         /\ stale => h[Len(c)].taint
                         /\ ~h[Len(c)].taint => h[Len(c)].have /\ h[Len(c)].remote = local
<1> DEFINE v == Len(past)
           n == Len(es) \div MaxEntries
           c == Chunks(es, reset, v, stale)
           from == IF reset THEN NoFiles ELSE s.remote
           P(k) == Part(from, local, es, k)
           taint == stale \/ s.taint
           last == stale \/ (s.taint /\ ~reset)
           mid(i) == [remote |-> s.remote, have |-> s.have, staging |-> P(i * MaxEntries),
                      active |-> TRUE, taint |-> taint, version |-> s.version]
           end == [remote |-> P(Len(es)), have |-> TRUE, staging |-> NoFiles,
                   active |-> FALSE, taint |-> last, version |-> IF last THEN s.version ELSE v]
           h == [i \in 0..(n + 1) |-> IF i = 0 THEN s ELSE IF i <= n THEN mid(i) ELSE end]
<1>1. /\ es \in Seq(Entry) /\ Len(es) \in Nat /\ v \in 1..Len(past) /\ v \in Nat
      /\ local \in Tree /\ local = past[v]
  BY DEF Takes, local
<1>2. /\ s.remote \in Tree /\ s.have \in BOOLEAN /\ s.taint \in BOOLEAN /\ s.version \in Nat
      /\ s.active = FALSE /\ from \in Tree /\ taint \in BOOLEAN /\ last \in BOOLEAN
      /\ s.version <= v
  BY <1>1, NoFilesTree DEF Standing, Whole
<1> HIDE DEF v
<1>3. /\ n \in Nat
      /\ \A i \in 1..n : /\ i * MaxEntries \in Nat /\ (i - 1) * MaxEntries \in Nat
                         /\ (i - 1) * MaxEntries <= i * MaxEntries
                         /\ i * MaxEntries <= Len(es)
      /\ n * MaxEntries \in Nat /\ n * MaxEntries <= Len(es)
  BY <1>1, Cuts
<1>4. /\ c \in Seq(Message) /\ Len(c) = n + 1
      /\ \A i \in 1..n :
            UpdateFields(c[i], reset /\ i = 1, TRUE,
                         SubSeq(es, (i - 1) * MaxEntries + 1, i * MaxEntries), v,
                         IF stale THEN "stale" ELSE "part")
      /\ UpdateFields(c[n + 1], reset /\ n = 0, FALSE,
                      SubSeq(es, n * MaxEntries + 1, Len(es)), v,
                      IF stale THEN "stale" ELSE IF reset THEN "whole" ELSE "part")
  <2>1. es \in Seq(Entry) /\ reset \in BOOLEAN /\ v \in 1..Len(past) /\ stale \in BOOLEAN
    BY <1>1
  <2> HIDE DEF v
  <2> QED BY ONLY <2>1, ChunkParts, Zenon
<1> HIDE DEF n, c, from, taint, last
<1>5. /\ P(0) = from
      /\ from = old => P(Len(es)) = local
      /\ \A k \in Nat : P(k) \in Tree
  <2>1. from \in Tree /\ local \in Tree /\ old \in Tree /\ Takes(es, old, local)
    BY <1>1, <1>2
  <2> HIDE DEF P, h, mid, end
  <2>2. /\ Part(from, local, es, 0) = from
        /\ from = old => Part(from, local, es, Len(es)) = local
        /\ \A k \in Nat : Part(from, local, es, k) \in Tree
    BY <2>1, PartEnds, Zenon
  <2> QED BY <2>2 DEF P
<1>6. \A k \in Nat, l \in Nat : k <= l /\ l <= Len(es) =>
         /\ SubSeq(es, k + 1, l) \in Seq(Entry)
         /\ Apply(P(k), SubSeq(es, k + 1, l)) = P(l)
  BY <1>1, <1>2, ApplyPart
<1> HIDE DEF P
<1>7. ASSUME NEW i \in 1..n
      PROVE  /\ mid(i) \in Standing /\ mid(i).remote = s.remote /\ mid(i).have = s.have
             /\ mid(i).staging = P(i * MaxEntries) /\ mid(i).active = TRUE
             /\ mid(i).taint = taint /\ mid(i).version = s.version
  <2>1. P(i * MaxEntries) \in Tree
    BY <1>3, <1>5
  <2> QED BY ONLY <1>2, <2>1 DEF Standing
<1>8. /\ end \in Standing /\ end.remote = P(Len(es)) /\ end.have = TRUE
      /\ end.active = FALSE /\ end.taint = last
      /\ end.version = (IF last THEN s.version ELSE v)
  BY <1>1, <1>2, <1>5, NoFilesTree, StandingParts
\* the tree that the chunk after i applies its entries to
<1>9. ASSUME NEW i \in 0..n
      PROVE  \A e : Makes(h[i], reset /\ i = 0, e) = Apply(P(i * MaxEntries), e)
  <2> SUFFICES (IF reset /\ i = 0 THEN NoFiles
                ELSE IF h[i].active THEN h[i].staging ELSE h[i].remote) = P(i * MaxEntries)
    BY Zenon DEF Makes
  <2>1. CASE i = 0
    <3>1. h[i] = s
      BY <1>3, <2>1
    <3>2. i * MaxEntries = 0
      BY <2>1, ExchangeAssumption
    <3>3. (IF reset /\ i = 0 THEN NoFiles ELSE s.remote) = from
      BY <2>1 DEF from
    <3> QED BY <1>2, <1>5, <3>1, <3>2, <3>3
  <2>2. CASE i # 0
    <3>1. h[i] = mid(i) /\ i \in 1..n
      BY <1>3, <2>2
    <3> HIDE DEF h, mid
    <3> QED BY <1>7, <2>2, <3>1
  <2> QED BY <2>1, <2>2
<1>10. ASSUME NEW i \in 0..n
       PROVE  h[i] \in Standing /\ h[i].taint = (IF i = 0 THEN s.taint ELSE taint)
              /\ h[i].version = s.version /\ h[i].remote = s.remote /\ h[i].have = s.have
  <2>1. CASE i = 0
    <3>1. h[i] = s
      BY <1>3, <2>1
    <3> QED BY <2>1, <3>1
  <2>2. CASE i # 0
    <3>1. h[i] = mid(i) /\ i \in 1..n
      BY <1>3, <2>2
    <3> HIDE DEF h, mid
    <3> QED BY <1>7, <2>2, <3>1
  <2> QED BY <2>1, <2>2
<1>11. h[n + 1] = end /\ \A i \in 1..n : h[i] = mid(i)
  BY <1>3
<1>12. DOMAIN h = 0..(n + 1) /\ h = [i \in DOMAIN h |-> h[i]] /\ h[0] = s
  BY <1>3
<1> HIDE DEF h
<1>13. ASSUME NEW i \in 1..n PROVE h[i] = Hear(h[i - 1], c[i])
  <2> DEFINE e == SubSeq(es, (i - 1) * MaxEntries + 1, i * MaxEntries)
             says == IF stale THEN "stale" ELSE "part"
             j == i - 1
  <2>1. j \in 0..n /\ (i = 1 <=> j = 0)
    BY <1>3
  <2>2. e \in Seq(Entry) /\ Apply(P(j * MaxEntries), e) = P(i * MaxEntries)
    BY <1>3, <1>6
  <2>3. UpdateFields(c[i], reset /\ j = 0, TRUE, e, v, says)
    BY <1>4, <2>1
  <2>4. Taints(h[j], says) = taint
    <3>1. says = "stale" <=> stale
      OBVIOUS
    <3>2. says # "whole"
      OBVIOUS
    <3>3. h[j].taint = s.taint \/ h[j].taint = taint
      BY <1>10, <2>1
    <3> HIDE DEF says
    <3> QED BY <1>2, <3>1, <3>2, <3>3 DEF taint, Taints
  <2>5. h[j] \in Standing /\ h[j].version = s.version /\ h[j].remote = s.remote /\ h[j].have = s.have
    BY <1>10, <2>1
  <2> DEFINE first == reset /\ j = 0
  <2>6. Makes(h[j], first, e) = Apply(P(j * MaxEntries), e)
    BY <1>9, <2>1, Zenon
  <2> HIDE DEF e, says, j, first
  <2>7. Hear(h[j], c[i]) =
           [remote |-> h[j].remote, have |-> h[j].have, staging |-> Makes(h[j], first, e),
            active |-> TRUE, taint |-> Taints(h[j], says), version |-> h[j].version]
    <3>1. MoreFields(c[i], first, e, v, says)
      BY <2>3, Zenon DEF first, UpdateFields, MoreFields
    <3> DEFINE a == h[j]
               m == c[i]
    <3>2. a \in Standing /\ MoreFields(m, first, e, v, says)
      BY <2>5, <3>1
    <3> HIDE DEF a, m
    <3>3. Hear(a, m) =
             [remote |-> a.remote, have |-> a.have, staging |-> Makes(a, first, e),
              active |-> TRUE, taint |-> Taints(a, says), version |-> a.version]
      BY <3>2, HearChunk, SMT
    <3> QED BY <3>3, Zenon DEF a, m
  <2>8. Hear(h[j], c[i]) = mid(i)
    BY <2>2, <2>4, <2>5, <2>6, <2>7
  <2> QED BY <1>11, <2>8 DEF j
<1>14. h[n + 1] = Hear(h[n], c[n + 1])
  <2> DEFINE e == SubSeq(es, n * MaxEntries + 1, Len(es))
             says == IF stale THEN "stale" ELSE IF reset THEN "whole" ELSE "part"
  <2>1. e \in Seq(Entry) /\ Apply(P(n * MaxEntries), e) = P(Len(es))
    BY <1>1, <1>3, <1>6
  <2>2. UpdateFields(c[n + 1], reset /\ n = 0, FALSE, e, v, says)
    BY <1>4
  <2>3. h[n] \in Standing /\ h[n].version = s.version /\ (h[n].taint = s.taint \/ h[n].taint = taint)
        /\ Makes(h[n], reset /\ n = 0, e) = Apply(P(n * MaxEntries), e)
    <3>1. n \in 0..n /\ (h[n].taint = s.taint \/ h[n].taint = taint)
      BY <1>3, <1>10
    <3>2. Makes(h[n], reset /\ n = 0, e) = Apply(P(n * MaxEntries), e)
      BY <1>9, <3>1, Zenon
    <3> QED BY <1>10, <3>1, <3>2
  <2>4. Taints(h[n], says) = last
    <3>1. says = "stale" <=> stale
      BY Zenon
    <3>2. says = "whole" <=> ~stale /\ reset
      BY Zenon
    <3> HIDE DEF says
    <3> QED BY <1>2, <2>3, <3>1, <3>2 DEF taint, last, Taints
  <2> DEFINE first == reset /\ n = 0
  <2>5. LastFields(c[n + 1], first, e, v, says) /\ Makes(h[n], first, e) = P(Len(es))
    BY <2>1, <2>2, <2>3, Zenon DEF LastFields, UpdateFields
  <2> HIDE DEF e, says, first
  <2>6. Hear(h[n], c[n + 1]) =
           [remote |-> Makes(h[n], first, e), have |-> TRUE, staging |-> NoFiles,
            active |-> FALSE, taint |-> Taints(h[n], says),
            version |-> IF Taints(h[n], says) THEN h[n].version ELSE v]
    <3> DEFINE a == h[n]
               m == c[n + 1]
    <3>1. LastFields(m, first, e, v, says)
      BY <2>5
    <3> HIDE DEF a, m
    <3>2. Hear(a, m) =
             [remote |-> Makes(a, first, e), have |-> TRUE, staging |-> NoFiles,
              active |-> FALSE, taint |-> Taints(a, says),
              version |-> IF Taints(a, says) THEN a.version ELSE v]
      BY <3>1, HearLastChunk, SMT
    <3> QED BY <3>2, Zenon DEF a, m
  <2> QED BY <1>11, <2>3, <2>4, <2>5, <2>6
<1>15. end.taint = FALSE => end.remote = local
  <2>1. SUFFICES ASSUME end.taint = FALSE PROVE end.remote = local
    OBVIOUS
  <2>2. last = FALSE
    BY <1>8, <2>1
  <2>3. ~stale /\ (s.taint => reset)
    BY <1>2, <2>2 DEF last
  <2>4. from = old
    BY <2>3 DEF from
  <2> QED BY <1>5, <1>8, <2>4
<1>16. Whole(end)
  <2>1. CASE last = TRUE
    <3>1. end.version = s.version /\ end.taint = TRUE
      BY <1>8, <2>1
    <3> HIDE DEF end
    <3> QED BY <3>1 DEF Whole
  <2>2. CASE last = FALSE
    <3>1. end.version = v /\ end.remote = local
      BY <1>8, <1>15, <2>2
    <3> HIDE DEF end
    <3> QED BY <1>1, <3>1 DEF Whole
  <2> QED BY <1>2, <2>1, <2>2
<1> HIDE DEF mid, end
<1>17. \A i \in 0..n : Whole(h[i])
  <2> SUFFICES ASSUME NEW i \in 0..n PROVE Whole(h[i])
    OBVIOUS
  <2>1. h[i].version = s.version /\ h[i].remote = s.remote /\ h[i].have = s.have
        /\ (h[i].taint = s.taint \/ h[i].taint = taint)
    BY <1>10
  <2>2. ~h[i].taint => ~s.taint
    BY <2>1 DEF taint
  <2> QED BY <2>1, <2>2 DEF Whole
<1>18. /\ h \in [0..(n + 1) -> Standing]
       /\ \A i \in 1..(n + 1) : h[i] = Hear(h[i - 1], c[i]) /\ h[i - 1].version <= h[i].version
       /\ \A i \in 0..(n + 1) : Whole(h[i])
  <2>1. \A i \in 0..(n + 1) : i \in 0..n \/ i = n + 1
    BY <1>3
  <2>2. \A i \in 1..(n + 1) : (i \in 1..n \/ i = n + 1) /\ i - 1 \in 0..n
    BY <1>3
  <2>3. \A i \in 0..(n + 1) : h[i] \in Standing /\ Whole(h[i])
    BY <1>8, <1>10, <1>11, <1>16, <1>17, <2>1
  <2>4. (n + 1) - 1 = n
    BY <1>3
  <2>5. \A i \in 1..(n + 1) : h[i] = Hear(h[i - 1], c[i])
    BY <1>13, <1>14, <2>2, <2>4
  <2>6. s.version <= s.version /\ s.version <= end.version
    BY <1>1, <1>2, <1>8
  <2>7. \A i \in 1..(n + 1) : h[i - 1].version <= h[i].version
    <3> SUFFICES ASSUME NEW i \in 1..(n + 1) PROVE h[i - 1].version <= h[i].version
      OBVIOUS
    <3>1. h[i - 1].version = s.version
      BY <1>10, <2>2
    <3>2. h[i].version = s.version \/ h[i].version = end.version
      <4>1. i \in 1..n => i \in 0..n
        BY <1>3
      <4> QED BY <1>10, <1>11, <2>2, <4>1
    <3> QED BY <2>6, <3>1, <3>2
  <2>8. h \in [0..(n + 1) -> Standing]
    BY <1>12, <2>3
  <2> QED BY <2>3, <2>5, <2>7, <2>8
<1>19. Course(h, c) /\ h[Len(c)] = end
  BY <1>4, <1>11, <1>18 DEF Course
<1>20. ~end.active /\ (stale => end.taint) /\ (~end.taint => end.have /\ end.remote = local)
  BY <1>2, <1>8, <1>15 DEF last
<1>21. h[0] = s
  BY <1>12
<1> QED BY <1>4, <1>19, <1>20, <1>21 DEF c, v

-----------------------------------------------------------------------------
(* Courses.                                                                *)

\* What is left of a course once the first message is heard.
LEMMA CourseTail ==
    ASSUME NEW c \in Seq(Message), c # <<>>, NEW g, Course(g, c)
    PROVE  /\ g[1] = Hear(g[0], Head(c)) /\ g[1] \in Standing /\ Whole(g[1])
           /\ g[0].version <= g[1].version
           /\ Tail(c) \in Seq(Message)
           /\ \E h : Course(h, Tail(c)) /\ h[0] = g[1] /\ h[Len(Tail(c))] = g[Len(c)]
<1> DEFINE d == Tail(c)
           h == [i \in 0..Len(d) |-> g[i + 1]]
<1>1. /\ Len(c) \in Nat /\ Len(c) > 0 /\ d \in Seq(Message) /\ Len(d) = Len(c) - 1
      /\ \A i \in 1..Len(d) : d[i] = c[i + 1]
      /\ Head(c) = c[1]
  OBVIOUS
<1> HIDE DEF d
<1>2. /\ g \in [0..Len(c) -> Standing]
      /\ \A i \in 1..Len(c) : g[i] = Hear(g[i - 1], c[i]) /\ g[i - 1].version <= g[i].version
      /\ \A i \in 0..Len(c) : Whole(g[i])
  BY DEF Course
<1>3. 1 \in 1..Len(c) /\ 1 \in 0..Len(c) /\ 1 - 1 = 0
  BY <1>1
<1>4. g[1] = Hear(g[0], Head(c)) /\ g[1] \in Standing /\ Whole(g[1]) /\ g[0].version <= g[1].version
  BY <1>1, <1>2, <1>3
<1>5. \A i \in 0..Len(d) : i + 1 \in 0..Len(c) /\ h[i] = g[i + 1]
  BY <1>1
<1>6. h \in [0..Len(d) -> Standing] /\ \A i \in 0..Len(d) : Whole(h[i])
  BY <1>2, <1>5
<1>7. \A i \in 1..Len(d) : /\ i + 1 \in 1..Len(c) /\ (i + 1) - 1 = i /\ (i - 1) + 1 = i
                           /\ i - 1 \in 0..Len(d) /\ i \in 0..Len(d)
  BY <1>1
<1>8. h[0] = g[1] /\ h[Len(d)] = g[Len(c)]
  BY <1>1
<1> HIDE DEF h
<1>9. \A i \in 1..Len(d) : h[i] = Hear(h[i - 1], d[i]) /\ h[i - 1].version <= h[i].version
  <2> SUFFICES ASSUME NEW i \in 1..Len(d)
               PROVE  h[i] = Hear(h[i - 1], d[i]) /\ h[i - 1].version <= h[i].version
    OBVIOUS
  <2>1. h[i] = g[i + 1] /\ h[i - 1] = g[i] /\ d[i] = c[i + 1]
    BY <1>1, <1>5, <1>7
  <2>2. g[i + 1] = Hear(g[i], c[i + 1]) /\ g[i].version <= g[i + 1].version
    BY <1>2, <1>7
  <2> QED BY <2>1, <2>2
<1>10. Course(h, d)
  BY <1>6, <1>9 DEF Course
<1> QED BY <1>1, <1>4, <1>8, <1>10 DEF d

\* A course goes on with another from where it ends.
LEMMA CourseJoin ==
    ASSUME NEW c \in Seq(Message), NEW d \in Seq(Message), NEW g, NEW h,
           Course(g, c), Course(h, d), h[0] = g[Len(c)]
    PROVE  \E k : Course(k, c \o d) /\ k[0] = g[0] /\ k[Len(c \o d)] = h[Len(d)]
<1> DEFINE m == Len(c)
           n == Len(d)
           k == [i \in 0..(m + n) |-> IF i <= m THEN g[i] ELSE h[i - m]]
<1>1. /\ m \in Nat /\ n \in Nat /\ c \o d \in Seq(Message) /\ Len(c \o d) = m + n
      /\ \A i \in 1..m : (c \o d)[i] = c[i]
      /\ \A i \in 1..(m + n) : i > m => (c \o d)[i] = d[i - m]
  OBVIOUS
<1>2. /\ g \in [0..m -> Standing]
      /\ \A i \in 1..m : g[i] = Hear(g[i - 1], c[i]) /\ g[i - 1].version <= g[i].version
      /\ \A i \in 0..m : Whole(g[i])
  BY DEF Course
<1>3. /\ h \in [0..n -> Standing]
      /\ \A i \in 1..n : h[i] = Hear(h[i - 1], d[i]) /\ h[i - 1].version <= h[i].version
      /\ \A i \in 0..n : Whole(h[i])
  BY DEF Course
<1>4. h[0] = g[m]
  OBVIOUS
<1> HIDE DEF m, n
<1>5. \A i \in 0..(m + n) : (i <= m => i \in 0..m /\ k[i] = g[i])
                            /\ (i >= m => i - m \in 0..n /\ k[i] = h[i - m])
  <2> SUFFICES ASSUME NEW i \in 0..(m + n)
               PROVE  (i <= m => i \in 0..m /\ k[i] = g[i]) /\ (i >= m => i - m \in 0..n /\ k[i] = h[i - m])
    OBVIOUS
  <2>1. (i <= m => i \in 0..m) /\ (i >= m => i - m \in 0..n) /\ (i = m => i - m = 0)
    BY <1>1
  <2>2. i = m \/ i < m \/ i > m
    BY <1>1
  <2> QED BY <1>1, <1>4, <2>1, <2>2
<1>6. DOMAIN k = 0..(m + n) /\ k = [i \in 0..(m + n) |-> k[i]]
  OBVIOUS
<1> HIDE DEF k
<1>7. \A i \in 0..(m + n) : i <= m \/ i >= m
  BY <1>1
<1>8. \A i \in 0..(m + n) : k[i] \in Standing /\ Whole(k[i])
  BY <1>2, <1>3, <1>5, <1>7
<1>9. \A i \in 1..(m + n) : k[i] = Hear(k[i - 1], (c \o d)[i]) /\ k[i - 1].version <= k[i].version
  <2> SUFFICES ASSUME NEW i \in 1..(m + n)
               PROVE  k[i] = Hear(k[i - 1], (c \o d)[i]) /\ k[i - 1].version <= k[i].version
    OBVIOUS
  <2>1. i \in 0..(m + n) /\ i - 1 \in 0..(m + n) /\ (i <= m \/ i > m)
    BY <1>1
  <2>2. CASE i <= m
    <3>1. i \in 1..m /\ i - 1 <= m
      BY <1>1, <2>2
    <3>2. k[i] = g[i] /\ k[i - 1] = g[i - 1] /\ (c \o d)[i] = c[i]
      BY <1>1, <1>5, <2>1, <2>2, <3>1
    <3> QED BY <1>2, <3>1, <3>2
  <2>3. CASE i > m
    <3>1. i - m \in 1..n /\ i >= m /\ i - 1 >= m /\ (i - m) - 1 = (i - 1) - m
      BY <1>1, <2>3
    <3>2. k[i] = h[i - m] /\ k[i - 1] = h[(i - m) - 1] /\ (c \o d)[i] = d[i - m]
      BY <1>1, <1>5, <2>1, <2>3, <3>1
    <3> QED BY <1>3, <3>1, <3>2
  <2> QED BY <2>1, <2>2, <2>3
<1>10. k \in [0..(m + n) -> Standing]
  BY <1>6, <1>8
<1>11. Course(k, c \o d)
  BY <1>1, <1>8, <1>9, <1>10 DEF Course
<1>12. 0 \in 0..(m + n) /\ 0 <= m /\ m + n \in 0..(m + n) /\ m + n >= m /\ (m + n) - m = n
  BY <1>1
<1>13. k[0] = g[0] /\ k[m + n] = h[n]
  BY <1>5, <1>12
<1> QED BY <1>1, <1>11, <1>13 DEF n

\* A listener with nothing on its way is on a course of its own.
LEMMA CourseEmpty ==
    ASSUME NEW s \in Standing, Whole(s)
    PROVE  \E g : Course(g, <<>>) /\ g[0] = s
<1> DEFINE g == [i \in 0..0 |-> s]
<1>1. Len(<<>>) = 0 /\ g[0] = s /\ g \in [0..0 -> Standing] /\ (\A i \in 0..0 : Whole(g[i])) /\ 1..0 = {}
  OBVIOUS
<1> HIDE DEF g
<1>2. Course(g, <<>>)
  BY <1>1 DEF Course
<1> QED BY <1>1, <1>2

-----------------------------------------------------------------------------
(* The steps keep the course sound.                                        *)

\* The trees and the messages still to come being the same, so are the courses.
LEMMA CourseKept ==
    ASSUME NEW g, UNCHANGED past
    PROVE  (Course(g, chan))' = Course(g, chan')
BY DEF Course, Whole

LEMMA LocalTree ==
    ASSUME past \in Seq(Tree), past # <<>>
    PROVE  local \in Tree /\ Len(past) \in 1..Len(past) /\ past[Len(past)] = local
BY DEF local

\* What a session sends when it advertises takes a listener that has heard all that is
\* on its way to the present tree, or is known to be stale.
LEMMA AdvertiseSound ==
    ASSUME TypeOK, Sessions, Sound, NEW e \in 1..connects, Advertise(e),
           UNCHANGED <<past, linked, connects, listener, ghosts>>
    PROVE  /\ Sound'
           /\ chan' \in Seq(Message) /\ (~linked => chan' = chan)
           /\ last_sent' \in [1..MaxConnects -> Tree \union {Unknown}]
           /\ \A i \in 1..MaxConnects : i > connects => last_sent'[i] = Unknown
<1> DEFINE reset == last_sent[e] = Unknown
           old == IF reset THEN NoFiles ELSE last_sent[e]
           es == Diff(old, local)
           stale == e # connects
           d == Chunks(es, reset, Len(past), stale)
<1>1. /\ past \in Seq(Tree) /\ past # <<>> /\ chan \in Seq(Message) /\ connects \in 0..MaxConnects
      /\ last_sent \in [1..MaxConnects -> Tree \union {Unknown}] /\ linked \in BOOLEAN
      /\ MaxConnects \in Nat
  BY ExchangeAssumption DEF TypeOK
<1>2. e \in 1..MaxConnects
  BY <1>1
<1>3. /\ local \in Tree /\ old \in Tree /\ Takes(es, old, local)
      /\ reset \in BOOLEAN /\ stale \in BOOLEAN
      /\ (reset => old = NoFiles) /\ (~reset => old = last_sent[e])
  <2>1. local \in Tree /\ old \in Tree
    BY <1>1, <1>2, LocalTree, NoFilesTree
  <2> QED BY <2>1, DiffTakes
<1>4. /\ chan' = IF linked /\ (reset \/ es # <<>>) THEN chan \o d ELSE chan
      /\ last_sent' = [last_sent EXCEPT ![e] = local]
  BY Zenon DEF Advertise
<1>5. /\ last_sent' \in [1..MaxConnects -> Tree \union {Unknown}]
      /\ last_sent'[e] = local
      /\ \A i \in 1..MaxConnects : i # e => last_sent'[i] = last_sent[i]
  BY <1>1, <1>2, <1>3, <1>4
<1>6. \A i \in 1..MaxConnects : i > connects => last_sent'[i] = Unknown
  BY <1>1, <1>5 DEF Sessions
<1>7. PICK g : Course(g, chan) /\ g[0] = standing /\ Ends(g[Len(chan)], said)
  BY DEF Sound
<1>8. standing' = standing
  BY DEF standing, listener, ghosts
<1>9. g[Len(chan)] \in Standing /\ Whole(g[Len(chan)])
  BY <1>1, <1>7 DEF Course
<1>10. said' = IF linked THEN last_sent'[connects] ELSE Unknown
  BY DEF said
<1>11. linked => connects \in 1..MaxConnects
  BY <1>1 DEF Sessions
<1>12. CASE ~(linked /\ (reset \/ es # <<>>))
  <2>1. chan' = chan
    BY <1>4, <1>12
  <2>2. Ends(g[Len(chan)], said')
    <3>1. CASE ~linked
      BY <1>7, <1>10, <3>1 DEF Ends, said
    <3>2. CASE linked
      <4>1. ~reset /\ es = <<>>
        BY <1>12, <3>2
      <4>2. last_sent[e] = local
        <5>1. old = last_sent[e] /\ old \in Tree /\ Len(es) = 0
          BY <1>3, <4>1
        <5>2. \A f \in Path : old[f] = local[f]
          BY <1>3, <5>1 DEF Takes
        <5> QED BY <1>3, <5>1, <5>2 DEF Tree
      <4>3. said' = said
        BY <1>5, <1>10, <1>11, <3>2, <4>2 DEF said
      <4> QED BY <1>7, <4>3
    <3> QED BY <3>1, <3>2
  <2>3. Course(g, chan) /\ Course(g, chan')
    BY <1>7, <2>1
  <2>4. Sound'
    BY <1>7, <1>8, <2>1, <2>2, <2>3, CourseKept DEF Sound, Ends
  <2> QED BY <1>1, <1>5, <1>6, <2>1, <2>4
<1>13. CASE linked /\ (reset \/ es # <<>>)
  <2>1. chan' = chan \o d
    BY <1>4, <1>13
  <2> DEFINE s == g[Len(chan)]
  <2>2. ~s.active
    BY <1>7 DEF Ends
  <2>3. ~reset /\ ~s.taint /\ ~stale => s.remote = old
    BY <1>3, <1>7, <1>13 DEF Ends, said
  <2>4. s \in Standing /\ Whole(s)
    BY <1>9
  <2> HIDE DEF s, reset, old, es, stale
  <2>5. /\ d \in Seq(Message)
        /\ \E h : /\ Course(h, d) /\ h[0] = s
                  /\ ~h[Len(d)].active
                  /\ stale => h[Len(d)].taint
                  /\ ~h[Len(d)].taint => h[Len(d)].have /\ h[Len(d)].remote = local
    BY <1>1, <1>3, <2>2, <2>3, <2>4, ChunksCourse
  <2> HIDE DEF d
  <2>6. PICK h : /\ Course(h, d) /\ h[0] = s
                 /\ ~h[Len(d)].active
                 /\ stale => h[Len(d)].taint
                 /\ ~h[Len(d)].taint => h[Len(d)].have /\ h[Len(d)].remote = local
    BY <2>5
  <2>7. PICK k : Course(k, chan \o d) /\ k[0] = g[0] /\ k[Len(chan \o d)] = h[Len(d)]
    <3>1. chan \in Seq(Message) /\ Course(g, chan) /\ h[0] = g[Len(chan)]
      BY <1>1, <1>7, <2>6 DEF s
    <3> QED BY ONLY <2>5, <2>6, <3>1, CourseJoin
  <2>8. ~stale => said' = local
    BY <1>5, <1>10, <1>13 DEF stale
  <2>9. Ends(h[Len(d)], said')
    BY <2>6, <2>8 DEF Ends
  <2>10. Course(k, chan') /\ k[0] = standing' /\ Ends(k[Len(chan')], said')
    BY <1>7, <1>8, <2>1, <2>7, <2>9
  <2>11. Sound'
    BY <2>10, CourseKept DEF Sound, Ends
  <2>12. chan' \in Seq(Message)
    BY <1>1, <2>1, <2>5
  <2> QED BY <1>5, <1>6, <1>13, <2>11, <2>12
<1> QED BY <1>12, <1>13

\* One more tree leaves every tree the teller has had where it was.
LEMMA PastGrows ==
    ASSUME past \in Seq(Tree), past # <<>>, NEW t \in Tree, past' = Append(past, t)
    PROVE  /\ past' \in Seq(Tree) /\ past' # <<>> /\ Len(past') = Len(past) + 1
           /\ \A i \in 1..Len(past) : i \in 1..Len(past') /\ past'[i] = past[i]
           /\ Message \subseteq Message'
           /\ \A g, c : Course(g, c) => (Course(g, c))'
<1>1. /\ past' \in Seq(Tree) /\ past' # <<>> /\ Len(past') = Len(past) + 1 /\ Len(past) \in Nat
      /\ \A i \in 1..Len(past) : i \in 1..Len(past') /\ past'[i] = past[i]
  OBVIOUS
<1>2. 1..Len(past) \subseteq 1..Len(past')
  BY <1>1
<1>3. Message \subseteq Message'
  BY <1>2 DEF Message
<1>4. ASSUME NEW s, Whole(s) PROVE Whole(s)'
  BY <1>1, <1>4 DEF Whole
<1>5. \A g, c : Course(g, c) => (Course(g, c))'
  BY <1>4 DEF Course
<1> QED BY <1>1, <1>3, <1>5

\* Hearing the first message takes the listener one step along its course.
LEMMA HearSound ==
    ASSUME TypeOK, Sound, chan # <<>>, chan' = Tail(chan), standing' = Hear(standing, Head(chan)),
           UNCHANGED <<past, said>>
    PROVE  /\ Sound' /\ chan' \in Seq(Message)
           /\ standing' \in Standing /\ Whole(standing') /\ standing.version <= standing'.version
<1>1. chan \in Seq(Message)
  BY DEF TypeOK
<1>2. PICK g : Course(g, chan) /\ g[0] = standing /\ Ends(g[Len(chan)], said)
  BY DEF Sound
<1>3. /\ g[1] = standing' /\ g[1] \in Standing /\ Whole(g[1]) /\ standing.version <= g[1].version
      /\ Tail(chan) \in Seq(Message)
      /\ \E h : Course(h, Tail(chan)) /\ h[0] = g[1] /\ h[Len(Tail(chan))] = g[Len(chan)]
  BY <1>1, <1>2, CourseTail
<1>4. PICK h : Course(h, chan') /\ h[0] = standing' /\ h[Len(chan')] = g[Len(chan)]
  BY <1>3
<1>5. Ends(h[Len(chan')], said')
  BY <1>2, <1>4
<1>6. Sound'
  BY <1>4, <1>5, CourseKept DEF Sound, Ends
<1> QED BY <1>3, <1>6

LEMMA StandingFields ==
    /\ standing.remote = remote /\ standing.have = have_remote /\ standing.staging = staging
    /\ standing.active = staging_active /\ standing.taint = tainted /\ standing.version = version
BY DEF standing

LEMMA HearUpdateHears ==
    ASSUME TypeOK, HearUpdate
    PROVE  standing' = Hear(standing, Head(chan))
<1> DEFINE m == Head(chan)
<1>1. m.op # "Hello"
  BY DEF HearUpdate, Receives
<1>2. tainted' = Taints(standing, m.says)
  BY StandingFields, Zenon DEF HearUpdate, Taints
<1> DEFINE from == IF m.reset THEN NoFiles ELSE IF staging_active THEN staging ELSE remote
<1>3. Apply(from, m.entries) = Makes(standing, m.reset, m.entries)
  BY StandingFields, Zenon DEF Makes
<1>4. /\ m.more => /\ staging' = Apply(from, m.entries) /\ staging_active' = TRUE
                   /\ UNCHANGED <<remote, have_remote, version>>
      /\ ~m.more => /\ remote' = Apply(from, m.entries) /\ have_remote' = TRUE
                    /\ version' = IF tainted' THEN version ELSE m.version
                    /\ staging' = NoFiles /\ staging_active' = FALSE
  BY Zenon DEF HearUpdate
<1> HIDE DEF m, from
<1>5. CASE m.more
  <2>1. standing' = [remote |-> remote, have |-> have_remote, staging |-> Makes(standing, m.reset, m.entries),
                     active |-> TRUE, taint |-> Taints(standing, m.says), version |-> version]
    BY <1>2, <1>3, <1>4, <1>5 DEF standing
  <2>2. Hear(standing, m) =
           [remote |-> standing.remote, have |-> standing.have,
            staging |-> Makes(standing, m.reset, m.entries), active |-> TRUE,
            taint |-> Taints(standing, m.says), version |-> standing.version]
    BY <1>1, <1>5, Zenon DEF Hear
  <2> QED BY <2>1, <2>2, StandingFields, Zenon DEF m
<1>6. CASE ~m.more
  <2>1. standing' = [remote |-> Makes(standing, m.reset, m.entries), have |-> TRUE, staging |-> NoFiles,
                     active |-> FALSE, taint |-> Taints(standing, m.says),
                     version |-> IF Taints(standing, m.says) THEN version ELSE m.version]
    BY <1>2, <1>3, <1>4, <1>6, Zenon DEF standing
  <2>2. Hear(standing, m) =
           [remote |-> Makes(standing, m.reset, m.entries), have |-> TRUE, staging |-> NoFiles,
            active |-> FALSE, taint |-> Taints(standing, m.says),
            version |-> IF Taints(standing, m.says) THEN standing.version ELSE m.version]
    BY <1>1, <1>6, Zenon DEF Hear
  <2> QED BY <2>1, <2>2, StandingFields, Zenon DEF m
<1> QED BY <1>5, <1>6

LEMMA HearHelloHears ==
    ASSUME TypeOK, HearHello
    PROVE  standing' = standing /\ standing' = Hear(standing, Head(chan))
BY DEF HearHello, Receives, standing, Hear, ghosts

IInv == TypeOK /\ Sessions /\ Sound

LEMMA InitIInv == Init => IInv
<1> SUFFICES ASSUME Init PROVE IInv
  OBVIOUS
<1>1. PICK t \in Tree : past = <<t>>
  BY DEF Init
<1>2. past \in Seq(Tree) /\ past # <<>> /\ Len(past) = 1
  BY <1>1
<1>3. MaxConnects \in Nat
  BY ExchangeAssumption
<1>4. <<>> \in Seq(Message)
  OBVIOUS
<1>5. TypeOK
  <2>1. last_sent \in [1..MaxConnects -> Tree \union {Unknown}]
    BY DEF Init
  <2>2. chan \in Seq(Message)
    BY <1>4 DEF Init
  <2>3. /\ {owed, dirty, linked, hello, listening, have_remote, staging_active, tainted} \subseteq BOOLEAN
        /\ remote \in Tree /\ staging \in Tree
    BY NoFilesTree DEF Init
  <2>4. session \in 0..MaxConnects /\ holding \in 0..MaxConnects /\ connects \in 0..MaxConnects
        /\ version \in 1..Len(past)
    BY <1>2, <1>3 DEF Init
  <2> QED BY <1>2, <2>1, <2>2, <2>3, <2>4 DEF TypeOK
<1>6. Sessions
  BY <1>3 DEF Init, Sessions
<1>7. standing \in Standing /\ Whole(standing) /\ Ends(standing, said)
  <2>1. standing \in Standing
    BY NoFilesTree DEF Init, standing, Standing
  <2>2. version = 1 /\ have_remote = FALSE /\ staging_active = FALSE /\ said = Unknown
    BY DEF Init, said
  <2> QED BY <1>2, <2>1, <2>2, StandingFields DEF Whole, Ends
<1>8. PICK g : Course(g, <<>>) /\ g[0] = standing
  BY <1>7, CourseEmpty
<1>9. chan = <<>> /\ Len(chan) = 0
  BY DEF Init
<1> QED BY <1>5, <1>6, <1>7, <1>8, <1>9 DEF IInv, Sound

LEMMA ChangeKeeps == ASSUME IInv, Change PROVE IInv'
<1> USE DEF IInv
<1>1. PICK f \in Path, c \in Content \union {Absent} :
         c # local[f] /\ past' = Append(past, [local EXCEPT ![f] = c])
  BY DEF Change
<1> DEFINE t == [local EXCEPT ![f] = c]
<1>2. past \in Seq(Tree) /\ past # <<>>
  BY DEF TypeOK
<1>3. t \in Tree
  BY <1>2, LocalTree DEF Tree
<1> HIDE DEF t
<1>4. /\ past' \in Seq(Tree) /\ past' # <<>> /\ Len(past') = Len(past) + 1
      /\ \A i \in 1..Len(past) : i \in 1..Len(past') /\ past'[i] = past[i]
      /\ Message \subseteq Message'
      /\ \A g, d : Course(g, d) => (Course(g, d))'
  BY <1>1, <1>2, <1>3, PastGrows DEF t
<1>5. chan' \in Seq(Message')
  BY <1>4 DEF TypeOK, Change
<1>6. TypeOK'
  BY <1>4, <1>5 DEF TypeOK, Change, listener, ghosts
<1>7. Sessions'
  BY DEF Sessions, Change
<1>8. Sound'
  <2>1. PICK g : Course(g, chan) /\ g[0] = standing /\ Ends(g[Len(chan)], said)
    BY DEF Sound
  <2>2. chan' = chan /\ standing' = standing /\ said' = said
    BY DEF Change, standing, said, listener, ghosts
  <2>3. (Course(g, chan))'
    BY <1>4, <2>1, <2>2 DEF Course
  <2> QED BY <2>1, <2>2, <2>3 DEF Sound, Ends
<1> QED BY <1>6, <1>7, <1>8

\* What an advertisement leaves alone.
LEMMA AdvertiseKeeps ==
    ASSUME IInv, NEW e \in 1..connects, Advertise(e),
           UNCHANGED <<past, linked, connects, listener, ghosts>>,
           session' \in {0, connects}, holding' \in 0..connects,
           owed' \in BOOLEAN, dirty' \in BOOLEAN, hello' \in BOOLEAN,
           ~linked => session' = 0 /\ ~hello'
    PROVE  IInv'
<1>1. /\ Sound'
      /\ chan' \in Seq(Message) /\ (~linked => chan' = chan)
      /\ last_sent' \in [1..MaxConnects -> Tree \union {Unknown}]
      /\ \A i \in 1..MaxConnects : i > connects => last_sent'[i] = Unknown
  BY AdvertiseSound DEF IInv
<1>2. chan' \in Seq(Message')
  BY <1>1 DEF Message
<1>3. connects \in 0..MaxConnects /\ MaxConnects \in Nat
  BY ExchangeAssumption DEF IInv, TypeOK
<1>4. session' \in 0..MaxConnects /\ holding' \in 0..MaxConnects /\ holding' <= connects
  BY <1>3
<1>5. {owed', dirty', linked', hello', listening', have_remote', staging_active', tainted'} \subseteq BOOLEAN
  BY DEF IInv, TypeOK, listener, ghosts
<1>6. past' \in Seq(Tree) /\ past' # <<>> /\ remote' \in Tree /\ staging' \in Tree
      /\ version' \in 1..Len(past') /\ connects' \in 0..MaxConnects
  BY DEF IInv, TypeOK, listener, ghosts
<1>7. TypeOK'
  BY <1>1, <1>2, <1>4, <1>5, <1>6 DEF TypeOK
<1>8. Sessions'
  BY <1>1, <1>4 DEF IInv, Sessions
<1> QED BY <1>1, <1>7, <1>8 DEF IInv

LEMMA TellerKeeps ==
    ASSUME IInv, NotifyCopy \/ NotifyCall \/ Flush \/ RecvHello
    PROVE  IInv'
<1>1. /\ TypeOK /\ Sessions /\ connects \in 0..MaxConnects /\ MaxConnects \in Nat
      /\ session \in 0..connects /\ holding \in 0..connects /\ session \in {0, connects}
      /\ owed \in BOOLEAN /\ dirty \in BOOLEAN /\ hello \in BOOLEAN /\ linked \in BOOLEAN
  BY ExchangeAssumption DEF IInv, TypeOK, Sessions
<1>2. CASE NotifyCopy
  <2>1. TypeOK'
    BY <1>1, <1>2 DEF NotifyCopy, TypeOK, Message, listener, ghosts
  <2>2. Sessions'
    BY <1>1, <1>2 DEF NotifyCopy, Sessions
  <2>3. Sound'
    <3>1. PICK g : Course(g, chan) /\ g[0] = standing /\ Ends(g[Len(chan)], said)
      BY DEF IInv, Sound
    <3>2. chan' = chan /\ standing' = standing /\ said' = said /\ past' = past
      BY <1>2 DEF NotifyCopy, standing, said, listener, ghosts
    <3> QED BY <3>1, <3>2, CourseKept DEF Sound, Ends
  <2> QED BY <2>1, <2>2, <2>3 DEF IInv
<1>3. CASE NotifyCall
  <2>1. /\ holding \in 1..connects /\ Advertise(holding) /\ holding' = 0 /\ owed' \in BOOLEAN
        /\ UNCHANGED <<past, session, dirty, linked, connects, hello, listener, ghosts>>
    <3>1. /\ holding # 0 /\ Advertise(holding) /\ holding' = 0
          /\ owed' = IF holding = session THEN FALSE ELSE owed
          /\ UNCHANGED <<past, session, dirty, linked, connects, hello, listener, ghosts>>
      BY <1>3, Zenon DEF NotifyCall
    <3>2. owed' \in BOOLEAN
      BY <1>1, <3>1
    <3>3. holding \in 1..connects
      BY <1>1, <3>1
    <3> QED BY <3>1, <3>2, <3>3, Zenon
  <2>2. ~linked => session' = 0 /\ ~hello'
    BY <1>1, <2>1 DEF Sessions
  <2> QED BY <1>1, <2>1, <2>2, AdvertiseKeeps
<1>4. CASE Flush
  <2>1. /\ session \in 1..connects /\ Advertise(session) /\ owed' = FALSE
        /\ UNCHANGED <<past, session, dirty, holding, linked, connects, hello, listener, ghosts>>
    BY <1>1, <1>4 DEF Flush
  <2>2. ~linked => session' = 0 /\ ~hello'
    BY <1>1, <2>1 DEF Sessions
  <2> QED BY <1>1, <2>1, <2>2, AdvertiseKeeps
<1>5. CASE RecvHello
  <2>1. /\ hello /\ hello' = FALSE /\ session' = connects /\ Advertise(connects) /\ owed' = FALSE
        /\ UNCHANGED <<past, dirty, holding, linked, connects, listener, ghosts>>
    BY <1>5 DEF RecvHello
  <2>2. linked /\ connects \in 1..connects
    BY <1>1, <2>1 DEF Sessions
  <2> QED BY <1>1, <2>1, <2>2, AdvertiseKeeps
<1> QED BY <1>2, <1>3, <1>4, <1>5

LEMMA ListenerKeeps ==
    ASSUME IInv, HearHello \/ HearUpdate
    PROVE  /\ IInv'
           /\ Whole(standing') /\ standing.version <= standing'.version
<1>1. standing' = Hear(standing, Head(chan))
  BY HearHelloHears, HearUpdateHears DEF IInv
<1>2. /\ chan # <<>> /\ chan' = Tail(chan) /\ listening' = TRUE
      /\ UNCHANGED <<teller, linked, connects, hello>>
  BY DEF HearHello, HearUpdate, Receives
<1>3. UNCHANGED <<past, session, last_sent, owed, dirty, holding, said>>
  BY <1>2 DEF teller, said
<1>4. /\ Sound' /\ chan' \in Seq(Message)
      /\ standing' \in Standing /\ Whole(standing') /\ standing.version <= standing'.version
  BY <1>1, <1>2, <1>3, HearSound DEF IInv
<1>5. chan' \in Seq(Message')
  BY <1>3, <1>4 DEF Message
<1>6. /\ standing'.remote = remote' /\ standing'.have = have_remote' /\ standing'.staging = staging'
      /\ standing'.active = staging_active' /\ standing'.taint = tainted' /\ standing'.version = version'
  BY DEF standing
<1>7. /\ remote' \in Tree /\ have_remote' \in BOOLEAN /\ staging' \in Tree
      /\ staging_active' \in BOOLEAN /\ tainted' \in BOOLEAN
  BY <1>4, <1>6 DEF Standing
<1>8. version' \in 1..Len(past')
  BY <1>3, <1>4, <1>6 DEF Whole
<1>9. TypeOK'
  BY <1>2, <1>3, <1>5, <1>7, <1>8 DEF IInv, TypeOK
<1>10. Sessions'
  <2>1. ~linked => chan = <<>>
    BY DEF IInv, Sessions
  <2> QED BY <1>2, <1>3, <2>1 DEF IInv, Sessions
<1> QED BY <1>4, <1>9, <1>10 DEF IInv

LEMMA ConnectKeeps == ASSUME IInv, Connect PROVE IInv'
<1>1. /\ ~linked /\ connects < MaxConnects /\ linked' = TRUE /\ connects' = connects + 1
      /\ hello' = TRUE /\ chan' = <<Hello>>
      /\ UNCHANGED <<past, session, last_sent, owed, dirty, holding, listening, remote, have_remote,
                     staging, staging_active, version, tainted>>
  BY DEF Connect, teller, listener, ghosts
<1>2. connects \in 0..MaxConnects /\ MaxConnects \in Nat
  BY ExchangeAssumption DEF IInv, TypeOK
<1>3. connects' \in 1..MaxConnects /\ connects' > connects
  BY <1>1, <1>2
<1>4. chan' \in Seq(Message) /\ chan' \in Seq(Message') /\ Len(chan') = 1 /\ chan'[1] = Hello
  <2>1. Hello \in Message /\ Hello \in Message'
    BY DEF Message
  <2> QED BY <1>1, <2>1
<1>5. TypeOK'
  BY <1>1, <1>3, <1>4 DEF IInv, TypeOK
<1>6. session = 0 /\ chan = <<>> /\ said = Unknown /\ said' = Unknown
  BY <1>1, <1>3 DEF IInv, Sessions, said
<1>7. Sessions'
  <2>1. holding' \in 0..MaxConnects /\ holding' <= connects'
    BY <1>1, <1>2 DEF IInv, TypeOK, Sessions
  <2>2. \A e \in 1..MaxConnects : e > connects' => last_sent'[e] = Unknown
    BY <1>1, <1>2 DEF IInv, Sessions
  <2>3. session' = 0
    BY <1>1, <1>6
  <2> QED BY <1>1, <1>3, <2>1, <2>2, <2>3 DEF Sessions
<1>8. Sound'
  <2>1. PICK g : Course(g, chan) /\ g[0] = standing /\ Ends(g[Len(chan)], said)
    BY DEF IInv, Sound
  <2>2. standing \in Standing /\ Whole(standing) /\ ~standing.active
    <3>1. Len(chan) = 0 /\ 0 \in 0..0
      BY <1>6
    <3> QED BY <2>1, <3>1 DEF Course, Ends
  <2> DEFINE h == [i \in 0..1 |-> standing]
  <2>3. /\ h \in [0..1 -> Standing] /\ h[0] = standing /\ h[1] = standing
        /\ 1..1 = {1} /\ 1 - 1 = 0 /\ \A i \in 0..1 : h[i] = standing
    BY <2>2
  <2> HIDE DEF h
  <2>4. Hear(standing, Hello) = standing /\ standing.version <= standing.version
    BY <2>2 DEF Hear, Hello, Standing
  <2>5. Course(h, chan')
    BY <1>4, <2>2, <2>3, <2>4 DEF Course
  <2>6. standing' = standing
    BY <1>1 DEF standing
  <2>7. Ends(h[Len(chan')], said')
    BY <1>4, <1>6, <2>2, <2>3 DEF Ends
  <2> QED BY <1>1, <2>3, <2>5, <2>6, <2>7, CourseKept DEF Sound, Ends
<1> QED BY <1>5, <1>7, <1>8 DEF IInv

LEMMA DropKeeps == ASSUME IInv, Drop PROVE IInv'
<1>1. /\ linked /\ connects < MaxConnects
      /\ linked' = FALSE /\ hello' = FALSE /\ chan' = <<>>
      /\ session' = 0 /\ owed' = FALSE
      /\ listening' = FALSE /\ remote' = NoFiles /\ have_remote' = FALSE
      /\ staging' = NoFiles /\ staging_active' = FALSE
      /\ tainted' = FALSE
      /\ UNCHANGED <<past, last_sent, dirty, holding, connects, version>>
  BY DEF Drop
<1>2. chan' \in Seq(Message')
  BY <1>1
<1>3. MaxConnects \in Nat
  BY ExchangeAssumption
<1>4. TypeOK'
  <2>1. {owed', dirty', linked', hello', listening', have_remote', staging_active', tainted'} \subseteq BOOLEAN
    BY <1>1 DEF IInv, TypeOK
  <2>2. session' \in 0..MaxConnects
    BY <1>1, <1>3
  <2> QED BY <1>1, <1>2, <2>1, <2>2, NoFilesTree DEF IInv, TypeOK
<1>5. Sessions'
  BY <1>1 DEF IInv, Sessions
<1>6. Sound'
  <2> DEFINE s == [remote |-> NoFiles, have |-> FALSE, staging |-> NoFiles,
                   active |-> FALSE, taint |-> FALSE, version |-> version]
  <2>1. version \in Nat /\ version \in 1..Len(past)
    BY DEF IInv, TypeOK
  <2>2. s \in Standing /\ s.have = FALSE /\ s.active = FALSE /\ s.version = version
    BY <2>1, NoFilesTree DEF Standing
  <2>3. standing' = s /\ said' = Unknown
    BY <1>1 DEF standing, said
  <2> HIDE DEF s
  <2>4. Whole(s) /\ Ends(s, Unknown)
    BY <2>1, <2>2 DEF Whole, Ends
  <2>5. PICK g : Course(g, <<>>) /\ g[0] = s
    BY <2>2, <2>4, CourseEmpty
  <2>6. Course(g, chan') /\ g[0] = standing' /\ g[Len(chan')] = s
    BY <1>1, <2>3, <2>5
  <2> QED BY <1>1, <2>3, <2>4, <2>6, CourseKept DEF Sound, Ends
<1> QED BY <1>4, <1>5, <1>6 DEF IInv

LEMMA StepIInv == IInv /\ [Next]_vars => IInv'
<1>1. ASSUME IInv, Next PROVE IInv'
  BY <1>1, ChangeKeeps, TellerKeeps, ListenerKeeps, ConnectKeeps, DropKeeps DEF Next
<1>2. ASSUME IInv, UNCHANGED vars PROVE IInv'
  <2>1. UNCHANGED <<past, session, last_sent, owed, dirty, holding, linked, connects, hello, chan,
                    listening, remote, have_remote, staging, staging_active, version, tainted>>
    BY <1>2 DEF vars, teller, listener, ghosts
  <2>2. TypeOK' /\ Sessions'
    BY <1>2, <2>1 DEF IInv, TypeOK, Message, Sessions
  <2>3. PICK g : Course(g, chan) /\ g[0] = standing /\ Ends(g[Len(chan)], said)
    BY <1>2 DEF IInv, Sound
  <2>4. standing' = standing /\ said' = said
    BY <2>1 DEF standing, said
  <2> QED BY <2>1, <2>2, <2>3, <2>4, CourseKept DEF IInv, Sound, Ends
<1> QED BY <1>1, <1>2

\* The variables of the exchange have their types.
THEOREM TypeCorrect == Spec => []TypeOK
<1>1. IInv => TypeOK
  BY DEF IInv
<1> QED BY <1>1, InitIInv, StepIInv, PTL DEF Spec

-----------------------------------------------------------------------------
(* Refinement.                                                             *)

LEMMA ViewOf == view = IF standing.have /\ ~standing.taint THEN standing.remote ELSE Unknown
BY StandingFields DEF view

\* The listener only ever sees whole trees the teller has had, and none older than one it
\* has seen, unless a replaced session has changed its tree
\* (sync_session.cpp: "a partially applied tree must never reach reconcile").
THEOREM ExchangeRefines == Spec => RefinesAdvertisedTree
<1>1. Init => Abstract!Init
  BY DEF Init, Abstract!Init, view
<1>2. IInv /\ [Next]_vars => [Abstract!Next]_Abstract!vars
  <2> SUFFICES ASSUME IInv, [Next]_vars PROVE [Abstract!Next]_Abstract!vars
    OBVIOUS
  <2>1. CASE Change
    <3>1. PICK f \in Path, c \in Content \union {Absent} : past' = Append(past, [local EXCEPT ![f] = c])
      BY <2>1 DEF Change
    <3>2. [local EXCEPT ![f] = c] \in Tree
      BY LocalTree DEF IInv, TypeOK, Tree
    <3>3. UNCHANGED <<view, version>>
      BY <2>1 DEF Change, view, listener, ghosts
    <3>4. Abstract!Change
      BY <3>1, <3>2, <3>3 DEF Abstract!Change
    <3> QED BY <3>4 DEF Abstract!Next
  <2>2. CASE NotifyCopy \/ NotifyCall \/ Flush \/ RecvHello \/ Connect \/ UNCHANGED vars
    <3> HIDE DEF Advertise
    <3>1. UNCHANGED <<past, remote, have_remote, tainted, version>>
      <4>1. CASE NotifyCopy
        BY <4>1 DEF NotifyCopy, listener, ghosts
      <4>2. CASE NotifyCall
        BY <4>2, Zenon DEF NotifyCall, listener, ghosts
      <4>3. CASE Flush
        BY <4>3, Zenon DEF Flush, listener, ghosts
      <4>4. CASE RecvHello
        BY <4>4, Zenon DEF RecvHello, listener, ghosts
      <4>5. CASE Connect
        BY <4>5 DEF Connect, teller, listener, ghosts
      <4>6. CASE UNCHANGED vars
        BY <4>6 DEF vars, teller, listener, ghosts
      <4> QED BY <2>2, <4>1, <4>2, <4>3, <4>4, <4>5, <4>6
    <3>2. UNCHANGED <<past, view, version>>
      BY <3>1 DEF view
    <3> QED BY <3>2 DEF Abstract!vars
  <2>3. CASE HearHello
    <3>1. UNCHANGED <<past, view, version>>
      BY <2>3 DEF HearHello, view, teller, ghosts
    <3> QED BY <3>1 DEF Abstract!vars
  <2>4. CASE HearUpdate
    <3>1. Whole(standing') /\ standing.version <= standing'.version
      BY <2>4, ListenerKeeps
    <3>2. /\ standing'.remote = remote' /\ standing'.have = have_remote' /\ standing'.taint = tainted'
          /\ standing'.version = version' /\ standing.version = version
      BY StandingFields DEF standing
    <3>3. past' = past
      BY <2>4 DEF HearUpdate, teller
    <3>4. view' = IF have_remote' /\ ~tainted' THEN remote' ELSE Unknown
      BY DEF view
    <3>5. CASE have_remote' /\ ~tainted'
      <4>1. view' = past[version'] /\ version' \in 1..Len(past) /\ version <= version'
        BY <3>1, <3>2, <3>4, <3>5 DEF Whole
      <4>2. version' \in version..Len(past)
        BY <4>1 DEF IInv, TypeOK
      <4>3. Abstract!Learn
        BY <3>3, <4>1, <4>2 DEF Abstract!Learn
      <4> QED BY <4>3 DEF Abstract!Next
    <3>6. CASE ~(have_remote' /\ ~tainted')
      <4>1. version' = version
        <5>1. CASE Head(chan).more
          BY <2>4, <5>1 DEF HearUpdate
        <5>2. CASE ~Head(chan).more
          <6>1. have_remote' = TRUE /\ version' = IF tainted' THEN version ELSE Head(chan).version
            BY <2>4, <5>2 DEF HearUpdate
          <6> QED BY <3>6, <6>1
        <5> QED BY <5>1, <5>2
      <4>2. Abstract!Forget
        BY <3>3, <3>4, <3>6, <4>1 DEF Abstract!Forget
      <4> QED BY <4>2 DEF Abstract!Next
    <3> QED BY <3>5, <3>6
  <2>5. CASE Drop
    <3>1. Abstract!Forget
      BY <2>5 DEF Drop, Abstract!Forget, view
    <3> QED BY <3>1 DEF Abstract!Next
  <2> QED BY <2>1, <2>2, <2>3, <2>4, <2>5 DEF Next
<1> QED BY <1>1, <1>2, InitIInv, StepIInv, PTL DEF Spec, RefinesAdvertisedTree, Abstract!Spec
=============================================================================
