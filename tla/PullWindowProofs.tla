-------------------------- MODULE PullWindowProofs --------------------------
(***************************************************************************)
(* What holds of PullWindow for every set of paths and every window.       *)
(*                                                                         *)
(* The window bound is inductive together with the types.  That every slot *)
(* is owed exactly one answer needs more: the four places an answer can be *)
(* in are disjoint, hold a path at most once, and together hold exactly    *)
(* the reserved paths (OwedInv).  That a transfer ends needs the peer's    *)
(* messages to be framed: each transfer is begun once and closed once,     *)
(* after that (Framed).                                                    *)
(***************************************************************************)
EXTENDS PullWindow, FiniteSetTheorems, TLAPS

-----------------------------------------------------------------------------
(* Sequences in which the members of K count.                              *)

Occurs(s, K) == \E i \in 1..Len(s) : s[i] \in K
Once(s, K)   == \A i, j \in 1..Len(s) : s[i] \in K /\ s[j] \in K => i = j

\* Taking the first message of a queue takes it out, and it was there once.
LEMMA TailOnce ==
    ASSUME NEW S, NEW s \in Seq(S), s # <<>>, NEW K, Once(s, K)
    PROVE  /\ Tail(s) \in Seq(S) /\ Head(s) \in S
           /\ Once(Tail(s), K)
           /\ Occurs(Tail(s), K) <=> Occurs(s, K) /\ Head(s) \notin K
<1>1. /\ Tail(s) \in Seq(S) /\ Head(s) \in S /\ Head(s) = s[1]
      /\ Len(Tail(s)) = Len(s) - 1 /\ Len(s) \in Nat \ {0}
      /\ \A i \in 1..Len(Tail(s)) : Tail(s)[i] = s[i + 1]
  OBVIOUS
<1>2. Once(Tail(s), K)
  <2> SUFFICES ASSUME NEW i \in 1..Len(Tail(s)), NEW j \in 1..Len(Tail(s)),
                      Tail(s)[i] \in K, Tail(s)[j] \in K
               PROVE  i = j
    BY DEF Once
  <2>1. i + 1 \in 1..Len(s) /\ j + 1 \in 1..Len(s)
    BY <1>1
  <2>2. s[i + 1] \in K /\ s[j + 1] \in K
    BY <1>1
  <2> QED BY <2>1, <2>2, <1>1 DEF Once
<1>3. ASSUME Occurs(Tail(s), K) PROVE Occurs(s, K) /\ Head(s) \notin K
  <2>1. PICK i \in 1..Len(Tail(s)) : Tail(s)[i] \in K
    BY <1>3 DEF Occurs
  <2>2. i + 1 \in 1..Len(s) /\ s[i + 1] \in K /\ 1 \in 1..Len(s) /\ i + 1 # 1
    BY <1>1, <2>1
  <2> QED BY <1>1, <2>2 DEF Occurs, Once
<1>4. ASSUME Occurs(s, K), Head(s) \notin K PROVE Occurs(Tail(s), K)
  <2>1. PICK i \in 1..Len(s) : s[i] \in K
    BY <1>4 DEF Occurs
  <2>2. i # 1
    BY <1>1, <1>4, <2>1
  <2>3. i - 1 \in 1..Len(Tail(s)) /\ Tail(s)[i - 1] = s[(i - 1) + 1] /\ (i - 1) + 1 = i
    BY <1>1, <2>2
  <2> QED BY <2>1, <2>3 DEF Occurs
<1> QED BY <1>1, <1>2, <1>3, <1>4

\* What counts and counts once is at one place.
LEMMA OnePlace ==
    ASSUME NEW s, NEW K, Once(s, K)
    PROVE  LET I == {i \in 1..Len(s) : s[i] \in K}
           IN  /\ ~Occurs(s, K) => I = {}
               /\ Occurs(s, K) => \E i : I = {i}
<1> DEFINE I == {i \in 1..Len(s) : s[i] \in K}
<1>1. ASSUME ~Occurs(s, K) PROVE I = {}
  BY <1>1 DEF Occurs
<1>2. ASSUME Occurs(s, K) PROVE \E i : I = {i}
  <2>1. PICK i \in 1..Len(s) : s[i] \in K
    BY <1>2 DEF Occurs
  <2>2. i \in I /\ \A j \in I : j = i
    BY <2>1 DEF Once
  <2> HIDE DEF I
  <2>3. I = {i}
    BY <2>2
  <2> QED BY <2>3
<1> QED BY <1>1, <1>2

\* Sending a message adds it, once if it was not there.
LEMMA AppendOnce ==
    ASSUME NEW S, NEW s \in Seq(S), NEW x \in S, NEW K
    PROVE  /\ Append(s, x) \in Seq(S)
           /\ Occurs(Append(s, x), K) <=> Occurs(s, K) \/ x \in K
           /\ Once(s, K) /\ ~(Occurs(s, K) /\ x \in K) => Once(Append(s, x), K)
<1>1. /\ Append(s, x) \in Seq(S) /\ Len(s) \in Nat /\ Len(Append(s, x)) = Len(s) + 1
      /\ \A i \in 1..Len(s) : Append(s, x)[i] = s[i]
      /\ Append(s, x)[Len(s) + 1] = x
  OBVIOUS
<1>2. \A i \in 1..(Len(s) + 1) : i \in 1..Len(s) \/ i = Len(s) + 1
  BY <1>1
<1>3. 1..Len(s) \subseteq 1..(Len(s) + 1) /\ Len(s) + 1 \in 1..(Len(s) + 1)
  BY <1>1
<1> QED BY <1>1, <1>2, <1>3 DEF Occurs, Once

\* Queueing an ordering of a set adds as many paths as the set has...
LEMMA ConcatLength ==
    ASSUME NEW s \in Seq(Path), NEW W \in SUBSET Path, NEW n \in Nat, NEW t \in Bijection(1..n, W)
    PROVE  Len(s \o t) = Len(s) + n
<1>1. t \in [1..n -> W]
  BY DEF Bijection, Injection
<1>2. t \in Seq(Path) /\ Len(t) = n
  BY <1>1
<1> QED BY <1>2

\* ...and, if they are new, each of them once.
LEMMA ConcatOnce ==
    ASSUME NEW s \in Seq(Path), NEW W \in SUBSET Path, NEW n \in Nat,
           NEW t \in Bijection(1..n, W), NEW f
    PROVE  /\ s \o t \in Seq(Path) /\ Len(s \o t) = Len(s) + n
           /\ Occurs(s \o t, {f}) <=> Occurs(s, {f}) \/ f \in W
           /\ Once(s, {f}) /\ ~(Occurs(s, {f}) /\ f \in W) => Once(s \o t, {f})
<1>1. /\ t \in [1..n -> W]
      /\ \A i, j \in 1..n : t[i] = t[j] => i = j
      /\ \A w \in W : \E i \in 1..n : t[i] = w
  BY DEF Bijection, Injection, Surjection, IsInjective
<1>2. t \in Seq(Path) /\ Len(t) = n
  BY <1>1
<1>3. /\ s \o t \in Seq(Path) /\ Len(s) \in Nat /\ Len(s \o t) = Len(s) + n
      /\ \A i \in 1..Len(s) : (s \o t)[i] = s[i]
      /\ \A i \in 1..n : (s \o t)[Len(s) + i] = t[i]
  BY <1>2
<1>4. \A i \in 1..(Len(s) + n) : i \in 1..Len(s) \/ (i - Len(s) \in 1..n /\ i = Len(s) + (i - Len(s)))
  BY <1>3
<1>5. \A i \in 1..n : Len(s) + i \in 1..(Len(s) + n)
  BY <1>3
<1>6. 1..Len(s) \subseteq 1..(Len(s) + n)
  BY <1>3
<1>7. Occurs(s \o t, {f}) <=> Occurs(s, {f}) \/ f \in W
  <2>1. ASSUME Occurs(s \o t, {f}) PROVE Occurs(s, {f}) \/ f \in W
    <3>1. PICK i \in 1..(Len(s) + n) : (s \o t)[i] = f
      BY <2>1, <1>3 DEF Occurs
    <3>2. CASE i \in 1..Len(s)
      BY <3>1, <3>2, <1>3 DEF Occurs
    <3>3. CASE i - Len(s) \in 1..n /\ i = Len(s) + (i - Len(s))
      <4>1. t[i - Len(s)] = f
        BY <3>1, <3>3, <1>3
      <4> QED BY <4>1, <3>3, <1>1
    <3> QED BY <3>1, <3>2, <3>3, <1>4
  <2>2. ASSUME Occurs(s, {f}) PROVE Occurs(s \o t, {f})
    BY <2>2, <1>3, <1>6 DEF Occurs
  <2>3. ASSUME f \in W PROVE Occurs(s \o t, {f})
    <3>1. PICK i \in 1..n : t[i] = f
      BY <2>3, <1>1
    <3> QED BY <3>1, <1>3, <1>5 DEF Occurs
  <2> QED BY <2>1, <2>2, <2>3
<1>8. ASSUME Once(s, {f}), ~(Occurs(s, {f}) /\ f \in W) PROVE Once(s \o t, {f})
  <2> SUFFICES ASSUME NEW i \in 1..(Len(s) + n), NEW j \in 1..(Len(s) + n),
                      (s \o t)[i] = f, (s \o t)[j] = f
               PROVE  i = j
    BY <1>3 DEF Once
  <2>1. CASE i \in 1..Len(s) /\ j \in 1..Len(s)
    BY <2>1, <1>3, <1>8 DEF Once
  <2>2. CASE i - Len(s) \in 1..n /\ j - Len(s) \in 1..n
    <3>1. t[i - Len(s)] = f /\ t[j - Len(s)] = f
      <4>1. /\ (s \o t)[Len(s) + (i - Len(s))] = t[i - Len(s)]
            /\ (s \o t)[Len(s) + (j - Len(s))] = t[j - Len(s)]
        BY <2>2, <1>3
      <4>2. Len(s) + (i - Len(s)) = i /\ Len(s) + (j - Len(s)) = j
        BY <1>3
      <4> QED BY <4>1, <4>2
    <3>2. i - Len(s) = j - Len(s)
      BY <3>1, <2>2, <1>1
    <3> QED BY <3>2, <1>3
  <2>3. ASSUME NEW a \in 1..(Len(s) + n), NEW b \in 1..(Len(s) + n),
               (s \o t)[a] = f, (s \o t)[b] = f, a \in 1..Len(s), b - Len(s) \in 1..n
        PROVE  FALSE
    <3>1. s[a] = f
      BY <2>3, <1>3
    <3>2. (s \o t)[Len(s) + (b - Len(s))] = t[b - Len(s)] /\ Len(s) + (b - Len(s)) = b
      <4>1. (s \o t)[Len(s) + (b - Len(s))] = t[b - Len(s)]
        BY <2>3, <1>3
      <4>2. Len(s) \in Int /\ b \in Int
        BY <1>3
      <4> QED BY <4>1, <4>2
    <3>3. t[b - Len(s)] = f /\ f \in W
      BY <3>2, <2>3, <1>1
    <3> QED BY <3>1, <3>3, <2>3, <1>8 DEF Occurs
  <2> QED BY <2>1, <2>2, <2>3, <1>4
<1> QED BY <1>3, <1>7, <1>8
-----------------------------------------------------------------------------

-----------------------------------------------------------------------------
(* The types, and the bound on what is in flight.                          *)

LEMMA TypeStep == TypeOK /\ [Next]_vars => TypeOK'
<1> SUFFICES ASSUME TypeOK, [Next]_vars PROVE TypeOK'
  OBVIOUS
<1> USE WindowAssumption DEF TypeOK
<1>1. ASSUME NEW want \in SUBSET Path, Reserve(want) PROVE TypeOK'
  <2>1. PICK new \in Orderings(want \ pulling) : pull_queue' = pull_queue \o new
    BY <1>1 DEF Reserve
  <2>2. IsFiniteSet(want \ pulling)
    BY FS_Subset
  <2>3. Cardinality(want \ pulling) \in Nat
    BY <2>2, FS_CardinalityType
  <2>4. pull_queue' \in Seq(Path)
    <3>1. want \ pulling \in SUBSET Path
      OBVIOUS
    <3> QED BY <2>1, <2>3, <3>1, ConcatOnce DEF Orderings
  <2> QED BY <1>1, <2>4 DEF Reserve
<1>2. CASE SendRequest
  BY <1>2 DEF SendRequest, Ask
<1>3. CASE ServeNotFound
  <2>1. Head(asked) \in Ask /\ Tail(asked) \in Seq(Ask)
    BY <1>3 DEF ServeNotFound
  <2>2. NotFound(Head(asked).path) \in Message
    BY <2>1 DEF NotFound, Message, Ask
  <2> QED BY <1>3, <2>1, <2>2 DEF ServeNotFound
<1>4. CASE ServeStart
  <2>1. Head(asked) \in Ask /\ Tail(asked) \in Seq(Ask)
    BY <1>4 DEF ServeStart
  <2>2. PICK delta \in {FALSE, Head(asked).sig} :
           /\ wire' = Append(wire, Start([xid |-> next_xid, path |-> Head(asked).path, delta |-> delta]))
           /\ serving' = {[t |-> [xid |-> next_xid, path |-> Head(asked).path, delta |-> delta],
                           left |-> "FileLiteral"]}
    BY <1>4 DEF ServeStart
  <2>3. [xid |-> next_xid, path |-> Head(asked).path, delta |-> delta] \in Transfer
    BY <2>1 DEF Ask, Transfer, Xid
  <2> DEFINE t == [xid |-> next_xid, path |-> Head(asked).path, delta |-> delta]
  <2>4. Start(t) \in Message
    BY <2>3 DEF Start, Message, Transfer, Xid
  <2>5. {[t |-> t, left |-> "FileLiteral"]} \subseteq Job
    BY <2>3 DEF Job
  <2>6. next_xid + 1 \in Xid
    BY DEF Xid
  <2> HIDE DEF t
  <2> QED BY <1>4, <2>1, <2>2, <2>4, <2>5, <2>6 DEF ServeStart, t
<1>5. CASE ServeChunk
  <2>1. PICK j \in serving :
           /\ wire' = Append(wire, Chunk(j.t))
           /\ serving' = {[j EXCEPT !.left = "FileEnd"]}
           /\ UNCHANGED <<pulling, pull_queue, asked, next_xid, incoming, rounds, faults>>
    BY <1>5 DEF ServeChunk
  <2>2. j \in Job /\ j.t \in Transfer
    BY <2>1 DEF Job
  <2>3. Chunk(j.t) \in Message
    BY <2>2 DEF Chunk, Message, Transfer, Xid
  <2>4. [j EXCEPT !.left = "FileEnd"] \in Job
    BY <2>2 DEF Job
  <2>5. wire' \in Seq(Message) /\ serving' \subseteq Job
    BY <2>1, <2>3, <2>4
  <2> QED BY <2>1, <2>5
<1>6. CASE ServeEnd
  BY <1>6 DEF ServeEnd, End, Message, Job, Transfer, Xid
<1>7. CASE RecvStart
  <2>1. Head(wire) \in Message /\ Head(wire).op = "FileStart" /\ Tail(wire) \in Seq(Message)
    BY <1>7 DEF RecvStart, Receives
  <2> DEFINE t == [xid |-> Head(wire).xid, path |-> Head(wire).path, delta |-> Head(wire).delta]
  <2>2. t \in Transfer
    BY <2>1 DEF Message, Transfer
  <2>3. \/ incoming' = incoming \union {t} /\ UNCHANGED <<pulling, faults>>
        \/ Fault /\ Release(Head(wire).path) /\ UNCHANGED incoming
    BY <1>7 DEF RecvStart
  <2> HIDE DEF t
  <2>4. incoming' \subseteq Transfer /\ pulling' \subseteq Path /\ faults' \in 0..MaxFaults
    BY <2>2, <2>3 DEF Release, Fault
  <2> QED BY <1>7, <2>1, <2>4 DEF RecvStart
<1>8. CASE RecvChunk
  BY <1>8 DEF RecvChunk, Receives, Open, Release, Fault
<1>9. CASE RecvEnd
  BY <1>9 DEF RecvEnd, Receives, Open, Release
<1>10. CASE RecvBadEnd
  <2>1. PICK t \in Open(Head(wire)) :
           /\ incoming' = incoming \ {t}
           /\ IF t.delta
              THEN /\ asked' = Append(asked, [path |-> t.path, sig |-> FALSE])
                   /\ UNCHANGED pulling
              ELSE Release(t.path) /\ UNCHANGED asked
    BY <1>10 DEF RecvBadEnd
  <2>2. t \in Transfer
    BY <2>1 DEF Open
  <2>3. [path |-> t.path, sig |-> FALSE] \in Ask
    BY <2>2 DEF Transfer, Ask
  <2>4. asked' \in Seq(Ask) /\ pulling' \subseteq Path
    <3>1. CASE t.delta
      <4>1. asked' = Append(asked, [path |-> t.path, sig |-> FALSE]) /\ pulling' = pulling
        BY <2>1, <3>1, Zenon
      <4> QED BY <4>1, <2>3
    <3>2. CASE ~t.delta
      BY <2>1, <3>2 DEF Release
    <3> QED BY <3>1, <3>2
  <2> QED BY <1>10, <2>1, <2>4 DEF RecvBadEnd, Receives, Fault
<1>11. CASE RecvStaleEnd
  BY <1>11 DEF RecvStaleEnd, Receives
<1>12. CASE RecvNotFound
  BY <1>12 DEF RecvNotFound, Receives, Release
<1>13. CASE UNCHANGED vars
  BY <1>13 DEF vars
<1> QED BY <1>1, <1>2, <1>3, <1>4, <1>5, <1>6, <1>7, <1>8, <1>9, <1>10, <1>11, <1>12, <1>13
        DEF Next, Serve, Receive

\* Every variable keeps to its type, for any set of paths and any window.
THEOREM TypeCorrect == Spec => []TypeOK
<1>1. Init => TypeOK
  BY WindowAssumption DEF Init, TypeOK, Xid
<1> QED BY <1>1, TypeStep, PTL DEF Spec

\* Giving a reservation back frees at most one slot and never takes one.
LEMMA ReleaseFrees ==
    ASSUME TypeOK, NEW f, pulling' = pulling \ {f}
    PROVE  Cardinality(pulling') \in Nat /\ Cardinality(pulling) \in Nat
             /\ Cardinality(pulling') <= Cardinality(pulling)
<1>1. IsFiniteSet(pulling)
  BY WindowAssumption, FS_Subset DEF TypeOK
<1>2. pulling \ {f} \in SUBSET pulling
  OBVIOUS
<1> QED BY <1>1, <1>2, FS_Subset, FS_CardinalityType

LEMMA WindowStep == TypeOK /\ WindowRespected /\ [Next]_vars => WindowRespected'
<1> SUFFICES ASSUME TypeOK, WindowRespected, [Next]_vars PROVE WindowRespected'
  OBVIOUS
<1> USE DEF WindowRespected, InFlight
<1>0. /\ IsFiniteSet(pulling) /\ Cardinality(pulling) \in Nat
      /\ MaxPendingPulls \in Nat /\ Len(pull_queue) \in Nat
  BY WindowAssumption, FS_Subset, FS_CardinalityType DEF TypeOK
<1>1. ASSUME NEW want \in SUBSET Path, Reserve(want) PROVE WindowRespected'
  <2> DEFINE W == want \ pulling
  <2>1. PICK new \in Orderings(W) : pull_queue' = pull_queue \o new
    BY <1>1 DEF Reserve
  <2>2. IsFiniteSet(W) /\ Cardinality(W) \in Nat
    BY WindowAssumption, FS_Subset, FS_CardinalityType
  <2>3. Len(pull_queue') = Len(pull_queue) + Cardinality(W)
    <3>1. W \in SUBSET Path
      OBVIOUS
    <3>2. pull_queue \in Seq(Path)
      BY DEF TypeOK
    <3>3. new \in Bijection(1..Cardinality(W), W)
      BY DEF Orderings
    <3> HIDE DEF W
    <3>4. Len(pull_queue \o new) = Len(pull_queue) + Cardinality(W)
      BY <2>2, <3>1, <3>2, <3>3, ConcatLength
    <3> QED BY <2>1, <3>4
  <2>4. Cardinality(pulling') = Cardinality(pulling) + Cardinality(W)
    <3>1. pulling' = pulling \union W /\ pulling \cap W = {}
      BY <1>1 DEF Reserve
    <3>2. Cardinality(pulling \cap W) = 0
      BY <3>1, FS_EmptySet
    <3>3. Cardinality(pulling \union W)
            = Cardinality(pulling) + Cardinality(W) - Cardinality(pulling \cap W)
      <4> HIDE DEF W
      <4> QED BY <1>0, <2>2, FS_Union
    <3> QED BY <3>1, <3>2, <3>3, <1>0, <2>2
  <2> QED BY <2>2, <2>3, <2>4, <1>0
<1>2. CASE SendRequest
  <2>1. Len(pull_queue') = Len(pull_queue) - 1 /\ pulling' = pulling
    BY <1>2 DEF SendRequest, TypeOK
  <2> QED BY <1>2, <2>1, <1>0 DEF SendRequest
<1>3. CASE Serve
  BY <1>3 DEF Serve, ServeNotFound, ServeStart, ServeChunk, ServeEnd
<1>4. CASE Receive
  <2>1. pull_queue' = pull_queue
    BY <1>4 DEF Receive, RecvStart, RecvChunk, RecvEnd, RecvBadEnd, RecvStaleEnd, RecvNotFound
  <2>2. pulling' = pulling \/ \E f : pulling' = pulling \ {f}
    BY <1>4 DEF Receive, RecvStart, RecvChunk, RecvEnd, RecvBadEnd, RecvStaleEnd, RecvNotFound, Release
  <2>3. Cardinality(pulling') \in Nat /\ Cardinality(pulling') <= Cardinality(pulling)
    <3>1. CASE pulling' = pulling
      BY <3>1, <1>0
    <3>2. ASSUME NEW f, pulling' = pulling \ {f}
          PROVE  Cardinality(pulling') \in Nat /\ Cardinality(pulling') <= Cardinality(pulling)
      BY <3>2, ReleaseFrees
    <3> QED BY <2>2, <3>1, <3>2
  <2> QED BY <2>1, <2>3, <1>0
<1>5. CASE UNCHANGED vars
  BY <1>5 DEF vars
<1> QED BY <1>1, <1>2, <1>3, <1>4, <1>5 DEF Next

\* The requester never has more than max_pending_pulls requests unanswered.
THEOREM WindowHolds == Spec => []WindowRespected
<1>1. Init => WindowRespected
  BY WindowAssumption, FS_EmptySet DEF Init, WindowRespected, InFlight
<1> QED BY <1>1, TypeCorrect, WindowStep, PTL DEF Spec

-----------------------------------------------------------------------------
(* Every slot is owed exactly one answer.                                  *)

\* The messages that count for f.
AsksFor(f)    == {a \in Ask : a.path = f}
AnswersFor(f) == {m \in Message : m.path = f /\ m.op \in {"FileStart", "NotFound"}}

IsQueued(f)   == Occurs(pull_queue, {f})
IsAsked(f)    == Occurs(asked, AsksFor(f))
IsAnswered(f) == Occurs(wire, AnswersFor(f))
IsArriving(f) == \E t \in incoming : t.path = f

\* A path is in one place at most, there once, and in one exactly when reserved.
OwedOnce(f) == /\ Once(pull_queue, {f})
               /\ Once(asked, AsksFor(f))
               /\ Once(wire, AnswersFor(f))
               /\ \A t, u \in incoming : t.path = f /\ u.path = f => t = u
OwedApart(f) == /\ IsQueued(f) => ~IsAsked(f) /\ ~IsAnswered(f) /\ ~IsArriving(f)
                /\ IsAsked(f) => ~IsAnswered(f) /\ ~IsArriving(f)
                /\ IsAnswered(f) => ~IsArriving(f)
Owed(f) == IsQueued(f) \/ IsAsked(f) \/ IsAnswered(f) \/ IsArriving(f)
OwedInv == \A f \in Path : OwedOnce(f) /\ OwedApart(f) /\ (f \in pulling <=> Owed(f))

\* The step of each action on one path.
LEMMA OwedStep == TypeOK /\ OwedInv /\ [Next]_vars => OwedInv'
<1> SUFFICES ASSUME TypeOK, OwedInv, [Next]_vars, NEW f \in Path
             PROVE  (OwedOnce(f) /\ OwedApart(f) /\ (f \in pulling <=> Owed(f)))'
  BY DEF OwedInv
<1> DEFINE Goal == (OwedOnce(f) /\ OwedApart(f) /\ (f \in pulling <=> Owed(f)))'
<1>0. OwedOnce(f) /\ OwedApart(f) /\ (f \in pulling <=> Owed(f))
  BY DEF OwedInv
<1>a. /\ pull_queue \in Seq(Path) /\ asked \in Seq(Ask) /\ wire \in Seq(Message)
      /\ incoming \subseteq Transfer /\ serving \subseteq Job /\ next_xid \in Xid
  BY DEF TypeOK
<1> USE DEF OwedOnce, OwedApart, Owed, IsQueued, IsAsked, IsAnswered, IsArriving
<1>1. ASSUME NEW want \in SUBSET Path, Reserve(want) PROVE Goal
  <2> DEFINE W == want \ pulling
  <2>1. PICK new \in Orderings(W) : pull_queue' = pull_queue \o new
    BY <1>1 DEF Reserve
  <2>2. W \in SUBSET Path /\ IsFiniteSet(W) /\ Cardinality(W) \in Nat
    BY WindowAssumption, FS_Subset, FS_CardinalityType
  <2>3. f \in W <=> f \in want /\ ~Owed(f)
    BY <1>0
  <2>4. f \in pulling' <=> f \in pulling \/ f \in W
    BY <1>1 DEF Reserve
  <2>5. UNCHANGED <<asked, wire, incoming>>
    BY <1>1 DEF Reserve
  <2> HIDE DEF W
  <2>6. /\ Occurs(pull_queue', {f}) <=> Occurs(pull_queue, {f}) \/ f \in W
        /\ Once(pull_queue', {f})
    BY <2>1, <2>2, <2>3, <1>0, <1>a, ConcatOnce DEF Orderings
  <2> QED BY <2>3, <2>4, <2>5, <2>6, <1>0
<1>2. CASE SendRequest
  <2>1. PICK sig \in BOOLEAN : asked' = Append(asked, [path |-> Head(pull_queue), sig |-> sig])
    BY <1>2 DEF SendRequest
  <2>2. pull_queue # <<>> /\ pull_queue' = Tail(pull_queue) /\ UNCHANGED <<pulling, wire, incoming>>
    BY <1>2 DEF SendRequest
  <2>3. /\ Head(pull_queue) \in Path /\ Once(pull_queue', {f})
        /\ IsQueued(f)' <=> IsQueued(f) /\ Head(pull_queue) # f
    BY <2>2, <1>0, <1>a, TailOnce
  <2>4. Head(pull_queue) = f => IsQueued(f)
    BY <2>2, <1>a DEF Occurs
  <2> DEFINE a == [path |-> Head(pull_queue), sig |-> sig]
  <2>5. a \in Ask /\ (a \in AsksFor(f) <=> Head(pull_queue) = f)
    BY <2>3 DEF Ask, AsksFor
  <2>6. /\ IsAsked(f)' <=> IsAsked(f) \/ Head(pull_queue) = f
        /\ Once(asked', AsksFor(f))
    <3> HIDE DEF a
    <3> QED BY <2>1, <2>4, <2>5, <1>0, <1>a, AppendOnce DEF a
  <2> QED BY <2>2, <2>3, <2>4, <2>6, <1>0
<1>3. ASSUME NEW m \in Message, m.op \in {"FileStart", "NotFound"}, asked # <<>>,
             m.path = Head(asked).path, asked' = Tail(asked), wire' = Append(wire, m),
             UNCHANGED <<pulling, pull_queue, incoming>>
      PROVE  Goal
  <2>1. /\ Head(asked) \in Ask /\ Once(asked', AsksFor(f))
        /\ IsAsked(f)' <=> IsAsked(f) /\ Head(asked) \notin AsksFor(f)
    BY <1>3, <1>0, <1>a, TailOnce
  <2>2. Head(asked) \in AsksFor(f) => IsAsked(f)
    <3>1. 1 \in 1..Len(asked) /\ asked[1] = Head(asked)
      BY <1>3, <1>a
    <3> QED BY <3>1 DEF Occurs
  <2>3. m \in AnswersFor(f) <=> Head(asked) \in AsksFor(f)
    BY <1>3, <2>1 DEF AnswersFor, AsksFor
  <2>4. /\ IsAnswered(f)' <=> IsAnswered(f) \/ m \in AnswersFor(f)
        /\ Once(wire', AnswersFor(f))
    BY <1>3, <2>2, <2>3, <1>0, <1>a, AppendOnce
  <2> QED BY <1>3, <2>1, <2>2, <2>3, <2>4, <1>0
<1>4. CASE ServeNotFound
  <2>1. Head(asked) \in Ask
    BY <1>4, <1>a DEF ServeNotFound
  <2>2. NotFound(Head(asked).path) \in Message
    BY <2>1 DEF NotFound, Message, Ask
  <2>3. /\ NotFound(Head(asked).path).op \in {"FileStart", "NotFound"}
        /\ NotFound(Head(asked).path).path = Head(asked).path
    BY DEF NotFound
  <2> QED BY <1>3, <1>4, <2>2, <2>3 DEF ServeNotFound
<1>5. CASE ServeStart
  <2>1. Head(asked) \in Ask
    BY <1>5, <1>a DEF ServeStart
  <2>2. PICK delta \in {FALSE, Head(asked).sig} :
           wire' = Append(wire, Start([xid |-> next_xid, path |-> Head(asked).path, delta |-> delta]))
    BY <1>5 DEF ServeStart
  <2> DEFINE m == Start([xid |-> next_xid, path |-> Head(asked).path, delta |-> delta])
  <2>3. m \in Message /\ m.op = "FileStart" /\ m.path = Head(asked).path
    BY <2>1, <1>a DEF Start, Message, Ask, Xid
  <2> HIDE DEF m
  <2> QED BY <1>3, <1>5, <2>2, <2>3 DEF ServeStart, m
<1>6. ASSUME NEW m \in Message, m.op \notin {"FileStart", "NotFound"}, wire' = Append(wire, m),
             UNCHANGED <<pulling, pull_queue, asked, incoming>>
      PROVE  Goal
  <2>1. m \notin AnswersFor(f)
    BY <1>6 DEF AnswersFor
  <2>2. (IsAnswered(f)' <=> IsAnswered(f)) /\ Once(wire', AnswersFor(f))
    BY <1>6, <2>1, <1>0, <1>a, AppendOnce
  <2> QED BY <1>6, <2>2, <1>0
<1>7. CASE ServeChunk
  <2>1. PICK j \in serving : wire' = Append(wire, Chunk(j.t))
    BY <1>7 DEF ServeChunk
  <2>2. Chunk(j.t) \in Message /\ Chunk(j.t).op \notin {"FileStart", "NotFound"}
    BY <1>a DEF Chunk, Message, Job, Transfer, Xid
  <2> QED BY <1>6, <1>7, <2>1, <2>2 DEF ServeChunk
<1>8. CASE ServeEnd
  <2>1. PICK j \in serving : wire' = Append(wire, End(j.t))
    BY <1>8 DEF ServeEnd
  <2>2. End(j.t) \in Message /\ End(j.t).op \notin {"FileStart", "NotFound"}
    BY <1>a DEF End, Message, Job, Transfer, Xid
  <2> QED BY <1>6, <1>8, <2>1, <2>2 DEF ServeEnd
<1>9. ASSUME wire # <<>>, wire' = Tail(wire)
      PROVE  /\ Head(wire) \in Message /\ Once(wire', AnswersFor(f))
             /\ IsAnswered(f)' <=> IsAnswered(f) /\ Head(wire) \notin AnswersFor(f)
             /\ Head(wire) \in AnswersFor(f) => IsAnswered(f)
  <2>1. /\ Head(wire) \in Message /\ Once(wire', AnswersFor(f))
        /\ IsAnswered(f)' <=> IsAnswered(f) /\ Head(wire) \notin AnswersFor(f)
    BY <1>9, <1>0, <1>a, TailOnce
  <2>2. Head(wire) \in AnswersFor(f) => IsAnswered(f)
    BY <1>9, <1>a DEF Occurs
  <2> QED BY <2>1, <2>2
<1>10. CASE RecvStart
  <2> DEFINE m == Head(wire)
             t == [xid |-> m.xid, path |-> m.path, delta |-> m.delta]
  <2>1. wire # <<>> /\ wire' = Tail(wire) /\ m.op = "FileStart" /\ UNCHANGED <<pull_queue, asked>>
    BY <1>10 DEF RecvStart, Receives
  <2>2. m \in AnswersFor(f) <=> m.path = f
    BY <2>1, <1>9 DEF AnswersFor
  <2>3. CASE incoming' = incoming \union {t} /\ UNCHANGED pulling
    <3>1. t.path = m.path
      OBVIOUS
    <3>2. IsArriving(f)' <=> IsArriving(f) \/ m.path = f
      BY <2>3, <3>1
    <3>3. \A x, y \in incoming' : x.path = f /\ y.path = f => x = y
      <4>1. m.path = f => ~IsArriving(f)
        BY <2>1, <2>2, <1>9, <1>0
      <4> QED BY <4>1, <2>3, <3>1, <1>0
    <3> QED BY <2>1, <2>2, <2>3, <3>2, <3>3, <1>9, <1>0
  <2>4. CASE Release(m.path) /\ UNCHANGED incoming
    BY <2>1, <2>2, <2>4, <1>9, <1>0 DEF Release
  <2> QED BY <1>10, <2>3, <2>4 DEF RecvStart
<1>11. ASSUME wire # <<>>, wire' = Tail(wire), Head(wire).op \notin {"FileStart", "NotFound"}
       PROVE  (IsAnswered(f)' <=> IsAnswered(f)) /\ Once(wire', AnswersFor(f))
  BY <1>9, <1>11 DEF AnswersFor
<1>12. ASSUME NEW t \in incoming, incoming' = incoming \ {t}
       PROVE  /\ IsArriving(f)' <=> IsArriving(f) /\ t.path # f
              /\ \A x, y \in incoming' : x.path = f /\ y.path = f => x = y
              /\ t.path = f => IsArriving(f)
  BY <1>12, <1>0
<1>13. ASSUME NEW t \in incoming, incoming' = incoming \ {t}, Release(t.path),
              wire # <<>>, wire' = Tail(wire), Head(wire).op \notin {"FileStart", "NotFound"},
              UNCHANGED <<pull_queue, asked>>
       PROVE  Goal
  BY <1>11, <1>12, <1>13, <1>0 DEF Release
<1>14. ASSUME wire # <<>>, wire' = Tail(wire), Head(wire).op \notin {"FileStart", "NotFound"},
              UNCHANGED <<pulling, pull_queue, asked, incoming>>
       PROVE  Goal
  BY <1>11, <1>14, <1>0
<1>15. CASE RecvChunk
  BY <1>13, <1>14, <1>15 DEF RecvChunk, Receives, Open
<1>16. CASE RecvEnd
  BY <1>13, <1>16 DEF RecvEnd, Receives, Open
<1>17. CASE RecvBadEnd
  <2>1. /\ wire # <<>> /\ wire' = Tail(wire) /\ Head(wire).op \notin {"FileStart", "NotFound"}
        /\ pull_queue' = pull_queue
    BY <1>17 DEF RecvBadEnd, Receives
  <2>2. PICK t \in incoming :
           /\ incoming' = incoming \ {t}
           /\ IF t.delta
              THEN /\ asked' = Append(asked, [path |-> t.path, sig |-> FALSE])
                   /\ UNCHANGED pulling
              ELSE Release(t.path) /\ UNCHANGED asked
    BY <1>17 DEF RecvBadEnd, Open
  <2>3. CASE ~t.delta
    BY <1>13, <2>1, <2>2, <2>3
  <2>4. CASE t.delta
    <3> DEFINE a == [path |-> t.path, sig |-> FALSE]
    <3>1. a \in Ask /\ (a \in AsksFor(f) <=> t.path = f)
      BY <1>a, <2>2 DEF Ask, AsksFor, Transfer
    <3>2. (IsAsked(f)' <=> IsAsked(f) \/ t.path = f) /\ Once(asked', AsksFor(f))
      <4>1. asked' = Append(asked, a) /\ (t.path = f => IsArriving(f))
        BY <2>2, <2>4
      <4> HIDE DEF a
      <4> QED BY <4>1, <3>1, <1>0, <1>a, AppendOnce
    <3> QED BY <1>11, <1>12, <2>1, <2>2, <2>4, <3>2, <1>0
  <2> QED BY <2>3, <2>4
<1>18. CASE RecvStaleEnd
  BY <1>14, <1>18 DEF RecvStaleEnd, Receives
<1>19. CASE RecvNotFound
  <2>1. Head(wire) \in AnswersFor(f) <=> Head(wire).path = f
    BY <1>19, <1>9 DEF RecvNotFound, Receives, AnswersFor
  <2> QED BY <1>9, <1>19, <2>1, <1>0 DEF RecvNotFound, Receives, Release
<1>20. CASE UNCHANGED vars
  BY <1>20, <1>0 DEF vars
<1> QED BY <1>1, <1>2, <1>4, <1>5, <1>7, <1>8, <1>10, <1>15, <1>16, <1>17, <1>18, <1>19, <1>20
        DEF Next, Serve, Receive

\* Seen as sets of places, the invariant says what SlotsAreOwed asks for.
LEMMA OwedIsOnePlace == TypeOK /\ OwedInv => SlotsAreOwed
<1> SUFFICES ASSUME TypeOK, OwedInv, NEW f \in Path
             PROVE  /\ f \in pulling => \E p \in Places(f) : Places(f) = {p}
                    /\ f \notin pulling => Places(f) = {}
  BY DEF SlotsAreOwed
<1>1. OwedOnce(f) /\ OwedApart(f) /\ (f \in pulling <=> Owed(f))
  BY DEF OwedInv
<1>2. /\ \A i \in 1..Len(asked) : asked[i] \in AsksFor(f) <=> asked[i].path = f
      /\ \A i \in 1..Len(wire) : wire[i] \in AnswersFor(f)
             <=> wire[i].path = f /\ wire[i].op \in {"FileStart", "NotFound"}
  BY DEF TypeOK, AsksFor, AnswersFor
<1>3. /\ ~IsQueued(f) => InQueue(f) = {}
      /\ IsQueued(f) => \E i : InQueue(f) = {i}
  <2>1. InQueue(f) = {i \in 1..Len(pull_queue) : pull_queue[i] \in {f}}
    BY DEF InQueue
  <2>2. Once(pull_queue, {f}) /\ (IsQueued(f) <=> Occurs(pull_queue, {f}))
    BY <1>1 DEF IsQueued, OwedOnce
  <2> QED BY <2>1, <2>2, OnePlace
<1>4. /\ ~IsAsked(f) => InAsked(f) = {}
      /\ IsAsked(f) => \E i : InAsked(f) = {i}
  <2> DEFINE K == AsksFor(f)
  <2>1. InAsked(f) = {i \in 1..Len(asked) : asked[i] \in K}
    BY <1>2 DEF InAsked
  <2>2. Once(asked, K) /\ (IsAsked(f) <=> Occurs(asked, K))
    BY <1>1 DEF IsAsked, OwedOnce
  <2> HIDE DEF K
  <2> QED BY <2>1, <2>2, OnePlace
<1>5. /\ ~IsAnswered(f) => InAnswer(f) = {}
      /\ IsAnswered(f) => \E i : InAnswer(f) = {i}
  <2> DEFINE K == AnswersFor(f)
  <2>1. InAnswer(f) = {i \in 1..Len(wire) : wire[i] \in K}
    BY <1>2 DEF InAnswer
  <2>2. Once(wire, K) /\ (IsAnswered(f) <=> Occurs(wire, K))
    BY <1>1 DEF IsAnswered, OwedOnce
  <2> HIDE DEF K
  <2> QED BY <2>1, <2>2, OnePlace
<1>6. /\ ~IsArriving(f) => Arriving(f) = {}
      /\ IsArriving(f) => \E t : Arriving(f) = {t}
  BY <1>1 DEF IsArriving, OwedOnce, Arriving
<1>7. ASSUME NEW p, Places(f) = {p} PROVE \E q \in Places(f) : Places(f) = {q}
  BY <1>7
<1>8. CASE f \notin pulling
  BY <1>1, <1>3, <1>4, <1>5, <1>6, <1>8 DEF Owed, Places
<1>9. CASE IsQueued(f)
  <2>1. PICK i : InQueue(f) = {i}
    BY <1>3, <1>9
  <2>2. Places(f) = {<<"pull_queue", i>>}
    BY <2>1, <1>1, <1>4, <1>5, <1>6, <1>9 DEF Places, OwedApart
  <2> QED BY <2>2, <1>1, <1>7, <1>9 DEF Owed
<1>10. CASE IsAsked(f)
  <2>1. PICK i : InAsked(f) = {i}
    BY <1>4, <1>10
  <2>2. Places(f) = {<<"asked", i>>}
    BY <2>1, <1>1, <1>3, <1>5, <1>6, <1>10 DEF Places, OwedApart
  <2> QED BY <2>2, <1>1, <1>7, <1>10 DEF Owed
<1>11. CASE IsAnswered(f)
  <2>1. PICK i : InAnswer(f) = {i}
    BY <1>5, <1>11
  <2>2. Places(f) = {<<"wire", i>>}
    BY <2>1, <1>1, <1>3, <1>4, <1>6, <1>11 DEF Places, OwedApart
  <2> QED BY <2>2, <1>1, <1>7, <1>11 DEF Owed
<1>12. CASE IsArriving(f)
  <2>1. PICK t : Arriving(f) = {t}
    BY <1>6, <1>12
  <2>2. Places(f) = {<<"incoming", t>>}
    BY <2>1, <1>1, <1>3, <1>4, <1>5, <1>12 DEF Places, OwedApart
  <2> QED BY <2>2, <1>1, <1>7, <1>12 DEF Owed
<1> QED BY <1>1, <1>8, <1>9, <1>10, <1>11, <1>12 DEF Owed

\* No window slot is ever lost, and no answer frees a slot it does not hold: each
\* reservation waits in the queue or for exactly one answer.
THEOREM SlotsStayOwed == Spec => []SlotsAreOwed
<1>1. Init => OwedInv
  <2> SUFFICES ASSUME Init, NEW f \in Path
               PROVE  OwedOnce(f) /\ OwedApart(f) /\ (f \in pulling <=> Owed(f))
    BY DEF OwedInv
  <2> QED BY DEF Init, OwedOnce, OwedApart, Owed, IsQueued, IsAsked, IsAnswered, IsArriving,
                 Occurs, Once
<1> QED BY <1>1, TypeCorrect, OwedStep, OwedIsOnePlace, PTL DEF Spec


-----------------------------------------------------------------------------
(* Transfers are framed: begun once, and closed after that.                *)

Of(m) == [xid |-> m.xid, path |-> m.path, delta |-> m.delta]

\* The transfers that begin, and the numbers of those that end, in the messages s.
Begins(s) == {Of(s[i]) : i \in {k \in 1..Len(s) : s[k].op = "FileStart"}}
Ends(s)   == {s[i].xid : i \in {k \in 1..Len(s) : s[k].op = "FileEnd"}}

\* No transfer begins twice, or after its end.
Ordered(s) == \A i, k \in 1..Len(s) :
    s[i].op = "FileStart" /\ s[i].xid = s[k].xid =>
        /\ s[k].op = "FileStart" => i = k
        /\ s[k].op = "FileEnd" => i < k

LEMMA FramesNumbers ==
    ASSUME NEW s \in Seq(Message)
    PROVE  (\A t \in Begins(s) : t.xid \in Nat) /\ Ends(s) \subseteq Nat
<1>1. \A i \in 1..Len(s) : s[i].xid \in Nat /\ Of(s[i]).xid = s[i].xid
  <2>1. \A i \in 1..Len(s) : s[i] \in Message
    OBVIOUS
  <2>2. \A m \in Message : m.xid \in Nat /\ Of(m).xid = m.xid
    BY DEF Message, Of
  <2> QED BY <2>1, <2>2
<1>2. ASSUME NEW t \in Begins(s) PROVE t.xid \in Nat
  <2>1. PICK i \in 1..Len(s) : t = Of(s[i])
    BY DEF Begins
  <2> QED BY <1>1, <2>1
<1>3. ASSUME NEW x \in Ends(s) PROVE x \in Nat
  <2>1. PICK i \in 1..Len(s) : x = s[i].xid
    BY DEF Ends
  <2> QED BY <1>1, <2>1
<1> QED BY <1>2, <1>3

LEMMA FramesTail ==
    ASSUME NEW s \in Seq(Message), s # <<>>, Ordered(s)
    PROVE  /\ Tail(s) \in Seq(Message) /\ Head(s) \in Message
           /\ Ordered(Tail(s))
           /\ Begins(Tail(s)) \subseteq Begins(s) /\ Ends(Tail(s)) \subseteq Ends(s)
           /\ Head(s).op = "FileStart" => Of(Head(s)) \in Begins(s)
           /\ Head(s).op # "FileEnd" => Ends(s) = Ends(Tail(s))
           /\ Ends(s) \subseteq Ends(Tail(s)) \union {Head(s).xid}
           /\ Head(s).op \in {"FileStart", "FileEnd"} =>
                  \A t \in Begins(Tail(s)) : t.xid # Head(s).xid
<1>1. /\ Tail(s) \in Seq(Message) /\ Head(s) \in Message /\ Head(s) = s[1]
      /\ Len(Tail(s)) = Len(s) - 1 /\ Len(s) \in Nat \ {0}
      /\ \A i \in 1..Len(Tail(s)) : Tail(s)[i] = s[i + 1] /\ i + 1 \in 1..Len(s)
      /\ 1 \in 1..Len(s)
      /\ \A i \in 1..Len(s) : i # 1 => /\ i - 1 \in 1..Len(Tail(s)) /\ Tail(s)[i - 1] = s[i]
  OBVIOUS
<1>2. Ordered(Tail(s))
  BY <1>1 DEF Ordered
<1>3. Begins(Tail(s)) \subseteq Begins(s)
  BY <1>1 DEF Begins
<1>4. Ends(Tail(s)) \subseteq Ends(s)
  BY <1>1 DEF Ends
<1>5. Head(s).op = "FileStart" => Of(Head(s)) \in Begins(s)
  BY <1>1 DEF Begins
<1>6. \A x \in Ends(s) : x \in Ends(Tail(s)) \/ (x = Head(s).xid /\ Head(s).op = "FileEnd")
  <2> SUFFICES ASSUME NEW x \in Ends(s)
               PROVE  x \in Ends(Tail(s)) \/ (x = Head(s).xid /\ Head(s).op = "FileEnd")
    OBVIOUS
  <2>1. PICK i \in 1..Len(s) : s[i].op = "FileEnd" /\ x = s[i].xid
    BY DEF Ends
  <2>2. CASE i = 1
    BY <1>1, <2>1, <2>2
  <2>3. CASE i # 1
    <3>1. i - 1 \in 1..Len(Tail(s)) /\ Tail(s)[i - 1] = s[i]
      BY <1>1, <2>1, <2>3
    <3>2. Tail(s)[i - 1].op = "FileEnd" /\ Tail(s)[i - 1].xid = x
      BY <2>1, <3>1
    <3> QED BY <3>1, <3>2 DEF Ends
  <2> QED BY <2>2, <2>3
<1>7. ASSUME Head(s).op \in {"FileStart", "FileEnd"}, NEW t \in Begins(Tail(s)) PROVE t.xid # Head(s).xid
  <2>1. PICK i \in 1..Len(Tail(s)) : Tail(s)[i].op = "FileStart" /\ t = Of(Tail(s)[i])
    BY DEF Begins
  <2>2. /\ i + 1 \in 1..Len(s) /\ s[i + 1].op = "FileStart" /\ t.xid = s[i + 1].xid
        /\ i + 1 # 1 /\ ~(i + 1 < 1)
    BY <1>1, <2>1 DEF Of
  <2> QED BY <1>1, <1>7, <2>2 DEF Ordered
<1> QED BY <1>1, <1>2, <1>3, <1>4, <1>5, <1>6, <1>7

LEMMA FramesAppend ==
    ASSUME NEW s \in Seq(Message), NEW m \in Message, Ordered(s),
           m.op = "FileStart" => m.xid \notin Ends(s) /\ \A t \in Begins(s) : t.xid # m.xid
    PROVE  /\ Ordered(Append(s, m))
           /\ m.op = "FileStart" => Begins(Append(s, m)) = Begins(s) \union {Of(m)}
           /\ m.op # "FileStart" => Begins(Append(s, m)) = Begins(s)
           /\ m.op = "FileEnd" => Ends(Append(s, m)) = Ends(s) \union {m.xid}
           /\ m.op # "FileEnd" => Ends(Append(s, m)) = Ends(s)
<1> DEFINE r == Append(s, m)
<1>1. /\ Len(r) = Len(s) + 1 /\ Len(s) \in Nat /\ r[Len(s) + 1] = m
      /\ \A i \in 1..Len(s) : r[i] = s[i] /\ i \in 1..Len(r)
      /\ \A i \in 1..Len(r) : i \in 1..Len(s) \/ i = Len(s) + 1
      /\ Len(s) + 1 \in 1..Len(r)
  OBVIOUS
<1> HIDE DEF r
<1>2. Ordered(r)
  <2> SUFFICES ASSUME NEW i \in 1..Len(r), NEW k \in 1..Len(r),
                      r[i].op = "FileStart", r[i].xid = r[k].xid
               PROVE  /\ r[k].op = "FileStart" => i = k
                      /\ r[k].op = "FileEnd" => i < k
    BY DEF Ordered
  <2>1. CASE i \in 1..Len(s) /\ k \in 1..Len(s)
    BY <1>1, <2>1 DEF Ordered
  <2>2. CASE i \in 1..Len(s) /\ k = Len(s) + 1
    <3>1. Of(s[i]) \in Begins(s) /\ Of(s[i]).xid = m.xid
      BY <1>1, <2>2 DEF Begins, Of
    <3> QED BY <1>1, <2>2, <3>1
  <2>3. CASE i = Len(s) + 1 /\ k \in 1..Len(s)
    <3>1. m.op = "FileStart" /\ s[k].xid = m.xid /\ r[k] = s[k]
      BY <1>1, <2>3
    <3>2. s[k].op # "FileEnd"
      BY <2>3, <3>1 DEF Ends
    <3>3. s[k].op # "FileStart"
      <4>1. s[k].op = "FileStart" => Of(s[k]) \in Begins(s) /\ Of(s[k]).xid = m.xid
        BY <2>3, <3>1 DEF Begins, Of
      <4> QED BY <3>1, <4>1
    <3> QED BY <3>1, <3>2, <3>3
  <2>4. CASE i = Len(s) + 1 /\ k = Len(s) + 1
    BY <1>1, <2>4
  <2> QED BY <1>1, <2>1, <2>2, <2>3, <2>4
<1>3. /\ m.op = "FileStart" => Begins(r) = Begins(s) \union {Of(m)}
      /\ m.op # "FileStart" => Begins(r) = Begins(s)
  <2>1. ASSUME NEW t \in Begins(r) PROVE t \in Begins(s) \/ (m.op = "FileStart" /\ t = Of(m))
    <3>1. PICK i \in 1..Len(r) : r[i].op = "FileStart" /\ t = Of(r[i])
      BY DEF Begins
    <3> QED BY <1>1, <3>1 DEF Begins
  <2>2. Begins(s) \subseteq Begins(r)
    BY <1>1 DEF Begins
  <2>3. m.op = "FileStart" => Of(m) \in Begins(r)
    BY <1>1 DEF Begins
  <2> QED BY <2>1, <2>2, <2>3
<1>4. /\ m.op = "FileEnd" => Ends(r) = Ends(s) \union {m.xid}
      /\ m.op # "FileEnd" => Ends(r) = Ends(s)
  <2>1. ASSUME NEW x \in Ends(r) PROVE x \in Ends(s) \/ (m.op = "FileEnd" /\ x = m.xid)
    <3>1. PICK i \in 1..Len(r) : r[i].op = "FileEnd" /\ x = r[i].xid
      BY DEF Ends
    <3> QED BY <1>1, <3>1 DEF Ends
  <2>2. Ends(s) \subseteq Ends(r)
    BY <1>1 DEF Ends
  <2>3. m.op = "FileEnd" => m.xid \in Ends(r)
    BY <1>1 DEF Ends
  <2> QED BY <2>1, <2>2, <2>3
<1> QED BY <1>2, <1>3, <1>4 DEF r

InHand == {j.t : j \in serving}

\* The transfers under way, by where they are; each is begun before it is open, and ends after.
Framed ==
    /\ Ordered(wire)
    /\ \A t, u \in incoming : t.xid = u.xid => t = u
    /\ \A t \in incoming, u \in Begins(wire) : t.xid # u.xid
    /\ \A t \in Begins(wire) \union incoming \union InHand : t.xid < next_xid
    /\ \A x \in Ends(wire) : x < next_xid
    /\ \A j, k \in serving : j = k
    /\ \A t \in Begins(wire) \union incoming : t \in InHand \/ t.xid \in Ends(wire)

LEMMA FramedEnds == Framed => TransfersEnd
BY DEF Framed, TransfersEnd, InHand, Ends


LEMMA FramedStep == TypeOK /\ Framed /\ [Next]_vars => Framed'
<1> SUFFICES ASSUME TypeOK, Framed, [Next]_vars PROVE Framed'
  OBVIOUS
<1>0. /\ wire \in Seq(Message) /\ asked \in Seq(Ask) /\ serving \subseteq Job /\ incoming \subseteq Transfer
      /\ next_xid \in Nat
  BY DEF TypeOK, Xid
<1>1. ASSUME UNCHANGED <<wire, serving, incoming, next_xid>> PROVE Framed'
  BY <1>1 DEF Framed, Ordered, Begins, Ends, InHand
<1>2. CASE SendRequest \/ (\E want \in SUBSET Path : Reserve(want)) \/ UNCHANGED vars
  BY <1>1, <1>2 DEF SendRequest, Reserve, vars
<1>3. CASE ServeNotFound
  <2>1. Head(asked) \in Ask
    BY <1>0, <1>3 DEF ServeNotFound
  <2>2. NotFound(Head(asked).path) \in Message /\ NotFound(Head(asked).path).op = "NotFound"
    BY <2>1 DEF NotFound, Message, Ask
  <2>3. wire' = Append(wire, NotFound(Head(asked).path)) /\ UNCHANGED <<serving, incoming, next_xid>>
    BY <1>3 DEF ServeNotFound
  <2>4. Ordered(wire') /\ Begins(wire') = Begins(wire) /\ Ends(wire') = Ends(wire)
    <3> DEFINE m == NotFound(Head(asked).path)
    <3> HIDE DEF m
    <3>1. m \in Message /\ m.op = "NotFound" /\ wire' = Append(wire, m)
      BY <2>2, <2>3 DEF m
    <3> QED BY <1>0, <3>1, FramesAppend DEF Framed
  <2> QED BY <2>3, <2>4 DEF Framed, InHand
<1>4. CASE ServeStart
  <2>1. Head(asked) \in Ask /\ serving = {}
    BY <1>0, <1>4 DEF ServeStart
  <2>2. PICK delta \in {FALSE, Head(asked).sig} :
           /\ wire' = Append(wire, Start([xid |-> next_xid, path |-> Head(asked).path, delta |-> delta]))
           /\ serving' = {[t |-> [xid |-> next_xid, path |-> Head(asked).path, delta |-> delta],
                           left |-> "FileLiteral"]}
           /\ next_xid' = next_xid + 1 /\ incoming' = incoming
    BY <1>4 DEF ServeStart
  <2> DEFINE t == [xid |-> next_xid, path |-> Head(asked).path, delta |-> delta]
             m == Start(t)
  <2>3. t \in Transfer /\ t.xid = next_xid
    BY <1>0, <2>1 DEF Ask, Transfer
  <2>4. wire' = Append(wire, m) /\ InHand' = {t}
    BY <2>2 DEF InHand
  <2>5. \A j, k \in serving' : j = k
    BY <2>2
  <2> HIDE DEF t
  <2>6. m \in Message /\ m.op = "FileStart" /\ m.xid = next_xid /\ Of(m) = t
    BY <1>0, <2>3 DEF Start, Message, Transfer, Of
  <2> HIDE DEF m
  <2>7. next_xid \notin Ends(wire) /\ \A u \in Begins(wire) \union incoming : u.xid # next_xid
    BY <1>0 DEF Framed
  <2>8. Ordered(wire') /\ Begins(wire') = Begins(wire) \union {t} /\ Ends(wire') = Ends(wire)
    BY <1>0, <2>4, <2>6, <2>7, FramesAppend DEF Framed
  <2>9. \A u \in Begins(wire') \union incoming' \union InHand' : u.xid < next_xid'
    <3>1. \A u \in Begins(wire) \union incoming : u.xid < next_xid /\ u.xid \in Nat
      <4>1. \A u \in Begins(wire) : u.xid \in Nat
        BY <1>0, FramesNumbers
      <4> QED BY <1>0, <4>1 DEF Framed, Transfer
    <3> QED BY <1>0, <2>2, <2>3, <2>4, <2>8, <3>1
  <2>10. \A x \in Ends(wire') : x < next_xid'
    <3>1. \A x \in Ends(wire) : x \in Nat
      BY <1>0, FramesNumbers
    <3> QED BY <1>0, <2>2, <2>8, <3>1 DEF Framed
  <2>11. \A u \in Begins(wire') \union incoming' : u \in InHand' \/ u.xid \in Ends(wire')
    <3>1. InHand = {}
      BY <2>1 DEF InHand
    <3> QED BY <2>2, <2>4, <2>8, <3>1 DEF Framed
  <2> QED BY <2>2, <2>3, <2>5, <2>7, <2>8, <2>9, <2>10, <2>11 DEF Framed
<1>5. CASE ServeChunk
  <2>1. PICK j \in serving :
           /\ wire' = Append(wire, Chunk(j.t))
           /\ serving' = {[j EXCEPT !.left = "FileEnd"]}
           /\ UNCHANGED <<next_xid, incoming>>
    BY <1>5 DEF ServeChunk
  <2>2. j \in Job /\ j.t \in Transfer
    BY <1>0, <2>1 DEF Job
  <2>3. Chunk(j.t) \in Message /\ Chunk(j.t).op = "FileLiteral"
    BY <2>2 DEF Chunk, Message, Transfer
  <2>4. [j EXCEPT !.left = "FileEnd"].t = j.t
    BY <2>2 DEF Job
  <2>5. InHand = {j.t} /\ InHand' = {j.t}
    BY <2>1, <2>4 DEF InHand, Framed
  <2>6. Ordered(wire') /\ Begins(wire') = Begins(wire) /\ Ends(wire') = Ends(wire)
    <3> DEFINE m == Chunk(j.t)
    <3> HIDE DEF m
    <3>1. m \in Message /\ m.op = "FileLiteral" /\ wire' = Append(wire, m)
      BY <2>1, <2>3 DEF m
    <3> QED BY <1>0, <3>1, FramesAppend DEF Framed
  <2>7. \A i, k \in serving' : i = k
    BY <2>1
  <2> QED BY <2>1, <2>5, <2>6, <2>7 DEF Framed
<1>6. CASE ServeEnd
  <2>1. PICK j \in serving :
           /\ wire' = Append(wire, End(j.t))
           /\ serving' = {}
           /\ UNCHANGED <<next_xid, incoming>>
    BY <1>6 DEF ServeEnd
  <2>2. j.t \in Transfer
    BY <1>0, <2>1 DEF Job
  <2>3. End(j.t) \in Message /\ End(j.t).op = "FileEnd" /\ End(j.t).xid = j.t.xid
    BY <2>2 DEF End, Message, Transfer
  <2>4. InHand = {j.t} /\ InHand' = {}
    BY <2>1 DEF InHand, Framed
  <2>5. Ordered(wire') /\ Begins(wire') = Begins(wire) /\ Ends(wire') = Ends(wire) \union {j.t.xid}
    <3> DEFINE m == End(j.t)
    <3> HIDE DEF m
    <3>1. m \in Message /\ m.op = "FileEnd" /\ m.xid = j.t.xid /\ wire' = Append(wire, m)
      BY <2>1, <2>3 DEF m
    <3> QED BY <1>0, <3>1, FramesAppend DEF Framed
  <2>6. \A i, k \in serving' : i = k
    BY <2>1
  <2> QED BY <2>1, <2>4, <2>5, <2>6 DEF Framed
<1>7. CASE RecvStart
  <2>1. /\ wire # <<>> /\ Head(wire).op = "FileStart" /\ wire' = Tail(wire)
        /\ incoming' \subseteq incoming \union {Of(Head(wire))}
        /\ UNCHANGED <<serving, next_xid>>
    BY <1>7 DEF RecvStart, Receives, Of
  <2>2. /\ Ordered(wire') /\ Begins(wire') \subseteq Begins(wire) /\ Of(Head(wire)) \in Begins(wire)
        /\ Ends(wire') = Ends(wire)
        /\ \A t \in Begins(wire') : t.xid # Head(wire).xid
        /\ Of(Head(wire)).xid = Head(wire).xid
    BY <1>0, <2>1, FramesTail DEF Framed, Of
  <2> DEFINE h == Of(Head(wire))
  <2> HIDE DEF h
  <2>3. /\ incoming' \subseteq incoming \union {h} /\ h \in Begins(wire)
        /\ \A t \in Begins(wire') : t.xid # h.xid
    BY <2>1, <2>2 DEF h
  <2>4. InHand' = InHand
    BY <2>1 DEF InHand
  <2> QED BY <2>1, <2>2, <2>3, <2>4 DEF Framed
<1>8. CASE RecvChunk \/ RecvNotFound
  <2>1. /\ wire # <<>> /\ Head(wire).op \in {"FileLiteral", "NotFound"} /\ wire' = Tail(wire)
        /\ incoming' \subseteq incoming
        /\ UNCHANGED <<serving, next_xid>>
    BY <1>8 DEF RecvChunk, RecvNotFound, Receives
  <2>2. Ordered(wire') /\ Begins(wire') \subseteq Begins(wire) /\ Ends(wire') = Ends(wire)
    BY <1>0, <2>1, FramesTail DEF Framed
  <2>3. InHand' = InHand
    BY <2>1 DEF InHand
  <2> QED BY <2>1, <2>2, <2>3 DEF Framed
<1>9. CASE RecvEnd \/ RecvBadEnd \/ RecvStaleEnd
  <2>1. /\ wire # <<>> /\ Head(wire).op = "FileEnd" /\ wire' = Tail(wire)
        /\ incoming' \subseteq incoming
        /\ UNCHANGED <<serving, next_xid>>
    BY <1>9 DEF RecvEnd, RecvBadEnd, RecvStaleEnd, Receives
  <2>2. \A t \in incoming' : t.xid # Head(wire).xid
    <3>1. CASE RecvStaleEnd
      BY <3>1 DEF RecvStaleEnd, Open
    <3>2. CASE RecvEnd \/ RecvBadEnd
      <4>1. PICK t \in Open(Head(wire)) : incoming' = incoming \ {t}
        BY <3>2 DEF RecvEnd, RecvBadEnd
      <4> QED BY <4>1 DEF Open, Framed
    <3> QED BY <1>9, <3>1, <3>2
  <2>3. /\ Ordered(wire') /\ Begins(wire') \subseteq Begins(wire) /\ Ends(wire') \subseteq Ends(wire)
        /\ Ends(wire) \subseteq Ends(wire') \union {Head(wire).xid}
        /\ \A t \in Begins(wire') : t.xid # Head(wire).xid
    BY <1>0, <2>1, FramesTail DEF Framed
  <2>4. InHand' = InHand
    BY <2>1 DEF InHand
  <2> QED BY <2>1, <2>2, <2>3, <2>4 DEF Framed
<1> QED BY <1>2, <1>3, <1>4, <1>5, <1>6, <1>7, <1>8, <1>9 DEF Next, Serve, Receive

\* No transfer stays open for good: the message that closes it is on its way or the peer's
\* sender has yet to send it.
THEOREM OpenTransfersEnd == Spec => []TransfersEnd
<1>1. Init => Framed
  BY DEF Init, Framed, Ordered, Begins, Ends, InHand
<1> QED BY <1>1, TypeCorrect, FramedStep, FramedEnds, PTL DEF Spec
=============================================================================
