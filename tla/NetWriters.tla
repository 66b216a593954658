----------------------------- MODULE NetWriters -----------------------------
(***************************************************************************)
(* The writing ends of the streams of a network, for every wiring: a       *)
(* stream has one writer, which ends it with a termination or sync record, *)
(* and a stream is destroyed by its reader only behind that record.  So    *)
(* nobody writes to a destroyed stream.  The streams from a feedback       *)
(* buffer to its collector are left out: the collector destroys the last   *)
(* of them while the buffer still has it open.                             *)
(***************************************************************************)
EXTENDS NetProofs

(* The writing ends that are open, of the entities and of the source.      *)
OneOuts(kind, v, out) == {OutEnd(kind, e, "out", out[e]) : e \in {x \in DOMAIN v : ~v[x].done}}
FbOuts(kind, v, entity, out) == {OutEnd(kind, entity[f], f, out[f]) : f \in {x \in DOMAIN v : ~v[x].done}}
BranchOuts  == UNION {{OutEnd("par", e, i, ParOuts[e][i]) : i \in par[e].live} :
                        e \in {x \in DOMAIN par : ~par[x].done}}
ReplicaOuts == UNION {{OutEnd("replica", e, k, RepIn[e][k]) : k \in 1 .. Len(RepOut[e])} :
                        e \in {x \in DOMAIN split : ~split[x].done}}
TaskOuts == OneOuts("box", box, BoxOut) \cup OneOuts("filter", filter, FilterOut)
              \cup OneOuts("sync", sync, SyncOut) \cup OneOuts("coll", coll, CollOut)
              \cup OneOuts("split", split, SplitInitial)
              \cup OneOuts("star", star, StarOut) \cup OneOuts("next", star, StarNext)
              \cup FbOuts("fbcoll", fbcoll, FbColl, IntoOp) \cup FbOuts("fbdisp", fbdisp, FbDisp, FbOut)
              \cup FbOuts("fbback", fbdisp, FbDisp, BackIn)
              \cup BranchOuts \cup ReplicaOuts
SourceOuts == {OutEnd("source", "input", "out", NetIn[src.net]) : o \in {x \in {src} : x.pos < Len(x.in)}}
Outs == TaskOuts \cup SourceOuts

(* The streams from the feedback buffers to their collectors, and those    *)
(* from the dispatchers to the buffers.                                    *)
Loop == UNION {{BackOuts[f][k] : k \in 1 .. Len(BackOuts[f])} : f \in DOMAIN fbbuf}
Back == {BackIn[f] : f \in DOMAIN fbbuf}

(* Nothing comes behind a termination or sync record.                      *)
IsLast(r)   == r.t \in {"term", "sync"}
Uses(o)     == o.op # "freed"
IsEnding(o) == o.op = "write" /\ IsLast(o.rec)

OpenAt(e, s) == \E a \in TaskOuts : a[2] = e /\ a[4] = s
Open(s)      == \E a \in Outs : a[4] = s
Ending(s)    == \E e \in DOMAIN todo : \E i \in DOMAIN todo[e] : IsEnding(todo[e][i]) /\ todo[e][i].s = s
Ended(s)     == \E i \in DOMAIN chan[s] : IsLast(chan[s][i])

(* The invariant.  The streams and ends are those of the wiring.           *)
Wired == /\ Stream = Links[src.net] /\ Outs \subseteq InitialOuts(src.net)
         /\ DOMAIN fbbuf = {f \in Feedbacks : FbColl[f] \in Members[src.net]}

(* A pending use of a stream is one by its writer, or its writer's last    *)
(* record comes behind it; the record that ends a stream is the only one.  *)
Pending ==
  \A e \in DOMAIN todo : \A i \in DOMAIN todo[e] :
    LET s == todo[e][i].s
    IN  /\ Uses(todo[e][i]) =>
             /\ s \in Stream \ Loop
             /\ OpenAt(e, s) \/ \E j \in DOMAIN todo[e] : j >= i /\ IsEnding(todo[e][j]) /\ todo[e][j].s = s
        /\ IsEnding(todo[e][i]) =>
             /\ ~Open(s)
             /\ \A d \in DOMAIN todo : \A j \in DOMAIN todo[d] :
                  IsEnding(todo[d][j]) /\ todo[d][j].s = s => d = e /\ j = i
        /\ IsEnding(todo[e][i]) /\ todo[e][i].rec.t = "sync" => s \notin Back

(* Behind the last record of a stream comes nothing, nor will, and what is *)
(* destroyed or to be is empty and stays so.                               *)
Chans ==
  \A s \in Stream \ Loop :
    /\ Ended(s) => ~Open(s) /\ ~Ending(s)
    /\ \A i \in DOMAIN chan[s] : IsLast(chan[s][i]) => i = Len(chan[s])
    /\ Gone(s) => chan[s] = << >> /\ ~Open(s) /\ ~Ending(s)

(* The sync records of a feedback loop stay in it.                         *)
LoopState ==
  /\ \A f \in DOMAIN fbcoll : fbcoll[f].back \in Loop
  /\ \A f \in DOMAIN fbbuf : /\ fbbuf[f].out \in Loop
                             /\ \A i \in DOMAIN fbbuf[f].q : fbbuf[f].q[i].t = "sync" => fbbuf[f].q[i].s \in Loop
LoopChans ==
  /\ \A s \in Loop : \A i \in DOMAIN chan[s] : chan[s][i].t = "sync" => chan[s][i].s \in Loop
  /\ \A s \in Back : \A i \in DOMAIN chan[s] : chan[s][i].t # "sync"

(* A split has no more replicas than are wired up and ends without a       *)
(* record in hand, and the startup loop of a parallel dispatcher has not   *)
(* closed what it has not come to.                                         *)
Locals ==
  /\ \A x \in DOMAIN split : /\ Len(split[x].tab) <= Len(RepOut[x])
                             /\ split[x].done => split[x].rec = << >>
  /\ \A p \in DOMAIN par : /\ par[p].start \in Nat
                           /\ ~par[p].running => \A i \in Branches(p) : i >= par[p].start => i \in par[p].live

WInv == Wired /\ Pending /\ Chans /\ LoopState /\ LoopChans /\ Locals

-----------------------------------------------------------------------------
(* Operations of a handler that leaves the streams K open, closes those of *)
(* C, each with one last record, and destroys those of F.                  *)
Closes(ops, s) == \E j \in DOMAIN ops : IsEnding(ops[j]) /\ ops[j].s = s
Orderly(ops, K, C, F) ==
  /\ IsSeq(ops)
  /\ \A s \in C : Closes(ops, s)
  /\ \A i \in DOMAIN ops :
       /\ Uses(ops[i]) =>
            /\ ops[i].s \in K \cup C
            /\ ops[i].s \in C => \E j \in DOMAIN ops : j >= i /\ IsEnding(ops[j]) /\ ops[j].s = ops[i].s
       /\ IsEnding(ops[i]) =>
            /\ ops[i].s \in C
            /\ \A j \in DOMAIN ops : IsEnding(ops[j]) /\ ops[j].s = ops[i].s => j = i
       /\ ~Uses(ops[i]) => ops[i].s \in F

(* What single operations do.                                              *)
LEMMA OpUses ==
  /\ \A s, r : Uses(Write(s, r)) /\ Write(s, r).s = s /\ (IsEnding(Write(s, r)) <=> IsLast(r)) /\ Write(s, r).rec = r
  /\ \A s : ~Uses(Free(s)) /\ ~IsEnding(Free(s)) /\ Free(s).s = s
  /\ \A s : Uses(Create(s)) /\ ~IsEnding(Create(s)) /\ Create(s).s = s
  /\ \A s, t : IsLast(Sync(s, t)) /\ Sync(s, t).t = "sync"
  /\ IsLast(Term) /\ Term.t # "sync"
  /\ ~IsLast(Trigger)
  /\ \A s : ~IsLast(Collect(s))
  /\ \A l, n : ~IsLast(Sort(l, n))
  /\ \A i, t : ~IsLast(Data(i, t))
  /\ \A r : ~IsLast(Raise(r)) /\ ~IsLast(Lower(r))
BY DEF Uses, IsEnding, IsLast, Write, Free, Create, Sync, Collect, Term, Trigger, Sort, Data, Raise, Lower

(* A single operation, and none.                                           *)
LEMMA OrderOne ==
  ASSUME NEW o, NEW K
  PROVE  /\ Uses(o) /\ ~IsEnding(o) /\ o.s \in K => Orderly(<<o>>, K, {}, {})
         /\ Uses(o) /\ IsEnding(o) => Orderly(<<o>>, K, {o.s}, {})
         /\ ~Uses(o) /\ ~IsEnding(o) => Orderly(<<o>>, K, {}, {o.s})
         /\ Orderly(<< >>, K, {}, {})
<1>1. IsSeq(<<o>>) /\ DOMAIN <<o>> = {1} /\ <<o>>[1] = o
  BY ShortSeq
<1>2. IsSeq(<< >>) /\ DOMAIN << >> = {}
  BY ShortSeq, SeqFacts
<1> QED BY <1>1, <1>2 DEF Orderly, Closes

(* More may be left open, or destroyed.                                    *)
LEMMA OrderMore ==
  ASSUME NEW ops, NEW K, NEW C, NEW F, Orderly(ops, K, C, F), NEW L, NEW G, K \subseteq L, F \subseteq G
  PROVE  Orderly(ops, L, C, G)
BY DEF Orderly

(* One group of operations after the other: the second does not use what   *)
(* the first has closed.                                                   *)
LEMMA OrderConcat ==
  ASSUME NEW a, NEW b, NEW K, NEW C, NEW D, NEW F, NEW G, Orderly(a, K \cup D, C, F), Orderly(b, K, D, G),
         C \cap D = {}, C \cap K = {}
  PROVE  Orderly(a \o b, K, C \cup D, F \cup G)
<1> DEFINE c == a \o b
           m == Len(a)
           n == Len(b)
<1>1. /\ IsSeq(c) /\ DOMAIN c = 1..(m + n) /\ m \in Nat /\ n \in Nat /\ DOMAIN a = 1..m /\ DOMAIN b = 1..n
      /\ \A i \in 1..(m + n) : c[i] = IF i <= m THEN a[i] ELSE b[i - m]
  BY ConcatSeq, SeqFacts DEF Orderly
<1> HIDE DEF c, m, n
<1>2. ASSUME NEW i \in DOMAIN a PROVE i \in DOMAIN c /\ c[i] = a[i]
  BY <1>1
<1>3. ASSUME NEW i \in DOMAIN b PROVE m + i \in DOMAIN c /\ c[m + i] = b[i]
  BY <1>1
<1>4. ASSUME NEW i \in DOMAIN c
      PROVE  \/ i \in DOMAIN a /\ c[i] = a[i] /\ i <= m
             \/ i - m \in DOMAIN b /\ c[i] = b[i - m] /\ i > m
  BY <1>1
<1>5. ASSUME NEW s \in C PROVE Closes(c, s)
  BY <1>2 DEF Orderly, Closes
<1>6. ASSUME NEW s \in D PROVE Closes(c, s)
  BY <1>3 DEF Orderly, Closes
<1>7. ASSUME NEW i \in DOMAIN c, IsEnding(c[i])
      PROVE  /\ c[i].s \in C \cup D
             /\ \A j \in DOMAIN c : IsEnding(c[j]) /\ c[j].s = c[i].s => j = i
  <2>1. CASE i \in DOMAIN a /\ c[i] = a[i] /\ i <= m
    <3>1. c[i].s \in C
      BY <1>7, <2>1 DEF Orderly
    <3>2. ASSUME NEW j \in DOMAIN c, IsEnding(c[j]), c[j].s = c[i].s PROVE j = i
      <4>1. CASE j \in DOMAIN a /\ c[j] = a[j]
        BY <1>7, <2>1, <3>2, <4>1 DEF Orderly
      <4>2. CASE j - m \in DOMAIN b /\ c[j] = b[j - m]
        <5>1. c[j].s \in D
          BY <3>2, <4>2 DEF Orderly
        <5> QED BY <3>1, <3>2, <5>1
      <4> QED BY <1>4, <4>1, <4>2
    <3> QED BY <3>1, <3>2
  <2>2. CASE i - m \in DOMAIN b /\ c[i] = b[i - m] /\ i > m
    <3>1. c[i].s \in D
      BY <1>7, <2>2 DEF Orderly
    <3>2. ASSUME NEW j \in DOMAIN c, IsEnding(c[j]), c[j].s = c[i].s PROVE j = i
      <4>1. CASE j \in DOMAIN a /\ c[j] = a[j]
        <5>1. c[j].s \in C
          BY <3>2, <4>1 DEF Orderly
        <5> QED BY <3>1, <3>2, <5>1
      <4>2. CASE j - m \in DOMAIN b /\ c[j] = b[j - m]
        <5>1. j - m = i - m
          BY <1>7, <2>2, <3>2, <4>2 DEF Orderly
        <5> QED BY <1>1, <5>1
      <4> QED BY <1>4, <4>1, <4>2
    <3> QED BY <3>1, <3>2
  <2> QED BY <1>4, <2>1, <2>2
<1>8. ASSUME NEW i \in DOMAIN c, Uses(c[i])
      PROVE  /\ c[i].s \in K \cup (C \cup D)
             /\ c[i].s \in C \cup D => \E j \in DOMAIN c : j >= i /\ IsEnding(c[j]) /\ c[j].s = c[i].s
  <2>1. CASE i \in DOMAIN a /\ c[i] = a[i] /\ i <= m
    <3>1. c[i].s \in (K \cup D) \cup C
      BY <1>8, <2>1 DEF Orderly
    <3>2. ASSUME c[i].s \in C PROVE \E j \in DOMAIN c : j >= i /\ IsEnding(c[j]) /\ c[j].s = c[i].s
      <4>1. PICK j \in DOMAIN a : j >= i /\ IsEnding(a[j]) /\ a[j].s = a[i].s
        BY <1>8, <2>1, <3>2 DEF Orderly
      <4> QED BY <1>2, <2>1, <4>1
    <3>3. ASSUME c[i].s \in D PROVE \E j \in DOMAIN c : j >= i /\ IsEnding(c[j]) /\ c[j].s = c[i].s
      <4>1. PICK j \in DOMAIN b : IsEnding(b[j]) /\ b[j].s = c[i].s
        BY <3>3 DEF Orderly, Closes
      <4>2. m + j >= i
        BY <1>1, <2>1
      <4> QED BY <1>3, <4>1, <4>2
    <3> QED BY <3>1, <3>2, <3>3
  <2>2. CASE i - m \in DOMAIN b /\ c[i] = b[i - m] /\ i > m
    <3>1. c[i].s \in K \cup D
      BY <1>8, <2>2 DEF Orderly
    <3>2. ASSUME c[i].s \in D PROVE \E j \in DOMAIN c : j >= i /\ IsEnding(c[j]) /\ c[j].s = c[i].s
      <4>1. PICK j \in DOMAIN b : j >= i - m /\ IsEnding(b[j]) /\ b[j].s = b[i - m].s
        BY <1>8, <2>2, <3>2 DEF Orderly
      <4>2. m + j >= i
        BY <1>1, <4>1
      <4> QED BY <1>3, <2>2, <4>1, <4>2
    <3> QED BY <3>1, <3>2
  <2> QED BY <1>4, <2>1, <2>2
<1>9. ASSUME NEW i \in DOMAIN c, ~Uses(c[i]) PROVE c[i].s \in F \cup G
  BY <1>4, <1>9 DEF Orderly
<1>10. Orderly(c, K, C \cup D, F \cup G)
  BY <1>1, <1>5, <1>6, <1>7, <1>8, <1>9 DEF Orderly
<1> QED BY <1>10 DEF c

(* The same record to several streams: one that ends nothing ...           *)
LEMMA OrderAll ==
  ASSUME NEW ss, IsSeq(ss), NEW r, NEW K
  PROVE  /\ ~IsLast(r) /\ Range(ss) \subseteq K => Orderly(WriteAll(ss, r), K, {}, {})
         /\ IsLast(r) /\ (\A i, j \in DOMAIN ss : ss[i] = ss[j] => i = j) => Orderly(WriteAll(ss, r), K, Range(ss), {})
<1> DEFINE ops == WriteAll(ss, r)
<1>1. DOMAIN ss = 1..Len(ss) /\ Len(ss) \in Nat
  BY SeqFacts
<1>2. DOMAIN ops = DOMAIN ss /\ ops = [i \in DOMAIN ss |-> ops[i]] /\ \A i \in DOMAIN ops : ops[i] = Write(ss[i], r)
  BY DEF WriteAll
<1>3. IsSeq(ops)
  BY <1>1, <1>2, ListSeq
<1> HIDE DEF ops
<1>4. \A i \in DOMAIN ss : ss[i] \in Range(ss) /\ Uses(ops[i]) /\ ops[i].s = ss[i] /\ (IsEnding(ops[i]) <=> IsLast(r))
  BY <1>2, OpUses DEF Range
<1>5. \A s \in Range(ss) : \E i \in DOMAIN ss : ss[i] = s
  BY DEF Range
<1>6. ASSUME ~IsLast(r), Range(ss) \subseteq K PROVE Orderly(ops, K, {}, {})
  BY <1>2, <1>3, <1>4, <1>6 DEF Orderly
<1>7. ASSUME IsLast(r), \A i, j \in DOMAIN ss : ss[i] = ss[j] => i = j PROVE Orderly(ops, K, Range(ss), {})
  <2>1. \A i \in DOMAIN ops : i \in Int /\ i >= i
    BY <1>1, <1>2
  <2> QED BY <1>2, <1>3, <1>4, <1>5, <1>7, <2>1 DEF Orderly, Closes
<1> QED BY <1>6, <1>7 DEF ops

(* Short lists of operations as groups, one after the other.               *)
LEMMA ListConcat ==
  /\ \A o, p : <<o, p>> = <<o>> \o <<p>>
  /\ \A o, p, q : <<o, p, q>> = <<o>> \o <<p, q>>
  /\ \A a : IsSeq(a) => \A o : Append(a, o) = a \o <<o>>
<1>1. ASSUME NEW o, NEW p PROVE <<o, p>> = <<o>> \o <<p>>
  <2> DEFINE a == <<o>>
             b == <<p>>
             c == <<o, p>>
             S == {o, p}
  <2>1. /\ a \in Seq(S) /\ b \in Seq(S) /\ c \in Seq(S) /\ Len(a) = 1 /\ Len(b) = 1 /\ Len(c) = 2
        /\ a[1] = o /\ b[1] = p /\ c[1] = o /\ c[2] = p
    OBVIOUS
  <2> HIDE DEF a, b, c, S
  <2>2. /\ a \o b \in Seq(S) /\ Len(a \o b) = 2
        /\ (a \o b)[1] = o /\ (a \o b)[2] = p
    <3>1. /\ a \o b \in Seq(S) /\ Len(a \o b) = 1 + 1
          /\ \A i \in 1 .. 1 + 1 : (a \o b)[i] = IF i <= 1 THEN a[i] ELSE b[i - 1]
      BY <2>1, ConcatProperties
    <3>2. 1 \in 1 .. 1 + 1 /\ 2 \in 1 .. 1 + 1 /\ 1 <= 1 /\ ~(2 <= 1) /\ 2 - 1 = 1 /\ 1 + 1 = 2
      OBVIOUS
    <3>3. (a \o b)[1] = a[1] /\ (a \o b)[2] = b[1]
      BY <3>1, <3>2
    <3> QED BY <2>1, <3>1, <3>3
  <2>3. c = a \o b
    BY <2>1, <2>2, SeqEqual
  <2> QED BY <2>3 DEF a, b, c
<1>2. ASSUME NEW o, NEW p, NEW q PROVE <<o, p, q>> = <<o>> \o <<p, q>>
  <2> DEFINE a == <<o>>
             b == <<p, q>>
             c == <<o, p, q>>
             S == {o, p, q}
  <2>1. /\ a \in Seq(S) /\ b \in Seq(S) /\ c \in Seq(S) /\ Len(a) = 1 /\ Len(b) = 2 /\ Len(c) = 3
        /\ a[1] = o /\ b[1] = p /\ b[2] = q /\ c[1] = o /\ c[2] = p /\ c[3] = q
    OBVIOUS
  <2> HIDE DEF a, b, c, S
  <2>2. /\ a \o b \in Seq(S) /\ Len(a \o b) = 3
        /\ (a \o b)[1] = o /\ (a \o b)[2] = p /\ (a \o b)[3] = q
    <3>1. /\ a \o b \in Seq(S) /\ Len(a \o b) = 1 + 2
          /\ \A i \in 1 .. 1 + 2 : (a \o b)[i] = IF i <= 1 THEN a[i] ELSE b[i - 1]
      <4>1. /\ a \o b \in Seq(S) /\ Len(a \o b) = Len(a) + Len(b)
            /\ \A i \in 1 .. Len(a) + Len(b) : (a \o b)[i] = IF i <= Len(a) THEN a[i] ELSE b[i - Len(a)]
        BY <2>1, ConcatProperties, Zenon
      <4> QED BY <2>1, <4>1, Zenon
    <3>2. (a \o b)[1] = a[1] /\ (a \o b)[2] = b[1] /\ (a \o b)[3] = b[2]
      <4>1. 1 \in 1 .. 1 + 2 /\ 2 \in 1 .. 1 + 2 /\ 3 \in 1 .. 1 + 2 /\ 1 <= 1 /\ ~(2 <= 1) /\ ~(3 <= 1)
        OBVIOUS
      <4>2. 2 - 1 = 1 /\ 3 - 1 = 2
        OBVIOUS
      <4> QED BY <3>1, <4>1, <4>2
    <3> QED BY <2>1, <3>1, <3>2
  <2>3. c = a \o b
    BY <2>1, <2>2, SeqEqual
  <2> QED BY <2>3 DEF a, b, c
<1>3. ASSUME NEW a, IsSeq(a), NEW o PROVE Append(a, o) = a \o <<o>>
  <2> DEFINE S == Range(a) \cup {o}
  <2>1. a \in Seq(S)
    BY <1>3, SeqMonotonic DEF IsSeq
  <2> QED BY <2>1, AppendIsConcat
<1> QED BY <1>1, <1>2, <1>3

-----------------------------------------------------------------------------
(* What is left to do of operations, and what has been destroyed.          *)
Behind(n, ops, rest) ==
  /\ \A i \in DOMAIN rest : n + i \in DOMAIN ops /\ rest[i] = ops[n + i] /\ i \in Nat
  /\ \A i \in DOMAIN ops : i > n => i - n \in DOMAIN rest

Destroys(ops, x) == \E i \in DOMAIN ops : ops[i] = Free(x)

(* Proceed leaves a suffix of the operations in todo and frees what they free. *)
LEMMA ProceedFacts ==
  ASSUME NetShape, NEW e, NEW ops, IsSeq(ops), NEW st, Proceed(e, ops, st)
  PROVE  /\ DOMAIN todo' = DOMAIN todo
         /\ \A x \in DOMAIN todo : x # e => todo'[x] = todo[x]
         /\ e \in DOMAIN todo => \E n \in Nat : Behind(n, ops, todo'[e])
         /\ DOMAIN stat' = DOMAIN st
         /\ \A x \in DOMAIN st : stat'[x] = "freed" => st[x] = "freed" \/ Destroys(ops, x)
<1> DEFINE n == Local(ops)
           rest == SubSeq(ops, n + 1, Len(ops))
<1>1. n \in 0..Len(ops) /\ Len(ops) \in Nat /\ DOMAIN ops = 1..Len(ops)
  BY LocalPrefix, SeqFacts
<1>2. /\ DOMAIN rest = 1..(Len(ops) - n) /\ \A j \in 1..(Len(ops) - n) : rest[j] = ops[n + j]
      /\ DOMAIN SubSeq(ops, 1, n) = 1..n /\ \A j \in 1..n : SubSeq(ops, 1, n)[j] = ops[j]
  BY <1>1, PartSeq
<1>3. todo' = [todo EXCEPT ![e] = rest] /\ stat' = Performed(SubSeq(ops, 1, n), st)
  BY DEF Proceed
<1> HIDE DEF n, rest
<1>4. DOMAIN todo' = DOMAIN todo /\ \A x \in DOMAIN todo : todo'[x] = IF x = e THEN rest ELSE todo[x]
  BY <1>3 DEF NetShape, IsFun
<1>5. DOMAIN stat' = DOMAIN st /\ \A x \in DOMAIN st : stat'[x] = "freed" => st[x] = "freed" \/ Free(x) \in Range(SubSeq(ops, 1, n))
  BY <1>3 DEF Performed
<1>6. ASSUME NEW x, Free(x) \in Range(SubSeq(ops, 1, n)) PROVE Destroys(ops, x)
  <2>1. PICK k \in 1..n : ops[k] = Free(x)
    BY <1>2, <1>6 DEF Range
  <2> QED BY <1>1, <2>1 DEF Destroys
<1>7. n \in Nat /\ \A i \in 1..(Len(ops) - n) : n + i \in DOMAIN ops /\ i \in Nat
  BY <1>1
<1>8. \A i \in DOMAIN ops : i > n => i - n \in 1..(Len(ops) - n)
  BY <1>1
<1>9. Behind(n, ops, rest)
  BY <1>2, <1>7, <1>8 DEF Behind
<1> QED BY <1>4, <1>5, <1>6, <1>7, <1>9

(* What the wiring says of open ends.                                      *)
LEMMA WiringFacts ==
  ASSUME IInv, Wired
  PROVE  /\ \A a, b \in Outs : a[4] = b[4] => a = b
         /\ \A a \in Outs : a[4] \in Stream \ Loop /\ (a[4] \in Back => a[1] = "fbback")
         /\ Loop \subseteq Stream /\ Back \subseteq Stream \ Loop
         /\ \A f \in DOMAIN fbbuf : BackOuts[f][1] \in Loop
         /\ \A a \in TaskOuts : a \notin SourceOuts
<1> DEFINE I == InitialOuts(src.net)
           fbs == {f \in Feedbacks : FbColl[f] \in Members[src.net]}
<1>1. \A a, b \in I : a[4] \in Stream /\ (a[4] = b[4] => a = b)
  <2>1. src.net \in Nets /\ Stream = Links[src.net]
    BY DEF IInv, Shape, TaskShape, Wired
  <2> QED BY <2>1, WiringAssumption
<1>2. Outs \subseteq I /\ DOMAIN fbbuf = fbs
  BY DEF Wired
<1>3. ASSUME NEW f \in fbs
      PROVE  /\ OutEnd("fbback", FbDisp[f], f, BackIn[f]) \in I
             /\ \A k \in 1 .. Len(BackOuts[f]) : OutEnd("fbbuf", f, k, BackOuts[f][k]) \in I
  BY DEF InitialOuts
<1> HIDE DEF I, fbs
<1>4. (\A a \in Outs : a[1] # "fbbuf") /\ \A a \in TaskOuts : a \notin SourceOuts
  <2>1. \A k, v, o : \A a \in OneOuts(k, v, o) : a[1] = k
    BY DEF OneOuts, OutEnd
  <2>2. \A k, v, h, o : \A a \in FbOuts(k, v, h, o) : a[1] = k
    BY DEF FbOuts, OutEnd
  <2>3. (\A a \in BranchOuts : a[1] = "par") /\ (\A a \in ReplicaOuts : a[1] = "replica")
    BY DEF BranchOuts, ReplicaOuts, OutEnd
  <2>4. \A a \in SourceOuts : a[1] = "source"
    BY DEF SourceOuts, OutEnd
  <2> QED BY <2>1, <2>2, <2>3, <2>4 DEF Outs, TaskOuts
<1>5. \A k, e, p, s : OutEnd(k, e, p, s)[1] = k /\ OutEnd(k, e, p, s)[4] = s
  BY DEF OutEnd
<1>6. ASSUME NEW s \in Loop PROVE s \in Stream /\ \E a \in I : a[4] = s /\ a[1] = "fbbuf"
  <2>1. PICK f \in fbs : \E k \in 1 .. Len(BackOuts[f]) : s = BackOuts[f][k]
    BY <1>2 DEF Loop
  <2> QED BY <1>1, <1>3, <1>5, <2>1
<1>7. ASSUME NEW s \in Back PROVE s \in Stream /\ \E a \in I : a[4] = s /\ a[1] = "fbback"
  BY <1>1, <1>2, <1>3, <1>5 DEF Back
<1>8. ASSUME NEW f \in DOMAIN fbbuf PROVE BackOuts[f][1] \in Loop
  <2>1. f \in Feedbacks
    BY DEF Wired
  <2>2. IsSeq(BackOuts[f]) /\ BackOuts[f] # << >>
    BY <2>1, FeedbackAssumption DEF IsSeq
  <2>3. 1 \in 1 .. Len(BackOuts[f])
    BY <2>2, SeqFacts
  <2> QED BY <2>3 DEF Loop
<1> QED BY <1>1, <1>2, <1>4, <1>6, <1>7, <1>8

(* Every pending use and every end that is to be written.                  *)
LEMMA PendingFacts ==
  ASSUME Pending, NEW e \in DOMAIN todo, NEW i \in DOMAIN todo[e], NEW s, s = todo[e][i].s
  PROVE  /\ Uses(todo[e][i]) =>
              /\ s \in Stream \ Loop
              /\ OpenAt(e, s) \/ \E j \in DOMAIN todo[e] : j >= i /\ IsEnding(todo[e][j]) /\ todo[e][j].s = s
         /\ IsEnding(todo[e][i]) =>
              /\ ~Open(s)
              /\ \A d \in DOMAIN todo : \A j \in DOMAIN todo[d] :
                   IsEnding(todo[d][j]) /\ todo[d][j].s = s => d = e /\ j = i
         /\ IsEnding(todo[e][i]) /\ todo[e][i].rec.t = "sync" => s \notin Back
BY DEF Pending

-----------------------------------------------------------------------------
(* A read takes the first record of a stream and leaves the others alone.  *)
LEMMA PopFacts ==
  ASSUME NetShape, NEW s \in Stream, chan[s] # << >>, chan' = [chan EXCEPT ![s] = Tail(@)]
  PROVE  /\ Stream' = Stream /\ 1 \in DOMAIN chan[s] /\ Top(s) = chan[s][1]
         /\ Len(chan[s]) = 1 => chan'[s] = << >>
         /\ \A x \in Stream : x # s => chan'[x] = chan[x]
         /\ \A x \in Stream : \A i \in DOMAIN chan'[x] : \E j \in DOMAIN chan[x] :
              chan'[x][i] = chan[x][j] /\ (j = Len(chan[x]) => i = Len(chan'[x]))
<1>1. IsSeq(chan[s]) /\ DOMAIN chan[s] = 1..Len(chan[s]) /\ Len(chan[s]) \in Nat /\ 1 \in DOMAIN chan[s] /\ Top(s) = chan[s][1]
  BY SeqFacts DEF NetShape, Stream, Top
<1>2. DOMAIN chan' = DOMAIN chan /\ \A x \in DOMAIN chan : chan'[x] = IF x = s THEN Tail(chan[s]) ELSE chan[x]
  BY DEF NetShape, IsFun
<1>3. /\ IsSeq(Tail(chan[s])) /\ DOMAIN Tail(chan[s]) = 1..(Len(chan[s]) - 1)
      /\ \A i \in DOMAIN Tail(chan[s]) : Tail(chan[s])[i] = chan[s][i + 1]
  BY <1>1, TailSeq
<1>4. Len(Tail(chan[s])) = Len(chan[s]) - 1
  BY <1>1, HeadTailProperties DEF IsSeq
<1>5. ASSUME Len(chan[s]) = 1 PROVE chan'[s] = << >>
  <2>1. 1 \notin DOMAIN Tail(chan[s])
    <3>1. 1 \notin 1..(1 - 1)
      OBVIOUS
    <3> QED BY <1>3, <1>5, <3>1
  <2>2. Tail(chan[s]) = << >>
    BY <1>3, <2>1, SeqFacts
  <2> QED BY <1>2, <2>2 DEF Stream
<1>6. ASSUME NEW i \in DOMAIN chan'[s]
      PROVE  i + 1 \in DOMAIN chan[s] /\ chan'[s][i] = chan[s][i + 1] /\ (i + 1 = Len(chan[s]) => i = Len(chan'[s]))
  <2>1. chan'[s] = Tail(chan[s]) /\ i \in 1..(Len(chan[s]) - 1)
    BY <1>2, <1>3 DEF Stream
  <2>2. \A n \in Nat : \A j \in 1..(n - 1) : j + 1 \in 1..n /\ (j + 1 = n => j = n - 1)
    OBVIOUS
  <2> QED BY <1>1, <1>3, <1>4, <2>1, <2>2
<1>7. ASSUME NEW x \in Stream, NEW i \in DOMAIN chan'[x]
      PROVE  \E j \in DOMAIN chan[x] : chan'[x][i] = chan[x][j] /\ (j = Len(chan[x]) => i = Len(chan'[x]))
  <2>1. CASE x = s
    BY <1>6, <1>7, <2>1
  <2>2. CASE x # s
    BY <1>2, <2>2 DEF Stream
  <2> QED BY <2>1, <2>2
<1> QED BY <1>1, <1>2, <1>5, <1>7 DEF Stream

(* What it says that the invariant holds of a stream.                      *)
LEMMA ChanFacts ==
  ASSUME Chans, NEW s \in Stream, s \notin Loop
  PROVE  /\ Ended(s) => ~Open(s) /\ ~Ending(s)
         /\ \A i \in DOMAIN chan[s] : IsLast(chan[s][i]) => i = Len(chan[s])
         /\ Gone(s) => chan[s] = << >> /\ ~Open(s) /\ ~Ending(s)
BY DEF Chans

(* What surrounds a step of an entity.                                     *)
Framed == IInv /\ IInv' /\ WInv /\ UNCHANGED src /\ DOMAIN fbbuf' = DOMAIN fbbuf /\ LoopState' /\ Locals'

(* The streams of the ends E of entity e.                                  *)
OutsOf(e, E) == {a[4] : a \in {b \in E : b[2] = e}}

(* An entity closes its ends D, may have taken a record from stream s, and *)
(* destroys no other streams than F.                                       *)
Closing(e, D)  == D \subseteq TaskOuts /\ TaskOuts' = TaskOuts \ D /\ \A a \in D : a[2] = e
Popped(s)      == s \in Stream /\ chan[s] # << >> /\ chan' = [chan EXCEPT ![s] = Tail(@)]
Taking(s, F)   == \/ UNCHANGED chan /\ F \subseteq Loop
                  \/ Popped(s) /\ F \subseteq Loop \cup {s} /\ (s \in F => s \in Loop \/ IsLast(Top(s)))
NotBack(ops)   == \A i \in DOMAIN ops : IsEnding(ops[i]) /\ ops[i].rec.t = "sync" => ops[i].s \notin Back

(* An entity with nothing left to do goes on to orderly operations.        *)
LEMMA HandlerStep ==
  ASSUME Framed, NEW e, todo[e] = << >>, NEW D, Closing(e, D), NEW s, NEW F, Taking(s, F),
         NEW ops, NEW C, Orderly(ops, OutsOf(e, TaskOuts \ D), C, F), Proceed(e, ops, stat),
         C \subseteq OutsOf(e, D), NotBack(ops)
  PROVE  WInv'
<1> DEFINE K == OutsOf(e, TaskOuts \ D)
<1>a. /\ IInv /\ IInv' /\ WInv /\ UNCHANGED src /\ DOMAIN fbbuf' = DOMAIN fbbuf /\ LoopState' /\ Locals'
      /\ D \subseteq TaskOuts /\ TaskOuts' = TaskOuts \ D /\ \A a \in D : a[2] = e
  BY DEF Framed, Closing
<1>b. /\ \A x \in K : \E a \in TaskOuts \ D : a[2] = e /\ a[4] = x
      /\ \A x \in C : \E a \in D : a[4] = x
      /\ \A i \in DOMAIN ops : IsEnding(ops[i]) /\ ops[i].rec.t = "sync" => ops[i].s \notin Back
  BY DEF OutsOf, NotBack
<1>c. Orderly(ops, K, C, F)
  OBVIOUS
<1>d. \/ UNCHANGED chan /\ F \subseteq Loop
      \/ /\ s \in Stream /\ chan[s] # << >> /\ chan' = [chan EXCEPT ![s] = Tail(@)]
         /\ F \subseteq Loop \cup {s} /\ (s \in F => s \in Loop \/ IsLast(Top(s)))
  BY DEF Taking, Popped
<1> HIDE DEF K
<1> USE <1>a, <1>b, <1>c, <1>d
<1>1. NetShape /\ Wired /\ Pending /\ Chans /\ LoopChans
  BY DEF IInv, Shape, WInv
<1>2. /\ \A a, b \in Outs : a[4] = b[4] => a = b
      /\ \A a \in Outs : a[4] \in Stream \ Loop
      /\ Loop \subseteq Stream /\ Back \subseteq Stream
      /\ \A a \in TaskOuts : a \notin SourceOuts
  BY <1>1, WiringFacts
<1>3. SourceOuts' = SourceOuts /\ Outs' \subseteq Outs /\ \A a \in D : a \in Outs /\ a \notin Outs'
  <2>1. SourceOuts' = SourceOuts
    BY DEF SourceOuts
  <2> QED BY <1>2, <2>1 DEF Outs
<1>4. Loop' = Loop /\ Back' = Back
  BY DEF Loop, Back
<1>5. DOMAIN todo[e] = {}
  BY ShortSeq, SeqFacts
<1>6. /\ DOMAIN todo' = DOMAIN todo
      /\ \A x \in DOMAIN todo : x # e => todo'[x] = todo[x]
      /\ e \in DOMAIN todo => \E n \in Nat : Behind(n, ops, todo'[e])
      /\ DOMAIN stat' = DOMAIN stat
      /\ \A x \in DOMAIN stat : stat'[x] = "freed" => stat[x] = "freed" \/ Destroys(ops, x)
  <2>1. IsSeq(ops)
    BY DEF Orderly
  <2>2. DOMAIN todo' = DOMAIN todo
    BY <1>1, <2>1, ProceedFacts
  <2>3. \A x \in DOMAIN todo : x # e => todo'[x] = todo[x]
    BY <1>1, <2>1, ProceedFacts
  <2>4. e \in DOMAIN todo => \E n \in Nat : Behind(n, ops, todo'[e])
    BY <1>1, <2>1, ProceedFacts
  <2>5. DOMAIN stat' = DOMAIN stat
    BY <1>1, <2>1, ProceedFacts
  <2>6. \A x \in DOMAIN stat : stat'[x] = "freed" => stat[x] = "freed" \/ Destroys(ops, x)
    BY <1>1, <2>1, ProceedFacts
  <2> QED BY <2>2, <2>3, <2>4, <2>5, <2>6
<1>7. PICK n \in Nat : \A x \in DOMAIN todo : IF x = e
         THEN /\ \A i \in DOMAIN todo'[x] : n + i \in DOMAIN ops /\ todo'[x][i] = ops[n + i] /\ i \in Nat
              /\ \A i \in DOMAIN ops : i > n => i - n \in DOMAIN todo'[x]
         ELSE todo'[x] = todo[x]
  <2>1. CASE e \in DOMAIN todo
    <3>1. PICK n \in Nat : Behind(n, ops, todo'[e])
      BY <1>6, <2>1
    <3> QED BY <1>6, <3>1, ZenonT(60) DEF Behind
  <2>2. CASE e \notin DOMAIN todo
    BY <1>6, <2>2
  <2> QED BY <2>1, <2>2
<1>8. /\ Stream' = Stream
      /\ \A x \in Stream : \A i \in DOMAIN chan'[x] : \E j \in DOMAIN chan[x] :
           chan'[x][i] = chan[x][j] /\ (j = Len(chan[x]) => i = Len(chan'[x]))
      /\ \A x \in Stream : chan[x] = << >> => chan'[x] = << >>
      /\ \A x \in Stream : x \in F /\ x \notin Loop => chan'[x] = << >> /\ Ended(x)
  <2>1. CASE UNCHANGED chan /\ F \subseteq Loop
    BY <2>1 DEF Stream
  <2>2. CASE /\ s \in Stream /\ chan[s] # << >> /\ chan' = [chan EXCEPT ![s] = Tail(@)]
             /\ F \subseteq Loop \cup {s} /\ (s \in F => s \in Loop \/ IsLast(Top(s)))
    <3>1. /\ Stream' = Stream /\ 1 \in DOMAIN chan[s] /\ Top(s) = chan[s][1]
          /\ Len(chan[s]) = 1 => chan'[s] = << >>
          /\ \A x \in Stream : x # s => chan'[x] = chan[x]
          /\ \A x \in Stream : \A i \in DOMAIN chan'[x] : \E j \in DOMAIN chan[x] :
               chan'[x][i] = chan[x][j] /\ (j = Len(chan[x]) => i = Len(chan'[x]))
      BY <1>1, <2>2, PopFacts
    <3>2. ASSUME NEW x \in Stream, x \in F, x \notin Loop PROVE chan'[x] = << >> /\ Ended(x)
      <4>1. x = s /\ IsLast(chan[s][1])
        BY <2>2, <3>1, <3>2
      <4>2. Len(chan[s]) = 1
        BY <1>1, <2>2, <3>1, <3>2, <4>1, ChanFacts
      <4> QED BY <3>1, <4>1, <4>2 DEF Ended
    <3> QED BY <2>2, <3>1, <3>2
  <2> QED BY <2>1, <2>2
<1>9. \A x : Open(x)' => Open(x)
  BY <1>3 DEF Open
<1>10. \A x \in C : Open(x) /\ ~Open(x)'
  BY <1>2, <1>3 DEF Open
<1>11. ASSUME NEW x \in K \cup C PROVE x \in Stream \ Loop /\ OpenAt(e, x) /\ (x \notin C => OpenAt(e, x)')
  <2>1. CASE x \in K
    <3>1. PICK a \in TaskOuts \ D : a[2] = e /\ a[4] = x
      BY <2>1
    <3>2. a \in Outs /\ a \in TaskOuts'
      BY <3>1 DEF Outs
    <3> QED BY <1>2, <3>1, <3>2 DEF OpenAt
  <2>2. CASE x \in C
    <3>1. PICK a \in D : a[2] = e /\ a[4] = x
      BY <2>2
    <3> QED BY <1>2, <1>3, <2>2, <3>1 DEF OpenAt
  <2> QED BY <2>1, <2>2
<1>12. ASSUME NEW x, Ended(x)', x \in Stream PROVE Ended(x)
  BY <1>8, <1>12 DEF Ended
<1>13. ASSUME NEW d \in DOMAIN todo, NEW j \in DOMAIN todo'[d], IsEnding(todo'[d][j])
       PROVE  \/ d # e /\ todo'[d] = todo[d]
              \/ d = e /\ n + j \in DOMAIN ops /\ todo'[d][j] = ops[n + j] /\ todo'[d][j].s \in C
  <2>1. CASE d # e
    BY <1>7, <2>1
  <2>2. CASE d = e
    <3>1. n + j \in DOMAIN ops /\ todo'[d][j] = ops[n + j]
      BY <1>7, <2>2
    <3> QED BY <1>13, <2>2, <3>1 DEF Orderly
  <2> QED BY <2>1, <2>2
<1>14. ASSUME NEW x, Ending(x)' PROVE Ending(x) \/ x \in C
  <2>1. PICK d \in DOMAIN todo : \E j \in DOMAIN todo'[d] : IsEnding(todo'[d][j]) /\ todo'[d][j].s = x
    BY <1>6, <1>14 DEF Ending
  <2>2. PICK j \in DOMAIN todo'[d] : IsEnding(todo'[d][j]) /\ todo'[d][j].s = x
    BY <2>1
  <2> QED BY <1>13, <2>2 DEF Ending
<1>15. ASSUME NEW x \in Stream, Gone(x)' PROVE Gone(x) \/ x \in F
  <2>1. \A i \in DOMAIN ops : ops[i] = Free(x) => x \in F
    BY OpUses DEF Orderly
  <2>2. CASE x \in DOMAIN stat' /\ stat'[x] = "freed"
    BY <1>6, <2>1, <2>2 DEF Gone, Destroys
  <2>3. CASE \E d \in DOMAIN todo : \E j \in DOMAIN todo'[d] : todo'[d][j] = Free(x)
    <3>1. PICK d \in DOMAIN todo : \E j \in DOMAIN todo'[d] : todo'[d][j] = Free(x)
      BY <2>3
    <3>2. PICK j \in DOMAIN todo'[d] : todo'[d][j] = Free(x)
      BY <3>1
    <3>3. CASE d # e
      BY <1>7, <3>2, <3>3 DEF Gone
    <3>4. CASE d = e
      BY <1>7, <2>1, <3>2, <3>4
    <3> QED BY <3>3, <3>4
  <2> QED BY <1>6, <1>15, <2>2, <2>3 DEF Gone
<1>16. Chans'
  <2> SUFFICES ASSUME NEW x \in Stream, x \notin Loop
               PROVE  /\ Ended(x)' => ~Open(x)' /\ ~Ending(x)'
                      /\ \A i \in DOMAIN chan'[x] : IsLast(chan'[x][i]) => i = Len(chan'[x])
                      /\ Gone(x)' => chan'[x] = << >> /\ ~Open(x)' /\ ~Ending(x)'
    BY <1>4, <1>8 DEF Chans
  <2>1. /\ Ended(x) => ~Open(x) /\ ~Ending(x)
        /\ \A i \in DOMAIN chan[x] : IsLast(chan[x][i]) => i = Len(chan[x])
        /\ Gone(x) => chan[x] = << >> /\ ~Open(x) /\ ~Ending(x)
    BY <1>1, ChanFacts
  <2>2. Ended(x) => ~Open(x)' /\ ~Ending(x)'
    BY <1>9, <1>10, <1>14, <2>1
  <2>3. \A i \in DOMAIN chan'[x] : IsLast(chan'[x][i]) => i = Len(chan'[x])
    BY <1>8, <2>1
  <2>4. Gone(x) => chan'[x] = << >> /\ ~Open(x)' /\ ~Ending(x)'
    BY <1>8, <1>9, <1>10, <1>14, <2>1
  <2>5. x \in F => chan'[x] = << >> /\ Ended(x)
    BY <1>8
  <2> QED BY <1>12, <1>15, <2>2, <2>3, <2>4, <2>5
<1>17. Pending'
  <2> SUFFICES ASSUME NEW d \in DOMAIN todo, NEW i \in DOMAIN todo'[d], NEW x, x = todo'[d][i].s
               PROVE  /\ Uses(todo'[d][i]) =>
                           /\ x \in Stream \ Loop
                           /\ OpenAt(d, x)' \/ \E j \in DOMAIN todo'[d] : j >= i /\ IsEnding(todo'[d][j]) /\ todo'[d][j].s = x
                      /\ IsEnding(todo'[d][i]) =>
                           /\ ~Open(x)'
                           /\ \A c \in DOMAIN todo : \A j \in DOMAIN todo'[c] :
                                IsEnding(todo'[c][j]) /\ todo'[c][j].s = x => c = d /\ j = i
                      /\ IsEnding(todo'[d][i]) /\ todo'[d][i].rec.t = "sync" => x \notin Back
    BY <1>4, <1>6, <1>8 DEF Pending
  <2>1. CASE d # e
    <3>1. todo'[d] = todo[d]
      BY <1>7, <2>1
    <3>2. /\ Uses(todo[d][i]) =>
              /\ x \in Stream \ Loop
              /\ OpenAt(d, x) \/ \E j \in DOMAIN todo[d] : j >= i /\ IsEnding(todo[d][j]) /\ todo[d][j].s = x
          /\ IsEnding(todo[d][i]) =>
               /\ ~Open(x)
               /\ \A c \in DOMAIN todo : \A j \in DOMAIN todo[c] :
                    IsEnding(todo[c][j]) /\ todo[c][j].s = x => c = d /\ j = i
          /\ IsEnding(todo[d][i]) /\ todo[d][i].rec.t = "sync" => x \notin Back
      BY <1>1, <3>1, PendingFacts
    <3>3. OpenAt(d, x) => OpenAt(d, x)'
      BY <2>1 DEF OpenAt
    <3>4. ASSUME IsEnding(todo[d][i]), NEW c \in DOMAIN todo, NEW j \in DOMAIN todo'[c], IsEnding(todo'[c][j]), todo'[c][j].s = x
          PROVE  c = d /\ j = i
      <4>1. CASE todo'[c] = todo[c]
        BY <3>2, <3>4, <4>1
      <4>2. CASE todo'[c][j].s \in C
        BY <1>10, <3>2, <3>4, <4>2
      <4> QED BY <1>13, <3>4, <4>1, <4>2
    <3>5. ~Open(x) => ~Open(x)'
      BY <1>9
    <3>6. Uses(todo[d][i]) => \/ OpenAt(d, x)'
                              \/ \E j \in DOMAIN todo[d] : j >= i /\ IsEnding(todo[d][j]) /\ todo[d][j].s = x
      BY <3>2, <3>3
    <3> QED BY <3>1, <3>2, <3>4, <3>5, <3>6
  <2>2. CASE d = e
    <3>1. n + i \in DOMAIN ops /\ todo'[d][i] = ops[n + i] /\ i \in Nat
      BY <1>7, <2>2
    <3>2. ASSUME Uses(ops[n + i])
          PROVE  /\ x \in Stream \ Loop
                 /\ OpenAt(d, x)' \/ \E j \in DOMAIN todo'[d] : j >= i /\ IsEnding(todo'[d][j]) /\ todo'[d][j].s = x
      <4>1. x \in K \cup C
        BY <3>1, <3>2 DEF Orderly
      <4>2. CASE x \in C
        <5>1. PICK k \in DOMAIN ops : k >= n + i /\ IsEnding(ops[k]) /\ ops[k].s = x
          BY <3>1, <3>2, <4>2 DEF Orderly
        <5>2. DOMAIN ops \subseteq Nat
          BY SeqFacts DEF Orderly
        <5>3. \E j \in Nat : j >= i /\ k = n + j
          <6>1. k - n \in Nat /\ k - n >= i /\ k = n + (k - n)
            BY <3>1, <5>1, <5>2
          <6> QED BY <6>1
        <5>4. PICK j \in Nat : j >= i /\ k = n + j
          BY <5>3
        <5>5. j \in DOMAIN todo'[d]
          <6>1. i # 0
            <7>1. IsSeq(todo'[d])
              BY <1>6 DEF IInv, Shape, NetShape
            <7> QED BY <7>1, SeqFacts
          <6>2. k > n /\ k - n = j
            BY <3>1, <5>4, <6>1
          <6> QED BY <1>7, <2>2, <6>2
        <5>6. todo'[d][j] = ops[k]
          BY <1>7, <2>2, <5>4, <5>5
        <5> QED BY <1>11, <4>2, <5>1, <5>4, <5>5, <5>6
      <4>3. CASE x \notin C
        BY <1>11, <2>2, <4>1, <4>3
      <4> QED BY <4>2, <4>3
    <3>3. ASSUME IsEnding(ops[n + i])
          PROVE  /\ ~Open(x)' /\ x \in C
                 /\ \A j \in DOMAIN ops : IsEnding(ops[j]) /\ ops[j].s = x => j = n + i
      BY <1>10, <3>1, <3>3 DEF Orderly
    <3>4. ASSUME IsEnding(ops[n + i]), NEW c \in DOMAIN todo, NEW j \in DOMAIN todo'[c], IsEnding(todo'[c][j]), todo'[c][j].s = x
          PROVE  c = d /\ j = i
      <4>1. CASE c # e /\ todo'[c] = todo[c]
        <5>1. ~Open(x)
          BY <1>1, <3>4, <4>1, PendingFacts
        <5> QED BY <1>10, <3>3, <3>4, <5>1
      <4>2. CASE c = e /\ n + j \in DOMAIN ops /\ todo'[c][j] = ops[n + j]
        <5>1. n + j = n + i /\ j \in Nat
          BY <1>7, <3>3, <3>4, <4>2
        <5> QED BY <2>2, <3>1, <4>2, <5>1
      <4> QED BY <1>13, <3>4, <4>1, <4>2
    <3> QED BY <3>1, <3>2, <3>3, <3>4
  <2> QED BY <2>1, <2>2
<1>18. Wired'
  BY <1>1, <1>3, <1>8 DEF Wired
<1>19. LoopChans'
  BY <1>1, <1>2, <1>4, <1>8 DEF LoopChans
<1> QED BY <1>16, <1>17, <1>18, <1>19 DEF WInv

(* The usual steps: an entity keeps its writing ends ...                   *)
LEMMA StepKeeps ==
  ASSUME Framed, NEW e, todo[e] = << >>, TaskOuts' = TaskOuts, NEW s, NEW F, Taking(s, F),
         NEW ops, Orderly(ops, OutsOf(e, TaskOuts), {}, F), Proceed(e, ops, stat)
  PROVE  WInv'
<1>1. Closing(e, {}) /\ TaskOuts \ {} = TaskOuts
  BY DEF Closing
<1>2. NotBack(ops)
  BY DEF Orderly, NotBack
<1>3. {} \subseteq OutsOf(e, {})
  OBVIOUS
<1> QED BY <1>1, <1>2, <1>3, HandlerStep

(* Writing ends by kind.                                                   *)
LEMMA OutFacts == \A k, e, p, s : OutEnd(k, e, p, s)[1] = k /\ OutEnd(k, e, p, s)[2] = e /\ OutEnd(k, e, p, s)[4] = s
BY DEF OutEnd

(* The ends of a kind of entity bear the name of that kind.                *)
LEMMA OutKinds ==
  /\ \A k, v, o : \A a \in OneOuts(k, v, o) : a[1] = k
  /\ \A k, v, h, o : \A a \in FbOuts(k, v, h, o) : a[1] = k
  /\ \A a \in BranchOuts : a[1] = "par"
  /\ \A a \in ReplicaOuts : a[1] = "replica"
<1>1. \A k, v, o : \A a \in OneOuts(k, v, o) : a[1] = k
  BY DEF OneOuts, OutEnd
<1>2. \A k, v, h, o : \A a \in FbOuts(k, v, h, o) : a[1] = k
  BY DEF FbOuts, OutEnd
<1>3. (\A a \in BranchOuts : a[1] = "par") /\ (\A a \in ReplicaOuts : a[1] = "replica")
  BY DEF BranchOuts, ReplicaOuts, OutEnd
<1> QED BY <1>1, <1>2, <1>3

(* They change with the variables they are made of.                        *)
LEMMA OutsSame ==
  /\ UNCHANGED box => OneOuts("box", box, BoxOut)' = OneOuts("box", box, BoxOut)
  /\ UNCHANGED filter => OneOuts("filter", filter, FilterOut)' = OneOuts("filter", filter, FilterOut)
  /\ UNCHANGED sync => OneOuts("sync", sync, SyncOut)' = OneOuts("sync", sync, SyncOut)
  /\ UNCHANGED coll => OneOuts("coll", coll, CollOut)' = OneOuts("coll", coll, CollOut)
  /\ UNCHANGED split => /\ OneOuts("split", split, SplitInitial)' = OneOuts("split", split, SplitInitial)
                        /\ ReplicaOuts' = ReplicaOuts
  /\ UNCHANGED star => /\ OneOuts("star", star, StarOut)' = OneOuts("star", star, StarOut)
                       /\ OneOuts("next", star, StarNext)' = OneOuts("next", star, StarNext)
  /\ UNCHANGED fbcoll => FbOuts("fbcoll", fbcoll, FbColl, IntoOp)' = FbOuts("fbcoll", fbcoll, FbColl, IntoOp)
  /\ UNCHANGED fbdisp => /\ FbOuts("fbdisp", fbdisp, FbDisp, FbOut)' = FbOuts("fbdisp", fbdisp, FbDisp, FbOut)
                         /\ FbOuts("fbback", fbdisp, FbDisp, BackIn)' = FbOuts("fbback", fbdisp, FbDisp, BackIn)
  /\ UNCHANGED par => BranchOuts' = BranchOuts
<1>1. /\ UNCHANGED box => OneOuts("box", box, BoxOut)' = OneOuts("box", box, BoxOut)
      /\ UNCHANGED filter => OneOuts("filter", filter, FilterOut)' = OneOuts("filter", filter, FilterOut)
      /\ UNCHANGED sync => OneOuts("sync", sync, SyncOut)' = OneOuts("sync", sync, SyncOut)
      /\ UNCHANGED coll => OneOuts("coll", coll, CollOut)' = OneOuts("coll", coll, CollOut)
      /\ UNCHANGED split => OneOuts("split", split, SplitInitial)' = OneOuts("split", split, SplitInitial)
      /\ UNCHANGED star => /\ OneOuts("star", star, StarOut)' = OneOuts("star", star, StarOut)
                           /\ OneOuts("next", star, StarNext)' = OneOuts("next", star, StarNext)
  BY DEF OneOuts
<1>2. /\ UNCHANGED fbcoll => FbOuts("fbcoll", fbcoll, FbColl, IntoOp)' = FbOuts("fbcoll", fbcoll, FbColl, IntoOp)
      /\ UNCHANGED fbdisp => /\ FbOuts("fbdisp", fbdisp, FbDisp, FbOut)' = FbOuts("fbdisp", fbdisp, FbDisp, FbOut)
                             /\ FbOuts("fbback", fbdisp, FbDisp, BackIn)' = FbOuts("fbback", fbdisp, FbDisp, BackIn)
  BY DEF FbOuts
<1>3. (UNCHANGED split => ReplicaOuts' = ReplicaOuts) /\ (UNCHANGED par => BranchOuts' = BranchOuts)
  BY DEF ReplicaOuts, BranchOuts
<1> QED BY <1>1, <1>2, <1>3

(* One writer of a kind changes its state.                                 *)
LEMMA OneStep ==
  ASSUME NEW k, NEW v, NEW w, NEW o, NEW e \in DOMAIN v, ~v[e].done, Edited(v, w, e)
  PROVE  /\ OutEnd(k, e, "out", o[e]) \in OneOuts(k, v, o)
         /\ ~w[e].done => OneOuts(k, w, o) = OneOuts(k, v, o)
         /\ w[e].done => OneOuts(k, w, o) = OneOuts(k, v, o) \ {OutEnd(k, e, "out", o[e])}
<1>1. OutEnd(k, e, "out", o[e]) \in OneOuts(k, v, o)
  BY DEF OneOuts
<1>2. \A a : a \in OneOuts(k, v, o) <=> \E x \in DOMAIN v : ~v[x].done /\ a = OutEnd(k, x, "out", o[x])
  BY DEF OneOuts
<1>3. \A a : a \in OneOuts(k, w, o) <=> \E x \in DOMAIN v : ~w[x].done /\ a = OutEnd(k, x, "out", o[x])
  BY DEF OneOuts, Edited
<1>4. \A x \in DOMAIN v : x # e => w[x] = v[x] /\ OutEnd(k, x, "out", o[x]) # OutEnd(k, e, "out", o[e])
  BY OutFacts DEF Edited
<1>5. ASSUME ~w[e].done PROVE OneOuts(k, w, o) = OneOuts(k, v, o)
  <2>1. \A x \in DOMAIN v : w[x].done <=> v[x].done
    BY <1>4, <1>5
  <2> QED BY <1>2, <1>3, <2>1
<1>6. ASSUME w[e].done PROVE OneOuts(k, w, o) = OneOuts(k, v, o) \ {OutEnd(k, e, "out", o[e])}
  <2>1. \A x \in DOMAIN v : ~w[x].done <=> x # e /\ ~v[x].done
    BY <1>4, <1>6
  <2> QED BY <1>2, <1>3, <1>4, <2>1
<1> QED BY <1>1, <1>5, <1>6

(* The writing end of a box.                                               *)
LEMMA BoxCloses ==
  ASSUME UNCHANGED <<coll, par, sync, split, star, filter, fbVars>>, NEW e \in DOMAIN box, ~box[e].done, Edited(box, box', e),
         NEW a, a = OutEnd("box", e, "out", BoxOut[e])
  PROVE  /\ a \in TaskOuts /\ a[1] = "box" /\ a[2] = e /\ a[4] = BoxOut[e]
         /\ ~box'[e].done => TaskOuts' = TaskOuts
         /\ box'[e].done => Closing(e, {a})
<1> DEFINE S == OneOuts("box", box, BoxOut)
<1>1. S' = OneOuts("box", box', BoxOut)
  BY DEF OneOuts
<1>2. /\ a \in S /\ (~box'[e].done => S' = S) /\ (box'[e].done => S' = S \ {a})
  BY <1>1, OneStep
<1>3. a[1] = "box" /\ a[2] = e /\ a[4] = BoxOut[e] /\ a \in TaskOuts
  BY <1>2, OutFacts DEF TaskOuts
<1>4. ~box'[e].done => TaskOuts' = TaskOuts
  BY <1>2, OutsSame DEF TaskOuts, fbVars
<1>5. box'[e].done => TaskOuts' = TaskOuts \ {a}
  BY <1>2, <1>3, OutsSame, OutKinds DEF TaskOuts, fbVars
<1> QED BY <1>3, <1>4, <1>5 DEF Closing

(* The writing end of a filter.                                            *)
LEMMA FilterCloses ==
  ASSUME UNCHANGED <<box, coll, par, sync, split, star, fbVars>>, NEW e \in DOMAIN filter, ~filter[e].done, Edited(filter, filter', e),
         NEW a, a = OutEnd("filter", e, "out", FilterOut[e])
  PROVE  /\ a \in TaskOuts /\ a[1] = "filter" /\ a[2] = e /\ a[4] = FilterOut[e]
         /\ ~filter'[e].done => TaskOuts' = TaskOuts
         /\ filter'[e].done => Closing(e, {a})
<1> DEFINE S == OneOuts("filter", filter, FilterOut)
<1>1. S' = OneOuts("filter", filter', FilterOut)
  BY DEF OneOuts
<1>2. /\ a \in S /\ (~filter'[e].done => S' = S) /\ (filter'[e].done => S' = S \ {a})
  BY <1>1, OneStep
<1>3. a[1] = "filter" /\ a[2] = e /\ a[4] = FilterOut[e] /\ a \in TaskOuts
  BY <1>2, OutFacts DEF TaskOuts
<1>4. ~filter'[e].done => TaskOuts' = TaskOuts
  BY <1>2, OutsSame DEF TaskOuts, fbVars
<1>5. filter'[e].done => TaskOuts' = TaskOuts \ {a}
  BY <1>2, <1>3, OutsSame, OutKinds DEF TaskOuts, fbVars
<1> QED BY <1>3, <1>4, <1>5 DEF Closing

(* The writing end of a synchrocell.                                       *)
LEMMA SyncCloses ==
  ASSUME UNCHANGED <<box, coll, par, split, star, filter, fbVars>>, NEW e \in DOMAIN sync, ~sync[e].done, Edited(sync, sync', e),
         NEW a, a = OutEnd("sync", e, "out", SyncOut[e])
  PROVE  /\ a \in TaskOuts /\ a[1] = "sync" /\ a[2] = e /\ a[4] = SyncOut[e]
         /\ ~sync'[e].done => TaskOuts' = TaskOuts
         /\ sync'[e].done => Closing(e, {a})
<1> DEFINE S == OneOuts("sync", sync, SyncOut)
<1>1. S' = OneOuts("sync", sync', SyncOut)
  BY DEF OneOuts
<1>2. /\ a \in S /\ (~sync'[e].done => S' = S) /\ (sync'[e].done => S' = S \ {a})
  BY <1>1, OneStep
<1>3. a[1] = "sync" /\ a[2] = e /\ a[4] = SyncOut[e] /\ a \in TaskOuts
  BY <1>2, OutFacts DEF TaskOuts
<1>4. ~sync'[e].done => TaskOuts' = TaskOuts
  BY <1>2, OutsSame DEF TaskOuts, fbVars
<1>5. sync'[e].done => TaskOuts' = TaskOuts \ {a}
  BY <1>2, <1>3, OutsSame, OutKinds DEF TaskOuts, fbVars
<1> QED BY <1>3, <1>4, <1>5 DEF Closing

(* The writing end of a collector.                                         *)
LEMMA CollCloses ==
  ASSUME UNCHANGED <<box, par, sync, split, star, filter, fbVars>>, NEW e \in DOMAIN coll, ~coll[e].done, Edited(coll, coll', e),
         NEW a, a = OutEnd("coll", e, "out", CollOut[e])
  PROVE  /\ a \in TaskOuts /\ a[1] = "coll" /\ a[2] = e /\ a[4] = CollOut[e]
         /\ ~coll'[e].done => TaskOuts' = TaskOuts
         /\ coll'[e].done => Closing(e, {a})
<1> DEFINE S == OneOuts("coll", coll, CollOut)
<1>1. S' = OneOuts("coll", coll', CollOut)
  BY DEF OneOuts
<1>2. /\ a \in S /\ (~coll'[e].done => S' = S) /\ (coll'[e].done => S' = S \ {a})
  BY <1>1, OneStep
<1>3. a[1] = "coll" /\ a[2] = e /\ a[4] = CollOut[e] /\ a \in TaskOuts
  BY <1>2, OutFacts DEF TaskOuts
<1>4. ~coll'[e].done => TaskOuts' = TaskOuts
  BY <1>2, OutsSame DEF TaskOuts, fbVars
<1>5. coll'[e].done => TaskOuts' = TaskOuts \ {a}
  BY <1>2, <1>3, OutsSame, OutKinds DEF TaskOuts, fbVars
<1> QED BY <1>3, <1>4, <1>5 DEF Closing

(* What is not touched keeps its part of the invariant.                    *)
LEMMA FrameSame ==
  ASSUME IInv, IInv', WInv, UNCHANGED <<src, fbVars, split, par>>
  PROVE  Framed
<1>1. LoopState' /\ Locals'
  BY DEF WInv, LoopState, Loop, Locals, fbVars
<1> QED BY <1>1 DEF Framed, fbVars

(* The last things an entity does with a stream in and one out.            *)
LEMMA QuitOrder ==
  ASSUME NEW o, NEW s, NEW K
  PROVE  Orderly(<<Write(o, Term), Free(s)>>, K, {o}, {s})
<1>1. Orderly(<<Write(o, Term)>>, K, {o}, {}) /\ Orderly(<<Free(s)>>, K, {}, {s})
  BY OrderOne, OpUses
<1>2. Orderly(<<Write(o, Term)>>, {} \cup {}, {o}, {}) /\ Orderly(<<Free(s)>>, {}, {}, {s})
  BY OrderOne, OpUses
<1>3. Orderly(<<Write(o, Term)>> \o <<Free(s)>>, {}, {o} \cup {}, {} \cup {s})
  BY <1>2, OrderConcat
<1>4. {o} \cup {} = {o} /\ {} \cup {s} = {s} /\ {} \subseteq K
  OBVIOUS
<1>5. Orderly(<<Write(o, Term), Free(s)>>, {}, {o}, {s})
  BY <1>3, <1>4, ListConcat
<1> QED BY <1>4, <1>5, OrderMore

(* What an entity with one writing end a does with a record of stream s.   *)
LEMMA OneTask ==
  ASSUME Framed, NEW e, todo[e] = << >>, NEW s \in Stream, chan[s] # << >>, NEW a \in TaskOuts, a[2] = e, NEW o, a[4] = o
  PROVE  /\ \A ops : TaskOuts' = TaskOuts /\ Orderly(ops, {o}, {}, {}) /\ Take(e, s, ops) => WInv'
         /\ TaskOuts' = TaskOuts /\ IsLast(Top(s)) /\ Take(e, s, <<Free(s)>>) => WInv'
         /\ Closing(e, {a}) /\ IsLast(Top(s)) /\ Take(e, s, <<Write(o, Term), Free(s)>>) => WInv'
<1>1. {o} \subseteq OutsOf(e, TaskOuts) /\ {o} \subseteq OutsOf(e, {a})
  BY DEF OutsOf
<1>2. ASSUME NEW ops, TaskOuts' = TaskOuts, Orderly(ops, {o}, {}, {}), Take(e, s, ops) PROVE WInv'
  <2>1. Orderly(ops, OutsOf(e, TaskOuts), {}, {})
    BY <1>1, <1>2, OrderMore
  <2>2. Taking(s, {}) /\ Proceed(e, ops, stat)
    BY <1>2 DEF Take, Taking, Popped
  <2> QED BY <1>2, <2>1, <2>2, StepKeeps
<1>3. ASSUME TaskOuts' = TaskOuts, IsLast(Top(s)), Take(e, s, <<Free(s)>>) PROVE WInv'
  <2>1. Orderly(<<Free(s)>>, OutsOf(e, TaskOuts), {}, {s})
    BY OrderOne, OpUses
  <2>2. Taking(s, {s}) /\ Proceed(e, <<Free(s)>>, stat)
    BY <1>3 DEF Take, Taking, Popped
  <2> QED BY <1>3, <2>1, <2>2, StepKeeps
<1>4. ASSUME Closing(e, {a}), IsLast(Top(s)), Take(e, s, <<Write(o, Term), Free(s)>>) PROVE WInv'
  <2> DEFINE ops == <<Write(o, Term), Free(s)>>
  <2>1. Orderly(ops, OutsOf(e, TaskOuts \ {a}), {o}, {s})
    BY QuitOrder
  <2>2. Taking(s, {s}) /\ Proceed(e, ops, stat)
    BY <1>4 DEF Take, Taking, Popped
  <2>3. NotBack(ops)
    <3>1. DOMAIN ops = {1, 2} /\ ops[1] = Write(o, Term) /\ ops[2] = Free(s)
      OBVIOUS
    <3> HIDE DEF ops
    <3> QED BY <3>1, OpUses DEF NotBack
  <2> HIDE DEF ops
  <2> QED BY <1>1, <1>4, <2>1, <2>2, <2>3, HandlerStep
<1> QED BY <1>2, <1>3, <1>4

(* Every step of a box.                                                    *)
LEMMA BoxWrites ==
  ASSUME IInv, IInv', WInv, NEW b \in DOMAIN box, BoxStep(b)
  PROVE  WInv'
<1> DEFINE s == box[b].in
           o == BoxOut[b]
           a == OutEnd("box", b, "out", o)
<1>1. IsFun(box) /\ IsRec(box[b], {"in", "done"}) /\ UNCHANGED <<coll, par, sync, split, star, filter, fbVars, src, sink>>
  BY DEF IInv, Shape, BoxShape, BoxStep
<1>2. Framed
  BY <1>1, FrameSame
<1>3. ASSUME ~box[b].done PROVE s \in Stream
  BY <1>3, InOwn, InFacts, ReadsStream DEF Held, Reading, IInv
<1>4. ASSUME ~box[b].done, Edited(box, box', b)
      PROVE  /\ a \in TaskOuts /\ a[2] = b /\ a[4] = o
             /\ ~box'[b].done => TaskOuts' = TaskOuts
             /\ box'[b].done => Closing(b, {a})
  BY <1>1, <1>4, BoxCloses
<1>5. UNCHANGED box => Edited(box, box', b)
  BY <1>1 DEF Edited
<1> HIDE DEF a
<1>6. CASE BoxData(b)
  <2> DEFINE r == Top(s)
             res == IF r.t = "data" THEN Data(r.id, BoxFun(b, r.ty)) ELSE Data(0, {})
             ops == [i \in 1 .. Emits(b, res.id) |-> Write(o, res)]
  <2>1. ~box[b].done /\ todo[b] = << >> /\ chan[s] # << >> /\ Emits(b, res.id) \in Nat /\ Take(b, s, ops) /\ UNCHANGED box
    BY <1>6 DEF BoxData, BoxReads, Reads
  <2>2. ~IsLast(res)
    BY OpUses
  <2>3. Orderly(ops, {o}, {}, {})
    <3> HIDE DEF res
    <3>1. IsSeq(ops)
      BY <2>1, ListSeq
    <3> QED BY <2>2, <3>1, OpUses DEF Orderly
  <2> HIDE DEF ops
  <2> QED BY <1>2, <1>3, <1>4, <1>5, <2>1, <2>3, OneTask
<1>7. CASE BoxSync(b)
  <2>1. ~box[b].done /\ todo[b] = << >> /\ chan[s] # << >> /\ IsLast(Top(s)) /\ Take(b, s, <<Free(s)>>) /\ box' = [box EXCEPT ![b].in = Top(s).s]
    BY <1>7 DEF BoxSync, BoxReads, Reads, IsLast
  <2>2. Edited(box, box', b) /\ ~box'[b].done
    BY <1>1, <2>1 DEF Edited, IsRec, IsFun
  <2> QED BY <1>2, <1>3, <1>4, <2>1, <2>2, OneTask
<1>8. CASE BoxSort(b)
  <2>1. ~box[b].done /\ todo[b] = << >> /\ chan[s] # << >> /\ ~IsLast(Top(s)) /\ Take(b, s, <<Write(o, Top(s))>>) /\ UNCHANGED box
    BY <1>8 DEF BoxSort, BoxReads, Reads, IsLast
  <2>2. Orderly(<<Write(o, Top(s))>>, {o}, {}, {})
    BY <2>1, OrderOne, OpUses
  <2> QED BY <1>2, <1>3, <1>4, <1>5, <2>1, <2>2, OneTask
<1>9. CASE BoxTerm(b)
  <2>1. ~box[b].done /\ todo[b] = << >> /\ chan[s] # << >> /\ IsLast(Top(s)) /\ Take(b, s, <<Write(o, Term), Free(s)>>) /\ box' = [box EXCEPT ![b].done = TRUE]
    BY <1>9 DEF BoxTerm, BoxReads, Reads, IsLast
  <2>2. Edited(box, box', b) /\ box'[b].done
    BY <1>1, <2>1 DEF Edited, IsRec, IsFun
  <2> QED BY <1>2, <1>3, <1>4, <2>1, <2>2, OneTask
<1> QED BY <1>6, <1>7, <1>8, <1>9 DEF BoxStep, BoxTask

(* Every step of a filter or nameshift.                                    *)
LEMMA FilterWrites ==
  ASSUME IInv, IInv', WInv, NEW f \in DOMAIN filter, FilterStep(f)
  PROVE  WInv'
<1> DEFINE s == filter[f].in
           o == FilterOut[f]
           a == OutEnd("filter", f, "out", o)
<1>1. /\ IsFun(filter) /\ IsRec(filter[f], {"in", "done"}) /\ f \in Filters
      /\ UNCHANGED <<box, coll, par, sync, split, star, fbVars, src, sink>>
  BY DEF IInv, Shape, FilterShape, FilterStep
<1>2. Framed
  BY <1>1, FrameSame
<1>3. ASSUME ~filter[f].done PROVE s \in Stream
  BY <1>3, InOwn, InFacts, ReadsStream DEF Held, Reading, IInv
<1>4. ASSUME ~filter[f].done, Edited(filter, filter', f)
      PROVE  /\ a \in TaskOuts /\ a[2] = f /\ a[4] = o
             /\ ~filter'[f].done => TaskOuts' = TaskOuts
             /\ filter'[f].done => Closing(f, {a})
  BY <1>1, <1>4, FilterCloses
<1>5. UNCHANGED filter => Edited(filter, filter', f)
  BY <1>1 DEF Edited
<1> HIDE DEF a
<1>6. CASE FilterData(f)
  <2>1. PICK i \in DOMAIN Guards[f] : Take(f, s, FilterOuts(f, i, Top(s)))
    BY <1>6 DEF FilterData
  <2> DEFINE ops == FilterOuts(f, i, Top(s))
  <2>2. ~filter[f].done /\ todo[f] = << >> /\ chan[s] # << >> /\ Take(f, s, ops) /\ UNCHANGED filter
    BY <1>6, <2>1 DEF FilterData, FilterReads, Reads
  <2>3. Orderly(ops, {o}, {}, {})
    <3> DEFINE n == Len(Instrs[f][i])
    <3>1. IsSeq(Instrs[f][i])
      BY <1>1, FilterAssumption DEF IsSeq
    <3>2. n \in Nat /\ DOMAIN Instrs[f][i] = 1..n
      BY <3>1, SeqFacts
    <3>3. ops = [k \in 1..n |-> Write(o, Data(Top(s).id, Instrs[f][i][k] \cup (Top(s).ty \ InVariant[f])))]
      BY <3>2 DEF FilterOuts
    <3>4. DOMAIN ops = 1..n /\ \A k \in DOMAIN ops : Uses(ops[k]) /\ ~IsEnding(ops[k]) /\ ops[k].s = o
      BY <3>3, OpUses
    <3>5. ops = [k \in 1..n |-> ops[k]]
      BY <3>3
    <3> HIDE DEF ops, n
    <3>6. IsSeq(ops)
      BY <3>2, <3>5, ListSeq
    <3> QED BY <3>4, <3>6 DEF Orderly
  <2> HIDE DEF ops
  <2> QED BY <1>2, <1>3, <1>4, <1>5, <2>2, <2>3, OneTask
<1>7. CASE NameshiftData(f)
  <2> DEFINE r == Data(Top(s).id, {IF l \in InVariant[f] THEN l ELSE Shift(l) : l \in Top(s).ty})
  <2>1. ~filter[f].done /\ todo[f] = << >> /\ chan[s] # << >> /\ Take(f, s, <<Write(o, r)>>) /\ UNCHANGED filter
    BY <1>7 DEF NameshiftData, FilterReads, Reads
  <2>2. Orderly(<<Write(o, r)>>, {o}, {}, {})
    BY OrderOne, OpUses
  <2> HIDE DEF r
  <2> QED BY <1>2, <1>3, <1>4, <1>5, <2>1, <2>2, OneTask
<1>8. CASE FilterSync(f)
  <2>1. ~filter[f].done /\ todo[f] = << >> /\ chan[s] # << >> /\ IsLast(Top(s)) /\ Take(f, s, <<Free(s)>>) /\ filter' = [filter EXCEPT ![f].in = Top(s).s]
    BY <1>8 DEF FilterSync, FilterReads, Reads, IsLast
  <2>2. Edited(filter, filter', f) /\ ~filter'[f].done
    BY <1>1, <2>1 DEF Edited, IsRec, IsFun
  <2> QED BY <1>2, <1>3, <1>4, <2>1, <2>2, OneTask
<1>9. CASE FilterSort(f)
  <2>1. ~filter[f].done /\ todo[f] = << >> /\ chan[s] # << >> /\ ~IsLast(Top(s)) /\ Take(f, s, <<Write(o, Top(s))>>) /\ UNCHANGED filter
    BY <1>9 DEF FilterSort, FilterReads, Reads, IsLast
  <2>2. Orderly(<<Write(o, Top(s))>>, {o}, {}, {})
    BY <2>1, OrderOne, OpUses
  <2> QED BY <1>2, <1>3, <1>4, <1>5, <2>1, <2>2, OneTask
<1>10. CASE FilterTerm(f)
  <2>1. ~filter[f].done /\ todo[f] = << >> /\ chan[s] # << >> /\ IsLast(Top(s)) /\ Take(f, s, <<Write(o, Term), Free(s)>>) /\ filter' = [filter EXCEPT ![f].done = TRUE]
    BY <1>10 DEF FilterTerm, FilterReads, Reads, IsLast
  <2>2. Edited(filter, filter', f) /\ filter'[f].done
    BY <1>1, <2>1 DEF Edited, IsRec, IsFun
  <2> QED BY <1>2, <1>3, <1>4, <2>1, <2>2, OneTask
<1> QED BY <1>6, <1>7, <1>8, <1>9, <1>10 DEF FilterStep, FilterTask

(* An entity closes its only writing end with a last record for it, and    *)
(* has not destroyed the stream it read from unless that came to its end.  *)
LEMMA OneQuits ==
  ASSUME Framed, NEW e, todo[e] = << >>, NEW s, NEW F, Taking(s, F), NEW a \in TaskOuts, a[1] # "fbback", Closing(e, {a}),
         NEW ops, NEW o, a[4] = o, Orderly(ops, {}, {o}, F), Proceed(e, ops, stat)
  PROVE  WInv'
<1>1. a[2] = e
  BY DEF Closing
<1>2. {o} \subseteq OutsOf(e, {a})
  BY <1>1 DEF OutsOf
<1>3. Orderly(ops, OutsOf(e, TaskOuts \ {a}), {o}, F)
  <2>1. {} \subseteq OutsOf(e, TaskOuts \ {a})
    OBVIOUS
  <2> QED BY <2>1, OrderMore
<1>4. o \notin Back
  BY WiringFacts DEF Framed, WInv, Outs
<1>5. NotBack(ops)
  BY <1>4 DEF NotBack, Orderly
<1> QED BY <1>2, <1>3, <1>5, HandlerStep

(* A record and then the last one to the same stream.                      *)
LEMMA LastOrder ==
  ASSUME NEW o, NEW r, ~IsLast(r), NEW q, IsLast(q), NEW K
  PROVE  Orderly(<<Write(o, r), Write(o, q)>>, K, {o}, {})
<1>1. Orderly(<<Write(o, r)>>, {} \cup {o}, {}, {}) /\ Orderly(<<Write(o, q)>>, {}, {o}, {})
  BY OrderOne, OpUses
<1>2. Orderly(<<Write(o, r)>> \o <<Write(o, q)>>, {}, {} \cup {o}, {} \cup {})
  BY <1>1, OrderConcat
<1>3. {} \cup {o} = {o} /\ {} \cup {} = {} /\ {} \subseteq K
  OBVIOUS
<1>4. Orderly(<<Write(o, r), Write(o, q)>>, {}, {o}, {})
  BY <1>2, <1>3, ListConcat
<1> QED BY <1>3, <1>4, OrderMore

(* Every step of a synchrocell.                                            *)
LEMMA SyncWrites ==
  ASSUME IInv, IInv', WInv, NEW x \in DOMAIN sync, SyncStep(x)
  PROVE  WInv'
<1> DEFINE s == sync[x].in
           o == SyncOut[x]
           a == OutEnd("sync", x, "out", o)
<1>1. /\ IsFun(sync) /\ IsRec(sync[x], {"in", "storage", "done"})
      /\ UNCHANGED <<box, coll, par, split, star, filter, fbVars, src, sink>>
  BY DEF IInv, Shape, SyncShape, SyncStep
<1>2. Framed
  BY <1>1, FrameSame
<1>3. ASSUME ~sync[x].done PROVE s \in Stream
  BY <1>3, InOwn, InFacts, ReadsStream DEF Held, Reading, IInv
<1>4. ASSUME ~sync[x].done, Edited(sync, sync', x)
      PROVE  /\ a \in TaskOuts /\ a[1] = "sync" /\ a[2] = x /\ a[4] = o
             /\ ~sync'[x].done => TaskOuts' = TaskOuts
             /\ sync'[x].done => Closing(x, {a})
  BY <1>1, <1>4, SyncCloses
<1>5. UNCHANGED sync => Edited(sync, sync', x)
  BY <1>1 DEF Edited
<1> HIDE DEF a
<1>6. CASE SyncPass(x)
  <2>1. ~sync[x].done /\ todo[x] = << >> /\ chan[s] # << >> /\ ~IsLast(Top(s)) /\ Take(x, s, <<Write(o, Top(s))>>) /\ UNCHANGED sync
    BY <1>6 DEF SyncPass, SyncReads, Reads, IsLast
  <2>2. Orderly(<<Write(o, Top(s))>>, {o}, {}, {})
    BY <2>1, OrderOne, OpUses
  <2> QED BY <1>2, <1>3, <1>4, <1>5, <2>1, <2>2, OneTask
<1>7. CASE SyncStore(x)
  <2>1. ~sync[x].done /\ todo[x] = << >> /\ chan[s] # << >> /\ Take(x, s, << >>) /\ sync' = [sync EXCEPT ![x].storage = Stored(x, Top(s).ty)]
    BY <1>7 DEF SyncStore, SyncReads, Reads
  <2>2. Edited(sync, sync', x) /\ ~sync'[x].done
    BY <1>1, <2>1 DEF Edited, IsRec, IsFun
  <2>3. Orderly(<< >>, {o}, {}, {})
    BY OrderOne
  <2> QED BY <1>2, <1>3, <1>4, <2>1, <2>2, <2>3, OneTask
<1>8. CASE SyncFire(x)
  <2> DEFINE r == Data(Top(s).id, Merged(x, Stored(x, Top(s).ty)))
             q == Sync(s, IF s \in HasSource THEN UNION {Patterns[x][i] : i \in PatternSet(x)} ELSE NULL)
  <2>1. /\ ~sync[x].done /\ todo[x] = << >> /\ chan[s] # << >> /\ Take(x, s, <<Write(o, r), Write(o, q)>>)
        /\ sync' = [sync EXCEPT ![x].storage = Stored(x, Top(s).ty), ![x].done = TRUE]
    BY <1>8 DEF SyncFire, SyncReads, Reads
  <2>2. ~IsLast(r) /\ IsLast(q)
    BY OpUses
  <2> HIDE DEF r, q
  <2> DEFINE ops == <<Write(o, r), Write(o, q)>>
  <2>3. Edited(sync, sync', x) /\ sync'[x].done
    BY <1>1, <2>1 DEF Edited, IsRec, IsFun
  <2>4. Orderly(ops, {}, {o}, {})
    BY <2>2, LastOrder
  <2>5. Taking(s, {}) /\ Proceed(x, ops, stat)
    BY <1>3, <2>1 DEF Take, Taking, Popped
  <2>6. a \in TaskOuts /\ a[1] # "fbback" /\ a[4] = o /\ Closing(x, {a})
    BY <1>4, <2>1, <2>3
  <2> HIDE DEF ops
  <2> QED BY <1>2, <2>1, <2>4, <2>5, <2>6, OneQuits
<1>9. CASE SyncReplace(x)
  <2>1. ~sync[x].done /\ todo[x] = << >> /\ chan[s] # << >> /\ IsLast(Top(s)) /\ Take(x, s, <<Free(s)>>) /\ sync' = [sync EXCEPT ![x].in = Top(s).s]
    BY <1>9 DEF SyncReplace, SyncReads, Reads, IsLast
  <2>2. Edited(sync, sync', x) /\ ~sync'[x].done
    BY <1>1, <2>1 DEF Edited, IsRec, IsFun
  <2> QED BY <1>2, <1>3, <1>4, <2>1, <2>2, OneTask
<1>10. CASE SyncSort(x)
  <2>1. ~sync[x].done /\ todo[x] = << >> /\ chan[s] # << >> /\ ~IsLast(Top(s)) /\ Take(x, s, <<Write(o, Top(s))>>) /\ UNCHANGED sync
    BY <1>10 DEF SyncSort, SyncReads, Reads, IsLast
  <2>2. Orderly(<<Write(o, Top(s))>>, {o}, {}, {})
    BY <2>1, OrderOne, OpUses
  <2> QED BY <1>2, <1>3, <1>4, <1>5, <2>1, <2>2, OneTask
<1>11. CASE SyncTerm(x)
  <2>1. ~sync[x].done /\ todo[x] = << >> /\ chan[s] # << >> /\ IsLast(Top(s)) /\ Take(x, s, <<Write(o, Term), Free(s)>>) /\ sync' = [sync EXCEPT ![x].done = TRUE]
    BY <1>11 DEF SyncTerm, SyncReads, Reads, IsLast
  <2>2. Edited(sync, sync', x) /\ sync'[x].done
    BY <1>1, <2>1 DEF Edited, IsRec, IsFun
  <2> QED BY <1>2, <1>3, <1>4, <2>1, <2>2, OneTask
<1> QED BY <1>6, <1>7, <1>8, <1>9, <1>10, <1>11 DEF SyncStep, SyncBoxTask

(* A step that touches neither streams nor what is to be done to them.     *)
LEMMA StayWrites ==
  ASSUME Framed, UNCHANGED netVars, TaskOuts' = TaskOuts
  PROVE  WInv'
<1>1. /\ IInv /\ IInv' /\ WInv /\ UNCHANGED src /\ DOMAIN fbbuf' = DOMAIN fbbuf /\ LoopState' /\ Locals'
      /\ UNCHANGED <<chan, stat, todo>>
  BY DEF Framed, netVars
<1>2. Wired /\ Pending /\ Chans /\ LoopChans
  BY <1>1 DEF WInv
<1>3. Outs' = Outs /\ Stream' = Stream /\ Loop' = Loop /\ Back' = Back
  BY <1>1 DEF Outs, SourceOuts, Stream, Loop, Back
<1>4. Wired' /\ LoopChans'
  BY <1>1, <1>2, <1>3 DEF Wired, LoopChans
<1>5. Pending'
  BY <1>1, <1>2, <1>3 DEF Pending, Open, OpenAt
<1>6. Chans'
  BY <1>1, <1>2, <1>3 DEF Chans, Open, Ending, Ended, Gone
<1> QED BY <1>1, <1>4, <1>5, <1>6 DEF WInv

(* The end of a turn of a collector: it goes on, or closes its outstream.  *)
LEMMA SettleOrder ==
  ASSUME NEW c, NEW st, IsColl(st), ~st.done, NEW end, end = Settle(c, st), NEW o, o = CollOut[c]
  PROVE  \/ ~end.st.done /\ Orderly(end.ops, {o}, {}, {})
         \/ end.st.done /\ Orderly(end.ops, {}, {o}, {})
<1>1. Orderly(Restored(c, st), {o}, {}, {}) /\ Orderly(<< >>, {o}, {}, {})
  <2> DEFINE r == Lower(Head(st.sort))
  <2>1. ~IsLast(r)
    BY OpUses
  <2> HIDE DEF r
  <2>2. Orderly(<<Write(o, r)>>, {o}, {}, {}) /\ Orderly(<< >>, {o}, {}, {})
    BY <2>1, OrderOne, OpUses, ZenonT(60)
  <2> QED BY <2>2 DEF Restored, r
<1>2. ASSUME NEW t, t = [st EXCEPT !.done = TRUE] PROVE t.done
  BY <1>2 DEF IsColl, IsRec, IsFun
<1>3. CASE st.ready # {}
  <2>1. end = [st |-> st, ops |-> << >>]
    BY <1>3 DEF Settle
  <2>2. end.st = st /\ end.ops = << >>
    BY <2>1
  <2> QED BY <1>1, <2>2
<1>4. CASE st.ready = {} /\ st.waiting # {} /\ IsStatic[c] /\ st.incount = 1
  <2> DEFINE in == CHOOSE d \in st.waiting : TRUE
             t  == [st EXCEPT !.done = TRUE]
             a  == IF in = st.last THEN Restored(c, st) ELSE << >>
             q  == Sync(st.at[in], NULL)
             b  == <<Write(o, q)>>
  <2>1. end = [st |-> t, ops |-> a \o b]
    BY <1>4 DEF Settle
  <2>2. end.st = t /\ end.ops = a \o b
    BY <2>1
  <2>3. IsLast(q)
    BY OpUses
  <2>4. Orderly(a, {} \cup {o}, {}, {})
    <3>1. {} \cup {o} = {o}
      OBVIOUS
    <3> HIDE DEF in
    <3> QED BY <1>1, <3>1
  <2>5. t.done
    BY <1>2
  <2> HIDE DEF in, a, t, q
  <2>6. Orderly(b, {}, {o}, {})
    BY <2>3, OrderOne, OpUses
  <2> HIDE DEF b
  <2>7. Orderly(a \o b, {}, {} \cup {o}, {} \cup {})
    BY <2>4, <2>6, OrderConcat
  <2>8. {} \cup {o} = {o} /\ {} \cup {} = {}
    OBVIOUS
  <2> QED BY <2>2, <2>5, <2>7, <2>8
<1>5. CASE st.ready = {} /\ st.waiting # {} /\ ~(IsStatic[c] /\ st.incount = 1)
  <2> DEFINE t == [st EXCEPT !.ready = st.waiting, !.waiting = {}, !.sort = << >>]
  <2>1. end = [st |-> t, ops |-> Restored(c, st)]
    BY <1>5 DEF Settle
  <2>2. end.st = t /\ end.ops = Restored(c, st)
    BY <2>1
  <2>3. ~t.done
    BY DEF IsColl, IsRec, IsFun
  <2> HIDE DEF t
  <2> QED BY <1>1, <2>2, <2>3
<1>6. CASE st.ready = {} /\ st.waiting = {}
  <2> DEFINE t == [st EXCEPT !.done = TRUE]
  <2>1. end = [st |-> t, ops |-> <<Write(o, Term)>>]
    BY <1>6 DEF Settle
  <2>2. end.st = t /\ end.ops = <<Write(o, Term)>>
    BY <2>1
  <2>3. t.done
    BY <1>2
  <2> HIDE DEF t
  <2>4. Orderly(<<Write(o, Term)>>, {}, {o}, {})
    BY OrderOne, OpUses
  <2> QED BY <2>2, <2>3, <2>4
<1> QED BY <1>3, <1>4, <1>5, <1>6

(* A turn of a collector.                                                  *)
LEMMA CollTurns ==
  ASSUME Framed, UNCHANGED <<box, par, sync, split, star, filter, fbVars, src, sink>>,
         NEW c \in DOMAIN coll, ~coll[c].done, todo[c] = << >>, NEW d, NEW s \in Stream, s = coll[c].at[d], chan[s] # << >>,
         NEW st, IsColl(st), ~st.done, NEW ops, NEW F, Orderly(ops, {CollOut[c]}, {}, F),
         F \subseteq {s}, s \in F => IsLast(Top(s)), CollTurn(c, d, st, ops)
  PROVE  WInv'
<1> DEFINE o == CollOut[c]
           a == OutEnd("coll", c, "out", o)
           end == Settle(c, st)
           all == ops \o end.ops
<1>1. Take(c, s, ops \o end.ops) /\ coll' = [coll EXCEPT ![c] = end.st]
  BY DEF CollTurn
<1>2. end = Settle(c, st)
  OBVIOUS
<1> HIDE DEF end
<1>3. Edited(coll, coll', c) /\ coll'[c] = end.st
  BY <1>1, CollFacts DEF Edited, IsFun, Framed
<1>4. /\ a \in TaskOuts /\ a[1] = "coll" /\ a[2] = c /\ a[4] = o
      /\ ~coll'[c].done => TaskOuts' = TaskOuts
      /\ coll'[c].done => Closing(c, {a})
  BY <1>3, CollCloses
<1>5. Taking(s, F) /\ Proceed(c, all, stat)
  BY <1>1 DEF Take, Taking, Popped
<1>6. Orderly(ops, {o} \cup {}, {}, F) /\ Orderly(ops, {} \cup {o}, {}, F)
  <2>1. {o} \cup {} = {o} /\ {} \cup {o} = {o}
    OBVIOUS
  <2> QED BY <2>1
<1>7. CASE ~end.st.done /\ Orderly(end.ops, {o}, {}, {})
  <2>1. Orderly(all, {o}, {} \cup {}, F \cup {})
    BY <1>6, <1>7, OrderConcat
  <2>2. {} \cup {} = {} /\ F \cup {} = F /\ {o} \subseteq OutsOf(c, TaskOuts)
    BY <1>4 DEF OutsOf
  <2> HIDE DEF all
  <2>3. Orderly(all, OutsOf(c, TaskOuts), {}, F)
    BY <2>1, <2>2, OrderMore
  <2> QED BY <1>3, <1>4, <1>5, <1>7, <2>3, StepKeeps
<1>8. CASE end.st.done /\ Orderly(end.ops, {}, {o}, {})
  <2>1. Orderly(all, {}, {} \cup {o}, F \cup {})
    BY <1>6, <1>8, OrderConcat
  <2>2. {} \cup {o} = {o} /\ F \cup {} = F
    OBVIOUS
  <2> HIDE DEF all, a
  <2>3. Orderly(all, {}, {o}, F)
    BY <2>1, <2>2
  <2> QED BY <1>3, <1>4, <1>5, <1>8, <2>3, OneQuits
<1> QED BY <1>2, <1>7, <1>8, SettleOrder

(* Every step of a collector.                                              *)
LEMMA CollWrites ==
  ASSUME IInv, IInv', WInv, NEW c \in DOMAIN coll, CollStep(c)
  PROVE  WInv'
<1> DEFINE st == coll[c]
           o == CollOut[c]
           rest == UNCHANGED <<box, par, sync, split, star, filter, fbVars, src, sink>>
<1>1. IsFun(coll) /\ CollGood(st) /\ IsColl(st) /\ IsFun(st.at) /\ rest
  BY CollFacts DEF CollStep, CollGood, CollBase
<1>2. Framed
  BY <1>1, FrameSame
<1>3. ASSUME NEW d \in st.ready \cup st.waiting, ~st.done PROVE st.at[d] \in Stream
  <2>1. CEnd(c, d, st.at[d]) \in Held
    BY <1>3 DEF Held, Reading, CollEnds, CEnd
  <2>2. CEnd(c, d, st.at[d])[4] = st.at[d]
    BY DEF CEnd
  <2> QED BY <2>1, <2>2, ReadsStream DEF IInv
<1>4. ASSUME UNCHANGED netVars, Edited(coll, coll', c), ~st.done, ~coll'[c].done PROVE WInv'
  <2>1. TaskOuts' = TaskOuts
    BY <1>1, <1>4, CollCloses
  <2> QED BY <1>2, <1>4, <2>1, StayWrites
<1>5. CASE CollPeek(c)
  <2>1. ~st.done /\ coll' = [coll EXCEPT ![c].cur = NULL] /\ UNCHANGED netVars
    BY <1>5 DEF CollPeek
  <2>2. Edited(coll, coll', c) /\ ~coll'[c].done
    BY <1>1, <2>1 DEF Edited, IsRec, IsColl, IsFun
  <2> QED BY <1>4, <2>1, <2>2
<1>6. CASE CollOpen(c)
  <2> DEFINE s == st.opening
             nat == [d \in DOMAIN st.at \cup {s} |-> IF d = s THEN s ELSE st.at[d]]
  <2>1. /\ s # NULL /\ UNCHANGED netVars
        /\ coll' = [coll EXCEPT ![c].ready = @ \cup {s}, ![c].at = nat, ![c].incount = @ + 1, ![c].opening = NULL]
    BY <1>6 DEF CollOpen
  <2>2. ~st.done
    BY <1>1, <2>1 DEF CollGood
  <2>3. Edited(coll, coll', c) /\ ~coll'[c].done
    <3> HIDE DEF nat
    <3> QED BY <1>1, <2>1, <2>2 DEF Edited, IsRec, IsColl, IsFun
  <2> QED BY <1>4, <2>1, <2>2, <2>3
<1>7. ASSUME NEW d \in st.ready \cup st.waiting,
             CollData(c, d) \/ CollNotice(c, d) \/ CollSort(c, d) \/ CollSync(c, d) \/ CollTerm(c, d) \/ CollCollect(c, d)
      PROVE  WInv'
  <2> DEFINE s == st.at[d]
  <2>1. ~st.done /\ todo[c] = << >> /\ s \in Stream /\ chan[s] # << >>
    BY <1>3, <1>7 DEF CollData, CollNotice, CollSort, CollSync, CollTerm, CollCollect, CollReads, Reads
  <2>2. ASSUME NEW t, IsColl(t), ~t.done, NEW ops, NEW F, Orderly(ops, {o}, {}, F), F \subseteq {s}, s \in F => IsLast(Top(s)),
               CollTurn(c, d, t, ops)
        PROVE  WInv'
    BY <1>1, <1>2, <2>1, <2>2, CollTurns
  <2>3. Orderly(<< >>, {o}, {}, {}) /\ Orderly(<<Free(s)>>, {o}, {}, {s}) /\ {} \subseteq {s}
    BY OrderOne, OpUses
  <2>4. CASE CollData(c, d)
    <3> DEFINE t == [st EXCEPT !.cur = d]
    <3>1. CollTurn(c, d, t, <<Write(o, Top(s))>>) /\ ~IsLast(Top(s))
      BY <2>4 DEF CollData, CollReads, Reads, IsLast
    <3>2. IsColl(t) /\ ~t.done
      BY <1>1, <2>1 DEF IsColl, IsRec, IsFun
    <3>3. Orderly(<<Write(o, Top(s))>>, {o}, {}, {})
      BY <3>1, OrderOne, OpUses
    <3> HIDE DEF t
    <3> QED BY <2>2, <2>3, <3>1, <3>2, <3>3
  <2>5. CASE CollNotice(c, d)
    <3> DEFINE t == [st EXCEPT !.cur = d, !.last = d]
    <3>1. CollTurn(c, d, t, << >>)
      BY <2>5 DEF CollNotice
    <3>2. IsColl(t) /\ ~t.done
      BY <1>1, <2>1 DEF IsColl, IsRec, IsFun
    <3> HIDE DEF t
    <3> QED BY <2>2, <2>3, <3>1, <3>2
  <2>6. CASE CollSort(c, d)
    <3> DEFINE r == SortSeen(c, d)
               first == st.sort = << >>
               sr == IF first THEN <<r>> ELSE st.sort
               mm == st.mismatch \/ (~first /\ st.sort # <<r>>)
               t == [st EXCEPT !.cur = NULL, !.ready = @ \ {d}, !.waiting = @ \cup {d}, !.sort = sr, !.mismatch = mm]
    <3>1. CollTurn(c, d, t, << >>)
      BY <2>6 DEF CollSort
    <3>2. IsColl(t) /\ ~t.done
      <4> HIDE DEF r, first, sr, mm
      <4> QED BY <1>1, <2>1 DEF IsColl, IsRec, IsFun
    <3> HIDE DEF t
    <3> QED BY <2>2, <2>3, <3>1, <3>2
  <2>7. CASE CollSync(c, d)
    <3> DEFINE t == [st EXCEPT !.cur = d, !.at[d] = Top(s).s]
    <3>1. CollTurn(c, d, t, <<Free(s)>>) /\ IsLast(Top(s))
      BY <2>7 DEF CollSync, CollReads, Reads, IsLast
    <3>2. IsColl(t) /\ ~t.done
      BY <1>1, <2>1 DEF IsColl, IsRec, IsFun
    <3> HIDE DEF t
    <3> QED BY <2>2, <2>3, <3>1, <3>2
  <2>8. CASE CollTerm(c, d)
    <3> DEFINE t == [st EXCEPT !.cur = NULL, !.ready = @ \ {d}, !.incount = @ - 1]
    <3>1. CollTurn(c, d, t, <<Free(s)>>) /\ IsLast(Top(s))
      BY <2>8 DEF CollTerm, CollReads, Reads, IsLast
    <3>2. IsColl(t) /\ ~t.done
      BY <1>1, <2>1 DEF IsColl, IsRec, IsFun
    <3> HIDE DEF t
    <3> QED BY <2>2, <2>3, <3>1, <3>2
  <2>9. CASE CollCollect(c, d)
    <3> DEFINE t == [st EXCEPT !.cur = d, !.opening = Top(s).s, !.scan = st.waiting]
    <3>1. CollTurn(c, d, t, << >>)
      BY <2>9 DEF CollCollect
    <3>2. IsColl(t) /\ ~t.done
      BY <1>1, <2>1 DEF IsColl, IsRec, IsFun
    <3> HIDE DEF t
    <3> QED BY <2>2, <2>3, <3>1, <3>2
  <2> QED BY <1>7, <2>4, <2>5, <2>6, <2>7, <2>8, <2>9
<1>8. ASSUME NEW d \in st.ready \cup st.waiting, CollScan(c, d) PROVE WInv'
  <2> DEFINE s == st.at[d]
  <2>1. d \in st.scan /\ todo[c] = << >>
    BY <1>8 DEF CollScan
  <2>2. ~st.done
    BY <1>1, <2>1 DEF CollGood, CollBase
  <2>3. CASE /\ chan[s] # << >> /\ Top(s) = Term /\ Take(c, s, <<Free(s)>>)
             /\ coll' = [coll EXCEPT ![c].scan = @ \ {d}, ![c].waiting = @ \ {d}, ![c].incount = @ - 1]
    <3>1. Edited(coll, coll', c) /\ ~coll'[c].done
      BY <1>1, <2>2, <2>3 DEF Edited, IsRec, IsColl, IsFun
    <3> DEFINE a == OutEnd("coll", c, "out", o)
    <3>2. a \in TaskOuts /\ a[2] = c /\ a[4] = o /\ TaskOuts' = TaskOuts
      BY <1>1, <2>2, <3>1, CollCloses
    <3>3. IsLast(Top(s)) /\ s \in Stream
      BY <1>3, <2>2, <2>3, OpUses
    <3> HIDE DEF a
    <3> QED BY <1>2, <2>1, <2>3, <3>2, <3>3, OneTask
  <2>4. CASE coll' = [coll EXCEPT ![c].scan = @ \ {d}] /\ UNCHANGED netVars
    <3>1. Edited(coll, coll', c) /\ ~coll'[c].done
      BY <1>1, <2>2, <2>4 DEF Edited, IsRec, IsColl, IsFun
    <3> QED BY <1>4, <2>2, <2>4, <3>1
  <2> QED BY <1>8, <2>3, <2>4 DEF CollScan
<1> QED BY <1>5, <1>6, <1>7, <1>8 DEF CollStep, CollectorTask

(* Groups of operations of an entity that closes nothing, or everything.   *)
LEMMA OrderPlain ==
  ASSUME NEW a, NEW b, NEW K, Orderly(a, K, {}, {}), Orderly(b, K, {}, {})
  PROVE  Orderly(a \o b, K, {}, {})
<1>1. K \cup {} = K /\ {} \cup {} = {}
  OBVIOUS
<1>2. Orderly(a, K \cup {}, {}, {})
  BY <1>1
<1>3. Orderly(a \o b, K, {} \cup {}, {} \cup {})
  BY <1>2, OrderConcat
<1> QED BY <1>1, <1>3

(* Orderly operations followed by ones on what the first leave open.       *)
LEMMA OrderThen ==
  ASSUME NEW a, NEW b, NEW C, NEW D, NEW F, NEW G, Orderly(a, D, C, F), Orderly(b, {}, D, G), C \cap D = {}
  PROVE  Orderly(a \o b, {}, C \cup D, F \cup G)
<1>1. {} \cup D = D /\ C \cap {} = {}
  OBVIOUS
<1>2. Orderly(a, {} \cup D, C, F)
  BY <1>1
<1> QED BY <1>1, <1>2, OrderConcat

(* An entity closes ends, not of a feedback dispatcher towards its buffer. *)
LEMMA HandlerQuits ==
  ASSUME Framed, NEW e, todo[e] = << >>, NEW D, Closing(e, D), \A a \in D : a[1] # "fbback", NEW s, NEW F, Taking(s, F),
         NEW ops, NEW C, Orderly(ops, OutsOf(e, TaskOuts \ D), C, F), Proceed(e, ops, stat), C \subseteq OutsOf(e, D)
  PROVE  WInv'
<1>1. \A a \in D : a \in Outs
  BY DEF Closing, Outs
<1>2. \A a \in D : a[4] \notin Back
  BY <1>1, WiringFacts DEF Framed, WInv
<1>3. \A x \in C : x \notin Back
  BY <1>2 DEF OutsOf
<1>4. NotBack(ops)
  BY <1>3 DEF NotBack, Orderly
<1> QED BY <1>4, HandlerStep

(* The writing ends of a star.                                             *)
LEMMA StarCloses ==
  ASSUME UNCHANGED <<box, coll, par, sync, split, filter, fbVars>>, NEW e \in DOMAIN star, ~star[e].done, Edited(star, star', e),
         NEW a, a = OutEnd("star", e, "out", StarOut[e]), NEW b, b = OutEnd("next", e, "out", StarNext[e])
  PROVE  /\ a \in TaskOuts /\ a[1] = "star" /\ a[2] = e /\ a[4] = StarOut[e]
         /\ b \in TaskOuts /\ b[1] = "next" /\ b[2] = e /\ b[4] = StarNext[e]
         /\ ~star'[e].done => TaskOuts' = TaskOuts
         /\ star'[e].done => Closing(e, {a, b})
<1> DEFINE S == OneOuts("star", star, StarOut)
           N == OneOuts("next", star, StarNext)
<1>1. S' = OneOuts("star", star', StarOut) /\ N' = OneOuts("next", star', StarNext)
  BY DEF OneOuts
<1>2. a \in S /\ (~star'[e].done => S' = S) /\ (star'[e].done => S' = S \ {a})
  BY <1>1, OneStep
<1>3. b \in N /\ (~star'[e].done => N' = N) /\ (star'[e].done => N' = N \ {b})
  BY <1>1, OneStep
<1>4. /\ a[1] = "star" /\ a[2] = e /\ a[4] = StarOut[e] /\ a \in TaskOuts
      /\ b[1] = "next" /\ b[2] = e /\ b[4] = StarNext[e] /\ b \in TaskOuts
  BY <1>2, <1>3, OutFacts DEF TaskOuts
<1>5. ~star'[e].done => TaskOuts' = TaskOuts
  BY <1>2, <1>3, OutsSame DEF TaskOuts, fbVars
<1>6. star'[e].done => TaskOuts' = TaskOuts \ {a, b}
  BY <1>2, <1>3, <1>4, OutsSame, OutKinds DEF TaskOuts, fbVars
<1> QED BY <1>4, <1>5, <1>6 DEF Closing

(* Every step of a star.                                                   *)
LEMMA StarWrites ==
  ASSUME IInv, IInv', WInv, NEW x \in DOMAIN star, StarStep(x)
  PROVE  WInv'
<1> DEFINE s == star[x].in
           o == StarOut[x]
           n == StarNext[x]
           a == OutEnd("star", x, "out", o)
           b == OutEnd("next", x, "out", n)
           K == {o, n}
<1>1. /\ IsFun(star) /\ IsRec(star[x], {"in", "next", "cleanup", "counter", "broken", "done"})
      /\ UNCHANGED <<box, coll, par, sync, split, filter, fbVars, src, sink>>
  BY DEF IInv, Shape, StarShape, StarStep
<1>2. Framed
  BY <1>1, FrameSame
<1>3. ASSUME ~star[x].done PROVE s \in Stream
  BY <1>3, InOwn, InFacts, ReadsStream DEF Held, Reading, IInv
<1>4. ASSUME ~star[x].done, Edited(star, star', x)
      PROVE  /\ a \in TaskOuts /\ a[1] = "star" /\ a[2] = x /\ a[4] = o
             /\ b \in TaskOuts /\ b[1] = "next" /\ b[2] = x /\ b[4] = n
             /\ ~star'[x].done => TaskOuts' = TaskOuts
             /\ star'[x].done => Closing(x, {a, b})
  BY <1>1, <1>4, StarCloses
<1>5. UNCHANGED star => Edited(star, star', x)
  BY <1>1 DEF Edited
<1> HIDE DEF a, b
<1>6. ASSUME ~star[x].done, Edited(star, star', x), ~star'[x].done, todo[x] = << >>, chan[s] # << >>,
             NEW ops, NEW F, Orderly(ops, K, {}, F), F \subseteq {s}, s \in F => IsLast(Top(s)), Take(x, s, ops)
      PROVE  WInv'
  <2>1. a \in TaskOuts /\ a[2] = x /\ a[4] = o /\ b \in TaskOuts /\ b[2] = x /\ b[4] = n /\ TaskOuts' = TaskOuts
    BY <1>4, <1>6
  <2>2. K \subseteq OutsOf(x, TaskOuts) /\ F \subseteq F
    BY <2>1 DEF OutsOf
  <2> HIDE DEF K
  <2>3. Orderly(ops, OutsOf(x, TaskOuts), {}, F)
    BY <1>6, <2>2, OrderMore
  <2>4. Taking(s, F) /\ Proceed(x, ops, stat)
    BY <1>3, <1>6 DEF Take, Taking, Popped
  <2> QED BY <1>2, <1>6, <2>1, <2>3, <2>4, StepKeeps
<1>7. ASSUME ~star[x].done, Edited(star, star', x), star'[x].done, todo[x] = << >>, chan[s] # << >>,
             NEW ops, NEW C, NEW F, Orderly(ops, {}, C, F), C \subseteq K, F \subseteq {s}, s \in F => IsLast(Top(s)), Take(x, s, ops)
      PROVE  WInv'
  <2> DEFINE D == {a, b}
  <2>1. a[1] # "fbback" /\ a[2] = x /\ a[4] = o /\ b[1] # "fbback" /\ b[2] = x /\ b[4] = n /\ Closing(x, D)
    BY <1>4, <1>7
  <2>2. C \subseteq OutsOf(x, D) /\ \A d \in D : d[1] # "fbback"
    BY <1>7, <2>1 DEF OutsOf
  <2> HIDE DEF D
  <2>3. {} \subseteq OutsOf(x, TaskOuts \ D) /\ F \subseteq F
    OBVIOUS
  <2>4. Orderly(ops, OutsOf(x, TaskOuts \ D), C, F)
    BY <1>7, <2>3, OrderMore
  <2>5. Taking(s, F) /\ Proceed(x, ops, stat)
    BY <1>3, <1>7 DEF Take, Taking, Popped
  <2> QED BY <1>2, <1>7, <2>1, <2>2, <2>4, <2>5, HandlerQuits
<1>8. ASSUME ~star[x].done PROVE o # n
  <2>1. a \in Outs /\ b \in Outs /\ a[4] = o /\ b[4] = n /\ a # b
    <3>1. Edited(star, star, x)
      BY <1>1 DEF Edited
    <3>2. a \in OneOuts("star", star, StarOut) /\ b \in OneOuts("next", star, StarNext)
      BY <1>8, <3>1, OneStep DEF a, b
    <3> QED BY <3>2, OutKinds, OutFacts DEF Outs, TaskOuts, a, b
  <2> QED BY <2>1, WiringFacts DEF WInv
<1>9. ASSUME NEW r, ~IsLast(r) PROVE Orderly(<<Write(o, r)>>, K, {}, {}) /\ Orderly(<<Write(n, r)>>, K, {}, {})
  BY <1>9, OrderOne, OpUses
<1>10. Orderly(<< >>, K, {}, {}) /\ Orderly(<<Free(s)>>, K, {}, {s})
  BY OrderOne, OpUses
<1>11. ASSUME NEW r, ~IsLast(r), NEW next PROVE Orderly(ToNext(x, next, r), K, {}, {})
  BY <1>9, <1>10, <1>11 DEF ToNext
<1>12. Orderly(CreateOperandNetwork(x), K, {}, {})
  <2> DEFINE p == <<Create(n)>>
             q == <<Write(o, Collect(StarChildOut[x]))>>
  <2>1. Orderly(p, K, {}, {})
    BY OrderOne, OpUses
  <2>2. Orderly(q, K, {}, {})
    BY <1>9, OpUses
  <2> HIDE DEF K
  <2>3. Orderly(p \o q, K, {}, {})
    <3> HIDE DEF p, q
    <3> QED BY <2>1, <2>2, OrderPlain
  <2>4. p \o q = <<Create(n), Write(o, Collect(StarChildOut[x]))>>
    BY ListConcat
  <2> QED BY <1>10, <2>3, <2>4 DEF CreateOperandNetwork
<1>13. ASSUME NEW next PROVE Orderly(StarBracket(x, next), K, {}, {})
  <2> DEFINE r == Sort(0, star[x].counter)
  <2>1. ~IsLast(r)
    BY OpUses
  <2>2. Orderly(<<Write(o, r)>> \o ToNext(x, next, r), K, {}, {})
    <3> HIDE DEF r, K
    <3> QED BY <1>9, <1>11, <2>1, OrderPlain
  <2> HIDE DEF K
  <2> QED BY <1>10, <2>2 DEF StarBracket
<1> HIDE DEF K
<1>14. CASE StarExit(x)
  <2> DEFINE p == <<Write(o, Top(s))>>
             q == StarBracket(x, star[x].next)
  <2>1. /\ ~star[x].done /\ todo[x] = << >> /\ chan[s] # << >> /\ ~IsLast(Top(s)) /\ Take(x, s, p \o q)
        /\ star' = [star EXCEPT ![x].counter = @ + StarCounted(x), ![x].broken  = @ \/ star[x].cleanup]
    BY <1>14 DEF StarExit, StarReads, Reads, IsLast
  <2>2. Edited(star, star', x) /\ ~star'[x].done
    BY <1>1, <2>1 DEF Edited, IsRec, IsFun
  <2>3. Orderly(p, K, {}, {}) /\ Orderly(q, K, {}, {})
    BY <1>9, <1>13, <2>1
  <2> HIDE DEF p, q
  <2>4. Orderly(p \o q, K, {}, {}) /\ {} \subseteq {s}
    BY <2>3, OrderPlain
  <2> QED BY <1>6, <2>1, <2>2, <2>4
<1>15. CASE StarForward(x)
  <2> DEFINE k == CreateOperandNetwork(x)
             p == <<Write(n, Top(s))>>
             q == StarBracket(x, TRUE)
  <2>1. /\ ~star[x].done /\ todo[x] = << >> /\ chan[s] # << >> /\ ~IsLast(Top(s)) /\ Take(x, s, k \o p \o q)
        /\ star' = [star EXCEPT ![x].counter = @ + StarCounted(x), ![x].next = TRUE]
    BY <1>15 DEF StarForward, StarReads, Reads, IsLast
  <2>2. Edited(star, star', x) /\ ~star'[x].done
    BY <1>1, <2>1 DEF Edited, IsRec, IsFun
  <2>3. Orderly(k, K, {}, {}) /\ Orderly(p, K, {}, {}) /\ Orderly(q, K, {}, {})
    BY <1>9, <1>12, <1>13, <2>1
  <2> HIDE DEF k, p, q
  <2>4. Orderly(k \o p, K, {}, {})
    BY <2>3, OrderPlain
  <2>5. Orderly((k \o p) \o q, K, {}, {}) /\ {} \subseteq {s}
    BY <2>3, <2>4, OrderPlain
  <2> QED BY <1>6, <2>1, <2>2, <2>5
<1>16. ASSUME NEW r, IsLast(r), ~star[x].done PROVE Orderly(<<Write(n, r), Write(o, Term)>>, {}, K, {})
  <2> DEFINE p == <<Write(n, r)>>
             q == <<Write(o, Term)>>
  <2>1. Orderly(p, {o}, {n}, {}) /\ Orderly(q, {}, {o}, {}) /\ {n} \cap {o} = {}
    BY <1>8, <1>16, OrderOne, OpUses
  <2>2. p \o q = <<Write(n, r), Write(o, Term)>>
    BY ListConcat
  <2> HIDE DEF p, q
  <2>3. Orderly(p \o q, {}, {n} \cup {o}, {} \cup {})
    BY <2>1, OrderThen
  <2>4. {n} \cup {o} = K /\ {} \cup {} = {}
    BY DEF K
  <2> QED BY <2>2, <2>3, <2>4
<1>17. CASE StarLeaveLate(x)
  <2> DEFINE k == CreateOperandNetwork(x)
             p == <<Write(n, Top(s))>>
             q == <<Write(n, Sync(s, NULL)), Write(o, Term)>>
             m == <<Write(n, Top(s)), Write(n, Sync(s, NULL)), Write(o, Term)>>
  <2>1. /\ ~star[x].done /\ todo[x] = << >> /\ chan[s] # << >> /\ ~IsLast(Top(s)) /\ Take(x, s, k \o m)
        /\ star' = [star EXCEPT ![x].next = TRUE, ![x].done = TRUE]
    BY <1>17 DEF StarLeaveLate, StarReads, Reads, IsLast
  <2>2. Edited(star, star', x) /\ star'[x].done
    BY <1>1, <2>1 DEF Edited, IsRec, IsFun
  <2>3. Orderly(k, K, {}, {}) /\ Orderly(p, K, {}, {}) /\ Orderly(q, {}, K, {})
    BY <1>9, <1>12, <1>16, <2>1, OpUses
  <2>4. m = p \o q
    BY ListConcat
  <2> HIDE DEF k, p, q, m
  <2>5. {} \cap K = {} /\ {} \cup K = K /\ {} \cup {} = {} /\ {} \subseteq {s} /\ K \subseteq K
    OBVIOUS
  <2>6. Orderly(m, {}, {} \cup K, {} \cup {})
    BY <2>3, <2>4, <2>5, OrderThen
  <2>7. Orderly(m, {}, K, {})
    BY <2>5, <2>6
  <2>8. Orderly(k \o m, {}, {} \cup K, {} \cup {})
    BY <2>3, <2>5, <2>7, OrderThen
  <2>9. Orderly(k \o m, {}, K, {})
    BY <2>5, <2>8
  <2> QED BY <1>7, <2>1, <2>2, <2>5, <2>9
<1>18. CASE StarLeave(x)
  <2> DEFINE p == <<Write(n, Top(s))>>
             q == <<Write(o, Term), Free(s)>>
             m == <<Write(n, Top(s)), Write(o, Term), Free(s)>>
  <2>1. /\ ~star[x].done /\ todo[x] = << >> /\ chan[s] # << >> /\ IsLast(Top(s)) /\ Take(x, s, m)
        /\ star' = [star EXCEPT ![x].done = TRUE]
    BY <1>18 DEF StarLeave, StarReads, Reads, IsLast
  <2>2. Edited(star, star', x) /\ star'[x].done
    BY <1>1, <2>1 DEF Edited, IsRec, IsFun
  <2>3. Orderly(p, {o}, {n}, {}) /\ Orderly(q, {}, {o}, {s}) /\ {n} \cap {o} = {}
    BY <1>8, <2>1, OrderOne, OpUses, QuitOrder
  <2>4. m = p \o q
    BY ListConcat
  <2> HIDE DEF p, q, m
  <2>5. {n} \cup {o} = K /\ {} \cup {s} = {s} /\ {s} \subseteq {s} /\ K \subseteq K
    BY DEF K
  <2>6. Orderly(m, {}, {n} \cup {o}, {} \cup {s})
    BY <2>3, <2>4, OrderThen
  <2>7. Orderly(m, {}, K, {s})
    BY <2>5, <2>6
  <2> QED BY <1>7, <2>1, <2>2, <2>5, <2>7
<1>19. CASE StarReplace(x)
  <2>1. /\ ~star[x].done /\ todo[x] = << >> /\ chan[s] # << >> /\ IsLast(Top(s)) /\ Take(x, s, <<Free(s)>>)
        /\ star' = [star EXCEPT ![x].in = Top(s).s, ![x].cleanup = @ \/ Eligible(x)]
    BY <1>19 DEF StarReplace, StarReads, Reads, IsLast
  <2>2. Edited(star, star', x) /\ ~star'[x].done
    BY <1>1, <2>1 DEF Edited, IsRec, IsFun
  <2>3. {s} \subseteq {s}
    OBVIOUS
  <2> QED BY <1>6, <1>10, <2>1, <2>2, <2>3
<1>20. CASE StarSort(x)
  <2> DEFINE r == IF IsIncarnate[x] THEN Top(s) ELSE Raise(Top(s))
             p == ToNext(x, star[x].next, r)
             q == <<Write(o, r)>>
  <2>1. ~star[x].done /\ todo[x] = << >> /\ chan[s] # << >> /\ ~IsLast(Top(s)) /\ Take(x, s, p \o q) /\ UNCHANGED star
    BY <1>20 DEF StarSort, StarReads, Reads, IsLast
  <2>2. ~IsLast(r)
    BY <2>1, OpUses
  <2> HIDE DEF r
  <2>3. Orderly(p, K, {}, {}) /\ Orderly(q, K, {}, {})
    BY <1>9, <1>11, <2>2
  <2> HIDE DEF p, q
  <2>4. Orderly(p \o q, K, {}, {}) /\ {} \subseteq {s}
    BY <2>3, OrderPlain
  <2> QED BY <1>5, <1>6, <2>1, <2>4
<1>21. CASE StarTerm(x)
  <2> DEFINE p == ToNext(x, star[x].next, Term)
             q == <<Write(o, Term), Free(s)>>
  <2>1. ~star[x].done /\ todo[x] = << >> /\ chan[s] # << >> /\ IsLast(Top(s)) /\ Take(x, s, p \o q) /\ star' = [star EXCEPT ![x].done = TRUE]
    BY <1>21 DEF StarTerm, StarReads, Reads, IsLast
  <2>2. Edited(star, star', x) /\ star'[x].done
    BY <1>1, <2>1 DEF Edited, IsRec, IsFun
  <2>3. Orderly(q, {}, {o}, {s})
    BY QuitOrder
  <2>4. PICK C : Orderly(p, {o}, C, {}) /\ C \cap {o} = {} /\ C \subseteq {n}
    <3>1. Orderly(<<Write(n, Term)>>, {o}, {n}, {}) /\ Orderly(<< >>, {o}, {}, {}) /\ {n} \cap {o} = {} /\ {} \cap {o} = {} /\ {} \subseteq {n} /\ {n} \subseteq {n}
      BY <1>8, <2>1, OrderOne, OpUses
    <3>2. CASE star[x].next
      <4>1. p = <<Write(n, Term)>>
        BY <3>2 DEF ToNext
      <4> QED BY <3>1, <4>1
    <3>3. CASE ~star[x].next
      <4>1. p = << >>
        BY <3>3 DEF ToNext
      <4> QED BY <3>1, <4>1
    <3> QED BY <3>2, <3>3
  <2> HIDE DEF p, q
  <2>5. Orderly(p \o q, {}, C \cup {o}, {} \cup {s})
    BY <2>3, <2>4, OrderThen
  <2>6. {} \cup {s} = {s} /\ {s} \subseteq {s} /\ C \cup {o} \subseteq K
    BY <2>4 DEF K
  <2>7. Orderly(p \o q, {}, C \cup {o}, {s})
    BY <2>5, <2>6
  <2> QED BY <1>7, <2>1, <2>2, <2>6, <2>7
<1> QED BY <1>14, <1>15, <1>17, <1>18, <1>19, <1>20, <1>21 DEF StarStep, StarBoxTask

(* A step of a split.                                                      *)
LEMMA FrameSplit ==
  ASSUME IInv, IInv', WInv, UNCHANGED <<src, fbVars, par>>, NEW x \in DOMAIN split, Edited(split, split', x),
         Len(split'[x].tab) <= Len(RepOut[x]), split'[x].done => split'[x].rec = << >>
  PROVE  Framed
<1>1. LoopState'
  BY DEF WInv, LoopState, Loop, fbVars
<1>2. ASSUME NEW y \in DOMAIN split' PROVE Len(split'[y].tab) <= Len(RepOut[y]) /\ (split'[y].done => split'[y].rec = << >>)
  BY DEF WInv, Locals, Edited
<1>3. Locals'
  BY <1>2 DEF WInv, Locals
<1> QED BY <1>1, <1>3 DEF Framed, fbVars

(* The writing ends of a split.                                            *)
Reps(x)      == {OutEnd("replica", x, k, RepIn[x][k]) : k \in 1 .. Len(RepOut[x])}
SplitEnds(x) == {OutEnd("split", x, "out", SplitInitial[x])} \cup Reps(x)

(* A split that ends closes its own end and those to its replicas.         *)
LEMMA SplitCloses ==
  ASSUME UNCHANGED <<box, coll, par, sync, star, filter, fbVars>>, NEW x \in DOMAIN split, ~split[x].done, Edited(split, split', x)
  PROVE  /\ SplitEnds(x) \subseteq TaskOuts /\ \A a \in SplitEnds(x) : a[2] = x /\ a[1] \in {"split", "replica"}
         /\ ~split'[x].done => TaskOuts' = TaskOuts
         /\ split'[x].done => Closing(x, SplitEnds(x))
<1> DEFINE S == OneOuts("split", split, SplitInitial)
           a == OutEnd("split", x, "out", SplitInitial[x])
<1>1. S' = OneOuts("split", split', SplitInitial)
  BY DEF OneOuts
<1>2. a \in S /\ (~split'[x].done => S' = S) /\ (split'[x].done => S' = S \ {a})
  BY <1>1, OneStep
<1>3. a[1] = "split" /\ a[2] = x /\ \A y : \A b \in Reps(y) : b[1] = "replica" /\ b[2] = y
  BY OutFacts DEF Reps
<1>4. /\ \A b : b \in ReplicaOuts <=> \E y \in DOMAIN split : ~split[y].done /\ b \in Reps(y)
      /\ \A b : b \in ReplicaOuts' <=> \E y \in DOMAIN split : ~split'[y].done /\ b \in Reps(y)
  BY DEF ReplicaOuts, Reps, Edited
<1>5. \A y \in DOMAIN split : y # x => split'[y] = split[y]
  BY DEF Edited
<1> HIDE DEF a, S
<1>6. Reps(x) \subseteq ReplicaOuts
  BY <1>4
<1>7. ASSUME ~split'[x].done PROVE ReplicaOuts' = ReplicaOuts
  <2>1. \A y \in DOMAIN split : split'[y].done <=> split[y].done
    BY <1>5, <1>7
  <2> QED BY <1>4, <2>1
<1>8. ASSUME split'[x].done PROVE ReplicaOuts' = ReplicaOuts \ Reps(x)
  <2>1. \A y \in DOMAIN split : ~split'[y].done <=> y # x /\ ~split[y].done
    BY <1>5, <1>8
  <2>2. \A y : y # x => \A b \in Reps(y) : b \notin Reps(x)
    BY <1>3
  <2> QED BY <1>4, <2>1, <2>2
<1>9. SplitEnds(x) = {a} \cup Reps(x)
  BY DEF SplitEnds, a
<1>10. SplitEnds(x) \subseteq TaskOuts /\ \A b \in SplitEnds(x) : b[2] = x /\ b[1] \in {"split", "replica"}
  BY <1>2, <1>3, <1>6, <1>9 DEF TaskOuts, S
<1>11. ~split'[x].done => TaskOuts' = TaskOuts
  BY <1>2, <1>7, OutsSame DEF TaskOuts, fbVars, S
<1>12. split'[x].done => TaskOuts' = TaskOuts \ SplitEnds(x)
  <2>1. ASSUME NEW T, NEW U, TaskOuts = (T \cup S) \cup (U \cup ReplicaOuts), TaskOuts' = (T \cup S') \cup (U \cup ReplicaOuts'), split'[x].done,
               \A b \in T \cup U : b[1] # "split" /\ b[1] # "replica"
        PROVE  TaskOuts' = TaskOuts \ SplitEnds(x)
    <3>1. \A b \in S : b[1] = "split"
      BY OutKinds DEF S
    <3>2. \A b \in ReplicaOuts : b[1] = "replica"
      BY OutKinds
    <3> QED BY <1>2, <1>3, <1>8, <1>9, <2>1, <3>1, <3>2
  <2> DEFINE T == OneOuts("box", box, BoxOut) \cup OneOuts("filter", filter, FilterOut)
                    \cup OneOuts("sync", sync, SyncOut) \cup OneOuts("coll", coll, CollOut)
             U == OneOuts("star", star, StarOut) \cup OneOuts("next", star, StarNext)
                    \cup FbOuts("fbcoll", fbcoll, FbColl, IntoOp) \cup FbOuts("fbdisp", fbdisp, FbDisp, FbOut)
                    \cup FbOuts("fbback", fbdisp, FbDisp, BackIn) \cup BranchOuts
  <2>2. TaskOuts = (T \cup S) \cup (U \cup ReplicaOuts)
    BY DEF TaskOuts, S
  <2>3. TaskOuts' = (T \cup S') \cup (U \cup ReplicaOuts')
    BY OutsSame DEF TaskOuts, S, fbVars
  <2>4. \A b \in T \cup U : b[1] # "split" /\ b[1] # "replica"
    BY OutKinds
  <2> HIDE DEF T, U
  <2> QED BY <2>1, <2>2, <2>3, <2>4
<1> QED BY <1>10, <1>11, <1>12 DEF Closing

(* The streams of a split: those of its replicas and the one to the        *)
(* collector are different.                                                *)
LEMMA SplitList ==
  ASSUME IInv, WInv, NEW x \in DOMAIN split, ~split[x].done, SplitEnds(x) \subseteq TaskOuts,
         NEW ss, ss = Replicas(x, split[x].tab) \o <<SplitInitial[x]>>
  PROVE  /\ IsSeq(ss) /\ Range(ss) \subseteq OutsOf(x, SplitEnds(x))
         /\ \A i, j \in DOMAIN ss : ss[i] = ss[j] => i = j
<1> DEFINE tab == split[x].tab
           n == Len(tab)
           m == Len(RepOut[x])
           R == Replicas(x, tab)
           a == OutEnd("split", x, "out", SplitInitial[x])
           rep(k) == OutEnd("replica", x, k, RepIn[x][k])
           own(k) == IF k <= n THEN rep(k) ELSE a
<1>1. n \in Nat /\ DOMAIN tab = 1..n
  <2>1. IsSeq(tab)
    BY DEF IInv, Shape, SplitShape
  <2> QED BY <2>1, SeqFacts
<1>2. m \in Nat
  <2>1. x \in Splits
    BY DEF IInv, Shape, SplitShape
  <2>2. IsSeq(RepOut[x])
    BY <2>1, SplitAssumption DEF IsSeq
  <2> QED BY <2>2, SeqFacts
<1>3. R = [k \in 1..n |-> R[k]] /\ \A k \in 1..n : R[k] = RepIn[x][k]
  BY <1>1 DEF Replicas
<1>4. n <= m
  BY DEF WInv, Locals
<1>5. \A k, y, p, t : OutEnd(k, y, p, t)[1] = k /\ OutEnd(k, y, p, t)[2] = y /\ OutEnd(k, y, p, t)[3] = p /\ OutEnd(k, y, p, t)[4] = t
  BY DEF OutEnd
<1>6. a[1] = "split" /\ a[2] = x /\ a[4] = SplitInitial[x] /\ \A k : rep(k)[1] = "replica" /\ rep(k)[2] = x /\ rep(k)[3] = k /\ rep(k)[4] = RepIn[x][k]
  BY <1>5
<1>7. a \in SplitEnds(x) /\ \A k \in 1..m : rep(k) \in SplitEnds(x)
  BY DEF SplitEnds, Reps
<1> HIDE DEF R, a, rep, n, m
<1>8. IsSeq(R) /\ Len(R) = n
  BY <1>1, <1>3, ListSeq
<1>9. IsSeq(<<SplitInitial[x]>>) /\ Len(<<SplitInitial[x]>>) = 1 /\ <<SplitInitial[x]>>[1] = SplitInitial[x]
  BY ShortSeq
<1>10. IsSeq(ss) /\ DOMAIN ss = 1..(n + 1) /\ \A i \in 1..(n + 1) : ss[i] = IF i <= n THEN R[i] ELSE <<SplitInitial[x]>>[i - n]
  <2> DEFINE u == <<SplitInitial[x]>>
  <2>1. ss = R \o u /\ IsSeq(u) /\ Len(u) = 1
    BY <1>9 DEF R
  <2> HIDE DEF u
  <2>2. /\ IsSeq(R \o u) /\ DOMAIN (R \o u) = 1..(Len(R) + Len(u))
        /\ \A i \in 1..(Len(R) + Len(u)) : (R \o u)[i] = IF i <= Len(R) THEN R[i] ELSE u[i - Len(R)]
    BY <1>8, <2>1, ConcatSeq
  <2>3. IsSeq(ss) /\ DOMAIN ss = 1..(n + 1) /\ \A i \in 1..(n + 1) : ss[i] = IF i <= n THEN R[i] ELSE u[i - n]
    BY <1>8, <2>1, <2>2, Zenon
  <2> QED BY <2>3 DEF u
<1>11. ASSUME NEW i \in DOMAIN ss PROVE own(i) \in SplitEnds(x) /\ own(i)[2] = x /\ ss[i] = own(i)[4]
  <2>1. CASE i <= n
    <3>1. i \in 1..n /\ i \in 1..m
      BY <1>1, <1>2, <1>4, <1>10, <2>1
    <3>2. own(i) = rep(i) /\ ss[i] = R[i]
      BY <1>10, <2>1
    <3> QED BY <1>3, <1>6, <1>7, <3>1, <3>2
  <2>2. CASE ~(i <= n)
    <3>1. i - n = 1
      BY <1>1, <1>10, <2>2
    <3>2. own(i) = a /\ ss[i] = SplitInitial[x]
      BY <1>9, <1>10, <2>2, <3>1
    <3> QED BY <1>6, <1>7, <3>2
  <2> QED BY <2>1, <2>2
<1>12. ASSUME NEW i \in DOMAIN ss, NEW j \in DOMAIN ss, ss[i] = ss[j] PROVE i = j
  <2>1. own(i) \in Outs /\ own(j) \in Outs /\ own(i)[4] = own(j)[4]
    BY <1>11, <1>12 DEF Outs
  <2>2. own(i) = own(j)
    BY <2>1, WiringFacts DEF WInv
  <2>3. CASE i <= n /\ j <= n
    BY <1>6, <2>2, <2>3
  <2>4. CASE ~(i <= n) /\ ~(j <= n)
    BY <1>1, <1>10, <2>4
  <2>5. CASE (i <= n /\ ~(j <= n)) \/ (~(i <= n) /\ j <= n)
    <3>1. \A k : rep(k) # a
      BY <1>6
    <3> QED BY <2>2, <2>5, <3>1
  <2> QED BY <2>3, <2>4, <2>5
<1>13. Range(ss) \subseteq OutsOf(x, SplitEnds(x))
  <2> HIDE DEF own
  <2> QED BY <1>11 DEF Range, OutsOf
<1> QED BY <1>10, <1>12, <1>13

(* Every step of a split.                                                  *)
LEMMA SplitWrites ==
  ASSUME IInv, IInv', WInv, NEW x \in DOMAIN split, SplitStep(x)
  PROVE  WInv'
<1> DEFINE s == split[x].in
           tab == split[x].tab
           E == SplitEnds(x)
           K == OutsOf(x, E)
           ss == Replicas(x, tab) \o <<SplitInitial[x]>>
<1>1. /\ IsFun(split) /\ IsRec(split[x], {"in", "tab", "rec", "i", "counter", "done"}) /\ x \in Splits
      /\ IsSeq(tab) /\ (split[x].rec # << >> => Head(split[x].rec).t = "data")
      /\ UNCHANGED <<box, coll, par, sync, star, filter, fbVars, src, sink>>
  BY DEF IInv, Shape, SplitShape, SplitStep
<1>2. Len(tab) <= Len(RepOut[x]) /\ (split[x].done => split[x].rec = << >>)
  BY DEF WInv, Locals
<1>3. ASSUME ~split[x].done PROVE s \in Stream
  BY <1>3, InOwn, InFacts, ReadsStream DEF Held, Reading, IInv
<1>4. ASSUME ~split[x].done, Edited(split, split', x), Len(split'[x].tab) <= Len(RepOut[x]), split'[x].done => split'[x].rec = << >>
      PROVE  /\ Framed /\ E \subseteq TaskOuts /\ K \subseteq OutsOf(x, TaskOuts)
             /\ \A a \in E : a[2] = x /\ a[1] # "fbback"
             /\ ~split'[x].done => TaskOuts' = TaskOuts
             /\ split'[x].done => Closing(x, E)
  <2>1. Framed
    BY <1>1, <1>4, FrameSplit
  <2>2. /\ E \subseteq TaskOuts /\ \A a \in E : a[2] = x /\ a[1] \in {"split", "replica"}
        /\ ~split'[x].done => TaskOuts' = TaskOuts
        /\ split'[x].done => Closing(x, E)
    BY <1>1, <1>4, SplitCloses
  <2> HIDE DEF E
  <2> QED BY <2>1, <2>2 DEF OutsOf
<1>5. ASSUME ~split[x].done
      PROVE  IsSeq(ss) /\ Range(ss) \subseteq K /\ \A i, j \in DOMAIN ss : ss[i] = ss[j] => i = j
  <2>1. E \subseteq TaskOuts
    <3>1. \A b \in Reps(x) : b \in ReplicaOuts
      BY <1>5 DEF ReplicaOuts, Reps
    <3>2. OutEnd("split", x, "out", SplitInitial[x]) \in OneOuts("split", split, SplitInitial)
      BY <1>5 DEF OneOuts
    <3> QED BY <3>1, <3>2 DEF TaskOuts, SplitEnds
  <2>2. PICK l : l = ss
    OBVIOUS
  <2>3. IsSeq(l) /\ Range(l) \subseteq OutsOf(x, SplitEnds(x)) /\ \A i, j \in DOMAIN l : l[i] = l[j] => i = j
    <3>1. l = Replicas(x, split[x].tab) \o <<SplitInitial[x]>> /\ SplitEnds(x) \subseteq TaskOuts
      BY <2>1, <2>2
    <3> HIDE DEF ss, E, K
    <3> QED BY <1>5, <3>1, SplitList
  <2> QED BY <2>2, <2>3
<1>6. SplitInitial[x] \in K /\ \A k \in 1 .. Len(RepOut[x]) : RepIn[x][k] \in K
  <2> DEFINE a == OutEnd("split", x, "out", SplitInitial[x])
             rep(k) == OutEnd("replica", x, k, RepIn[x][k])
  <2>1. a \in E /\ \A k \in 1 .. Len(RepOut[x]) : rep(k) \in E
    BY DEF SplitEnds, Reps
  <2>2. a[2] = x /\ a[4] = SplitInitial[x] /\ \A k : rep(k)[2] = x /\ rep(k)[4] = RepIn[x][k]
    BY OutFacts
  <2> HIDE DEF a, rep, E
  <2> QED BY <2>1, <2>2 DEF OutsOf
<1> HIDE DEF ss
<1>7. ASSUME NEW r, ~IsLast(r), ~split[x].done PROVE Orderly(WriteAll(ss, r), K, {}, {})
  BY <1>5, <1>7, OrderAll
<1>8. Orderly(<< >>, K, {}, {}) /\ Orderly(<<Free(s)>>, K, {}, {s})
  BY OrderOne, OpUses
<1>17. ASSUME NEW o \in K, NEW r, ~IsLast(r) PROVE Orderly(<<Write(o, r)>>, K, {}, {}) /\ Orderly(<<Create(o)>>, K, {}, {})
  <2>1. Uses(Write(o, r)) /\ ~IsEnding(Write(o, r)) /\ Write(o, r).s \in K /\ Uses(Create(o)) /\ ~IsEnding(Create(o)) /\ Create(o).s \in K
    BY <1>17, OpUses
  <2> HIDE DEF K
  <2> QED BY <2>1, OrderOne
<1> HIDE DEF K, E
<1>9. ASSUME ~split[x].done, todo[x] = << >>, chan[s] # << >>, Edited(split, split', x), split'[x].tab = tab, ~split'[x].done,
             NEW ops, NEW F, Orderly(ops, K, {}, F), F \subseteq {s}, s \in F => IsLast(Top(s)), Take(x, s, ops)
      PROVE  WInv'
  <2>1. Framed /\ TaskOuts' = TaskOuts /\ K \subseteq OutsOf(x, TaskOuts) /\ F \subseteq F
    BY <1>2, <1>4, <1>9
  <2>2. Orderly(ops, OutsOf(x, TaskOuts), {}, F)
    BY <1>9, <2>1, OrderMore
  <2>3. Taking(s, F) /\ Proceed(x, ops, stat)
    BY <1>3, <1>9 DEF Take, Taking, Popped
  <2> QED BY <1>9, <2>1, <2>2, <2>3, StepKeeps
<1>10. ASSUME split[x].rec # << >>, todo[x] = << >>, UNCHANGED chan, Edited(split, split', x), Len(split'[x].tab) <= Len(RepOut[x]),
              split'[x].done = split[x].done, NEW ops, Orderly(ops, K, {}, {}), Proceed(x, ops, stat)
       PROVE  WInv'
  <2>1. ~split[x].done
    BY <1>2, <1>10
  <2>2. Framed /\ TaskOuts' = TaskOuts /\ K \subseteq OutsOf(x, TaskOuts) /\ {} \subseteq {}
    BY <1>4, <1>10, <2>1
  <2>3. Orderly(ops, OutsOf(x, TaskOuts), {}, {})
    BY <1>10, <2>2, OrderMore
  <2>4. Taking(s, {})
    BY <1>10 DEF Taking
  <2> QED BY <1>10, <2>2, <2>3, <2>4, StepKeeps
<1>11. CASE SplitData(x)
  <2>1. ~split[x].done /\ todo[x] = << >> /\ chan[s] # << >> /\ Take(x, s, << >>)
    BY <1>11 DEF SplitData, SplitReads, Reads
  <2>2. split' = [split EXCEPT ![x].rec = <<Top(s)>>, ![x].i = LTag(x, Top(s).ty)]
    BY <1>11 DEF SplitData
  <2>3. Edited(split, split', x) /\ split'[x].tab = tab /\ ~split'[x].done
    BY <1>1, <2>1, <2>2 DEF Edited, IsRec, IsFun
  <2>4. {} \subseteq {s}
    OBVIOUS
  <2> QED BY <1>8, <1>9, <2>1, <2>3, <2>4
<1>12. CASE SplitTag(x)
  <2> DEFINE old == Replica(tab, split[x].i)
             k == Len(tab) + 1
             r == Head(split[x].rec)
             p == <<Create(RepIn[x][k])>>
             q == <<Write(SplitInitial[x], Collect(RepOut[x][k]))>>
             w == <<Write(RepIn[x][k], r)>>
  <2>1. split[x].rec # << >> /\ todo[x] = << >> /\ UNCHANGED chan /\ r.t = "data"
    BY <1>1, <1>12 DEF SplitTag
  <2>2. ~IsLast(r)
    BY <2>1 DEF IsLast
  <2>3. Len(tab) \in Nat /\ DOMAIN tab = 1..Len(tab)
    BY <1>1, SeqFacts
  <2>4. CASE /\ k <= Len(RepOut[x])
             /\ Proceed(x, <<Create(RepIn[x][k]), Write(SplitInitial[x], Collect(RepOut[x][k])), Write(RepIn[x][k], r)>>, stat)
             /\ split' = [split EXCEPT ![x].tab = Append(@, split[x].i), ![x].i = @ + 1]
    <3>1. Edited(split, split', x) /\ split'[x].tab = Append(tab, split[x].i) /\ split'[x].done = split[x].done
      BY <1>1, <2>4 DEF Edited, IsRec, IsFun
    <3>2. Len(split'[x].tab) = k
      <4>1. tab \in Seq(Range(tab) \cup {split[x].i})
        BY <1>1, SeqMonotonic DEF IsSeq
      <4> QED BY <3>1, <4>1, AppendProperties
    <3>3. k \in 1 .. Len(RepOut[x])
      <4>1. Len(RepOut[x]) \in Nat
        <5>1. IsSeq(RepOut[x])
          BY <1>1, SplitAssumption DEF IsSeq
        <5> QED BY <5>1, SeqFacts
      <4> QED BY <2>3, <2>4, <4>1
    <3> HIDE DEF r, k
    <3>4. Orderly(p, K, {}, {}) /\ Orderly(q, K, {}, {}) /\ Orderly(w, K, {}, {})
      <4>1. RepIn[x][k] \in K /\ SplitInitial[x] \in K /\ ~IsLast(Collect(RepOut[x][k]))
        BY <1>6, <3>3, OpUses
      <4> QED BY <1>17, <2>2, <4>1
    <3>5. <<Create(RepIn[x][k]), Write(SplitInitial[x], Collect(RepOut[x][k])), Write(RepIn[x][k], r)>> = p \o (q \o w)
      <4>1. ASSUME NEW o1, NEW o2, NEW o3 PROVE <<o1, o2, o3>> = <<o1>> \o (<<o2>> \o <<o3>>)
        <5>1. <<o1, o2, o3>> = <<o1>> \o <<o2, o3>>
          BY ListConcat
        <5>2. <<o2, o3>> = <<o2>> \o <<o3>>
          BY ListConcat
        <5> QED BY <5>1, <5>2, Zenon
      <4> QED BY <4>1, Zenon
    <3> HIDE DEF p, q, w
    <3>6. Orderly(q \o w, K, {}, {})
      BY <3>4, OrderPlain
    <3>7. Orderly(p \o (q \o w), K, {}, {})
      BY <3>4, <3>6, OrderPlain
    <3>8. Len(split'[x].tab) <= Len(RepOut[x]) /\ Proceed(x, p \o (q \o w), stat)
      BY <2>4, <3>2, <3>5
    <3> QED BY <1>10, <2>1, <3>1, <3>7, <3>8
  <2>5. CASE /\ old # {}
             /\ Proceed(x, <<Write(RepIn[x][CHOOSE j \in old : TRUE], r)>>, stat)
             /\ split' = [split EXCEPT ![x].i = @ + 1]
    <3> DEFINE j == CHOOSE j \in old : TRUE
    <3>1. Edited(split, split', x) /\ split'[x].tab = tab /\ split'[x].done = split[x].done
      BY <1>1, <2>5 DEF Edited, IsRec, IsFun
    <3>2. j \in 1..Len(tab)
      BY <2>3, <2>5 DEF Replica
    <3>3. j \in 1..Len(RepOut[x])
      <4>1. Len(RepOut[x]) \in Nat
        <5>1. IsSeq(RepOut[x])
          BY <1>1, SplitAssumption DEF IsSeq
        <5> QED BY <5>1, SeqFacts
      <4> HIDE DEF j
      <4> QED BY <1>2, <2>3, <3>2, <4>1
    <3> HIDE DEF j, r
    <3>4. Orderly(<<Write(RepIn[x][j], r)>>, K, {}, {})
      <4>1. RepIn[x][j] \in K
        BY <1>6, <3>3
      <4> QED BY <1>17, <2>2, <4>1
    <3>5. Proceed(x, <<Write(RepIn[x][j], r)>>, stat)
      BY <2>5 DEF j
    <3> QED BY <1>2, <1>10, <2>1, <3>1, <3>4, <3>5
  <2> QED BY <1>12, <2>4, <2>5 DEF SplitTag
<1>13. CASE SplitSortEnd(x)
  <2> DEFINE r == Sort(0, split[x].counter)
             ops == IF SplitDet[x] THEN WriteAll(ss, r) ELSE << >>
  <2>1. split[x].rec # << >> /\ todo[x] = << >> /\ UNCHANGED chan /\ Proceed(x, ops, stat)
    BY <1>13 DEF SplitSortEnd, ss
  <2>2. split' = [split EXCEPT ![x].rec = << >>, ![x].i = 0, ![x].counter = @ + 1]
    BY <1>13 DEF SplitSortEnd
  <2>3. Edited(split, split', x) /\ split'[x].tab = tab /\ split'[x].done = split[x].done
    BY <1>1, <2>2 DEF Edited, IsRec, IsFun
  <2>4. ~IsLast(r) /\ ~split[x].done
    BY <1>2, <2>1, OpUses
  <2> HIDE DEF r
  <2>5. Orderly(ops, K, {}, {})
    BY <1>7, <1>8, <2>4
  <2> HIDE DEF ops
  <2> QED BY <1>2, <1>10, <2>1, <2>3, <2>5
<1>14. CASE SplitSync(x)
  <2>1. /\ ~split[x].done /\ todo[x] = << >> /\ chan[s] # << >> /\ IsLast(Top(s)) /\ Take(x, s, <<Free(s)>>)
        /\ split' = [split EXCEPT ![x].in = Top(s).s]
    BY <1>14 DEF SplitSync, SplitReads, Reads, IsLast
  <2>2. Edited(split, split', x) /\ split'[x].tab = tab /\ ~split'[x].done
    BY <1>1, <2>1 DEF Edited, IsRec, IsFun
  <2>3. {s} \subseteq {s}
    OBVIOUS
  <2> QED BY <1>8, <1>9, <2>1, <2>2, <2>3
<1>15. CASE SplitSort(x)
  <2>1. ~split[x].done /\ todo[x] = << >> /\ chan[s] # << >> /\ Take(x, s, WriteAll(ss, Raise(Top(s)))) /\ UNCHANGED split
    BY <1>15 DEF SplitSort, SplitReads, Reads, ss
  <2>2. Edited(split, split', x) /\ split'[x].tab = tab /\ ~split'[x].done /\ ~IsLast(Raise(Top(s))) /\ {} \subseteq {s}
    BY <1>1, <2>1, OpUses DEF Edited
  <2> QED BY <1>7, <1>9, <2>1, <2>2
<1>16. CASE SplitTerm(x)
  <2> DEFINE p == WriteAll(ss, Term)
             q == <<Free(s)>>
  <2>1. ~split[x].done /\ split[x].rec = << >> /\ todo[x] = << >> /\ chan[s] # << >> /\ IsLast(Top(s)) /\ Take(x, s, Append(p, Free(s)))
    BY <1>16 DEF SplitTerm, SplitReads, Reads, ss, IsLast
  <2>2. split' = [split EXCEPT ![x].done = TRUE]
    BY <1>16 DEF SplitTerm
  <2>3. Edited(split, split', x) /\ split'[x].tab = tab /\ split'[x].done /\ split'[x].rec = << >>
    BY <1>1, <2>1, <2>2 DEF Edited, IsRec, IsFun
  <2>4. Framed /\ Closing(x, E) /\ \A a \in E : a[2] = x /\ a[1] # "fbback"
    BY <1>2, <1>4, <2>1, <2>3
  <2>5. Orderly(p, {} \cup {}, Range(ss), {}) /\ Range(ss) \subseteq OutsOf(x, E)
    <3>1. IsLast(Term)
      BY OpUses
    <3> QED BY <1>5, <2>1, <3>1, OrderAll DEF K
  <2>6. Orderly(q, {}, {}, {s})
    BY OrderOne, OpUses
  <2>7. Append(p, Free(s)) = p \o q
    BY <2>5, ListConcat DEF Orderly
  <2> HIDE DEF p, q
  <2>8. Orderly(p \o q, {}, Range(ss) \cup {}, {} \cup {s})
    BY <2>5, <2>6, OrderConcat
  <2>9. Range(ss) \cup {} = Range(ss) /\ {} \cup {s} = {s} /\ {} \subseteq OutsOf(x, TaskOuts \ E) /\ {s} \subseteq {s}
    OBVIOUS
  <2>10. Orderly(p \o q, {}, Range(ss), {s})
    BY <2>8, <2>9
  <2>11. Orderly(p \o q, OutsOf(x, TaskOuts \ E), Range(ss), {s})
    BY <2>9, <2>10, OrderMore
  <2>12. Taking(s, {s}) /\ Proceed(x, p \o q, stat)
    BY <1>3, <2>1, <2>7 DEF Take, Taking, Popped
  <2> QED BY <2>1, <2>4, <2>5, <2>11, <2>12, HandlerQuits
<1> QED BY <1>11, <1>12, <1>13, <1>14, <1>15, <1>16 DEF SplitStep, SplitBoxTask

-----------------------------------------------------------------------------
(* The open branches of a dispatcher are listed once each.                 *)
LEMMA OpenList ==
  ASSUME NEW p \in Parallels, NEW live, live \subseteq Branches(p), NEW ss, ss = OpenOuts(p, live)
  PROVE  /\ IsSeq(ss) /\ Range(ss) \subseteq {ParOuts[p][i] : i \in live}
         /\ (\A i, j \in live : ParOuts[p][i] = ParOuts[p][j] => i = j) => \A i, j \in DOMAIN ss : ss[i] = ss[j] => i = j
<1> DEFINE below(i) == {k \in live : k <= i}
           rank == [i \in live |-> Cardinality(below(i))]
           n == Cardinality(live)
           at(j) == CHOOSE i \in live : Cardinality({k \in live : k <= i}) = j
<1>1. Len(ParOuts[p]) \in Nat
  <2>1. IsSeq(ParOuts[p])
    BY ParallelAssumption DEF IsSeq
  <2> QED BY <2>1, SeqFacts
<1>2. live \subseteq Nat /\ IsFiniteSet(live) /\ n \in Nat
  <2>1. IsFiniteSet(Branches(p)) /\ Branches(p) \subseteq Nat
    BY <1>1, FS_Interval, SMTT(30) DEF Branches
  <2> QED BY <2>1, FS_Subset, FS_CardinalityType
<1>3. ASSUME NEW i \in live
      PROVE  IsFiniteSet(below(i)) /\ Cardinality(below(i)) \in 1..n
  <2> DEFINE B == below(i)
  <2>1. B \in SUBSET live /\ i \in B
    BY <1>2
  <2> HIDE DEF B
  <2>2. IsFiniteSet(B) /\ Cardinality(B) <= n
    BY <1>2, <2>1, FS_Subset
  <2>3. Cardinality(B) \in Nat /\ Cardinality(B) # 0
    BY <2>1, <2>2, FS_CardinalityType, FS_EmptySet
  <2>4. Cardinality(B) \in 1..n
    BY <1>2, <2>2, <2>3
  <2> QED BY <2>2, <2>4 DEF B
<1>4. ASSUME NEW i \in live, NEW j \in live, i < j PROVE rank[i] # rank[j]
  <2> DEFINE A == below(i)
             B == below(j)
  <2>1. A \in SUBSET B /\ j \in B /\ j \notin A
    <3>1. i \in Int /\ j \in Int /\ \A k \in live : k \in Int
      BY <1>2
    <3>2. /\ \A k : k \in A <=> k \in live /\ k <= i
          /\ \A k : k \in B <=> k \in live /\ k <= j
      OBVIOUS
    <3>3. \A k \in live : k <= i => k <= j
      BY <1>4, <3>1
    <3>4. j <= j /\ ~(j <= i)
      BY <1>4, <3>1
    <3> HIDE DEF A, B
    <3>5. \A k : k \in A => k \in B
      BY <3>2, <3>3
    <3> QED BY <3>2, <3>4, <3>5
  <2>2. IsFiniteSet(B)
    <3> HIDE DEF below
    <3> QED BY <1>3
  <2>3. rank[i] = Cardinality(A) /\ rank[j] = Cardinality(B)
    <3> HIDE DEF below
    <3> QED OBVIOUS
  <2> HIDE DEF A, B, rank
  <2> QED BY <2>1, <2>2, <2>3, FS_Subset
<1>5. rank \in Injection(live, 1..n)
  <2>1. rank \in [live -> 1..n]
    BY <1>3
  <2>2. ASSUME NEW i \in live, NEW j \in live, rank[i] = rank[j] PROVE i = j
    <3>1. i \in Int /\ j \in Int
      BY <1>2
    <3>2. i < j \/ j < i \/ i = j
      BY <3>1
    <3> HIDE DEF rank
    <3> QED BY <1>4, <2>2, <3>2
  <2> HIDE DEF rank
  <2> QED BY <2>1, <2>2 DEF Injection, IsInjective
<1>6. IsFiniteSet(1..n) /\ Cardinality(1..n) = n
  <2> HIDE DEF n
  <2> QED BY <1>2, FS_Interval
<1>7. rank \in Surjection(live, 1..n)
  <2> HIDE DEF rank
  <2> QED BY <1>5, <1>6, FS_Injection
<1>8. ASSUME NEW j \in 1..n PROVE at(j) \in live /\ rank[at(j)] = j
  <2>1. \E i \in live : rank[i] = j
    <3> HIDE DEF rank, n
    <3> QED BY <1>7 DEF Surjection
  <2>2. \E i \in live : Cardinality({k \in live : k <= i}) = j
    BY <2>1
  <2>3. at(j) \in live /\ Cardinality({k \in live : k <= at(j)}) = j
    BY <2>2
  <2> QED BY <2>3
<1>9. DOMAIN ss = 1..n /\ \A j \in 1..n : ss[j] = ParOuts[p][at(j)]
  BY DEF OpenOuts
<1>10. IsSeq(ss)
  BY OpenSeq
<1> HIDE DEF rank, n, at
<1>11. Range(ss) \subseteq {ParOuts[p][i] : i \in live}
  BY <1>8, <1>9 DEF Range
<1>12. ASSUME \A i, j \in live : ParOuts[p][i] = ParOuts[p][j] => i = j, NEW i \in DOMAIN ss, NEW j \in DOMAIN ss, ss[i] = ss[j] PROVE i = j
  <2>1. at(i) = at(j)
    BY <1>8, <1>9, <1>12
  <2> QED BY <1>8, <1>9, <2>1
<1> QED BY <1>10, <1>11, <1>12

(* What surrounds a step of a dispatcher.                                  *)
LEMMA FramePar ==
  ASSUME IInv, IInv', WInv, UNCHANGED <<src, fbVars, split>>, NEW p \in DOMAIN par, Edited(par, par', p),
         par'[p].start \in Nat, ~par'[p].running => \A i \in Branches(p) : i >= par'[p].start => i \in par'[p].live
  PROVE  Framed
<1>1. LoopState'
  BY DEF WInv, LoopState, Loop, fbVars
<1>2. ASSUME NEW y \in DOMAIN par'
      PROVE  /\ par'[y].start \in Nat
             /\ ~par'[y].running => \A i \in Branches(y) : i >= par'[y].start => i \in par'[y].live
  <2>1. CASE y = p
    BY <2>1
  <2>2. CASE y # p
    <3>1. y \in DOMAIN par /\ par'[y] = par[y]
      BY <2>2 DEF Edited
    <3> QED BY <3>1 DEF WInv, Locals
  <2> QED BY <2>1, <2>2
<1>3. Locals'
  BY <1>2 DEF WInv, Locals, Branches
<1> QED BY <1>1, <1>3 DEF Framed, fbVars

(* The writing ends of a dispatcher to the branches L, and their streams.  *)
ParEnds(p, L)     == {OutEnd("par", p, i, ParOuts[p][i]) : i \in L}
BranchesOf(p, L)  == {ParOuts[p][i] : i \in L}

(* The ends of the branches it stops writing to are closed.                *)
LEMMA ParCloses ==
  ASSUME UNCHANGED <<box, coll, sync, split, star, filter, fbVars>>, NEW p \in DOMAIN par, ~par[p].done, Edited(par, par', p),
         NEW L, L \subseteq par[p].live, par'[p].done => L = {}, ~par'[p].done => par'[p].live = L
  PROVE  Closing(p, ParEnds(p, par[p].live \ L)) /\ ParEnds(p, par[p].live) \subseteq TaskOuts
<1> DEFINE D == ParEnds(p, par[p].live \ L)
<1>1. \A y, M : \A a \in ParEnds(y, M) : a[1] = "par" /\ a[2] = y /\ a[3] \in M
  BY DEF ParEnds, OutEnd
<1>2. \A y, M : \A a : a \in ParEnds(y, M) <=> \E i \in M : a = OutEnd("par", y, i, ParOuts[y][i])
  BY DEF ParEnds
<1>3. /\ \A a : a \in BranchOuts <=> \E y \in DOMAIN par : ~par[y].done /\ a \in ParEnds(y, par[y].live)
      /\ \A a : a \in BranchOuts' <=> \E y \in DOMAIN par : ~par'[y].done /\ a \in ParEnds(y, par'[y].live)
  BY DEF BranchOuts, ParEnds, Edited
<1>4. \A y \in DOMAIN par : y # p => par'[y] = par[y]
  BY DEF Edited
<1>5. ParEnds(p, par[p].live) \subseteq BranchOuts /\ D \subseteq BranchOuts
  <2>1. D \subseteq ParEnds(p, par[p].live)
    BY <1>2
  <2> QED BY <1>3, <2>1
<1>6. ASSUME NEW a \in ParEnds(p, par[p].live) PROVE (~par'[p].done /\ a \in ParEnds(p, par'[p].live)) <=> a \notin D
  <2>1. PICK i \in par[p].live : a = OutEnd("par", p, i, ParOuts[p][i])
    BY <1>2
  <2>2. a[3] = i
    BY <2>1 DEF OutEnd
  <2>3. a \in D <=> i \notin L
    BY <1>1, <1>2, <2>1, <2>2
  <2>4. a \in ParEnds(p, L) <=> i \in L
    BY <1>1, <1>2, <2>1, <2>2
  <2> QED BY <2>3, <2>4
<1>7. ~par'[p].done => ParEnds(p, par'[p].live) \subseteq ParEnds(p, par[p].live)
  BY <1>2
<1>8. \A y : y # p => \A M : \A a \in ParEnds(y, M) : a \notin D /\ a \notin ParEnds(p, par[p].live)
  BY <1>1
<1> HIDE DEF D
<1>9. BranchOuts' = BranchOuts \ D
  <2>1. ASSUME NEW a \in BranchOuts' PROVE a \in BranchOuts \ D
    <3>1. PICK y \in DOMAIN par : ~par'[y].done /\ a \in ParEnds(y, par'[y].live)
      BY <1>3, <2>1
    <3>2. CASE y = p
      BY <1>5, <1>6, <1>7, <3>1, <3>2
    <3>3. CASE y # p
      BY <1>3, <1>4, <1>8, <3>1, <3>3
    <3> QED BY <3>2, <3>3
  <2>2. ASSUME NEW a \in BranchOuts, a \notin D PROVE a \in BranchOuts'
    <3>1. PICK y \in DOMAIN par : ~par[y].done /\ a \in ParEnds(y, par[y].live)
      BY <1>3, <2>2
    <3>2. CASE y = p
      BY <1>3, <1>6, <2>2, <3>1, <3>2
    <3>3. CASE y # p
      BY <1>3, <1>4, <3>1, <3>3
    <3> QED BY <3>2, <3>3
  <2> QED BY <2>1, <2>2
<1>10. TaskOuts' = TaskOuts \ D
  <2>1. ASSUME NEW T, TaskOuts = T \cup BranchOuts, TaskOuts' = T \cup BranchOuts', \A a \in T : a[1] # "par"
        PROVE  TaskOuts' = TaskOuts \ D
    <3>1. \A a \in D : a[1] = "par"
      BY <1>1 DEF D
    <3> QED BY <1>9, <2>1, <3>1
  <2> DEFINE T == OneOuts("box", box, BoxOut) \cup OneOuts("filter", filter, FilterOut)
                    \cup OneOuts("sync", sync, SyncOut) \cup OneOuts("coll", coll, CollOut)
                    \cup OneOuts("split", split, SplitInitial)
                    \cup OneOuts("star", star, StarOut) \cup OneOuts("next", star, StarNext)
                    \cup FbOuts("fbcoll", fbcoll, FbColl, IntoOp) \cup FbOuts("fbdisp", fbdisp, FbDisp, FbOut)
                    \cup FbOuts("fbback", fbdisp, FbDisp, BackIn) \cup ReplicaOuts
  <2>2. TaskOuts = T \cup BranchOuts
    BY DEF TaskOuts
  <2>3. TaskOuts' = T \cup BranchOuts'
    BY OutsSame DEF TaskOuts, fbVars
  <2>4. \A a \in T : a[1] # "par"
    BY OutKinds
  <2> HIDE DEF T
  <2> QED BY <2>1, <2>2, <2>3, <2>4
<1>11. D \subseteq TaskOuts /\ ParEnds(p, par[p].live) \subseteq TaskOuts
  BY <1>5 DEF TaskOuts
<1>12. \A a \in D : a[2] = p
  BY <1>1 DEF D
<1> QED BY <1>10, <1>11, <1>12 DEF Closing, D

(* A dispatcher goes on to orderly operations, keeping the branches L.     *)
LEMMA ParTurn ==
  ASSUME Framed, UNCHANGED <<box, coll, sync, split, star, filter, fbVars>>, NEW p \in DOMAIN par, ~par[p].done, todo[p] = << >>,
         Edited(par, par', p), NEW L, L \subseteq par[p].live, par'[p].done => L = {}, ~par'[p].done => par'[p].live = L,
         NEW s, NEW F, Taking(s, F), NEW ops, NEW C, Orderly(ops, BranchesOf(p, L), C, F),
         C \subseteq BranchesOf(p, par[p].live \ L), Proceed(p, ops, stat)
  PROVE  WInv'
<1> DEFINE D == ParEnds(p, par[p].live \ L)
<1>1. Closing(p, D) /\ ParEnds(p, par[p].live) \subseteq TaskOuts
  BY ParCloses
<1>2. \A i : LET a == OutEnd("par", p, i, ParOuts[p][i]) IN a[1] = "par" /\ a[2] = p /\ a[3] = i /\ a[4] = ParOuts[p][i]
  BY DEF OutEnd
<1>3. \A M : \A a : a \in ParEnds(p, M) <=> \E i \in M : a = OutEnd("par", p, i, ParOuts[p][i])
  BY DEF ParEnds
<1>4. \A a \in D : a[1] # "fbback"
  BY <1>2, <1>3
<1>5. BranchesOf(p, L) \subseteq OutsOf(p, TaskOuts \ D)
  <2>1. ASSUME NEW i \in L PROVE ParOuts[p][i] \in OutsOf(p, TaskOuts \ D)
    <3> DEFINE a == OutEnd("par", p, i, ParOuts[p][i])
    <3>1. a[2] = p /\ a[3] = i /\ a[4] = ParOuts[p][i]
      BY <1>2
    <3>2. a \in TaskOuts
      BY <1>1, <1>3
    <3>3. a \notin D
      BY <1>2, <1>3
    <3> HIDE DEF a, D
    <3> QED BY <3>1, <3>2, <3>3 DEF OutsOf
  <2> HIDE DEF D
  <2> QED BY <2>1 DEF BranchesOf
<1>6. BranchesOf(p, par[p].live \ L) \subseteq OutsOf(p, D)
  <2>1. ASSUME NEW i \in par[p].live \ L PROVE ParOuts[p][i] \in OutsOf(p, D)
    <3> DEFINE a == OutEnd("par", p, i, ParOuts[p][i])
    <3>1. a[2] = p /\ a[4] = ParOuts[p][i] /\ a \in D
      BY <1>2, <1>3
    <3> HIDE DEF a, D
    <3> QED BY <3>1 DEF OutsOf
  <2> HIDE DEF D
  <2> QED BY <2>1 DEF BranchesOf
<1> HIDE DEF D
<1>7. Orderly(ops, OutsOf(p, TaskOuts \ D), C, F)
  BY <1>5, OrderMore
<1>8. C \subseteq OutsOf(p, D)
  BY <1>6
<1> QED BY <1>1, <1>4, <1>7, <1>8, HandlerQuits

(* What a dispatcher sends to its open branches, ending nothing, and the   *)
(* records with which it ends some of them.                                *)
LEMMA BranchOrder ==
  ASSUME NEW p \in Parallels, NEW live, live \subseteq Branches(p), \A i, j \in live : ParOuts[p][i] = ParOuts[p][j] => i = j,
         NEW r, NEW L, L \subseteq live
  PROVE  /\ ~IsLast(r) => /\ Orderly(WriteAll(OpenOuts(p, L), r), Range(OpenOuts(p, L)), {}, {})
                          /\ Orderly(WriteAll(OpenOuts(p, L), r), BranchesOf(p, live), {}, {})
                          /\ \A i, det, counter : Orderly(PutToBuffers(p, live, i, r, det, counter), BranchesOf(p, live), {}, {})
         /\ IsLast(r) => \A K : Orderly(WriteAll(OpenOuts(p, L), r), K, Range(OpenOuts(p, L)), {})
         /\ Range(OpenOuts(p, L)) \subseteq BranchesOf(p, L)
<1>1. ASSUME NEW M, M \subseteq live, NEW ss, ss = OpenOuts(p, M)
      PROVE  IsSeq(ss) /\ Range(ss) \subseteq BranchesOf(p, M) /\ Range(ss) \subseteq BranchesOf(p, live)
             /\ \A i, j \in DOMAIN ss : ss[i] = ss[j] => i = j
  <2>1. M \subseteq Branches(p) /\ \A i, j \in M : ParOuts[p][i] = ParOuts[p][j] => i = j
    BY <1>1
  <2>2. IsSeq(ss) /\ Range(ss) \subseteq BranchesOf(p, M) /\ \A i, j \in DOMAIN ss : ss[i] = ss[j] => i = j
    BY <1>1, <2>1, OpenList DEF BranchesOf
  <2>3. BranchesOf(p, M) \subseteq BranchesOf(p, live)
    BY <1>1 DEF BranchesOf
  <2> QED BY <2>2, <2>3
<1>2. ASSUME NEW M, M \subseteq live, NEW q
      PROVE  /\ ~IsLast(q) => /\ Orderly(WriteAll(OpenOuts(p, M), q), Range(OpenOuts(p, M)), {}, {})
                              /\ Orderly(WriteAll(OpenOuts(p, M), q), BranchesOf(p, live), {}, {})
             /\ IsLast(q) => \A K : Orderly(WriteAll(OpenOuts(p, M), q), K, Range(OpenOuts(p, M)), {})
             /\ Range(OpenOuts(p, M)) \subseteq BranchesOf(p, M)
  <2> DEFINE ss == OpenOuts(p, M)
  <2>1. IsSeq(ss) /\ Range(ss) \subseteq BranchesOf(p, M) /\ Range(ss) \subseteq BranchesOf(p, live)
        /\ \A i, j \in DOMAIN ss : ss[i] = ss[j] => i = j
    BY <1>1, <1>2
  <2> HIDE DEF ss
  <2>2. Range(ss) \subseteq Range(ss)
    OBVIOUS
  <2>3. ~IsLast(q) => Orderly(WriteAll(ss, q), Range(ss), {}, {}) /\ Orderly(WriteAll(ss, q), BranchesOf(p, live), {}, {})
    BY <2>1, <2>2, OrderAll
  <2>4. IsLast(q) => \A K : Orderly(WriteAll(ss, q), K, Range(ss), {})
    BY <2>1, OrderAll
  <2> QED BY <2>1, <2>3, <2>4 DEF ss
<1>3. ASSUME ~IsLast(r), NEW i, NEW det, NEW counter
      PROVE  Orderly(PutToBuffers(p, live, i, r, det, counter), BranchesOf(p, live), {}, {})
  <2> DEFINE a == IF i \in live THEN <<Write(ParOuts[p][i], r)>> ELSE << >>
             b == IF det THEN WriteAll(OpenOuts(p, live), Sort(0, counter)) ELSE << >>
             K == BranchesOf(p, live)
  <2>1. Orderly(a, K, {}, {})
    <3>1. CASE i \in live
      <4>1. ParOuts[p][i] \in K
        BY <3>1 DEF BranchesOf
      <4>2. Uses(Write(ParOuts[p][i], r)) /\ ~IsEnding(Write(ParOuts[p][i], r)) /\ Write(ParOuts[p][i], r).s \in K
        BY <1>3, <4>1, OpUses
      <4> HIDE DEF K
      <4> QED BY <3>1, <4>2, OrderOne
    <3>2. CASE i \notin live
      BY <3>2, OrderOne
    <3> QED BY <3>1, <3>2
  <2>2. Orderly(b, K, {}, {})
    <3>1. live \subseteq live /\ ~IsLast(Sort(0, counter)) /\ Orderly(<< >>, K, {}, {})
      BY OrderOne, OpUses
    <3>2. Orderly(WriteAll(OpenOuts(p, live), Sort(0, counter)), K, {}, {})
      BY <1>2, <3>1
    <3> HIDE DEF K
    <3> QED BY <3>1, <3>2
  <2>3. PutToBuffers(p, live, i, r, det, counter) = a \o b
    BY DEF PutToBuffers
  <2> HIDE DEF a, b, K
  <2>4. Orderly(a \o b, K, {}, {})
    BY <2>1, <2>2, OrderPlain
  <2> QED BY <2>3, <2>4 DEF K
<1> QED BY <1>2, <1>3

(* Every step of a parallel dispatcher.                                    *)
LEMMA ParWrites ==
  ASSUME IInv, IInv', WInv, NEW p \in DOMAIN par, ParStep(p)
  PROVE  WInv'
<1> DEFINE s == par[p].in
           live == par[p].live
           Fixed == UNCHANGED <<box, coll, sync, split, star, filter, fbVars>>
<1>1. /\ IsFun(par) /\ IsRec(par[p], {"in", "live", "counter", "junk", "bad", "start", "running", "done"}) /\ p \in Parallels
      /\ live \subseteq Branches(p) /\ (par[p].done => par[p].running)
      /\ Fixed /\ UNCHANGED <<src, fbVars, split>>
  BY DEF IInv, Shape, ParShape, ParStep
<1>2. par[p].start \in Nat /\ (~par[p].running => \A i \in Branches(p) : i >= par[p].start => i \in live)
  BY DEF WInv, Locals
<1>3. ASSUME ~par[p].done PROVE s \in Stream
  BY <1>3, InOwn, InFacts, ReadsStream DEF Held, Reading, IInv
<1>4. ASSUME ~par[p].done PROVE \A i, j \in live : ParOuts[p][i] = ParOuts[p][j] => i = j
  <2> DEFINE a(i) == OutEnd("par", p, i, ParOuts[p][i])
  <2>1. \A i \in live : a(i) \in Outs /\ a(i)[3] = i /\ a(i)[4] = ParOuts[p][i]
    BY <1>4 DEF Outs, TaskOuts, BranchOuts, OutEnd
  <2> HIDE DEF a
  <2> QED BY <2>1, WiringFacts DEF WInv
<1>5. ASSUME NEW L, L \subseteq live, ~par[p].done, NEW r
      PROVE  /\ ~IsLast(r) => /\ Orderly(WriteAll(OpenOuts(p, L), r), Range(OpenOuts(p, L)), {}, {})
                              /\ Orderly(WriteAll(OpenOuts(p, L), r), BranchesOf(p, live), {}, {})
                              /\ \A i, det, counter : Orderly(PutToBuffers(p, live, i, r, det, counter), BranchesOf(p, live), {}, {})
             /\ IsLast(r) => \A K : Orderly(WriteAll(OpenOuts(p, L), r), K, Range(OpenOuts(p, L)), {})
             /\ Range(OpenOuts(p, L)) \subseteq BranchesOf(p, L)
  BY <1>1, <1>4, <1>5, BranchOrder
<1>6. ASSUME Edited(par, par', p), par'[p].start = par[p].start, par'[p].running, ~par[p].done, todo[p] = << >>,
             NEW L, L \subseteq live, par'[p].done => L = {}, ~par'[p].done => par'[p].live = L,
             NEW F, Taking(s, F), NEW ops, NEW C, Orderly(ops, BranchesOf(p, L), C, F),
             C \subseteq BranchesOf(p, live \ L), Proceed(p, ops, stat)
      PROVE  WInv'
  <2>1. Framed
    BY <1>1, <1>2, <1>6, FramePar
  <2> QED BY <1>1, <1>6, <2>1, ParTurn
<1>7. ASSUME Edited(par, par', p), par'[p].start = par[p].start, par'[p].running, ~par[p].done, ~par'[p].done, todo[p] = << >>, par'[p].live = live,
             NEW F, Taking(s, F), NEW ops, Orderly(ops, BranchesOf(p, live), {}, F), Proceed(p, ops, stat)
      PROVE  WInv'
  <2>1. live \subseteq live /\ {} \subseteq BranchesOf(p, live \ live)
    OBVIOUS
  <2>2. Framed
    BY <1>1, <1>2, <1>7, FramePar
  <2> QED BY <1>1, <1>7, <2>1, <2>2, ParTurn
<1>9. CASE StartBranch(p)
  <2> DEFINE i == par[p].start
             L == live \ {i}
             o == ParOuts[p][i]
             a == PutToBuffers(p, live, i, Trigger, IsDet[p], par[p].counter)
             b == <<Write(o, Term)>>
             c == <<Write(o, Sort(0, par[p].counter))>>
  <2>1. ~par[p].running /\ i \in Branches(p) /\ todo[p] = << >> /\ UNCHANGED chan
    BY <1>9 DEF StartBranch
  <2>2. ~par[p].done /\ i \in live /\ i \in Nat /\ i >= i /\ Taking(s, {})
    BY <1>1, <1>2, <2>1 DEF Taking
  <2>3. ASSUME Edited(par, par', p), par'[p].start = i + 1, NEW M, par'[p].live = M, L \subseteq M PROVE Framed
    <3>1. par'[p].start \in Nat
      BY <1>2, <2>3
    <3>2. ASSUME NEW j \in Branches(p), j >= i + 1 PROVE j \in M
      <4>1. j \in Int /\ j # i /\ j >= i
        BY <2>2, <3>2 DEF Branches
      <4> QED BY <1>2, <2>1, <2>3, <4>1
    <3> HIDE DEF L
    <3> QED BY <1>1, <2>3, <3>1, <3>2, FramePar
  <2>4. CASE /\ Proceed(p, a \o b, stat)
             /\ par' = [par EXCEPT ![p].start = i + 1, ![p].live = @ \ {i},
                                   ![p].counter = IF IsDet[p] THEN @ + 1 ELSE @]
    <3>1. Edited(par, par', p) /\ par'[p].start = i + 1 /\ par'[p].live = L /\ ~par'[p].done
      BY <1>1, <2>2, <2>4 DEF Edited, IsRec, IsFun
    <3>2. L \subseteq live /\ live \ L = {i} /\ L \subseteq L
      BY <2>2
    <3>3. BranchesOf(p, live) = BranchesOf(p, L) \cup {o} /\ {o} \subseteq BranchesOf(p, live \ L)
      BY <2>2 DEF BranchesOf
    <3>4. Orderly(a, BranchesOf(p, live), {}, {})
      BY <1>5, <2>2, <3>2, OpUses
    <3>5. Orderly(b, BranchesOf(p, L), {o}, {})
      BY OrderOne, OpUses
    <3> HIDE DEF a, b, L, o, live
    <3>6. Orderly(a \o b, BranchesOf(p, L), {} \cup {o}, {} \cup {}) /\ {} \cup {o} = {o} /\ {} \cup {} = {}
      <4>1. {} \cap {o} = {} /\ {} \cap BranchesOf(p, L) = {}
        OBVIOUS
      <4> QED BY <3>3, <3>4, <3>5, <4>1, OrderConcat
    <3>7. Orderly(a \o b, BranchesOf(p, L), {o}, {})
      BY <3>6
    <3>8. Framed
      BY <2>3, <3>1, <3>2
    <3> QED BY <1>1, <2>1, <2>2, <2>4, <3>1, <3>2, <3>3, <3>7, <3>8, ParTurn DEF live
  <2>5. CASE Proceed(p, c, stat) /\ par' = [par EXCEPT ![p].start = i + 1]
    <3>1. Edited(par, par', p) /\ par'[p].start = i + 1 /\ par'[p].live = live /\ ~par'[p].done
      BY <1>1, <2>2, <2>5 DEF Edited, IsRec, IsFun
    <3>2. Framed
      BY <2>3, <3>1
    <3>3. o \in BranchesOf(p, live)
      BY <2>2 DEF BranchesOf
    <3>4. Orderly(c, BranchesOf(p, live), {}, {})
      <4> DEFINE w == Write(o, Sort(0, par[p].counter))
      <4>1. Uses(w) /\ ~IsEnding(w) /\ w.s \in BranchesOf(p, live)
        BY <3>3, OpUses
      <4> HIDE DEF w, o
      <4> QED BY <4>1, OrderOne DEF w
    <3>5. live \subseteq live /\ {} \subseteq BranchesOf(p, live \ live)
      OBVIOUS
    <3> HIDE DEF c
    <3> QED BY <1>1, <2>1, <2>2, <2>5, <3>1, <3>2, <3>4, <3>5, ParTurn
  <2> QED BY <1>9, <2>4, <2>5 DEF StartBranch

<1>10. CASE Started(p)
  <2> DEFINE left == Cardinality(live)
             w    == WriteAll(OpenOuts(p, live), Sync(s, NULL))
             ops  == IF left = 1 THEN w ELSE << >>
             C    == Range(OpenOuts(p, live))
  <2>1. ~par[p].running /\ todo[p] = << >> /\ UNCHANGED chan /\ Proceed(p, ops, stat)
    BY <1>10 DEF Started
  <2>2. PICK junk : par' = [par EXCEPT ![p].counter = @ + 1, ![p].junk = junk, ![p].running = TRUE, ![p].done = left <= 1]
    BY <1>10 DEF Started
  <2>3. ~par[p].done /\ Taking(s, {})
    BY <1>1, <2>1 DEF Taking
  <2> HIDE DEF left
  <2>4. /\ Edited(par, par', p) /\ par'[p].start = par[p].start /\ par'[p].running
        /\ par'[p].live = live /\ par'[p].done = (left <= 1)
    BY <1>1, <2>2 DEF Edited, IsRec, IsFun
  <2>5. CASE left = 1
    <3>a. left <= 1
      BY <2>5
    <3>1. par'[p].done
      BY <2>4, <3>a
    <3>2. live \subseteq live /\ IsLast(Sync(s, NULL)) /\ live \ {} = live /\ {} \subseteq live
      BY OpUses
    <3>3. Orderly(w, BranchesOf(p, {}), C, {}) /\ C \subseteq BranchesOf(p, live)
      BY <1>5, <2>3, <3>2
    <3>4. Proceed(p, w, stat)
      BY <2>1, <2>5
    <3> HIDE DEF w, C, ops, live
    <3> QED BY <1>6, <2>1, <2>3, <2>4, <3>1, <3>2, <3>3, <3>4
  <2>6. CASE left # 1 /\ left <= 1
    <3>1. par'[p].done
      BY <2>4, <2>6
    <3>2. live \ {} = live /\ {} \subseteq live /\ {} \subseteq BranchesOf(p, live)
      OBVIOUS
    <3>3. Orderly(<< >>, BranchesOf(p, {}), {}, {})
      BY OrderOne
    <3>4. Proceed(p, << >>, stat)
      BY <2>1, <2>6
    <3> HIDE DEF ops, live
    <3>5. PICK C0 : C0 = {}
      OBVIOUS
    <3>6. Orderly(<< >>, BranchesOf(p, {}), C0, {}) /\ C0 \subseteq BranchesOf(p, live \ {})
      BY <3>2, <3>3, <3>5
    <3> QED BY <1>6, <2>1, <2>3, <2>4, <3>1, <3>2, <3>4, <3>6
  <2>7. CASE left # 1 /\ ~(left <= 1)
    <3>1. ~par'[p].done
      BY <2>4, <2>7
    <3>2. Orderly(<< >>, BranchesOf(p, live), {}, {})
      BY OrderOne
    <3>3. Proceed(p, << >>, stat)
      BY <2>1, <2>7
    <3> HIDE DEF ops
    <3> QED BY <1>7, <2>1, <2>3, <2>4, <3>1, <3>2, <3>3
  <2> QED BY <2>5, <2>6, <2>7
<1>11. ASSUME NEW ops, NEW F, F \subseteq {s}, s \in F => IsLast(Top(s)), chan[s] # << >>, ~par[p].done, Take(p, s, ops)
       PROVE  Taking(s, F) /\ Proceed(p, ops, stat)
  BY <1>3, <1>11 DEF Take, Taking, Popped
<1>12. CASE ParData(p)
  <2>1. /\ ~par[p].done /\ par[p].running /\ todo[p] = << >> /\ chan[s] # << >> /\ ~IsLast(Top(s))
        /\ par' = [par EXCEPT ![p].counter = IF IsDet[p] THEN @ + 1 ELSE @]
    BY <1>12 DEF ParData, ParReads, Reads, IsLast
  <2>2. PICK i : Take(p, s, PutToBuffers(p, live, i, Top(s), IsDet[p], par[p].counter))
    BY <1>12 DEF ParData
  <2> DEFINE ops == PutToBuffers(p, live, i, Top(s), IsDet[p], par[p].counter)
  <2>3. live \subseteq live /\ {} \subseteq {s}
    OBVIOUS
  <2>4. Orderly(ops, BranchesOf(p, live), {}, {})
    BY <1>5, <2>1, <2>3
  <2>5. /\ Edited(par, par', p) /\ par'[p].start = par[p].start
        /\ par'[p].live = live /\ par'[p].running /\ ~par'[p].done
    BY <1>1, <2>1 DEF Edited, IsRec, IsFun
  <2>6. Take(p, s, ops)
    BY <2>2
  <2> HIDE DEF ops
  <2>7. Taking(s, {}) /\ Proceed(p, ops, stat)
    BY <1>11, <2>1, <2>3, <2>6
  <2> QED BY <1>7, <2>1, <2>4, <2>5, <2>7
<1>13. CASE ParSort(p)
  <2> DEFINE ops == WriteAll(OpenOuts(p, live), Raise(Top(s)))
  <2>1. ~par[p].done /\ par[p].running /\ todo[p] = << >> /\ chan[s] # << >> /\ Take(p, s, ops) /\ UNCHANGED par
    BY <1>13 DEF ParSort, ParReads, Reads
  <2>2. live \subseteq live /\ {} \subseteq {s} /\ ~IsLast(Raise(Top(s)))
    BY OpUses
  <2>3. Orderly(ops, BranchesOf(p, live), {}, {})
    BY <1>5, <2>1, <2>2
  <2>4. /\ Edited(par, par', p) /\ par'[p].start = par[p].start
        /\ par'[p].live = live /\ par'[p].running /\ ~par'[p].done
    BY <1>1, <2>1 DEF Edited
  <2> HIDE DEF ops
  <2>5. Taking(s, {}) /\ Proceed(p, ops, stat)
    <3>1. Take(p, s, ops) /\ ~par[p].done /\ chan[s] # << >> /\ {} \subseteq {s} /\ s \notin {}
      BY <2>1
    <3> QED BY <1>3, <3>1 DEF Take, Taking, Popped
  <2> QED BY <1>7, <2>1, <2>3, <2>4, <2>5
<1>14. CASE ParTerm(p)
  <2> DEFINE w == WriteAll(OpenOuts(p, live), Term)
             C == Range(OpenOuts(p, live))
             q == <<Free(s)>>
  <2>1. /\ ~par[p].done /\ par[p].running /\ todo[p] = << >> /\ chan[s] # << >> /\ IsLast(Top(s)) /\ Take(p, s, Append(w, Free(s)))
        /\ par' = [par EXCEPT ![p].done = TRUE]
    BY <1>14 DEF ParTerm, ParReads, Reads, IsLast
  <2>2. Edited(par, par', p) /\ par'[p].start = par[p].start /\ par'[p].running /\ par'[p].done
    BY <1>1, <2>1 DEF Edited, IsRec, IsFun
  <2>3. live \subseteq live /\ IsLast(Term) /\ live \ {} = live /\ {} \subseteq live /\ {s} \subseteq {s}
    BY OpUses
  <2>4. Orderly(w, {}, C, {}) /\ C \subseteq BranchesOf(p, live)
    BY <1>5, <2>1, <2>3
  <2>5. Orderly(q, {}, {}, {s})
    BY OrderOne, OpUses
  <2>6. Append(w, Free(s)) = w \o q
    BY <2>4, ListConcat DEF Orderly
  <2> HIDE DEF w, q, C
  <2>7. Orderly(w \o q, {}, C \cup {}, {} \cup {s}) /\ C \cup {} = C /\ {} \cup {s} = {s} /\ C \cap {} = {}
    BY <2>4, <2>5, OrderThen
  <2>8. Orderly(w \o q, {}, C, {s}) /\ {} \subseteq BranchesOf(p, {})
    BY <2>7
  <2>9. Orderly(w \o q, BranchesOf(p, {}), C, {s})
    BY <2>3, <2>8, OrderMore
  <2>10. Taking(s, {s}) /\ Proceed(p, w \o q, stat)
    BY <1>11, <2>1, <2>3, <2>6
  <2> HIDE DEF live
  <2> QED BY <1>6, <2>1, <2>2, <2>3, <2>4, <2>9, <2>10
<1>15. CASE ParSync(p)
  <2>1. /\ ~par[p].done /\ par[p].running /\ todo[p] = << >> /\ chan[s] # << >> /\ IsLast(Top(s)) /\ Take(p, s, <<Free(s)>>)
        /\ par' = [par EXCEPT ![p].in = Top(s).s]
    BY <1>15 DEF ParSync, ParReads, Reads, IsLast
  <2>2. /\ Edited(par, par', p) /\ par'[p].start = par[p].start
        /\ par'[p].live = live /\ par'[p].running /\ ~par'[p].done
    BY <1>1, <2>1 DEF Edited, IsRec, IsFun
  <2>3. Orderly(<<Free(s)>>, BranchesOf(p, live), {}, {s}) /\ {s} \subseteq {s}
    BY OrderOne, OpUses
  <2> QED BY <1>7, <1>11, <2>1, <2>2, <2>3
<1>16. CASE ParSyncTyped(p)
  <2> DEFINE r    == Top(s)
             dead == Affected(p, r.ty)
             L    == live \ dead
             M    == live \cap dead
             last == Cardinality(L) = 1
             term == WriteAll(OpenOuts(p, M), Term)
             sort == WriteAll(OpenOuts(p, L), Sort(0, -1))
             sync2 == WriteAll(OpenOuts(p, L), Sync(r.s, NULL))
             q    == <<Free(s)>>
             B    == Range(OpenOuts(p, M))
             D    == Range(OpenOuts(p, L))
             mid  == IF last THEN sort \o sync2 ELSE << >>
  <2>1. ~par[p].done /\ par[p].running /\ todo[p] = << >> /\ chan[s] # << >> /\ IsLast(Top(s))
    BY <1>16 DEF ParSyncTyped, ParReads, Reads, IsLast
  <2>2. /\ Take(p, s, (term \o mid) \o q)
        /\ par' = [par EXCEPT ![p].live = L, ![p].counter = @ + 1, ![p].done = last,
                              ![p].in = IF last THEN @ ELSE r.s,
                              ![p].bad = @ \/ ~(dead \subseteq par[p].live)]
    BY <1>16 DEF ParSyncTyped
  <2> HIDE DEF dead, last
  <2>3. /\ Edited(par, par', p) /\ par'[p].start = par[p].start
        /\ par'[p].live = L /\ par'[p].running /\ par'[p].done = last
    BY <1>1, <2>1, <2>2, ZenonT(60) DEF Edited, IsRec, IsFun
  <2>4. L \subseteq live /\ M \subseteq live /\ live \ L = M /\ IsLast(Term) /\ ~IsLast(Sort(0, -1)) /\ IsLast(Sync(r.s, NULL)) /\ {s} \subseteq {s}
    BY OpUses
  <2>5. /\ \A K : Orderly(term, K, B, {})
        /\ Orderly(sort, D, {}, {})
        /\ \A K : Orderly(sync2, K, D, {})
        /\ B \subseteq BranchesOf(p, M) /\ D \subseteq BranchesOf(p, L)
    BY <1>5, <2>1, <2>4
  <2>6. B \cap BranchesOf(p, L) = {}
    <3>1. ASSUME NEW i \in M, NEW j \in L PROVE ParOuts[p][i] # ParOuts[p][j]
      BY <1>4, <2>1
    <3>2. BranchesOf(p, M) \cap BranchesOf(p, L) = {}
      BY <3>1 DEF BranchesOf
    <3> QED BY <2>5, <3>2
  <2>7. \A K : Orderly(q, K, {}, {s}) /\ Orderly(<< >>, K, {}, {})
    BY OrderOne, OpUses
  <2>8. Taking(s, {s}) /\ Proceed(p, (term \o mid) \o q, stat)
    BY <1>11, <2>1, <2>2, <2>4
  <2> HIDE DEF term, sort, sync2, q, B, D, L, M, live, r
  <2>9. CASE last
    <3>1. mid = sort \o sync2 /\ par'[p].done
      BY <2>3, <2>9
    <3>2. Orderly(sort \o sync2, {}, {} \cup D, {} \cup {}) /\ {} \cup D = D /\ {} \cup {} = {} /\ {} \cap D = {}
      BY <2>5, OrderThen
    <3>3. Orderly(mid, {}, D, {})
      BY <3>1, <3>2
    <3> HIDE DEF mid
    <3>4. B \cap D = {}
      BY <2>5, <2>6
    <3>5. Orderly(term \o mid, {}, B \cup D, {} \cup {})
      BY <2>5, <3>3, <3>4, OrderThen
    <3>6. Orderly(term \o mid, {}, B \cup D, {})
      BY <3>2, <3>5
    <3>7. /\ (B \cup D) \cup {} = B \cup D /\ {} \cup {s} = {s} /\ (B \cup D) \cap {} = {} /\ {} \subseteq BranchesOf(p, {}) /\ live \ {} = live
          /\ {} \subseteq live
      OBVIOUS
    <3>8. Orderly((term \o mid) \o q, {}, (B \cup D) \cup {}, {} \cup {s})
      BY <2>7, <3>6, <3>7, OrderThen
    <3>9. Orderly((term \o mid) \o q, {}, B \cup D, {s})
      BY <3>7, <3>8
    <3>10. Orderly((term \o mid) \o q, BranchesOf(p, {}), B \cup D, {s})
      BY <2>4, <3>7, <3>9, OrderMore
    <3>11. B \cup D \subseteq BranchesOf(p, live)
      <4>1. BranchesOf(p, L) \subseteq BranchesOf(p, live) /\ BranchesOf(p, M) \subseteq BranchesOf(p, live)
        BY <2>4 DEF BranchesOf
      <4> QED BY <2>5, <4>1
    <3> QED BY <1>6, <2>1, <2>3, <2>8, <3>1, <3>7, <3>10, <3>11
  <2>10. CASE ~last
    <3> DEFINE K == BranchesOf(p, L)
    <3>1. mid = << >> /\ ~par'[p].done
      BY <2>3, <2>10
    <3>2. Orderly(term, K \cup {}, B, {}) /\ Orderly(mid, K, {}, {}) /\ Orderly(q, K, {}, {s})
      BY <2>5, <2>7, <3>1
    <3>3. B \cap {} = {} /\ B \cap K = {} /\ K \cup {} = K /\ B \cup {} = B /\ {} \cup {} = {} /\ {} \cup {s} = {s}
      BY <2>6
    <3> HIDE DEF mid, K
    <3>4. Orderly(term \o mid, K, B \cup {}, {} \cup {})
      BY <3>2, <3>3, OrderConcat
    <3>5. Orderly(term \o mid, K \cup {}, B, {})
      BY <3>3, <3>4
    <3>6. Orderly((term \o mid) \o q, K, B \cup {}, {} \cup {s})
      BY <3>2, <3>3, <3>5, OrderConcat
    <3>7. Orderly((term \o mid) \o q, BranchesOf(p, L), B, {s})
      BY <3>3, <3>6 DEF K
    <3>8. B \subseteq BranchesOf(p, live \ L)
      BY <2>4, <2>5
    <3> QED BY <1>6, <2>1, <2>3, <2>4, <2>8, <3>1, <3>7, <3>8
  <2> QED BY <2>9, <2>10
<1> QED BY <1>9, <1>10, <1>12, <1>13, <1>14, <1>15, <1>16 DEF ParStep, ParallelBoxTask

-----------------------------------------------------------------------------
(* One of the entities of a feedback combinator changes its state.         *)
LEMMA FbOutStep ==
  ASSUME NEW k, NEW v, NEW w, NEW h, NEW o, NEW f \in DOMAIN v, ~v[f].done, Edited(v, w, f),
         NEW S, S = FbOuts(k, v, h, o), NEW T, T = FbOuts(k, w, h, o), NEW a, a = OutEnd(k, h[f], f, o[f])
  PROVE  a \in S /\ (~w[f].done => T = S) /\ (w[f].done => T = S \ {a})
<1>1. OutEnd(k, h[f], f, o[f]) \in FbOuts(k, v, h, o)
  BY DEF FbOuts
<1>2. \A z : z \in FbOuts(k, v, h, o) <=> \E x \in DOMAIN v : ~v[x].done /\ z = OutEnd(k, h[x], x, o[x])
  BY DEF FbOuts
<1>3. \A z : z \in FbOuts(k, w, h, o) <=> \E x \in DOMAIN v : ~w[x].done /\ z = OutEnd(k, h[x], x, o[x])
  BY DEF FbOuts, Edited
<1>4. \A x \in DOMAIN v : x # f => w[x] = v[x] /\ OutEnd(k, h[x], x, o[x]) # OutEnd(k, h[f], f, o[f])
  BY DEF Edited, OutEnd
<1>5. ASSUME ~w[f].done PROVE FbOuts(k, w, h, o) = FbOuts(k, v, h, o)
  <2>1. \A x \in DOMAIN v : w[x].done <=> v[x].done
    BY <1>4, <1>5
  <2> QED BY <1>2, <1>3, <2>1
<1>6. ASSUME w[f].done PROVE FbOuts(k, w, h, o) = FbOuts(k, v, h, o) \ {OutEnd(k, h[f], f, o[f])}
  <2>1. \A x \in DOMAIN v : ~w[x].done <=> x # f /\ ~v[x].done
    BY <1>4, <1>6
  <2> QED BY <1>2, <1>3, <1>4, <2>1
<1> QED BY <1>1, <1>5, <1>6

(* The writing end of a feedback collector, and those of a dispatcher.     *)
LEMMA FbCollCloses ==
  ASSUME UNCHANGED <<box, coll, par, sync, split, star, filter, fbdisp, fbbuf>>, NEW f \in DOMAIN fbcoll, ~fbcoll[f].done,
         Edited(fbcoll, fbcoll', f), NEW a, a = OutEnd("fbcoll", FbColl[f], f, IntoOp[f])
  PROVE  /\ a \in TaskOuts /\ a[1] = "fbcoll" /\ a[2] = FbColl[f] /\ a[4] = IntoOp[f]
         /\ ~fbcoll'[f].done => TaskOuts' = TaskOuts
         /\ fbcoll'[f].done => Closing(FbColl[f], {a})
<1> DEFINE S == FbOuts("fbcoll", fbcoll, FbColl, IntoOp)
<1>1. S' = FbOuts("fbcoll", fbcoll', FbColl, IntoOp)
  BY DEF FbOuts
<1>2. /\ a \in S /\ (~fbcoll'[f].done => S' = S) /\ (fbcoll'[f].done => S' = S \ {a})
  BY <1>1, FbOutStep
<1>3. a[1] = "fbcoll" /\ a[2] = FbColl[f] /\ a[4] = IntoOp[f] /\ a \in TaskOuts
  BY <1>2, OutFacts DEF TaskOuts
<1>4. ~fbcoll'[f].done => TaskOuts' = TaskOuts
  BY <1>2, OutsSame DEF TaskOuts
<1>5. fbcoll'[f].done => TaskOuts' = TaskOuts \ {a}
  BY <1>2, <1>3, OutsSame, OutKinds DEF TaskOuts
<1> QED BY <1>3, <1>4, <1>5 DEF Closing

(* A feedback dispatcher that ends closes its end and that to the buffer.  *)
LEMMA FbDispCloses ==
  ASSUME UNCHANGED <<box, coll, par, sync, split, star, filter, fbcoll, fbbuf>>, NEW f \in DOMAIN fbdisp, ~fbdisp[f].done,
         Edited(fbdisp, fbdisp', f), NEW a, a = OutEnd("fbdisp", FbDisp[f], f, FbOut[f]), NEW b, b = OutEnd("fbback", FbDisp[f], f, BackIn[f])
  PROVE  /\ a \in TaskOuts /\ a[1] = "fbdisp" /\ a[2] = FbDisp[f] /\ a[4] = FbOut[f]
         /\ b \in TaskOuts /\ b[1] = "fbback" /\ b[2] = FbDisp[f] /\ b[4] = BackIn[f]
         /\ ~fbdisp'[f].done => TaskOuts' = TaskOuts
         /\ fbdisp'[f].done => Closing(FbDisp[f], {a, b})
<1> DEFINE S == FbOuts("fbdisp", fbdisp, FbDisp, FbOut)
           N == FbOuts("fbback", fbdisp, FbDisp, BackIn)
<1>1. S' = FbOuts("fbdisp", fbdisp', FbDisp, FbOut) /\ N' = FbOuts("fbback", fbdisp', FbDisp, BackIn)
  BY DEF FbOuts
<1>2. a \in S /\ (~fbdisp'[f].done => S' = S) /\ (fbdisp'[f].done => S' = S \ {a})
  BY <1>1, FbOutStep
<1>3. b \in N /\ (~fbdisp'[f].done => N' = N) /\ (fbdisp'[f].done => N' = N \ {b})
  BY <1>1, FbOutStep
<1>4. /\ a[1] = "fbdisp" /\ a[2] = FbDisp[f] /\ a[4] = FbOut[f] /\ a \in TaskOuts
      /\ b[1] = "fbback" /\ b[2] = FbDisp[f] /\ b[4] = BackIn[f] /\ b \in TaskOuts
  BY <1>2, <1>3, OutFacts DEF TaskOuts
<1>5. ~fbdisp'[f].done => TaskOuts' = TaskOuts
  BY <1>2, <1>3, OutsSame DEF TaskOuts
<1>6. fbdisp'[f].done => TaskOuts' = TaskOuts \ {a, b}
  BY <1>2, <1>3, <1>4, OutsSame, OutKinds DEF TaskOuts
<1> QED BY <1>4, <1>5, <1>6 DEF Closing

(* Every step of a feedback collector.                                     *)
LEMMA FbCollWrites ==
  ASSUME IInv, IInv', WInv, NEW f \in DOMAIN fbcoll, FbCollStep(f)
  PROVE  WInv'
<1> DEFINE e == FbColl[f]
           s == fbcoll[f].in
           b == fbcoll[f].back
           o == IntoOp[f]
           a == OutEnd("fbcoll", FbColl[f], f, IntoOp[f])
<1>1. /\ IsFun(fbcoll) /\ IsRec(fbcoll[f], {"in", "back", "mode", "done"})
      /\ UNCHANGED <<box, coll, par, sync, split, star, filter, fbdisp, fbbuf, src>>
  BY DEF IInv, Shape, FeedbackShape, FbCollStep, FeedbackCollTask
<1>2. b \in Loop /\ b \in Stream
  BY WiringFacts DEF WInv, LoopState
<1>3. ASSUME ~fbcoll[f].done PROVE s \in Stream
  BY <1>3, InOwn, InFacts, ReadsStream DEF Held, Reading, IInv
<1>4. ASSUME Edited(fbcoll, fbcoll', f), fbcoll'[f].back \in Loop, ~fbcoll[f].done
      PROVE  /\ Framed /\ a \in TaskOuts /\ a[1] # "fbback" /\ a[2] = e /\ a[4] = o
             /\ ~fbcoll'[f].done => TaskOuts' = TaskOuts
             /\ fbcoll'[f].done => Closing(e, {a})
  <2>1. LoopState'
    BY <1>1, <1>4 DEF WInv, LoopState, Loop, Edited
  <2>2. Locals'
    BY <1>1 DEF WInv, Locals
  <2>3. Framed
    BY <1>1, <2>1, <2>2 DEF Framed
  <2>4. /\ a \in TaskOuts /\ a[1] = "fbcoll" /\ a[2] = e /\ a[4] = o
        /\ ~fbcoll'[f].done => TaskOuts' = TaskOuts
        /\ fbcoll'[f].done => Closing(e, {a})
    BY <1>1, <1>4, FbCollCloses
  <2> HIDE DEF a
  <2> QED BY <2>3, <2>4
<1> HIDE DEF a, e, o
<1>5. ASSUME Edited(fbcoll, fbcoll', f), fbcoll'[f].back \in Loop, ~fbcoll[f].done, ~fbcoll'[f].done, todo[e] = << >>,
             NEW t \in Stream, chan[t] # << >>, NEW F, F \subseteq {t}, t \in F => t \in Loop \/ IsLast(Top(t)),
             NEW ops, Orderly(ops, {o}, {}, F), Take(e, t, ops)
      PROVE  WInv'
  <2>1. /\ Framed /\ a \in TaskOuts /\ a[2] = e /\ a[4] = o /\ TaskOuts' = TaskOuts /\ F \subseteq F
    BY <1>4, <1>5
  <2>2. {o} \subseteq OutsOf(e, TaskOuts)
    BY <2>1 DEF OutsOf
  <2>3. Orderly(ops, OutsOf(e, TaskOuts), {}, F)
    BY <1>5, <2>1, <2>2, OrderMore
  <2>4. Taking(t, F) /\ Proceed(e, ops, stat)
    BY <1>5 DEF Take, Taking, Popped
  <2> QED BY <1>5, <2>1, <2>3, <2>4, StepKeeps
<1>6. ASSUME NEW r, ~IsLast(r) PROVE Orderly(<<Write(o, r)>>, {o}, {}, {})
  BY <1>6, OrderOne, OpUses
<1>7. \A t : Orderly(<<Free(t)>>, {o}, {}, {t}) /\ {} \subseteq {t} /\ {t} \subseteq {t}
  BY OrderOne, OpUses
<1>8. CASE FbInData(f)
  <2> DEFINE p == <<Write(o, Top(s))>>
             q == <<Write(o, Sort(0, 1))>>
             m == <<Write(o, Top(s)), Write(o, Sort(0, 1))>>
  <2>1. /\ ~fbcoll[f].done /\ todo[e] = << >> /\ chan[s] # << >> /\ ~IsLast(Top(s)) /\ Take(e, s, m)
        /\ fbcoll' = [fbcoll EXCEPT ![f].mode = "fb1"]
    BY <1>8 DEF FbInData, FbReadsIn, Reads, IsLast, e, o
  <2>2. Edited(fbcoll, fbcoll', f) /\ fbcoll'[f].back = b /\ ~fbcoll'[f].done
    BY <1>1, <2>1 DEF Edited, IsRec, IsFun
  <2>3. Orderly(p, {o}, {}, {}) /\ Orderly(q, {o}, {}, {})
    BY <1>6, <2>1, OpUses
  <2>4. m = p \o q
    BY ListConcat
  <2> HIDE DEF p, q, m
  <2>5. Orderly(m, {o}, {}, {})
    BY <2>3, <2>4, OrderPlain
  <2> QED BY <1>2, <1>3, <1>5, <1>7, <2>1, <2>2, <2>5
<1>9. CASE FbInSort(f)
  <2>1. ~fbcoll[f].done /\ todo[e] = << >> /\ chan[s] # << >> /\ Take(e, s, <<Write(o, Raise(Top(s)))>>) /\ UNCHANGED fbcoll
    BY <1>9 DEF FbInSort, FbReadsIn, Reads, e, o
  <2>2. Edited(fbcoll, fbcoll', f) /\ fbcoll'[f].back = b /\ ~fbcoll'[f].done
    BY <1>1, <2>1 DEF Edited
  <2>3. Orderly(<<Write(o, Raise(Top(s)))>>, {o}, {}, {})
    BY <1>6, OpUses
  <2> QED BY <1>2, <1>3, <1>5, <1>7, <2>1, <2>2, <2>3
<1>10. CASE FbInTerm(f)
  <2> DEFINE p == <<Write(o, Term)>>
             q == <<Free(s), Free(b)>>
             m == <<Write(o, Term), Free(s), Free(b)>>
  <2>1. /\ ~fbcoll[f].done /\ todo[e] = << >> /\ chan[s] # << >> /\ IsLast(Top(s)) /\ Take(e, s, m)
        /\ fbcoll' = [fbcoll EXCEPT ![f].done = TRUE]
    BY <1>10 DEF FbInTerm, FbReadsIn, Reads, IsLast, e, o
  <2>2. Edited(fbcoll, fbcoll', f) /\ fbcoll'[f].back = b /\ fbcoll'[f].done
    BY <1>1, <2>1 DEF Edited, IsRec, IsFun
  <2>3. Framed /\ a \in TaskOuts /\ a[1] # "fbback" /\ a[4] = o /\ a[2] = e /\ Closing(e, {a})
    BY <1>2, <1>4, <2>1, <2>2
  <2>4. Orderly(q, {}, {}, {s, b})
    <3>1. Orderly(<<Free(s)>>, {}, {}, {s}) /\ Orderly(<<Free(b)>>, {}, {}, {b})
      BY OrderOne, OpUses
    <3>2. q = <<Free(s)>> \o <<Free(b)>>
      BY ListConcat
    <3>3. Orderly(<<Free(s)>> \o <<Free(b)>>, {}, {} \cup {}, {s} \cup {b})
      <4> DEFINE u == <<Free(s)>>
                 v == <<Free(b)>>
      <4> HIDE DEF u, v
      <4>1. Orderly(u, {}, {}, {s}) /\ Orderly(v, {}, {}, {b}) /\ {} \cap {} = {}
        BY <3>1 DEF u, v
      <4>2. Orderly(u \o v, {}, {} \cup {}, {s} \cup {b})
        BY <4>1, OrderThen
      <4> QED BY <4>2 DEF u, v
    <3>4. {} \cup {} = {} /\ {s} \cup {b} = {s, b}
      OBVIOUS
    <3> HIDE DEF q
    <3> QED BY <3>2, <3>3, <3>4
  <2>5. Orderly(p, {}, {o}, {}) /\ m = p \o q
    BY OrderOne, OpUses, ListConcat, SMTT(30)
  <2> HIDE DEF p, q, m
  <2>6. {o} \cup {} = {o} /\ {} \cup {s, b} = {s, b} /\ {o} \cap {} = {} /\ {} \subseteq OutsOf(e, TaskOuts \ {a}) /\ {s, b} \subseteq {s, b}
    OBVIOUS
  <2>7. Orderly(m, {}, {o} \cup {}, {} \cup {s, b})
    BY <2>4, <2>5, <2>6, OrderThen
  <2>8. Orderly(m, {}, {o}, {s, b})
    BY <2>6, <2>7
  <2>9. Orderly(m, OutsOf(e, TaskOuts \ {a}), {o}, {s, b})
    BY <2>6, <2>8, OrderMore
  <2>10. Taking(s, {s, b}) /\ Proceed(e, m, stat)
    BY <1>2, <1>3, <2>1 DEF Take, Taking, Popped
  <2>11. {o} \subseteq OutsOf(e, {a}) /\ \A x \in {a} : x[1] # "fbback"
    BY <2>3 DEF OutsOf
  <2> QED BY <2>1, <2>3, <2>9, <2>10, <2>11, HandlerQuits
<1>11. CASE FbInSync(f)
  <2>1. /\ ~fbcoll[f].done /\ todo[e] = << >> /\ chan[s] # << >> /\ IsLast(Top(s)) /\ Take(e, s, <<Free(s)>>)
        /\ fbcoll' = [fbcoll EXCEPT ![f].in = Top(s).s]
    BY <1>11 DEF FbInSync, FbReadsIn, Reads, IsLast, e
  <2>2. Edited(fbcoll, fbcoll', f) /\ fbcoll'[f].back = b /\ ~fbcoll'[f].done
    BY <1>1, <2>1 DEF Edited, IsRec, IsFun
  <2> QED BY <1>2, <1>3, <1>5, <1>7, <2>1, <2>2
<1>12. CASE FbBackData(f)
  <2>1. /\ ~fbcoll[f].done /\ todo[e] = << >> /\ chan[b] # << >> /\ ~IsLast(Top(b)) /\ Take(e, b, <<Write(o, Top(b))>>)
        /\ fbcoll' = [fbcoll EXCEPT ![f].mode = "fb0"]
    BY <1>12 DEF FbBackData, FbReadsBack, Reads, IsLast, e, o
  <2>2. Edited(fbcoll, fbcoll', f) /\ fbcoll'[f].back = b /\ ~fbcoll'[f].done
    BY <1>1, <2>1 DEF Edited, IsRec, IsFun
  <2>3. Orderly(<<Write(o, Top(b))>>, {o}, {}, {})
    BY <1>6, <2>1
  <2> QED BY <1>2, <1>5, <1>7, <2>1, <2>2, <2>3
<1>13. CASE FbBackSort(f)
  <2> DEFINE again == fbcoll[f].mode = "fb0"
             ops == IF again THEN <<Write(o, Sort(Top(b).lvl, Top(b).num + 1))>> ELSE << >>
  <2>1. ~fbcoll[f].done /\ todo[e] = << >> /\ chan[b] # << >> /\ Take(e, b, ops)
    BY <1>13 DEF FbBackSort, FbReadsBack, Reads, e, o
  <2>2. fbcoll' = [fbcoll EXCEPT ![f].mode = IF again THEN "fb1" ELSE "in"]
    BY <1>13 DEF FbBackSort
  <2>3. Edited(fbcoll, fbcoll', f) /\ fbcoll'[f].back = b /\ ~fbcoll'[f].done
    BY <1>1, <2>1, <2>2 DEF Edited, IsRec, IsFun
  <2>4. Orderly(<<Write(o, Sort(Top(b).lvl, Top(b).num + 1))>>, {o}, {}, {}) /\ Orderly(<< >>, {o}, {}, {})
    BY <1>6, OpUses, OrderOne
  <2>5. Orderly(ops, {o}, {}, {})
    BY <2>4
  <2> HIDE DEF ops
  <2> QED BY <1>2, <1>5, <1>7, <2>1, <2>3, <2>5
<1>14. CASE FbBackSync(f)
  <2>1. /\ ~fbcoll[f].done /\ todo[e] = << >> /\ chan[b] # << >> /\ Top(b).t = "sync" /\ Take(e, b, <<Free(b)>>)
        /\ fbcoll' = [fbcoll EXCEPT ![f].back = Top(b).s]
    BY <1>14 DEF FbBackSync, FbReadsBack, Reads, e
  <2>2. Edited(fbcoll, fbcoll', f) /\ fbcoll'[f].back = Top(b).s /\ ~fbcoll'[f].done
    BY <1>1, <2>1 DEF Edited, IsRec, IsFun
  <2>3. Top(b).s \in Loop
    <3>1. IsSeq(chan[b])
      BY <1>2 DEF IInv, Shape, NetShape, Stream
    <3>2. 1 \in DOMAIN chan[b] /\ Top(b) = chan[b][1]
      BY <2>1, <3>1, SeqFacts DEF Top
    <3> QED BY <1>2, <2>1, <3>2 DEF WInv, LoopChans
  <2> QED BY <1>2, <1>5, <1>7, <2>1, <2>2, <2>3
<1> QED BY <1>8, <1>9, <1>10, <1>11, <1>12, <1>13, <1>14 DEF FbCollStep, FeedbackCollTask

(* Every step of a feedback dispatcher.                                    *)
LEMMA FbDispWrites ==
  ASSUME IInv, IInv', WInv, NEW f \in DOMAIN fbcoll, FbDispStep(f)
  PROVE  WInv'
<1> DEFINE e == FbDisp[f]
           s == fbdisp[f].in
           o == FbOut[f]
           n == BackIn[f]
           a == OutEnd("fbdisp", FbDisp[f], f, FbOut[f])
           b == OutEnd("fbback", FbDisp[f], f, BackIn[f])
           K == {o, n}
<1>1. /\ IsFun(fbdisp) /\ IsRec(fbdisp[f], {"in", "done"}) /\ f \in DOMAIN fbdisp
      /\ UNCHANGED <<box, coll, par, sync, split, star, filter, fbcoll, fbbuf, src>>
  BY DEF IInv, Shape, FeedbackShape, FbDispStep, FeedbackDispTask
<1>2. ASSUME ~fbdisp[f].done PROVE s \in Stream
  BY <1>1, <1>2, InOwn, InFacts, ReadsStream DEF Held, Reading, IInv
<1>3. Framed
  <2>1. LoopState'
    BY <1>1 DEF WInv, LoopState, Loop
  <2>2. Locals'
    BY <1>1 DEF WInv, Locals
  <2> QED BY <1>1, <2>1, <2>2 DEF Framed
<1>4. ASSUME Edited(fbdisp, fbdisp', f), ~fbdisp[f].done
      PROVE  /\ a \in TaskOuts /\ a[2] = e /\ a[4] = o /\ a[1] = "fbdisp" /\ b \in TaskOuts /\ b[2] = e /\ b[4] = n /\ b[1] = "fbback"
             /\ ~fbdisp'[f].done => TaskOuts' = TaskOuts
             /\ fbdisp'[f].done => Closing(e, {a, b})
  BY <1>1, <1>4, FbDispCloses
<1> HIDE DEF a, b, e, o, n
<1>5. ASSUME Edited(fbdisp, fbdisp', f), ~fbdisp[f].done, ~fbdisp'[f].done, todo[e] = << >>, chan[s] # << >>,
             NEW F, F \subseteq {s}, s \in F => IsLast(Top(s)), NEW ops, Orderly(ops, K, {}, F), Take(e, s, ops)
      PROVE  WInv'
  <2>1. a \in TaskOuts /\ a[2] = e /\ a[4] = o /\ b \in TaskOuts /\ b[2] = e /\ b[4] = n /\ TaskOuts' = TaskOuts /\ F \subseteq F
    BY <1>4, <1>5
  <2>2. K \subseteq OutsOf(e, TaskOuts)
    BY <2>1 DEF OutsOf
  <2>3. Orderly(ops, OutsOf(e, TaskOuts), {}, F)
    BY <1>5, <2>1, <2>2, OrderMore
  <2>4. Taking(s, F) /\ Proceed(e, ops, stat)
    BY <1>2, <1>5 DEF Take, Taking, Popped
  <2> QED BY <1>3, <1>5, <2>1, <2>3, <2>4, StepKeeps
<1>6. ASSUME NEW t \in K, NEW r, ~IsLast(r) PROVE Orderly(<<Write(t, r)>>, K, {}, {})
  <2>1. Uses(Write(t, r)) /\ ~IsEnding(Write(t, r)) /\ Write(t, r).s \in K
    BY <1>6, OpUses
  <2> HIDE DEF K
  <2> QED BY <2>1, OrderOne
<1>7. Orderly(<<Free(s)>>, K, {}, {s}) /\ {} \subseteq {s} /\ {s} \subseteq {s} /\ s \notin {} /\ o \in K /\ n \in K
  BY OrderOne, OpUses
<1>8. ASSUME UNCHANGED fbdisp PROVE Edited(fbdisp, fbdisp', f) /\ (fbdisp'[f].done <=> fbdisp[f].done)
  BY <1>1, <1>8 DEF Edited
<1>9. CASE DispData(f)
  <2> DEFINE t == IF GoesBack(f, Top(s).ty) THEN n ELSE o
  <2>1. ~fbdisp[f].done /\ todo[e] = << >> /\ chan[s] # << >> /\ ~IsLast(Top(s)) /\ UNCHANGED fbdisp
    BY <1>9 DEF DispData, DispReads, Reads, IsLast, e
  <2>2. Take(e, s, <<Write(t, Top(s))>>)
    BY <1>9 DEF DispData, e, n, o
  <2>3. t \in K
    BY <1>7
  <2> HIDE DEF t, K
  <2>4. Orderly(<<Write(t, Top(s))>>, K, {}, {})
    BY <1>6, <2>1, <2>3
  <2> QED BY <1>5, <1>7, <1>8, <2>1, <2>2, <2>4
<1>10. CASE DispSort(f)
  <2> DEFINE r == Top(s)
             ops == <<IF r.lvl = 0 THEN Write(n, r) ELSE Write(o, Lower(r))>>
  <2>1. ~fbdisp[f].done /\ todo[e] = << >> /\ chan[s] # << >> /\ ~IsLast(r) /\ UNCHANGED fbdisp
    BY <1>10 DEF DispSort, DispReads, Reads, IsLast, e
  <2>2. Take(e, s, ops)
    BY <1>10 DEF DispSort, e, n, o
  <2> HIDE DEF r, K
  <2>3. Orderly(<<Write(n, r)>>, K, {}, {}) /\ Orderly(<<Write(o, Lower(r))>>, K, {}, {})
    BY <1>6, <1>7, <2>1, OpUses
  <2>4. Orderly(ops, K, {}, {})
    BY <2>3
  <2> HIDE DEF ops
  <2> QED BY <1>5, <1>7, <1>8, <2>1, <2>2, <2>4 DEF r
<1>11. CASE DispTerm(f)
  <2> DEFINE p == <<Write(n, Term)>>
             q == <<Write(o, Term), Free(s)>>
             m == <<Write(n, Term), Write(o, Term), Free(s)>>
             D == {a, b}
  <2>1. /\ ~fbdisp[f].done /\ todo[e] = << >> /\ chan[s] # << >> /\ IsLast(Top(s)) /\ Take(e, s, m)
        /\ fbdisp' = [fbdisp EXCEPT ![f].done = TRUE]
    BY <1>11 DEF DispTerm, DispReads, Reads, IsLast, e, n, o
  <2>2. Edited(fbdisp, fbdisp', f) /\ fbdisp'[f].done
    BY <1>1, <2>1 DEF Edited, IsRec, IsFun
  <2>3. a \in TaskOuts /\ a[2] = e /\ a[4] = o /\ b \in TaskOuts /\ b[2] = e /\ b[4] = n /\ Closing(e, D) /\ a # b
    BY <1>4, <2>1, <2>2
  <2>4. n # o
    BY <2>3, WiringFacts DEF WInv, Outs
  <2>5. Orderly(p, {o}, {n}, {}) /\ Orderly(q, {}, {o}, {s}) /\ {n} \cap {o} = {}
    BY <2>4, OrderOne, OpUses, QuitOrder
  <2>6. m = p \o q
    BY ListConcat
  <2>7. NotBack(m)
    <3>1. DOMAIN m = {1, 2, 3} /\ m[1] = Write(n, Term) /\ m[2] = Write(o, Term) /\ m[3] = Free(s)
      OBVIOUS
    <3> HIDE DEF m
    <3> QED BY <3>1, OpUses DEF NotBack
  <2> HIDE DEF p, q, m
  <2>8. {n} \cup {o} = K /\ {} \cup {s} = {s} /\ {} \subseteq OutsOf(e, TaskOuts \ D)
    OBVIOUS
  <2>9. Orderly(m, {}, {n} \cup {o}, {} \cup {s})
    BY <2>5, <2>6, OrderThen
  <2>10. Orderly(m, {}, K, {s})
    BY <2>8, <2>9
  <2>11. K \subseteq OutsOf(e, D)
    BY <2>3 DEF OutsOf
  <2> HIDE DEF K, D
  <2>12. Orderly(m, OutsOf(e, TaskOuts \ D), K, {s})
    BY <1>7, <2>8, <2>10, OrderMore
  <2>13. Taking(s, {s}) /\ Proceed(e, m, stat)
    BY <1>2, <2>1 DEF Take, Taking, Popped
  <2> QED BY <1>3, <2>1, <2>3, <2>7, <2>11, <2>12, <2>13, HandlerStep
<1>12. CASE DispSync(f)
  <2>1. /\ ~fbdisp[f].done /\ todo[e] = << >> /\ chan[s] # << >> /\ IsLast(Top(s)) /\ Take(e, s, <<Free(s)>>)
        /\ fbdisp' = [fbdisp EXCEPT ![f].in = Top(s).s]
    BY <1>12 DEF DispSync, DispReads, Reads, IsLast, e
  <2>2. Edited(fbdisp, fbdisp', f) /\ ~fbdisp'[f].done
    BY <1>1, <2>1 DEF Edited, IsRec, IsFun
  <2> HIDE DEF K
  <2> QED BY <1>5, <1>7, <2>1, <2>2
<1> QED BY <1>9, <1>10, <1>11, <1>12 DEF FbDispStep, FeedbackDispTask

-----------------------------------------------------------------------------
(* A record r is written to stream u.                                      *)
Wrote(u, r) == chan' = [chan EXCEPT ![u] = Append(@, r)]

(* A write adds its record at the end of one stream.                       *)
LEMMA WroteFacts ==
  ASSUME NetShape, NEW u \in Stream, NEW r, Wrote(u, r)
  PROVE  /\ Stream' = Stream /\ \A x \in Stream : x # u => chan'[x] = chan[x]
         /\ \A i \in DOMAIN chan'[u] : \/ i \in DOMAIN chan[u] /\ chan'[u][i] = chan[u][i]
                                       \/ chan'[u][i] = r /\ i = Len(chan'[u])
<1>1. IsFun(chan) /\ IsSeq(chan[u]) /\ u \in DOMAIN chan
  BY DEF NetShape, Stream
<1>2. chan'[u] = Append(chan[u], r) /\ DOMAIN chan' = DOMAIN chan /\ \A x \in DOMAIN chan : x # u => chan'[x] = chan[x]
  BY <1>1 DEF Wrote, IsFun
<1>3. Len(chan[u]) \in Nat /\ DOMAIN chan[u] = 1..Len(chan[u])
  BY <1>1, SeqFacts
<1>4. /\ IsSeq(chan'[u]) /\ DOMAIN chan'[u] = 1..(Len(chan[u]) + 1) /\ chan'[u][Len(chan[u]) + 1] = r
      /\ \A i \in 1..Len(chan[u]) : chan'[u][i] = chan[u][i]
  BY <1>1, <1>2, AppendSeq
<1>5. Len(chan'[u]) = Len(chan[u]) + 1
  <2>1. Len(chan'[u]) \in Nat /\ DOMAIN chan'[u] = 1..Len(chan'[u])
    BY <1>4, SeqFacts
  <2> QED BY <1>3, <1>4, <2>1
<1>6. ASSUME NEW i \in DOMAIN chan'[u]
      PROVE  \/ i \in DOMAIN chan[u] /\ chan'[u][i] = chan[u][i]
             \/ chan'[u][i] = r /\ i = Len(chan'[u])
  <2>1. i \in 1..Len(chan[u]) \/ i = Len(chan[u]) + 1
    BY <1>3, <1>4
  <2> QED BY <1>3, <1>4, <1>5, <2>1
<1> QED BY <1>2, <1>6 DEF Stream

(* That keeps what the invariant says of the streams, if the stream has    *)
(* not ended and is not destroyed, and its last record is really the last. *)
LEMMA WroteChans ==
  ASSUME NetShape, Chans, LoopChans, NEW u \in Stream, u \notin Loop, NEW r, Wrote(u, r), ~Ended(u), ~Gone(u), Loop' = Loop, Back' = Back,
         \A x : Gone(x)' => Gone(x), \A x : Open(x)' => Open(x), \A x : Ending(x)' => Ending(x),
         IsLast(r) => ~Open(u)' /\ ~Ending(u)', r.t = "sync" => u \notin Back, Loop \subseteq Stream, Back \subseteq Stream
  PROVE  Chans' /\ LoopChans'
<1>1. /\ Stream' = Stream /\ \A x \in Stream : x # u => chan'[x] = chan[x]
      /\ \A i \in DOMAIN chan'[u] : \/ i \in DOMAIN chan[u] /\ chan'[u][i] = chan[u][i]
                                    \/ chan'[u][i] = r /\ i = Len(chan'[u])
  BY WroteFacts
<1>2. \A i \in DOMAIN chan[u] : ~IsLast(chan[u][i])
  BY DEF Ended
<1>3. ASSUME NEW x \in Stream, x \notin Loop
      PROVE  /\ (Ended(x) => ~Open(x) /\ ~Ending(x))'
             /\ \A i \in DOMAIN chan'[x] : IsLast(chan'[x][i]) => i = Len(chan'[x])
             /\ (Gone(x) => chan[x] = << >> /\ ~Open(x) /\ ~Ending(x))'
  <2>1. CASE x = u
    <3>1. \A i \in DOMAIN chan'[u] : IsLast(chan'[u][i]) => chan'[u][i] = r /\ i = Len(chan'[u])
      BY <1>1, <1>2
    <3>2. Ended(u)' => IsLast(r)
      BY <3>1 DEF Ended
    <3>3. ~Gone(u)'
      OBVIOUS
    <3> QED BY <2>1, <3>1, <3>2, <3>3
  <2>2. CASE x # u
    <3>1. /\ Ended(x) => ~Open(x) /\ ~Ending(x)
          /\ \A i \in DOMAIN chan[x] : IsLast(chan[x][i]) => i = Len(chan[x])
          /\ Gone(x) => chan[x] = << >> /\ ~Open(x) /\ ~Ending(x)
      BY <1>3, ChanFacts
    <3>2. chan'[x] = chan[x]
      BY <1>1, <2>2
    <3>3. Ended(x)' => Ended(x)
      BY <3>2 DEF Ended
    <3> QED BY <3>1, <3>2, <3>3
  <2> QED BY <2>1, <2>2
<1>4. Chans'
  BY <1>1, <1>3 DEF Chans
<1>5. ASSUME NEW s \in Loop, NEW i \in DOMAIN chan'[s], chan'[s][i].t = "sync" PROVE chan'[s][i].s \in Loop
  <2>1. chan'[s] = chan[s]
    BY <1>1
  <2> QED BY <1>5, <2>1 DEF LoopChans
<1>6. ASSUME NEW s \in Back, NEW i \in DOMAIN chan'[s] PROVE chan'[s][i].t # "sync"
  <2>1. CASE s = u
    BY <1>1, <1>6, <2>1 DEF LoopChans
  <2>2. CASE s # u
    BY <1>1, <1>6, <2>2 DEF LoopChans
  <2> QED BY <2>1, <2>2
<1>7. LoopChans'
  BY <1>5, <1>6 DEF LoopChans
<1> QED BY <1>4, <1>7

(* A stream that was written to is destroyed only if it was before.        *)
LEMMA TouchedFacts ==
  ASSUME NetShape, NEW s
  PROVE  DOMAIN Touched(s) = DOMAIN stat /\ \A x \in DOMAIN stat : Touched(s)[x] = "freed" => stat[x] = "freed"
BY DEF NetShape, IsFun, Touched

(* The first pending write of an entity is done.                           *)
LEMMA FlushWrites ==
  ASSUME IInv, IInv', WInv, NEW e \in DOMAIN todo, Flushes(e)
  PROVE  WInv'
<1> DEFINE w == Head(todo[e])
           ops == Tail(todo[e])
<1>0. PICK u, r : u = w.s /\ r = w.rec
  OBVIOUS
<1>1. NetShape /\ Wired /\ Pending /\ Chans /\ LoopChans /\ LoopState /\ Locals
  BY DEF IInv, Shape, WInv
<1>2. /\ todo[e] # << >> /\ Wrote(u, r) /\ Proceed(e, ops, Touched(u))
      /\ UNCHANGED <<box, coll, par, sync, split, star, filter, fbVars, src>>
  BY <1>0 DEF Flushes, Flush, Wrote
<1>3. /\ TaskOuts' = TaskOuts /\ Outs' = Outs /\ Loop' = Loop /\ Back' = Back /\ LoopState' /\ Locals' /\ DOMAIN fbbuf' = DOMAIN fbbuf
  <2>1. TaskOuts' = TaskOuts
    BY <1>2, OutsSame DEF TaskOuts, fbVars
  <2>2. Loop' = Loop /\ Back' = Back /\ DOMAIN fbbuf' = DOMAIN fbbuf
    BY <1>2 DEF Loop, Back, fbVars
  <2>3. LoopState' /\ Locals'
    BY <1>1, <1>2, <2>2 DEF LoopState, Locals, fbVars
  <2> QED BY <1>2, <2>1, <2>2, <2>3 DEF Outs, SourceOuts
<1>4. /\ IsSeq(todo[e]) /\ 1 \in DOMAIN todo[e] /\ w = todo[e][1] /\ w.op = "write"
      /\ IsSeq(ops) /\ DOMAIN ops = 1..(Len(todo[e]) - 1) /\ \A i \in DOMAIN ops : ops[i] = todo[e][i + 1]
      /\ Len(todo[e]) \in Nat /\ DOMAIN todo[e] = 1..Len(todo[e])
  <2>1. IsSeq(todo[e]) /\ w.op = "write"
    BY <1>1, <1>2 DEF NetShape
  <2> QED BY <1>2, <2>1, SeqFacts, TailSeq
<1>5. Uses(w) /\ (IsEnding(w) <=> IsLast(r))
  BY <1>0, <1>4 DEF Uses, IsEnding
<1> HIDE DEF w, ops
<1>6. u \in Stream /\ u \notin Loop /\ (Open(u) \/ Ending(u))
  <2>1. /\ u \in Stream \ Loop
        /\ OpenAt(e, u) \/ \E j \in DOMAIN todo[e] : j >= 1 /\ IsEnding(todo[e][j]) /\ todo[e][j].s = u
    BY <1>0, <1>1, <1>4, <1>5, PendingFacts
  <2>2. OpenAt(e, u) => Open(u)
    BY DEF OpenAt, Open, Outs
  <2>3. (\E j \in DOMAIN todo[e] : j >= 1 /\ IsEnding(todo[e][j]) /\ todo[e][j].s = u) => Ending(u)
    BY DEF Ending
  <2> QED BY <2>1, <2>2, <2>3
<1>7. u \in Stream /\ u \notin Loop /\ ~Ended(u) /\ ~Gone(u)
  BY <1>1, <1>6, ChanFacts
<1>8. IsLast(r) => /\ ~Open(u)
                   /\ \A d \in DOMAIN todo : \A j \in DOMAIN todo[d] :
                        IsEnding(todo[d][j]) /\ todo[d][j].s = u => d = e /\ j = 1
  BY <1>0, <1>1, <1>4, <1>5, PendingFacts
<1>9. r.t = "sync" => u \notin Back
  <2>1. r.t = "sync" => IsEnding(w)
    BY <1>5 DEF IsLast
  <2> QED BY <1>0, <1>1, <1>4, <2>1, PendingFacts
<1>10. DOMAIN Touched(u) = DOMAIN stat /\ \A x \in DOMAIN stat : Touched(u)[x] = "freed" => stat[x] = "freed"
  BY <1>1, TouchedFacts
<1>11. /\ DOMAIN todo' = DOMAIN todo
       /\ \A x \in DOMAIN todo : x # e => todo'[x] = todo[x]
       /\ \E n \in Nat : Behind(n, ops, todo'[e])
       /\ DOMAIN stat' = DOMAIN stat
       /\ \A x \in DOMAIN stat : stat'[x] = "freed" => stat[x] = "freed" \/ Destroys(ops, x)
  <2> DEFINE st == Touched(u)
  <2>1. Proceed(e, ops, st) /\ IsSeq(ops)
    BY <1>2, <1>4
  <2> HIDE DEF st
  <2>2. DOMAIN todo' = DOMAIN todo
    BY <1>1, <2>1, ProceedFacts
  <2>3. \A x \in DOMAIN todo : x # e => todo'[x] = todo[x]
    BY <1>1, <2>1 DEF Proceed, NetShape, IsFun
  <2>4. \E n \in Nat : Behind(n, ops, todo'[e])
    BY <1>1, <2>1, ProceedFacts
  <2>5. DOMAIN stat' = DOMAIN st
    BY <1>1, <2>1, ProceedFacts
  <2>6. \A x \in DOMAIN st : stat'[x] = "freed" => st[x] = "freed" \/ Destroys(ops, x)
    BY <1>1, <2>1, ProceedFacts
  <2> QED BY <1>10, <2>2, <2>3, <2>4, <2>5, <2>6 DEF st
<1>12. PICK m \in Nat : /\ m >= 1
                        /\ \A i \in DOMAIN todo'[e] : m + i \in DOMAIN todo[e] /\ todo'[e][i] = todo[e][m + i] /\ i \in Nat
                        /\ \A i \in DOMAIN todo[e] : i > m => i - m \in DOMAIN todo'[e]
  <2>1. PICK n \in Nat : Behind(n, ops, todo'[e])
    BY <1>11
  <2> DEFINE m == n + 1
  <2>2. m \in Nat /\ m >= 1
    OBVIOUS
  <2>3. ASSUME NEW i \in DOMAIN todo'[e] PROVE m + i \in DOMAIN todo[e] /\ todo'[e][i] = todo[e][m + i] /\ i \in Nat
    <3>1. n + i \in DOMAIN ops /\ todo'[e][i] = ops[n + i] /\ i \in Nat
      BY <2>1 DEF Behind
    <3>2. ops[n + i] = todo[e][(n + i) + 1] /\ (n + i) + 1 = m + i /\ m + i \in 1..Len(todo[e])
      BY <1>4, <3>1
    <3> QED BY <1>4, <3>1, <3>2
  <2>4. ASSUME NEW i \in DOMAIN todo[e], i > m PROVE i - m \in DOMAIN todo'[e]
    <3>1. i - 1 \in DOMAIN ops /\ i - 1 > n /\ (i - 1) - n = i - m
      BY <1>4, <2>4
    <3>2. (i - 1) - n \in DOMAIN todo'[e]
      BY <2>1, <3>1 DEF Behind
    <3> QED BY <3>1, <3>2
  <2> QED BY <2>2, <2>3, <2>4
<1>13. \A d \in DOMAIN todo : \A i \in DOMAIN todo'[d] :
         \/ d # e /\ todo'[d] = todo[d]
         \/ d = e /\ m + i \in DOMAIN todo[e] /\ todo'[e][i] = todo[e][m + i] /\ i \in Nat
  BY <1>11, <1>12
<1>14. \A x : Gone(x)' => Gone(x)
  <2> SUFFICES ASSUME NEW x, Gone(x)' PROVE Gone(x)
    OBVIOUS
  <2>1. CASE x \in DOMAIN stat' /\ stat'[x] = "freed"
    <3>1. CASE Destroys(ops, x)
      <4>1. PICK i \in DOMAIN ops : ops[i] = Free(x)
        BY <3>1 DEF Destroys
      <4>2. i + 1 \in DOMAIN todo[e] /\ todo[e][i + 1] = Free(x)
        BY <1>4, <4>1
      <4> QED BY <4>2 DEF Gone
    <3> QED BY <1>11, <2>1, <3>1 DEF Gone
  <2>2. CASE \E d \in DOMAIN todo' : \E i \in DOMAIN todo'[d] : todo'[d][i] = Free(x)
    <3>1. PICK d \in DOMAIN todo : \E i \in DOMAIN todo'[d] : todo'[d][i] = Free(x)
      BY <1>11, <2>2
    <3>2. PICK i \in DOMAIN todo'[d] : todo'[d][i] = Free(x)
      BY <3>1
    <3> QED BY <1>13, <3>2 DEF Gone
  <2> QED BY <2>1, <2>2 DEF Gone
<1>15. \A x : (Ending(x)' => Ending(x)) /\ (Open(x)' <=> Open(x)) /\ \A d : OpenAt(d, x)' <=> OpenAt(d, x)
  <2>1. ASSUME NEW x, Ending(x)' PROVE Ending(x)
    <3>0. PICK d \in DOMAIN todo : \E i \in DOMAIN todo'[d] : IsEnding(todo'[d][i]) /\ todo'[d][i].s = x
      BY <1>11, <2>1 DEF Ending
    <3>1. PICK i \in DOMAIN todo'[d] : IsEnding(todo'[d][i]) /\ todo'[d][i].s = x
      BY <3>0
    <3> QED BY <1>13, <3>1 DEF Ending
  <2> QED BY <1>3, <2>1 DEF Open, OpenAt
<1>16. IsLast(r) => ~Open(u)' /\ ~Ending(u)'
  <2>1. ASSUME IsLast(r), Ending(u)' PROVE FALSE
    <3>0. PICK d \in DOMAIN todo : \E i \in DOMAIN todo'[d] : IsEnding(todo'[d][i]) /\ todo'[d][i].s = u
      BY <1>11, <2>1 DEF Ending
    <3>1. PICK i \in DOMAIN todo'[d] : IsEnding(todo'[d][i]) /\ todo'[d][i].s = u
      BY <3>0
    <3>2. CASE d # e /\ todo'[d] = todo[d]
      BY <1>8, <2>1, <3>1, <3>2
    <3>3. CASE d = e /\ m + i \in DOMAIN todo[e] /\ todo'[e][i] = todo[e][m + i] /\ i \in Nat
      <4>1. m + i = 1
        BY <1>8, <2>1, <3>1, <3>3
      <4>2. i = 0
        BY <1>12, <3>3, <4>1
      <4>3. IsSeq(todo'[e])
        BY <1>11 DEF IInv, Shape, NetShape
      <4>4. DOMAIN todo'[e] = 1..Len(todo'[e]) /\ Len(todo'[e]) \in Nat
        BY <4>3, SeqFacts
      <4> QED BY <3>1, <3>3, <4>2, <4>4
    <3> QED BY <1>13, <3>1, <3>2, <3>3
  <2> QED BY <1>8, <1>15, <2>1
<1>17. Loop \subseteq Stream /\ Back \subseteq Stream
  BY <1>1, WiringFacts
<1>18. Chans' /\ LoopChans'
  BY <1>1, <1>2, <1>3, <1>7, <1>9, <1>14, <1>15, <1>16, <1>17, WroteChans
<1>19. Stream' = Stream
  BY <1>1, <1>2, <1>7, WroteFacts
<1>20. Wired'
  BY <1>1, <1>2, <1>3, <1>19 DEF Wired
<1>21. Pending'
  <2> SUFFICES ASSUME NEW d \in DOMAIN todo', NEW i \in DOMAIN todo'[d], NEW x, x = todo'[d][i].s
               PROVE  /\ Uses(todo'[d][i]) =>
                           /\ x \in Stream' \ Loop'
                           /\ OpenAt(d, x)' \/ \E j \in DOMAIN todo'[d] : j >= i /\ IsEnding(todo'[d][j]) /\ todo'[d][j].s = x
                      /\ IsEnding(todo'[d][i]) =>
                           /\ ~Open(x)'
                           /\ \A c \in DOMAIN todo' : \A j \in DOMAIN todo'[c] :
                                IsEnding(todo'[c][j]) /\ todo'[c][j].s = x => c = d /\ j = i
                      /\ IsEnding(todo'[d][i]) /\ todo'[d][i].rec.t = "sync" => x \notin Back'
    BY DEF Pending
  <2>1. CASE d # e /\ todo'[d] = todo[d]
    <3>1. d \in DOMAIN todo /\ i \in DOMAIN todo[d] /\ x = todo[d][i].s
      BY <1>11, <2>1
    <3>2. /\ Uses(todo[d][i]) =>
                /\ x \in Stream \ Loop
                /\ OpenAt(d, x) \/ \E j \in DOMAIN todo[d] : j >= i /\ IsEnding(todo[d][j]) /\ todo[d][j].s = x
          /\ IsEnding(todo[d][i]) =>
                /\ ~Open(x)
                /\ \A c \in DOMAIN todo : \A j \in DOMAIN todo[c] :
                     IsEnding(todo[c][j]) /\ todo[c][j].s = x => c = d /\ j = i
          /\ IsEnding(todo[d][i]) /\ todo[d][i].rec.t = "sync" => x \notin Back
      BY <1>1, <3>1, PendingFacts
    <3>3. ASSUME IsEnding(todo[d][i]), NEW c \in DOMAIN todo', NEW j \in DOMAIN todo'[c], IsEnding(todo'[c][j]), todo'[c][j].s = x
          PROVE  c = d /\ j = i
      <4>1. CASE c # e /\ todo'[c] = todo[c]
        BY <1>11, <3>2, <3>3, <4>1
      <4>2. CASE c = e /\ m + j \in DOMAIN todo[e] /\ todo'[e][j] = todo[e][m + j] /\ j \in Nat
        BY <2>1, <3>2, <3>3, <4>2
      <4> QED BY <1>11, <1>13, <3>3, <4>1, <4>2
    <3> QED BY <1>3, <1>15, <1>19, <2>1, <3>2, <3>3
  <2>2. CASE d = e /\ m + i \in DOMAIN todo[e] /\ todo'[e][i] = todo[e][m + i] /\ i \in Nat
    <3> DEFINE k == m + i
    <3>1. k \in DOMAIN todo[e] /\ x = todo[e][k].s /\ todo'[d][i] = todo[e][k]
      BY <2>2
    <3> HIDE DEF k
    <3>2. /\ Uses(todo[e][k]) =>
                /\ x \in Stream \ Loop
                /\ OpenAt(e, x) \/ \E j \in DOMAIN todo[e] : j >= k /\ IsEnding(todo[e][j]) /\ todo[e][j].s = x
          /\ IsEnding(todo[e][k]) =>
                /\ ~Open(x)
                /\ \A c \in DOMAIN todo : \A j \in DOMAIN todo[c] :
                     IsEnding(todo[c][j]) /\ todo[c][j].s = x => c = e /\ j = k
          /\ IsEnding(todo[e][k]) /\ todo[e][k].rec.t = "sync" => x \notin Back
      BY <1>1, <3>1, PendingFacts
    <3>3. ASSUME IsEnding(todo[e][k]), NEW c \in DOMAIN todo', NEW j \in DOMAIN todo'[c], IsEnding(todo'[c][j]), todo'[c][j].s = x
          PROVE  c = d /\ j = i
      <4>1. CASE c # e /\ todo'[c] = todo[c]
        BY <1>11, <3>2, <3>3, <4>1
      <4>2. CASE c = e /\ m + j \in DOMAIN todo[e] /\ todo'[e][j] = todo[e][m + j] /\ j \in Nat
        <5>1. m + j = k
          BY <3>2, <3>3, <4>2
        <5>2. j = i
          BY <2>2, <4>2, <5>1 DEF k
        <5> QED BY <2>2, <4>2, <5>2
      <4> QED BY <1>11, <1>13, <3>3, <4>1, <4>2
    <3>4. ASSUME NEW j \in DOMAIN todo[e], j >= k, IsEnding(todo[e][j]), todo[e][j].s = x
          PROVE  \E l \in DOMAIN todo'[d] : l >= i /\ IsEnding(todo'[d][l]) /\ todo'[d][l].s = x
      <4>1. j \in Nat /\ i \in DOMAIN todo'[e]
        BY <1>4, <2>2
      <4>2. CASE j = k
        <5>1. i >= i
          BY <2>2
        <5> QED BY <3>1, <3>4, <4>2, <5>1
      <4>3. CASE j > k
        <5>1. j > m /\ j - m >= i /\ m + (j - m) = j
          BY <2>2, <4>1, <4>3 DEF k
        <5>2. j - m \in DOMAIN todo'[e]
          BY <1>12, <5>1
        <5>3. todo'[e][j - m] = todo[e][j]
          BY <1>12, <5>1, <5>2
        <5> QED BY <2>2, <3>4, <5>1, <5>2, <5>3
      <4> QED BY <1>4, <3>1, <3>4, <4>1, <4>2, <4>3
    <3> QED BY <1>3, <1>15, <1>19, <2>2, <3>1, <3>2, <3>3, <3>4
  <2> QED BY <1>11, <1>13, <2>1, <2>2
<1> QED BY <1>3, <1>18, <1>20, <1>21 DEF WInv

(* Every step of the sink, which writes nothing.                           *)
LEMMA OutputWrites ==
  ASSUME IInv, IInv', WInv, OutputStep
  PROVE  WInv'
<1> DEFINE s == sink.in
<1>1. UNCHANGED <<box, coll, par, sync, split, star, filter, fbVars, src>>
  BY DEF OutputStep
<1>2. Framed
  BY <1>1, FrameSame
<1>3. TaskOuts' = TaskOuts
  BY <1>1, OutsSame DEF TaskOuts, fbVars
<1>4. ASSUME ~sink.done PROVE s \in Stream
  <2>1. <<"sink", output, "in", s>> \in SinkEnds
    BY <1>4 DEF SinkEnds
  <2> QED BY <2>1, ReadsStream DEF Held, Reading, IInv
<1>5. CASE OutputRec
  <2>1. ~sink.done /\ todo[output] = << >> /\ chan[s] # << >> /\ Take(output, s, << >>)
    BY <1>5 DEF OutputRec, OutputReads, Reads
  <2>2. Taking(s, {}) /\ Proceed(output, << >>, stat)
    BY <1>4, <2>1 DEF Taking, Popped, Take
  <2>3. Orderly(<< >>, OutsOf(output, TaskOuts), {}, {})
    BY OrderOne
  <2> QED BY <1>2, <1>3, <2>1, <2>2, <2>3, StepKeeps
<1>6. CASE OutputSync \/ OutputTerm
  <2>1. ~sink.done /\ todo[output] = << >> /\ chan[s] # << >> /\ IsLast(Top(s)) /\ Take(output, s, <<Free(s)>>)
    BY <1>6 DEF OutputSync, OutputTerm, OutputReads, Reads, IsLast
  <2>2. Taking(s, {s}) /\ Proceed(output, <<Free(s)>>, stat)
    BY <1>4, <2>1 DEF Taking, Popped, Take
  <2>3. Orderly(<<Free(s)>>, OutsOf(output, TaskOuts), {}, {s})
    BY OrderOne, OpUses
  <2> QED BY <1>2, <1>3, <2>1, <2>2, <2>3, StepKeeps
<1> QED BY <1>5, <1>6 DEF OutputStep, GlobOutputTask

(* Nothing is added to what is to be done.                                 *)
LEMMA PendingStays ==
  ASSUME Pending, UNCHANGED todo, Stream' = Stream, Loop' = Loop, Back' = Back,
         \A x : Open(x)' => Open(x), \A d, x : OpenAt(d, x)' <=> OpenAt(d, x)
  PROVE  Pending'
<1> SUFFICES ASSUME NEW d \in DOMAIN todo', NEW i \in DOMAIN todo'[d], NEW x, x = todo'[d][i].s
             PROVE  /\ Uses(todo'[d][i]) =>
                         /\ x \in Stream' \ Loop'
                         /\ OpenAt(d, x)' \/ \E j \in DOMAIN todo'[d] : j >= i /\ IsEnding(todo'[d][j]) /\ todo'[d][j].s = x
                    /\ IsEnding(todo'[d][i]) =>
                         /\ ~Open(x)'
                         /\ \A c \in DOMAIN todo' : \A j \in DOMAIN todo'[c] :
                              IsEnding(todo'[c][j]) /\ todo'[c][j].s = x => c = d /\ j = i
                    /\ IsEnding(todo'[d][i]) /\ todo'[d][i].rec.t = "sync" => x \notin Back'
  BY DEF Pending
<1>1. todo' = todo
  OBVIOUS
<1>2. /\ Uses(todo[d][i]) =>
            /\ x \in Stream \ Loop
            /\ OpenAt(d, x) \/ \E j \in DOMAIN todo[d] : j >= i /\ IsEnding(todo[d][j]) /\ todo[d][j].s = x
      /\ IsEnding(todo[d][i]) =>
            /\ ~Open(x)
            /\ \A c \in DOMAIN todo : \A j \in DOMAIN todo[c] :
                 IsEnding(todo[c][j]) /\ todo[c][j].s = x => c = d /\ j = i
      /\ IsEnding(todo[d][i]) /\ todo[d][i].rec.t = "sync" => x \notin Back
  BY <1>1, PendingFacts
<1> QED BY <1>1, <1>2

(* Every step of the source.                                               *)
LEMMA InputWrites ==
  ASSUME IInv, IInv', WInv, InputStep
  PROVE  WInv'
<1>0. PICK u, r : u = NetIn[src.net] /\ r = src.in[src.pos + 1]
  OBVIOUS
<1>1. NetShape /\ Wired /\ Pending /\ Chans /\ LoopChans /\ LoopState /\ Locals
  BY DEF IInv, Shape, WInv
<1>2. /\ src.pos < Len(src.in) /\ Wrote(u, r) /\ stat' = Touched(u) /\ src' = [src EXCEPT !.pos = @ + 1]
      /\ UNCHANGED todo /\ UNCHANGED <<box, coll, par, sync, split, star, filter, fbVars>>
  BY <1>0 DEF InputStep, GlobInputTask, Wrote
<1>3. /\ src'.net = src.net /\ src'.in = src.in /\ src'.pos = src.pos + 1 /\ src.pos \in Nat
      /\ IsSeq(src.in) /\ \A x \in Range(src.in) : x.t \notin {"sync", "collect"}
      /\ \A i \in DOMAIN src.in : src.in[i].t = "term" => i = Len(src.in)
  <2>1. /\ IsRec(src, {"net", "in", "pos"}) /\ src.net \in Nets /\ src.in \in Inputs[src.net] /\ src.pos \in Nat
    BY DEF IInv, Shape, TaskShape
  <2>2. src'.net = src.net /\ src'.in = src.in /\ src'.pos = src.pos + 1
    BY <1>2, <2>1 DEF IsRec, IsFun
  <2> QED BY <2>1, <2>2, InputAssumption DEF IsSeq
<1>4. src.pos + 1 \in DOMAIN src.in /\ Len(src.in) \in Nat
  <2>1. Len(src.in) \in Nat /\ DOMAIN src.in = 1..Len(src.in)
    BY <1>3, SeqFacts
  <2> QED BY <1>2, <1>3, <2>1
<1>5. r.t # "sync" /\ (IsLast(r) => src.pos + 1 = Len(src.in))
  <2>1. r \in Range(src.in)
    BY <1>0, <1>4 DEF Range
  <2> QED BY <1>0, <1>3, <1>4, <2>1 DEF IsLast
<1>6. /\ TaskOuts' = TaskOuts /\ Loop' = Loop /\ Back' = Back /\ LoopState' /\ Locals' /\ DOMAIN fbbuf' = DOMAIN fbbuf
  <2>1. TaskOuts' = TaskOuts
    BY <1>2, OutsSame DEF TaskOuts, fbVars
  <2>2. Loop' = Loop /\ Back' = Back /\ DOMAIN fbbuf' = DOMAIN fbbuf
    BY <1>2 DEF Loop, Back, fbVars
  <2>3. LoopState' /\ Locals'
    BY <1>1, <1>2, <2>2 DEF LoopState, Locals, fbVars
  <2> QED BY <2>1, <2>2, <2>3
<1> DEFINE a == OutEnd("source", "input", "out", u)
<1>7. SourceOuts = {a} /\ a[4] = u
  BY <1>0, <1>2, OutFacts DEF SourceOuts
<1>8. SourceOuts' \subseteq {a} /\ (IsLast(r) => SourceOuts' = {})
  <2>1. IsLast(r) => ~(src'.pos < Len(src'.in))
    BY <1>3, <1>4, <1>5
  <2> QED BY <1>0, <1>3, <2>1 DEF SourceOuts
<1> HIDE DEF a
<1>9. Outs' \subseteq Outs /\ a \in Outs
  BY <1>6, <1>7, <1>8 DEF Outs
<1>10. /\ u \in Stream /\ u \notin Loop /\ Loop \subseteq Stream /\ Back \subseteq Stream
       /\ \A b \in TaskOuts : b[4] # u
  <2>1. /\ \A b, c \in Outs : b[4] = c[4] => b = c
        /\ \A b \in Outs : b[4] \in Stream \ Loop
        /\ Loop \subseteq Stream /\ Back \subseteq Stream \ Loop
        /\ \A b \in TaskOuts : b \notin SourceOuts
    BY <1>1, WiringFacts
  <2> QED BY <1>7, <1>9, <2>1 DEF Outs
<1>11. /\ \A x : Open(x)' => Open(x)
       /\ \A d, x : OpenAt(d, x)' <=> OpenAt(d, x)
       /\ \A x : Ending(x)' <=> Ending(x)
       /\ Open(u)
  BY <1>2, <1>6, <1>7, <1>9 DEF Open, OpenAt, Ending
<1>12. \A x : Gone(x)' => Gone(x)
  <2>1. DOMAIN Touched(u) = DOMAIN stat /\ \A x \in DOMAIN stat : Touched(u)[x] = "freed" => stat[x] = "freed"
    BY <1>1, TouchedFacts
  <2> QED BY <1>2, <2>1 DEF Gone
<1>13. ~Ended(u) /\ ~Gone(u)
  BY <1>1, <1>10, <1>11, ChanFacts
<1>14. ~Ending(u)
  <2> SUFFICES ASSUME NEW d \in DOMAIN todo, NEW i \in DOMAIN todo[d], IsEnding(todo[d][i]), todo[d][i].s = u PROVE FALSE
    BY DEF Ending
  <2>1. ~Open(u)
    BY <1>1, PendingFacts
  <2> QED BY <1>11, <2>1
<1>15. IsLast(r) => ~Open(u)' /\ ~Ending(u)'
  <2>1. ASSUME IsLast(r), Open(u)' PROVE FALSE
    <3>1. PICK b \in Outs' : b[4] = u
      BY <2>1 DEF Open
    <3>2. b \in TaskOuts
      BY <1>6, <1>8, <2>1, <3>1 DEF Outs
    <3> QED BY <1>10, <3>1, <3>2
  <2> QED BY <1>11, <1>14, <2>1
<1>16. Chans' /\ LoopChans'
  BY <1>1, <1>2, <1>5, <1>6, <1>10, <1>11, <1>12, <1>13, <1>15, WroteChans
<1>17. Stream' = Stream
  BY <1>1, <1>2, <1>10, WroteFacts
<1>18. Wired'
  BY <1>1, <1>3, <1>6, <1>9, <1>17 DEF Wired
<1>19. Pending'
  BY <1>1, <1>2, <1>6, <1>11, <1>17, PendingStays
<1> QED BY <1>6, <1>16, <1>18, <1>19 DEF WInv

(* What the buffer of a feedback combinator keeps: its streams, and the    *)
(* sync records in its queue, are of the loop.                             *)
LEMMA BufState ==
  ASSUME IInv, WInv, NEW f \in DOMAIN fbbuf, UNCHANGED <<fbcoll, split, par>>, Edited(fbbuf, fbbuf', f),
         fbbuf'[f].out \in Loop, \A i \in DOMAIN fbbuf'[f].q : fbbuf'[f].q[i].t = "sync" => fbbuf'[f].q[i].s \in Loop
  PROVE  DOMAIN fbbuf' = DOMAIN fbbuf /\ Loop' = Loop /\ Back' = Back /\ LoopState' /\ Locals'
<1>1. DOMAIN fbbuf' = DOMAIN fbbuf /\ \A g \in DOMAIN fbbuf : g # f => fbbuf'[g] = fbbuf[g]
  BY DEF Edited
<1>2. Loop' = Loop /\ Back' = Back
  BY <1>1 DEF Loop, Back
<1>3. LoopState /\ Locals
  BY DEF WInv
<1>4. LoopState'
  <2>1. \A g \in DOMAIN fbcoll' : fbcoll'[g].back \in Loop
    BY <1>3 DEF LoopState
  <2>2. ASSUME NEW g \in DOMAIN fbbuf
        PROVE  /\ fbbuf'[g].out \in Loop
               /\ \A i \in DOMAIN fbbuf'[g].q : fbbuf'[g].q[i].t = "sync" => fbbuf'[g].q[i].s \in Loop
    BY <1>1, <1>3 DEF LoopState
  <2> QED BY <1>1, <1>2, <2>1, <2>2 DEF LoopState
<1>5. Locals'
  BY <1>3 DEF Locals
<1> QED BY <1>1, <1>2, <1>4, <1>5

(* A record of the queue goes to a stream of the loop.                     *)
LEMMA LoopWrites ==
  ASSUME IInv, WInv, NEW u \in Loop, NEW r, Wrote(u, r), r.t = "sync" => r.s \in Loop, stat' = Touched(u), UNCHANGED <<todo, src>>,
         TaskOuts' = TaskOuts, DOMAIN fbbuf' = DOMAIN fbbuf, Loop' = Loop, Back' = Back, LoopState', Locals'
  PROVE  WInv'
<1>1. NetShape /\ Wired /\ Pending /\ Chans /\ LoopChans
  BY DEF IInv, Shape, WInv
<1>2. u \in Stream /\ Loop \subseteq Stream /\ Back \subseteq Stream /\ \A x \in Back : x \notin Loop
  BY <1>1, WiringFacts
<1>3. /\ Stream' = Stream /\ \A x \in Stream : x # u => chan'[x] = chan[x]
      /\ \A i \in DOMAIN chan'[u] : \/ i \in DOMAIN chan[u] /\ chan'[u][i] = chan[u][i]
                                    \/ chan'[u][i] = r /\ i = Len(chan'[u])
  BY <1>1, <1>2, WroteFacts
<1>4. Outs' = Outs
  BY DEF Outs, SourceOuts
<1>5. /\ \A x : Open(x)' <=> Open(x)
      /\ \A d, x : OpenAt(d, x)' <=> OpenAt(d, x)
      /\ \A x : Ending(x)' <=> Ending(x)
  BY <1>4 DEF Open, OpenAt, Ending
<1>6. \A x : Gone(x)' => Gone(x)
  <2>1. DOMAIN Touched(u) = DOMAIN stat /\ \A x \in DOMAIN stat : Touched(u)[x] = "freed" => stat[x] = "freed"
    BY <1>1, TouchedFacts
  <2> QED BY <2>1 DEF Gone
<1>7. Wired'
  BY <1>1, <1>3, <1>4 DEF Wired
<1>8. Pending'
  BY <1>1, <1>3, <1>5, PendingStays
<1>9. Chans'
  <2>1. ASSUME NEW x \in Stream, x \notin Loop
        PROVE  /\ (Ended(x) => ~Open(x) /\ ~Ending(x))'
               /\ \A i \in DOMAIN chan'[x] : IsLast(chan'[x][i]) => i = Len(chan'[x])
               /\ (Gone(x) => chan[x] = << >> /\ ~Open(x) /\ ~Ending(x))'
    <3>1. chan'[x] = chan[x]
      BY <1>3, <2>1
    <3>2. /\ Ended(x) => ~Open(x) /\ ~Ending(x)
          /\ \A i \in DOMAIN chan[x] : IsLast(chan[x][i]) => i = Len(chan[x])
          /\ Gone(x) => chan[x] = << >> /\ ~Open(x) /\ ~Ending(x)
      BY <1>1, <2>1, ChanFacts
    <3>3. Ended(x)' <=> Ended(x)
      BY <3>1 DEF Ended
    <3> QED BY <1>5, <1>6, <3>1, <3>2, <3>3
  <2> QED BY <1>3, <2>1 DEF Chans
<1>10. LoopChans'
  <2>1. ASSUME NEW x \in Loop, NEW i \in DOMAIN chan'[x], chan'[x][i].t = "sync" PROVE chan'[x][i].s \in Loop
    <3>1. CASE x = u
      BY <1>1, <1>3, <2>1, <3>1 DEF LoopChans
    <3>2. CASE x # u
      BY <1>1, <1>2, <1>3, <2>1, <3>2 DEF LoopChans
    <3> QED BY <3>1, <3>2
  <2>2. ASSUME NEW x \in Back, NEW i \in DOMAIN chan'[x] PROVE chan'[x][i].t # "sync"
    <3>1. chan'[x] = chan[x]
      BY <1>2, <1>3, <2>2
    <3> QED BY <1>1, <2>2, <3>1 DEF LoopChans
  <2> QED BY <2>1, <2>2 DEF LoopChans
<1> QED BY <1>7, <1>8, <1>9, <1>10 DEF WInv

(* Every step of a feedback buffer.                                        *)
LEMMA FbBufWrites ==
  ASSUME IInv, IInv', WInv, NEW f \in DOMAIN fbcoll, FbBufStep(f)
  PROVE  WInv'
<1> DEFINE e == FbBuf[f]
           s == BackIn[f]
           q == fbbuf[f].q
           made == fbbuf[f].made
<1>1. /\ NetShape /\ FeedbackShape /\ LoopState /\ LoopChans /\ Wired
      /\ UNCHANGED <<box, coll, par, sync, split, star, filter, fbcoll, fbdisp, src, sink>>
  BY DEF IInv, Shape, FbBufStep, FeedbackBufTask, WInv
<1>2. f \in DOMAIN fbbuf /\ f \in Feedbacks /\ IsFun(fbbuf) /\ IsBuf(fbbuf[f]) /\ IsSeq(q) /\ made \in Nat \ {0}
  BY <1>1 DEF FeedbackShape
<1>3. TaskOuts' = TaskOuts
  BY <1>1, OutsSame DEF TaskOuts
<1>4. s \in Back /\ s \in Stream /\ s \notin Loop /\ fbbuf[f].out \in Loop
  <2>1. s \in Back
    BY <1>2 DEF Back
  <2> QED BY <1>1, <1>2, <2>1, WiringFacts DEF LoopState
<1>5. /\ \A i \in DOMAIN q : q[i].t = "sync" => q[i].s \in Loop
      /\ DOMAIN q = 1..Len(q) /\ Len(q) \in Nat
  BY <1>1, <1>2, SeqFacts DEF LoopState
<1>6. chan[s] # << >> => Top(s).t # "sync"
  <2>1. chan[s] # << >> => 1 \in DOMAIN chan[s] /\ Top(s) = chan[s][1]
    BY <1>1, <1>4, SeqFacts DEF NetShape, Stream, Top
  <2> QED BY <1>1, <1>4, <2>1 DEF LoopChans
<1>7. ASSUME Edited(fbbuf, fbbuf', f), fbbuf'[f].out \in Loop,
             \A i \in DOMAIN fbbuf'[f].q : fbbuf'[f].q[i].t = "sync" => fbbuf'[f].q[i].s \in Loop
      PROVE  Framed /\ Loop' = Loop /\ Back' = Back
  BY <1>1, <1>2, <1>7, BufState DEF Framed
<1>8. ASSUME NEW recs, NEW n, NEW k, IsSeq(recs), \A i \in DOMAIN recs : recs[i].t = "sync" => recs[i].s \in Loop,
             todo[e] = << >>, chan[s] # << >>, BufPut(f, recs, n, k)
      PROVE  WInv'
  <2>1. Take(e, s, << >>)
    BY <1>8 DEF BufPut
  <2>2. Edited(fbbuf, fbbuf', f) /\ fbbuf'[f].q = q \o recs /\ fbbuf'[f].out = fbbuf[f].out
    BY <1>2, <1>8 DEF BufPut, Edited, IsRec, IsBuf, IsFun
  <2>3. \A i \in DOMAIN (q \o recs) : (q \o recs)[i].t = "sync" => (q \o recs)[i].s \in Loop
    <3>1. /\ DOMAIN (q \o recs) = 1..(Len(q) + Len(recs))
          /\ \A i \in 1..(Len(q) + Len(recs)) : (q \o recs)[i] = IF i <= Len(q) THEN q[i] ELSE recs[i - Len(q)]
      BY <1>2, <1>8, ConcatSeq
    <3>2. DOMAIN recs = 1..Len(recs) /\ Len(recs) \in Nat
      BY <1>8, SeqFacts
    <3>3. ASSUME NEW i \in 1..(Len(q) + Len(recs))
          PROVE  /\ i <= Len(q) => i \in DOMAIN q
                 /\ ~(i <= Len(q)) => i - Len(q) \in DOMAIN recs
      BY <1>5, <3>2
    <3> QED BY <1>5, <1>8, <3>1, <3>3
  <2>4. Framed
    BY <1>4, <1>7, <2>2, <2>3
  <2>5. Taking(s, {}) /\ Proceed(e, << >>, stat)
    BY <1>4, <1>8, <2>1 DEF Taking, Popped, Take
  <2>6. Orderly(<< >>, OutsOf(e, TaskOuts), {}, {})
    BY OrderOne
  <2> QED BY <1>3, <1>8, <2>4, <2>5, <2>6, StepKeeps
<1>9. ASSUME todo[e] = << >>, chan[s] # << >>, NEW n, NEW k, BufPut(f, <<Top(s)>>, n, k) PROVE WInv'
  <2>1. IsSeq(<<Top(s)>>) /\ \A i \in DOMAIN <<Top(s)>> : <<Top(s)>>[i].t = "sync" => <<Top(s)>>[i].s \in Loop
    BY <1>6, <1>9, ShortSeq
  <2> QED BY <1>8, <1>9, <2>1
<1>10. ASSUME Edited(fbbuf, fbbuf', f), fbbuf'[f].q = q, fbbuf'[f].out = fbbuf[f].out, UNCHANGED netVars PROVE WInv'
  <2>1. Framed
    BY <1>4, <1>5, <1>7, <1>10
  <2> QED BY <1>3, <1>10, <2>1, StayWrites
<1>11. CASE BufRead(f)
  BY <1>9, <1>11 DEF BufRead, BufAt, BufHas
<1>12. CASE BufTerm(f)
  <2>1. todo[e] = << >> /\ chan[s] # << >> /\ Top(s) = Term /\ Take(e, s, <<Free(s)>>) /\ fbbuf' = [fbbuf EXCEPT ![f].done = TRUE]
    BY <1>12 DEF BufTerm, BufAt, BufHas
  <2>2. Edited(fbbuf, fbbuf', f) /\ fbbuf'[f].q = q /\ fbbuf'[f].out = fbbuf[f].out
    BY <1>2, <2>1 DEF Edited, IsRec, IsBuf, IsFun
  <2>3. Framed
    BY <1>4, <1>5, <1>7, <2>2
  <2>4. IsLast(Top(s))
    BY <2>1, OpUses
  <2>5. Taking(s, {s}) /\ Proceed(e, <<Free(s)>>, stat)
    BY <1>4, <2>1, <2>4 DEF Taking, Popped, Take
  <2>6. Orderly(<<Free(s)>>, OutsOf(e, TaskOuts), {}, {s})
    BY OrderOne, OpUses
  <2> QED BY <1>3, <2>1, <2>3, <2>5, <2>6, StepKeeps
<1>13. CASE BufPeek(f)
  <2>1. CASE BufHas(f) /\ BufPut(f, <<Top(BackIn[f])>>, 1, fbbuf[f].made)
    BY <1>9, <1>13, <2>1 DEF BufPeek, BufAt, BufHas
  <2>2. CASE fbbuf' = [fbbuf EXCEPT ![f].n = 0, ![f].pc = "more"] /\ UNCHANGED netVars
    <3>1. Edited(fbbuf, fbbuf', f) /\ fbbuf'[f].q = q /\ fbbuf'[f].out = fbbuf[f].out
      BY <1>2, <2>2 DEF Edited, IsRec, IsBuf, IsFun
    <3> QED BY <1>10, <2>2, <3>1
  <2> QED BY <1>13, <2>1, <2>2 DEF BufPeek
<1>14. CASE BufMore(f)
  <2>1. todo[e] = << >> /\ chan[s] # << >>
    BY <1>14 DEF BufMore, BufAt, BufHas
  <2>2. CASE made < Len(BackOuts[f]) /\ BufPut(f, Grown(f, Top(s)), fbbuf[f].n + 1, made + 1)
    <3> DEFINE y == Sync(BackOuts[f][made + 1], NULL)
               recs == Grown(f, Top(s))
    <3>1. y.s \in Loop
      <4>1. Len(BackOuts[f]) \in Nat
        BY <1>2, FeedbackAssumption, LenProperties
      <4>2. made + 1 \in 1 .. Len(BackOuts[f])
        BY <1>2, <2>2, <4>1
      <4>3. y.s = BackOuts[f][made + 1]
        BY DEF Sync
      <4> HIDE DEF y
      <4> QED BY <1>2, <4>2, <4>3 DEF Loop
    <3>2. recs = <<y, Top(s)>>
      BY DEF Grown
    <3> HIDE DEF y, recs
    <3>3. IsSeq(recs) /\ DOMAIN recs = {1, 2} /\ recs[1] = y /\ recs[2] = Top(s)
      <4>1. <<y, Top(s)>> \in Seq({y, Top(s)}) /\ DOMAIN <<y, Top(s)>> = {1, 2} /\ <<y, Top(s)>>[1] = y /\ <<y, Top(s)>>[2] = Top(s)
        OBVIOUS
      <4> QED BY <3>2, <4>1, SeqIsSeq
    <3>4. \A i \in DOMAIN recs : recs[i].t = "sync" => recs[i].s \in Loop
      BY <1>6, <2>1, <3>1, <3>3
    <3> QED BY <1>8, <2>1, <2>2, <3>3, <3>4 DEF recs
  <2>3. CASE BufPut(f, <<Top(s)>>, fbbuf[f].n + 1, made)
    BY <1>9, <2>1, <2>3
  <2> QED BY <1>14, <2>2, <2>3 DEF BufMore
<1>15. CASE BufEnough(f)
  <2>1. fbbuf' = [fbbuf EXCEPT ![f].pc = "empty"] /\ UNCHANGED netVars
    BY <1>15 DEF BufEnough
  <2>2. Edited(fbbuf, fbbuf', f) /\ fbbuf'[f].q = q /\ fbbuf'[f].out = fbbuf[f].out
    BY <1>2, <2>1 DEF Edited, IsRec, IsBuf, IsFun
  <2> QED BY <1>10, <2>1, <2>2
<1>16. CASE BufTryWrite(f)
  <2>0. PICK u, r : u = fbbuf[f].out /\ r = Head(q)
    OBVIOUS
  <2>2. CASE fbbuf' = [fbbuf EXCEPT ![f].pc = "first"] /\ UNCHANGED netVars
    <3>1. Edited(fbbuf, fbbuf', f) /\ fbbuf'[f].q = q /\ fbbuf'[f].out = fbbuf[f].out
      BY <1>2, <2>2 DEF Edited, IsRec, IsBuf, IsFun
    <3> QED BY <1>10, <2>2, <3>1
  <2>3. CASE /\ q # << >> /\ chan' = [chan EXCEPT ![u] = Append(@, r)] /\ stat' = Touched(u) /\ todo' = todo
             /\ fbbuf' = [fbbuf EXCEPT ![f].q = Tail(@), ![f].out = IF r.t = "sync" THEN r.s ELSE @]
    <3>1. r.t = "sync" => r.s \in Loop
      BY <1>2, <1>5, <2>0, <2>3, SeqFacts
    <3>2. Edited(fbbuf, fbbuf', f) /\ fbbuf'[f].q = Tail(q) /\ fbbuf'[f].out = IF r.t = "sync" THEN r.s ELSE fbbuf[f].out
      BY <1>2, <2>3 DEF Edited, IsRec, IsBuf, IsFun
    <3>3. \A i \in DOMAIN Tail(q) : Tail(q)[i].t = "sync" => Tail(q)[i].s \in Loop
      <4>1. DOMAIN Tail(q) = 1..(Len(q) - 1) /\ \A i \in DOMAIN Tail(q) : Tail(q)[i] = q[i + 1]
        BY <1>2, <2>3, TailSeq
      <4>2. \A i \in 1..(Len(q) - 1) : i + 1 \in DOMAIN q
        BY <1>5
      <4> QED BY <1>5, <4>1, <4>2
    <3>4. Framed /\ Loop' = Loop /\ Back' = Back
      BY <1>4, <1>7, <3>1, <3>2, <3>3
    <3>5. Wrote(u, r) /\ u \in Loop
      BY <1>4, <2>0, <2>3 DEF Wrote
    <3> QED BY <1>1, <1>3, <2>3, <3>1, <3>4, <3>5, LoopWrites DEF Framed
  <2> QED BY <1>16, <2>0, <2>2, <2>3 DEF BufTryWrite
<1> QED BY <1>11, <1>12, <1>13, <1>14, <1>15, <1>16 DEF FbBufStep, FeedbackBufTask

-----------------------------------------------------------------------------
(* Every step of the network keeps the writers in order.                   *)
LEMMA StepWrites ==
  ASSUME IInv, WInv, [Next]_vars
  PROVE  WInv'
<1>1. IInv'
  BY StepInv
<1>2. CASE UNCHANGED vars
  <2>1. UNCHANGED netVars /\ UNCHANGED <<src, fbVars, split, par>> /\ UNCHANGED <<box, coll, sync, star, filter>>
    BY <1>2 DEF vars
  <2>2. Framed
    BY <1>1, <2>1, FrameSame
  <2>3. TaskOuts' = TaskOuts
    BY <2>1, OutsSame DEF TaskOuts, fbVars
  <2> QED BY <2>1, <2>2, <2>3, StayWrites
<1>3. CASE Work
  <2>1. CASE \E e \in Entity : Flushes(e)
    BY <1>1, <2>1, FlushWrites DEF Entity
  <2>2. CASE \E b \in DOMAIN box : BoxStep(b)
    BY <1>1, <2>2, BoxWrites
  <2>3. CASE \E c \in DOMAIN coll : CollStep(c)
    BY <1>1, <2>3, CollWrites
  <2>4. CASE \E p \in DOMAIN par : ParStep(p)
    BY <1>1, <2>4, ParWrites
  <2>5. CASE \E x \in DOMAIN sync : SyncStep(x)
    BY <1>1, <2>5, SyncWrites
  <2>6. CASE \E x \in DOMAIN split : SplitStep(x)
    BY <1>1, <2>6, SplitWrites
  <2>7. CASE \E x \in DOMAIN star : StarStep(x)
    BY <1>1, <2>7, StarWrites
  <2>8. CASE \E f \in DOMAIN filter : FilterStep(f)
    BY <1>1, <2>8, FilterWrites
  <2>9. CASE \E f \in DOMAIN fbcoll : FbCollStep(f) \/ FbDispStep(f)
    BY <1>1, <2>9, FbCollWrites, FbDispWrites
  <2>10. CASE InputStep
    BY <1>1, <2>10, InputWrites
  <2>11. CASE OutputStep
    BY <1>1, <2>11, OutputWrites
  <2> QED BY <1>3, <2>1, <2>2, <2>3, <2>4, <2>5, <2>6, <2>7, <2>8, <2>9, <2>10, <2>11 DEF Work
<1>4. CASE Buffering
  BY <1>1, <1>4, FbBufWrites DEF Buffering
<1> QED BY <1>2, <1>3, <1>4 DEF Next, Idle

(* Every writing end is in the hands of the one entity that the creation   *)
(* functions gave it to.                                                   *)
LEMMA InitOuts ==
  ASSUME Init
  PROVE  Wired
<1>1. PICK n \in Nets :
        /\ NetInit(Links[n], Members[n])
        /\ BoxInit(Members[n]) /\ CollInit(Members[n]) /\ ParInit(Members[n]) /\ SyncInit(Members[n])
        /\ SplitInit(Members[n]) /\ StarInit(Members[n]) /\ FilterInit(Members[n]) /\ FeedbackInit(Members[n])
        /\ src \in [net : {n}, in : Inputs[n], pos : {0}]
  BY DEF Init
<1> DEFINE I == InitialOuts(n)
           here == Members[n]
           fbs  == {f \in Feedbacks : FbColl[f] \in here}
<1> DEFINE OfBoxes == {OutEnd("box", e, "out", BoxOut[e]) : e \in Boxes \cap here}
           OfFilters == {OutEnd("filter", e, "out", FilterOut[e]) : e \in Filters \cap here}
           OfSyncs == {OutEnd("sync", e, "out", SyncOut[e]) : e \in Syncs \cap here}
           OfColls == {OutEnd("coll", e, "out", CollOut[e]) : e \in Collectors \cap here}
           OfPars == UNION {{OutEnd("par", e, i, ParOuts[e][i]) : i \in Branches(e)} : e \in Parallels \cap here}
           OfSplits == {OutEnd("split", e, "out", SplitInitial[e]) : e \in Splits \cap here}
           OfReplicas == UNION {{OutEnd("replica", e, k, RepIn[e][k]) : k \in 1 .. Len(RepOut[e])} : e \in Splits \cap here}
           OfStars == {OutEnd("star", e, "out", StarOut[e]) : e \in Stars \cap here}
           OfNexts == {OutEnd("next", e, "out", StarNext[e]) : e \in Stars \cap here}
           OfFbColls == {OutEnd("fbcoll", FbColl[f], f, IntoOp[f]) : f \in fbs}
           OfFbDisps == {OutEnd("fbdisp", FbDisp[f], f, FbOut[f]) : f \in fbs}
           OfBacks == {OutEnd("fbback", FbDisp[f], f, BackIn[f]) : f \in fbs}
           OfBufs == UNION {{OutEnd("fbbuf", f, k, BackOuts[f][k]) : k \in 1 .. Len(BackOuts[f])} : f \in fbs}
           OfSource == {OutEnd("source", "input", "out", NetIn[n])}
<1>2. I = OfBoxes \cup OfFilters \cup OfSyncs \cup OfColls \cup OfPars \cup OfSplits \cup OfReplicas \cup OfStars
           \cup OfNexts \cup OfFbColls \cup OfFbDisps \cup OfBacks \cup OfBufs \cup OfSource
  BY DEF InitialOuts
<1>3. /\ OfBoxes \subseteq I /\ OfFilters \subseteq I /\ OfSyncs \subseteq I /\ OfColls \subseteq I /\ OfPars \subseteq I
      /\ OfSplits \subseteq I /\ OfReplicas \subseteq I /\ OfStars \subseteq I /\ OfNexts \subseteq I /\ OfFbColls \subseteq I
      /\ OfFbDisps \subseteq I /\ OfBacks \subseteq I /\ OfSource \subseteq I
  <2> HIDE DEF I, OfBoxes, OfFilters, OfSyncs, OfColls, OfPars, OfSplits, OfReplicas, OfStars, OfNexts, OfFbColls, OfFbDisps, OfBacks, OfBufs, OfSource
  <2> QED BY <1>2
<1> HIDE DEF I
<1>4. OneOuts("box", box, BoxOut) \subseteq I
  <2>1. DOMAIN box = Boxes \cap here
    BY <1>1 DEF BoxInit
  <2> QED BY <1>3, <2>1 DEF OneOuts
<1>5. OneOuts("filter", filter, FilterOut) \subseteq I
  <2>1. DOMAIN filter = Filters \cap here
    BY <1>1 DEF FilterInit
  <2> QED BY <1>3, <2>1 DEF OneOuts
<1>6. OneOuts("sync", sync, SyncOut) \subseteq I
  <2>1. DOMAIN sync = Syncs \cap here
    BY <1>1 DEF SyncInit
  <2> QED BY <1>3, <2>1 DEF OneOuts
<1>7. OneOuts("coll", coll, CollOut) \subseteq I
  <2>1. DOMAIN coll = Collectors \cap here
    BY <1>1 DEF CollInit
  <2> QED BY <1>3, <2>1 DEF OneOuts
<1>8. BranchOuts \subseteq I
  <2>1. DOMAIN par = Parallels \cap here /\ \A e \in DOMAIN par : par[e].live = Branches(e)
    BY <1>1 DEF ParInit
  <2> QED BY <1>3, <2>1 DEF BranchOuts
<1>9. OneOuts("split", split, SplitInitial) \subseteq I /\ ReplicaOuts \subseteq I
  <2>1. DOMAIN split = Splits \cap here
    BY <1>1 DEF SplitInit
  <2> QED BY <1>3, <2>1 DEF OneOuts, ReplicaOuts
<1>10. OneOuts("star", star, StarOut) \subseteq I /\ OneOuts("next", star, StarNext) \subseteq I
  <2>1. DOMAIN star = Stars \cap here
    BY <1>1 DEF StarInit
  <2> QED BY <1>3, <2>1 DEF OneOuts
<1>11. DOMAIN fbcoll = fbs /\ DOMAIN fbdisp = fbs /\ DOMAIN fbbuf = fbs
  BY <1>1 DEF FeedbackInit
<1>12. /\ FbOuts("fbcoll", fbcoll, FbColl, IntoOp) \subseteq I /\ FbOuts("fbdisp", fbdisp, FbDisp, FbOut) \subseteq I
       /\ FbOuts("fbback", fbdisp, FbDisp, BackIn) \subseteq I
  <2> HIDE DEF fbs
  <2> QED BY <1>3, <1>11 DEF FbOuts
<1>13. src.net = n
  BY <1>1
<1>14. SourceOuts \subseteq I
  BY <1>3, <1>13 DEF SourceOuts
<1>15. Outs \subseteq I
  BY <1>4, <1>5, <1>6, <1>7, <1>8, <1>9, <1>10, <1>12, <1>14 DEF Outs, TaskOuts
<1>16. Stream = Links[n]
  BY <1>1 DEF NetInit, Stream
<1> QED BY <1>11, <1>13, <1>15, <1>16 DEF Wired, I

(* In the beginning nothing has been written.                              *)
LEMMA InitWrites ==
  ASSUME Init
  PROVE  WInv
<1>1. PICK n \in Nets :
        /\ NetInit(Links[n], Members[n]) /\ ParInit(Members[n]) /\ SplitInit(Members[n]) /\ FeedbackInit(Members[n])
  BY DEF Init
<1>2. Wired /\ Shape
  BY InitOuts, InitShape
<1>3. /\ \A s \in DOMAIN chan : chan[s] = << >>
      /\ \A s \in DOMAIN stat : stat[s] = "fresh"
      /\ \A e \in DOMAIN todo : todo[e] = << >>
  BY <1>1 DEF NetInit
<1>4. DOMAIN << >> = {}
  BY ShortSeq, SeqFacts
<1>5. Pending
  BY <1>3, <1>4 DEF Pending
<1>6. Chans
  <2>1. \A s \in Stream : ~Ended(s)
    BY <1>3, <1>4 DEF Ended, Stream
  <2>2. \A s \in Stream : ~Gone(s)
    BY <1>3, <1>4 DEF Gone
  <2> QED BY <1>3, <1>4, <2>1, <2>2 DEF Chans, Stream
<1>7. Loop \subseteq Stream /\ Back \subseteq Stream /\ \A f \in DOMAIN fbbuf : BackOuts[f][1] \in Loop
  BY <1>2, InitEnds, InitColl, WiringFacts DEF IInv
<1>8. LoopChans
  BY <1>3, <1>4, <1>7 DEF LoopChans, Stream
<1>9. LoopState
  <2>1. /\ DOMAIN fbcoll = DOMAIN fbbuf
        /\ \A f \in DOMAIN fbbuf : fbcoll[f].back = BackOuts[f][1] /\ fbbuf[f].out = BackOuts[f][1] /\ fbbuf[f].q = << >>
    BY <1>1 DEF FeedbackInit
  <2> QED BY <1>4, <1>7, <2>1 DEF LoopState
<1>10. Locals
  <2>1. DOMAIN split \subseteq Splits /\ \A x \in DOMAIN split : split[x].tab = << >> /\ split[x].rec = << >>
    BY <1>1 DEF SplitInit
  <2>2. \A x \in DOMAIN split : Len(split[x].tab) <= Len(RepOut[x])
    <3>1. \A x \in Splits : Len(RepOut[x]) \in Nat
      BY SplitAssumption, LenProperties
    <3>2. Len(<< >>) = 0
      BY EmptySeq
    <3> QED BY <2>1, <3>1, <3>2
  <2>3. \A p \in DOMAIN par : par[p].start = 1 /\ par[p].live = Branches(p)
    BY <1>1 DEF ParInit
  <2> QED BY <2>1, <2>2, <2>3 DEF Locals
<1> QED BY <1>2, <1>5, <1>6, <1>8, <1>9, <1>10 DEF WInv

(* The two invariants together.                                            *)
THEOREM WriterInvariance == Spec => [](IInv /\ WInv)
<1>1. Init => IInv /\ WInv
  BY InitShape, InitEnds, InitColl, InitWrites DEF IInv
<1>2. IInv /\ WInv /\ [Next]_vars => (IInv /\ WInv)'
  BY StepInv, StepWrites
<1> QED BY <1>1, <1>2, PTL DEF Spec

(* What is to be written, created or destroyed, and what is in the streams *)
(* that are destroyed.                                                     *)
LEMMA WritesLast ==
  ASSUME IInv, WInv
  PROVE  /\ \A s \in Destroyed \ Loop : chan[s] = << >>
         /\ \A e \in Entity : \A i \in DOMAIN todo[e] : todo[e][i].op # "freed" => todo[e][i].s \notin Destroyed
<1>1. Chans /\ Pending /\ DOMAIN stat = DOMAIN chan
  BY DEF WInv, IInv, Shape, NetShape
<1>2. \A s \in Destroyed : s \in Stream /\ Gone(s)
  BY <1>1 DEF Destroyed, Gone, Stream
<1>3. \A s \in Destroyed \ Loop : chan[s] = << >>
  BY <1>1, <1>2, ChanFacts
<1>4. ASSUME NEW e \in Entity, NEW i \in DOMAIN todo[e], todo[e][i].op # "freed", todo[e][i].s \in Destroyed
      PROVE  FALSE
  <2>0. PICK x : x = todo[e][i].s
    OBVIOUS
  <2>1. /\ x \in Stream \ Loop
        /\ OpenAt(e, x) \/ \E j \in DOMAIN todo[e] : j >= i /\ IsEnding(todo[e][j]) /\ todo[e][j].s = x
    BY <1>1, <1>4, <2>0, PendingFacts DEF Entity, Uses
  <2>2. ~Open(x) /\ ~Ending(x)
    BY <1>1, <1>2, <1>4, <2>0, <2>1, ChanFacts
  <2>3. OpenAt(e, x) => Open(x)
    BY DEF OpenAt, Open, Outs
  <2>4. (\E j \in DOMAIN todo[e] : j >= i /\ IsEnding(todo[e][j]) /\ todo[e][j].s = x) => Ending(x)
    BY DEF Ending, Entity
  <2> QED BY <2>1, <2>2, <2>3, <2>4
<1> QED BY <1>3, <1>4

(* No entity has a write to do to a stream that SNetStreamClose(sd, true)  *)
(* or SNetStreamReplace has freed, and no record lies in such a stream but *)
(* perhaps one of a feedback loop: a stream is freed by its reader only    *)
(* behind the termination or sync record that is the last its one writer   *)
(* sends, whatever the network dissolves or creates meanwhile.             *)
THEOREM WriteSafe ==
  Spec => [](/\ \A s \in Destroyed \ Loop : chan[s] = << >>
             /\ \A e \in Entity : \A i \in DOMAIN todo[e] : todo[e][i].op # "freed" => todo[e][i].s \notin Destroyed)
<1>1. IInv /\ WInv => /\ \A s \in Destroyed \ Loop : chan[s] = << >>
                      /\ \A e \in Entity : \A i \in DOMAIN todo[e] : todo[e][i].op # "freed" => todo[e][i].s \notin Destroyed
  BY WritesLast
<1> QED BY <1>1, WriterInvariance, PTL

(* In a network without a feedback combinator no stream that was freed is  *)
(* read, written, handed over or freed again.                              *)
THEOREM UseSafe == Spec => [](DOMAIN fbbuf = {} => NoUseAfterFree)
<1>1. IInv /\ WInv /\ NoReadAfterFree => (DOMAIN fbbuf = {} => NoUseAfterFree)
  <2> SUFFICES ASSUME IInv, WInv, NoReadAfterFree, DOMAIN fbbuf = {} PROVE NoUseAfterFree
    OBVIOUS
  <2>1. Loop = {}
    BY DEF Loop
  <2> QED BY <2>1, WritesLast DEF NoUseAfterFree, NoWriteAfterFree
<1> QED BY <1>1, WriterInvariance, ReadSafe, PTL
=============================================================================
