------------------------------ MODULE NetEnds -------------------------------
(***************************************************************************)
(* The reading ends of the streams of a network, for every wiring: the     *)
(* invariant that every stream has one end, which is promised, held,       *)
(* handed over, about to be destroyed or destroyed, and what reads, writes *)
(* and local steps do to it whichever entity takes them.                   *)
(***************************************************************************)
EXTENDS StreamNet, SequenceTheorems, FiniteSetTheorems, WellFoundedInduction, TLAPS

(* Functions and sequences of whatever.                                    *)
IsFun(f) == f = [x \in DOMAIN f |-> f[x]]
IsSeq(s) == s \in Seq(Range(s))

(* The ends of streams that are still to be created.                       *)
ReplicaEnds  == UNION {{<<"replica", x, k, RepOut[x][k]>> : k \in Len(split[x].tab) + 1 .. Len(RepOut[x])} :
                         x \in DOMAIN split}
InstanceEnds == {<<"instance", x, "in", StarChildOut[x]>> : x \in {e \in DOMAIN star : ~star[e].next}}
GrownEnds    == UNION {{<<"grown", f, k, BackOuts[f][k]>> : k \in fbbuf[f].made + 1 .. Len(BackOuts[f])} :
                         f \in DOMAIN fbbuf}

(* Operations that pass an end on or destroy it, and that end.             *)
Bears(o) == o.op = "freed" \/ IsPass(o)
EndOf(o) == IF o.op = "write" THEN o.rec.s ELSE o.s
DoEnds(e, ops) == {<<"todo", e, i, EndOf(ops[i])>> : i \in {k \in DOMAIN ops : Bears(ops[k])}}
TodoEnds == UNION {DoEnds(e, todo[e]) : e \in DOMAIN todo}

(* The ends of destroyed streams.                                          *)
FreedEnds(st) == {<<"freed", s, "in", s>> : s \in {x \in DOMAIN st : st[x] = "freed"}}

(* What the entities hold, and what lies in streams, is to be done or done.*)
Held == Reading \cup QueueEnds \cup ReplicaEnds \cup InstanceEnds \cup GrownEnds
Ends == Held \cup ChanEnds \cup TodoEnds \cup FreedEnds(stat)

Once(E) == \A a, b \in E : a[4] = b[4] => a = b
EndsInv == Once(Ends) /\ \A a \in Ends : a[4] \in Stream

(* The shape of what the entities share: what is to be done starts with a  *)
(* write.                                                                  *)
NetShape ==
  /\ IsFun(chan) /\ NULL \notin DOMAIN chan /\ \A s \in DOMAIN chan : IsSeq(chan[s])
  /\ IsFun(stat) /\ DOMAIN stat = DOMAIN chan
  /\ IsFun(todo) /\ \A e \in DOMAIN todo : IsSeq(todo[e]) /\ (todo[e] # << >> => Head(todo[e]).op = "write")

(* The shape of local state.                                               *)
IsRec(r, fields) == IsFun(r) /\ DOMAIN r = fields

IsColl(r) == IsRec(r, {"ready", "waiting", "at", "cur", "last", "incount", "sort", "opening",
                       "scan", "mismatch", "done"})
IsBuf(r)  == IsRec(r, {"out", "made", "q", "n", "pc", "late", "done"})

BoxShape    == IsFun(box) /\ \A e \in DOMAIN box : IsRec(box[e], {"in", "done"})
FilterShape == IsFun(filter) /\ DOMAIN filter \subseteq Filters /\ \A e \in DOMAIN filter : IsRec(filter[e], {"in", "done"})
SyncShape   == IsFun(sync) /\ \A e \in DOMAIN sync : IsRec(sync[e], {"in", "storage", "done"})
SplitShape  == IsFun(split) /\ DOMAIN split \subseteq Splits /\ \A e \in DOMAIN split :
                 /\ IsRec(split[e], {"in", "tab", "rec", "i", "counter", "done"})
                 /\ IsSeq(split[e].tab)
                 /\ split[e].rec # << >> => Head(split[e].rec).t = "data"
StarShape   == IsFun(star) /\ \A e \in DOMAIN star :
                 IsRec(star[e], {"in", "next", "cleanup", "counter", "broken", "done"})
ParShape    == IsFun(par) /\ DOMAIN par \subseteq Parallels /\ \A e \in DOMAIN par :
                 /\ IsRec(par[e], {"in", "live", "counter", "junk", "bad", "start", "running", "done"})
                 /\ par[e].live \subseteq Branches(e)
                 /\ par[e].done => par[e].running
CollShape   == IsFun(coll) /\ DOMAIN coll \subseteq DOMAIN todo /\ \A c \in DOMAIN coll :
                 IsColl(coll[c])
FeedbackShape ==
  /\ DOMAIN fbcoll \subseteq Feedbacks /\ DOMAIN fbdisp = DOMAIN fbcoll /\ DOMAIN fbbuf = DOMAIN fbcoll
  /\ IsFun(fbcoll) /\ \A f \in DOMAIN fbcoll : IsRec(fbcoll[f], {"in", "back", "mode", "done"})
  /\ IsFun(fbdisp) /\ \A f \in DOMAIN fbdisp : IsRec(fbdisp[f], {"in", "done"})
  /\ IsFun(fbbuf) /\ \A f \in DOMAIN fbbuf :
       /\ IsBuf(fbbuf[f])
       /\ IsSeq(fbbuf[f].q) /\ fbbuf[f].made \in Nat \ {0}
TaskShape ==
  /\ IsRec(src, {"net", "in", "pos"}) /\ src.net \in Nets /\ src.in \in Inputs[src.net] /\ src.pos \in Nat
  /\ IsRec(sink, {"in", "out", "done"})

Shape == /\ NetShape /\ BoxShape /\ FilterShape /\ SyncShape /\ SplitShape /\ StarShape /\ ParShape
         /\ CollShape /\ FeedbackShape /\ TaskShape

(* The sets of a collector, and its descriptors: one whose stream has been *)
(* replaced has the name of a destroyed stream.                            *)
Gone(s) == \/ s \in DOMAIN stat /\ stat[s] = "freed"
           \/ \E e \in DOMAIN todo : \E i \in DOMAIN todo[e] : todo[e][i] = Free(s)
CollInv ==
  \A c \in DOMAIN coll :
    /\ IsFiniteSet(coll[c].ready) /\ IsFiniteSet(coll[c].waiting)
    /\ coll[c].ready \cap coll[c].waiting = {}
    /\ coll[c].scan \subseteq coll[c].waiting
    /\ coll[c].opening = NULL => coll[c].scan = {}
    /\ coll[c].done => coll[c].opening = NULL
    /\ IsFun(coll[c].at) /\ coll[c].ready \cup coll[c].waiting \subseteq DOMAIN coll[c].at
    /\ \A d \in coll[c].ready \cup coll[c].waiting : coll[c].at[d] = d \/ Gone(d)

IInv == Shape /\ EndsInv /\ CollInv /\ CollectorAccounting

-----------------------------------------------------------------------------
(* Sequences of whatever.                                                  *)
LEMMA SeqIsSeq == ASSUME NEW S, NEW s \in Seq(S) PROVE IsSeq(s)
<1>1. s \in [1..Len(s) -> S] /\ DOMAIN s = 1..Len(s) /\ Len(s) \in Nat
  BY LenProperties
<1>2. s \in [1..Len(s) -> Range(s)]
  BY <1>1 DEF Range
<1> QED BY <1>1, <1>2, SeqDef DEF IsSeq

(* The domain and the head of a sequence.                                  *)
LEMMA SeqFacts ==
  ASSUME NEW s, IsSeq(s)
  PROVE  /\ Len(s) \in Nat /\ DOMAIN s = 1..Len(s)
         /\ s # << >> => 1 \in DOMAIN s /\ Head(s) = s[1]
         /\ s = << >> => DOMAIN s = {}
<1>1. Len(s) \in Nat /\ DOMAIN s = 1..Len(s)
  BY LenProperties DEF IsSeq
<1>2. s # << >> => Len(s) \in Nat \ {0}
  BY EmptySeq DEF IsSeq
<1>3. s # << >> => Head(s) = s[1]
  BY DEF IsSeq
<1>4. s = << >> => Len(s) = 0
  BY EmptySeq
<1> QED BY <1>1, <1>2, <1>3, <1>4

(* The tail of a sequence.                                                 *)
LEMMA TailSeq ==
  ASSUME NEW s, IsSeq(s), s # << >>
  PROVE  IsSeq(Tail(s)) /\ DOMAIN Tail(s) = 1..(Len(s) - 1) /\ \A i \in DOMAIN Tail(s) : Tail(s)[i] = s[i + 1]
<1>1. Tail(s) \in Seq(Range(s)) /\ Len(Tail(s)) = Len(s) - 1 /\ \A i \in 1..Len(Tail(s)) : Tail(s)[i] = s[i + 1]
  BY HeadTailProperties DEF IsSeq
<1>2. DOMAIN Tail(s) = 1..Len(Tail(s))
  BY <1>1, LenProperties
<1> QED BY <1>1, <1>2, SeqIsSeq

(* A sequence and one more.                                                *)
LEMMA AppendSeq ==
  ASSUME NEW s, IsSeq(s), NEW x
  PROVE  /\ IsSeq(Append(s, x)) /\ DOMAIN Append(s, x) = 1..(Len(s) + 1) /\ Append(s, x)[Len(s) + 1] = x
         /\ \A i \in 1..Len(s) : Append(s, x)[i] = s[i]
<1> DEFINE S == Range(s) \cup {x}
<1>1. s \in Seq(S)
  BY SeqMonotonic DEF IsSeq
<1>2. /\ Append(s, x) \in Seq(S) /\ Len(Append(s, x)) = Len(s) + 1
      /\ Append(s, x)[Len(s) + 1] = x /\ \A i \in 1..Len(s) : Append(s, x)[i] = s[i]
  BY <1>1, AppendProperties
<1>3. DOMAIN Append(s, x) = 1..Len(Append(s, x))
  BY <1>2, LenProperties
<1> QED BY <1>2, <1>3, SeqIsSeq

(* Two sequences, one after the other.                                     *)
LEMMA ConcatSeq ==
  ASSUME NEW s, IsSeq(s), NEW t, IsSeq(t)
  PROVE  /\ IsSeq(s \o t) /\ DOMAIN (s \o t) = 1..(Len(s) + Len(t))
         /\ \A i \in 1..(Len(s) + Len(t)) : (s \o t)[i] = IF i <= Len(s) THEN s[i] ELSE t[i - Len(s)]
<1> DEFINE S == Range(s) \cup Range(t)
<1>1. s \in Seq(S) /\ t \in Seq(S)
  BY SeqMonotonic DEF IsSeq
<1>2. /\ s \o t \in Seq(S) /\ Len(s \o t) = Len(s) + Len(t)
      /\ \A i \in 1..(Len(s) + Len(t)) : (s \o t)[i] = IF i <= Len(s) THEN s[i] ELSE t[i - Len(s)]
  BY <1>1, ConcatProperties
<1>3. DOMAIN (s \o t) = 1..Len(s \o t)
  BY <1>2, LenProperties
<1> QED BY <1>2, <1>3, SeqIsSeq

(* A sequence cut in two.                                                  *)
LEMMA PartSeq ==
  ASSUME NEW s, IsSeq(s), NEW k \in 0..Len(s)
  PROVE  /\ IsSeq(SubSeq(s, 1, k)) /\ DOMAIN SubSeq(s, 1, k) = 1..k
         /\ \A i \in 1..k : SubSeq(s, 1, k)[i] = s[i]
         /\ IsSeq(SubSeq(s, k + 1, Len(s))) /\ DOMAIN SubSeq(s, k + 1, Len(s)) = 1..(Len(s) - k)
         /\ \A i \in 1..(Len(s) - k) : SubSeq(s, k + 1, Len(s))[i] = s[k + i]
<1>1. Len(s) \in Nat /\ DOMAIN s = 1..Len(s) /\ \A i \in 1..Len(s) : s[i] \in Range(s)
  BY SeqFacts DEF Range
<1>2. /\ SubSeq(s, 1, k) \in Seq(Range(s)) /\ Len(SubSeq(s, 1, k)) = k
      /\ \A i \in 1..k : SubSeq(s, 1, k)[i] = s[i]
  <2>1. \A i \in 1..k : s[i] \in Range(s)
    BY <1>1
  <2> QED BY <1>1, <2>1, SubSeqProperties
<1>3. /\ SubSeq(s, k + 1, Len(s)) \in Seq(Range(s)) /\ Len(SubSeq(s, k + 1, Len(s))) = Len(s) - k
      /\ \A i \in 1..(Len(s) - k) : SubSeq(s, k + 1, Len(s))[i] = s[k + i]
  <2>1. \A i \in k+1 .. Len(s) : s[i] \in Range(s)
    BY <1>1
  <2>2. /\ SubSeq(s, k + 1, Len(s)) \in Seq(Range(s))
        /\ Len(SubSeq(s, k + 1, Len(s))) = IF k + 1 <= Len(s) THEN Len(s) - (k + 1) + 1 ELSE 0
        /\ \A i \in 1..(Len(s) - (k + 1) + 1) : SubSeq(s, k + 1, Len(s))[i] = s[(k + 1) + i - 1]
    BY <1>1, <2>1, SubSeqProperties
  <2>3. Len(s) - (k + 1) + 1 = Len(s) - k /\ \A i \in 1..(Len(s) - k) : (k + 1) + i - 1 = k + i
    BY <1>1
  <2>4. Len(SubSeq(s, k + 1, Len(s))) = Len(s) - k
    <3>1. CASE k + 1 <= Len(s)
      BY <2>2, <2>3, <3>1, Zenon
    <3>2. CASE ~(k + 1 <= Len(s))
      <4>1. \A n \in Nat : \A j \in 0..n : ~(j + 1 <= n) => n - j = 0
        OBVIOUS
      <4>2. Len(s) - k = 0
        BY <1>1, <3>2, <4>1, Zenon
      <4> QED BY <2>2, <3>2, <4>2, Zenon
    <3> QED BY <3>1, <3>2
  <2>5. ASSUME NEW i \in 1..(Len(s) - k) PROVE SubSeq(s, k + 1, Len(s))[i] = s[k + i]
    <3>1. i \in 1..(Len(s) - (k + 1) + 1) /\ (k + 1) + i - 1 = k + i
      BY <2>3
    <3> QED BY <2>2, <3>1
  <2> QED BY <2>2, <2>4, <2>5
<1>4. DOMAIN SubSeq(s, 1, k) = 1..k /\ DOMAIN SubSeq(s, k + 1, Len(s)) = 1..(Len(s) - k)
  BY <1>2, <1>3, LenProperties
<1> QED BY <1>2, <1>3, <1>4, SeqIsSeq

(* A function on 1..n is a sequence.                                       *)
LEMMA ListSeq ==
  ASSUME NEW n \in Nat, NEW s, s = [i \in 1..n |-> s[i]]
  PROVE  IsSeq(s) /\ Len(s) = n
<1>1. s \in [1..n -> Range(s)]
  BY DEF Range
<1>2. s \in Seq(Range(s))
  BY <1>1, SeqDef
<1> QED BY <1>1, <1>2, LenProperties DEF IsSeq

(* Sequences of no and of one element.                                     *)
LEMMA ShortSeq ==
  /\ IsSeq(<< >>)
  /\ \A x : IsSeq(<<x>>) /\ Len(<<x>>) = 1 /\ DOMAIN <<x>> = {1} /\ <<x>>[1] = x
<1>1. << >> \in Seq({})
  BY EmptySeq
<1>2. ASSUME NEW x PROVE <<x>> \in Seq({x}) /\ Len(<<x>>) = 1 /\ DOMAIN <<x>> = {1} /\ <<x>>[1] = x
  OBVIOUS
<1> QED BY <1>1, <1>2, SeqIsSeq

-----------------------------------------------------------------------------
(* The local operations are a prefix, and a write follows.                 *)
LEMMA SmallestNat ==
  ASSUME NEW T, T \subseteq Nat, T # {}
  PROVE  Min(T) \in T
<1> DEFINE R == OpToRel(<, Nat)
<1>1. PICK x \in T : \A y \in T : ~ (<<y, x>> \in R)
  BY NatLessThanWellFounded, WFMin
<1>2. \A y \in T : x <= y
  <2>1. ASSUME NEW y \in T, y < x PROVE FALSE
    <3>1. <<y, x>> \in Nat \X Nat /\ <<y, x>>[1] < <<y, x>>[2]
      BY <2>1
    <3>2. <<y, x>> \in R
      BY <3>1 DEF OpToRel
    <3> QED BY <1>1, <3>2
  <2> QED BY <2>1
<1> QED BY <1>1, <1>2 DEF Min

(* The local operations end where a write, or nothing, follows.            *)
LEMMA LocalPrefix ==
  ASSUME NEW ops, IsSeq(ops)
  PROVE  Local(ops) \in 0..Len(ops) /\ (Local(ops) = Len(ops) \/ ops[Local(ops) + 1].op = "write")
<1> DEFINE T == {k \in 0 .. Len(ops) : k = Len(ops) \/ ops[k + 1].op = "write"}
<1>1. Len(ops) \in Nat /\ Len(ops) \in T
  BY SeqFacts
<1>2. Min(T) \in T
  BY <1>1, SmallestNat
<1>3. Local(ops) \in T
  BY <1>2 DEF Local
<1> QED BY <1>3

-----------------------------------------------------------------------------
(* Operations that bear the ends of the streams in X, each at most once.   *)
Carry(ops, X) ==
  /\ IsSeq(ops)
  /\ \A i \in DOMAIN ops : Bears(ops[i]) =>
       /\ EndOf(ops[i]) \in X
       /\ \A j \in DOMAIN ops : Bears(ops[j]) /\ EndOf(ops[j]) = EndOf(ops[i]) => j = i

(* The streams that operations carry may be among more.                    *)
LEMMA CarryMore == ASSUME NEW ops, NEW X, NEW Y, X \subseteq Y, Carry(ops, X) PROVE Carry(ops, Y)
BY DEF Carry

(* Operations on different streams, one group after the other.             *)
LEMMA CarryConcat ==
  ASSUME NEW a, NEW b, NEW X, NEW Y, Carry(a, X), Carry(b, Y), X \cap Y = {}
  PROVE  Carry(a \o b, X \cup Y)
<1> DEFINE c == a \o b
           m == Len(a)
           n == Len(b)
<1>1. /\ IsSeq(c) /\ DOMAIN c = 1..(m + n) /\ m \in Nat /\ n \in Nat /\ DOMAIN a = 1..m /\ DOMAIN b = 1..n
      /\ \A i \in 1..(m + n) : c[i] = IF i <= m THEN a[i] ELSE b[i - m]
  BY ConcatSeq, SeqFacts DEF Carry
<1> HIDE DEF c, m, n
<1>2. ASSUME NEW i \in DOMAIN c, Bears(c[i])
      PROVE  \/ i <= m /\ i \in DOMAIN a /\ c[i] = a[i] /\ EndOf(c[i]) \in X
             \/ i > m /\ i - m \in DOMAIN b /\ c[i] = b[i - m] /\ EndOf(c[i]) \in Y
  <2>1. CASE i <= m
    <3>1. i \in DOMAIN a /\ c[i] = a[i]
      BY <1>1, <2>1
    <3> QED BY <1>2, <2>1, <3>1 DEF Carry
  <2>2. CASE ~(i <= m)
    <3>1. i > m /\ i - m \in DOMAIN b /\ c[i] = b[i - m]
      BY <1>1, <2>2
    <3> QED BY <1>2, <3>1 DEF Carry
  <2> QED BY <2>1, <2>2
<1>3. ASSUME NEW i \in DOMAIN c, NEW j \in DOMAIN c, Bears(c[i]), Bears(c[j]), EndOf(c[j]) = EndOf(c[i])
      PROVE  j = i
  <2>1. CASE i <= m /\ i \in DOMAIN a /\ c[i] = a[i] /\ EndOf(c[i]) \in X
    <3>1. j \in DOMAIN a /\ c[j] = a[j]
      BY <1>2, <1>3, <2>1
    <3> QED BY <1>3, <2>1, <3>1 DEF Carry
  <2>2. CASE i > m /\ i - m \in DOMAIN b /\ c[i] = b[i - m] /\ EndOf(c[i]) \in Y
    <3>1. j \in Int /\ i \in Int /\ j - m \in DOMAIN b /\ c[j] = b[j - m]
      BY <1>1, <1>2, <1>3, <2>2
    <3>2. j - m = i - m
      BY <1>3, <2>2, <3>1 DEF Carry
    <3> QED BY <1>1, <3>1, <3>2
  <2> QED BY <1>2, <1>3, <2>1, <2>2
<1> QED BY <1>1, <1>2, <1>3 DEF Carry, c

(* What a single operation carries.                                        *)
LEMMA CarryOne ==
  ASSUME NEW o
  PROVE  /\ Carry(<<o>>, {EndOf(o)})
         /\ ~Bears(o) => Carry(<<o>>, {})
         /\ Carry(<< >>, {})
<1>1. IsSeq(<<o>>) /\ DOMAIN <<o>> = {1} /\ <<o>>[1] = o
  BY ShortSeq
<1>2. IsSeq(<< >>) /\ DOMAIN << >> = {}
  BY ShortSeq, SeqFacts
<1> QED BY <1>1, <1>2 DEF Carry

(* Short lists of operations.                                              *)
LEMMA CarryTwo ==
  ASSUME NEW o, NEW p
  PROVE  /\ ~Bears(o) => Carry(<<o, p>>, {EndOf(p)})
         /\ ~Bears(o) /\ ~Bears(p) => Carry(<<o, p>>, {})
         /\ EndOf(o) # EndOf(p) => Carry(<<o, p>>, {EndOf(o), EndOf(p)})
<1>1. <<o, p>> \in Seq({o, p}) /\ DOMAIN <<o, p>> = {1, 2} /\ <<o, p>>[1] = o /\ <<o, p>>[2] = p
  OBVIOUS
<1>2. IsSeq(<<o, p>>)
  BY <1>1, SeqIsSeq
<1> QED BY <1>1, <1>2 DEF Carry

(* What three operations carry.                                            *)
LEMMA CarryThree ==
  ASSUME NEW o, NEW p, NEW q
  PROVE  /\ ~Bears(o) /\ ~Bears(p) => Carry(<<o, p, q>>, {EndOf(q)})
         /\ ~Bears(o) /\ ~Bears(q) => Carry(<<o, p, q>>, {EndOf(p)})
         /\ ~Bears(o) /\ EndOf(p) # EndOf(q) => Carry(<<o, p, q>>, {EndOf(p), EndOf(q)})
         /\ ~Bears(p) /\ EndOf(o) # EndOf(q) => Carry(<<o, p, q>>, {EndOf(o), EndOf(q)})
<1>1. <<o, p, q>> \in Seq({o, p, q}) /\ DOMAIN <<o, p, q>> = {1, 2, 3} /\ <<o, p, q>>[1] = o /\ <<o, p, q>>[2] = p /\ <<o, p, q>>[3] = q
  OBVIOUS
<1>2. IsSeq(<<o, p, q>>)
  BY <1>1, SeqIsSeq
<1> QED BY <1>1, <1>2 DEF Carry

(* Lists of operations that bear nothing.                                  *)
LEMMA CarryNone ==
  ASSUME NEW ops, IsSeq(ops), \A i \in DOMAIN ops : ~Bears(ops[i])
  PROVE  Carry(ops, {})
BY DEF Carry

(* What single operations bear.                                            *)
LEMMA OpEnds ==
  /\ \A s, r : IsHandover(r) => Bears(Write(s, r)) /\ EndOf(Write(s, r)) = r.s
  /\ \A s, r : ~IsHandover(r) => ~Bears(Write(s, r))
  /\ \A s : Bears(Free(s)) /\ EndOf(Free(s)) = s
  /\ \A s : ~Bears(Create(s))
  /\ \A s, t : IsHandover(Sync(s, t)) /\ Sync(s, t).s = s
  /\ \A s : IsHandover(Collect(s)) /\ Collect(s).s = s
  /\ ~IsHandover(Term) /\ ~IsHandover(Trigger)
  /\ \A l, n : ~IsHandover(Sort(l, n))
  /\ \A i, t : ~IsHandover(Data(i, t))
BY DEF Bears, EndOf, IsPass, IsHandover, Write, Free, Create, Sync, Collect, Term, Trigger, Sort, Data

(* One operation after others that carry nothing.                          *)
LEMMA CarryAppend ==
  ASSUME NEW ops, Carry(ops, {}), NEW o
  PROVE  Carry(Append(ops, o), {EndOf(o)})
<1> DEFINE new == Append(ops, o)
           n == Len(ops)
<1>1. /\ IsSeq(new) /\ DOMAIN new = 1..(n + 1) /\ new[n + 1] = o /\ \A i \in 1..n : new[i] = ops[i]
      /\ n \in Nat /\ DOMAIN ops = 1..n
  BY AppendSeq, SeqFacts DEF Carry
<1> HIDE DEF new, n
<1>2. ASSUME NEW i \in DOMAIN new, Bears(new[i]) PROVE i = n + 1 /\ EndOf(new[i]) = EndOf(o)
  <2>1. CASE i \in 1..n
    BY <1>1, <1>2, <2>1 DEF Carry
  <2>2. CASE i = n + 1
    BY <1>1, <2>2
  <2> QED BY <1>1, <2>1, <2>2
<1>3. Carry(new, {EndOf(o)})
  BY <1>1, <1>2 DEF Carry
<1> QED BY <1>3 DEF new

(* The same record to several streams.                                     *)
LEMMA CarryAll ==
  ASSUME NEW ss, IsSeq(ss), NEW r, ~IsHandover(r)
  PROVE  Carry(WriteAll(ss, r), {})
<1> DEFINE ops == WriteAll(ss, r)
<1>1. DOMAIN ss = 1..Len(ss) /\ Len(ss) \in Nat
  BY SeqFacts
<1>2. DOMAIN ops = DOMAIN ss /\ ops = [i \in DOMAIN ss |-> ops[i]] /\ \A i \in DOMAIN ops : ops[i] = Write(ss[i], r)
  BY DEF WriteAll
<1>3. IsSeq(ops)
  BY <1>1, <1>2, ListSeq
<1>4. \A i \in DOMAIN ops : ~Bears(ops[i])
  BY <1>2, OpEnds
<1> QED BY <1>3, <1>4, CarryNone

-----------------------------------------------------------------------------
(* Survivors and the ends that others are given.                           *)
(* The streams of F are among those of G.                                  *)
GivenBy(F, G) == \A a \in F : \E b \in G : b[4] = a[4]

(* Ends that replace different ends of different streams.                  *)
LEMMA FreshOnce ==
  ASSUME NEW E, Once(E), NEW G, G \subseteq E, NEW V, NEW F, Once(V), Once(F),
         GivenBy(V, E \ G), GivenBy(F, G)
  PROVE  Once(V \cup F) /\ GivenBy(V \cup F, E)
<1>1. ASSUME NEW a \in V, NEW b \in F, a[4] = b[4] PROVE FALSE
  <2>1. PICK x \in E \ G : x[4] = a[4]
    BY DEF GivenBy
  <2>2. PICK y \in G : y[4] = b[4]
    BY DEF GivenBy
  <2>3. x = y
    BY <1>1, <2>1, <2>2 DEF Once
  <2> QED BY <2>1, <2>2, <2>3
<1>2. \A a \in V \cup F : \E b \in E : b[4] = a[4]
  BY DEF GivenBy
<1> QED BY <1>1, <1>2 DEF Once, GivenBy

OtherEnds(e) == UNION {DoEnds(x, todo[x]) : x \in DOMAIN todo \ {e}}
Foreign(E) == \A a \in E : a[1] # "todo" /\ a[1] # "freed"

(* An entity performs the local operations and keeps the rest.             *)
LEMMA ProceedOnce ==
  ASSUME IsFun(todo), NEW e, NEW ops, IsSeq(ops), NEW st, NEW H, Foreign(H), Proceed(e, ops, st),
         Once(H \cup OtherEnds(e) \cup DoEnds(e, ops) \cup FreedEnds(st))
  PROVE  /\ Once(H \cup TodoEnds' \cup FreedEnds(stat'))
         /\ GivenBy(H \cup TodoEnds' \cup FreedEnds(stat'),
                    H \cup OtherEnds(e) \cup DoEnds(e, ops) \cup FreedEnds(st))
<1> DEFINE E == H \cup OtherEnds(e) \cup DoEnds(e, ops) \cup FreedEnds(st)
           n == Local(ops)
           rest == SubSeq(ops, n + 1, Len(ops))
           Corr(a, b) == \/ a = b /\ ~(a[1] = "todo" /\ a[2] = e)
                         \/ \E i \in Nat : i > n /\ a = <<"todo", e, i - n, a[4]>> /\ b = <<"todo", e, i, a[4]>>
                         \/ \E i \in Nat : i <= n /\ a = <<"freed", a[4], "in", a[4]>> /\ b = <<"todo", e, i, a[4]>>
<1>1. n \in 0..Len(ops) /\ Len(ops) \in Nat /\ DOMAIN ops = 1..Len(ops)
  BY LocalPrefix, SeqFacts
<1>2. /\ DOMAIN rest = 1..(Len(ops) - n) /\ \A i \in DOMAIN rest : rest[i] = ops[n + i]
      /\ DOMAIN SubSeq(ops, 1, n) = 1..n /\ \A i \in 1..n : SubSeq(ops, 1, n)[i] = ops[i]
  BY <1>1, PartSeq
<1>3. todo' = [todo EXCEPT ![e] = rest] /\ stat' = Performed(SubSeq(ops, 1, n), st)
  BY DEF Proceed
<1> HIDE DEF n, rest, E
<1>4. ASSUME NEW a \in H PROVE \E b \in E : b[4] = a[4] /\ Corr(a, b)
  BY DEF Foreign, E
<1>5. ASSUME NEW a \in TodoEnds' PROVE \E b \in E : b[4] = a[4] /\ Corr(a, b)
  <2>1. PICK x \in DOMAIN todo : a \in DoEnds(x, todo'[x])
    BY <1>3 DEF TodoEnds, IsFun
  <2>2. PICK i \in DOMAIN (todo'[x]) : Bears(todo'[x][i]) /\ a = <<"todo", x, i, EndOf(todo'[x][i])>>
    BY <2>1 DEF DoEnds
  <2>3. CASE x # e
    <3>1. todo'[x] = todo[x]
      BY <1>3, <2>3 DEF IsFun
    <3>2. a \in DoEnds(x, todo[x])
      BY <2>1, <3>1
    <3>3. a \in E /\ a[2] = x
      BY <2>2, <2>3, <3>2 DEF E, OtherEnds
    <3> QED BY <2>3, <3>3
  <2>4. CASE x = e
    <3>1. todo'[x] = rest
      BY <1>3, <2>4 DEF IsFun
    <3>2. i \in 1..(Len(ops) - n) /\ Bears(ops[n + i]) /\ a = <<"todo", e, i, EndOf(ops[n + i])>>
      BY <1>2, <2>2, <2>4, <3>1
    <3> DEFINE k == n + i
    <3>3. k \in DOMAIN ops /\ k \in Nat /\ k > n /\ k - n = i
      BY <1>1, <3>2
    <3>4. <<"todo", e, k, EndOf(ops[k])>> \in DoEnds(e, ops)
      BY <3>2, <3>3 DEF DoEnds
    <3>5. <<"todo", e, k, EndOf(ops[k])>> \in E /\ a[4] = EndOf(ops[k]) /\ a = <<"todo", e, k - n, a[4]>>
      BY <3>2, <3>3, <3>4 DEF E
    <3> HIDE DEF k
    <3> QED BY <3>3, <3>5
  <2> QED BY <2>3, <2>4
<1>6. ASSUME NEW a \in FreedEnds(stat') PROVE \E b \in E : b[4] = a[4] /\ Corr(a, b)
  <2>1. PICK x \in DOMAIN stat' : stat'[x] = "freed" /\ a = <<"freed", x, "in", x>>
    BY DEF FreedEnds
  <2>2. x \in DOMAIN st /\ (st[x] = "freed" \/ Free(x) \in Range(SubSeq(ops, 1, n)))
    BY <1>3, <2>1 DEF Performed
  <2>3. CASE st[x] = "freed"
    <3>1. a \in E
      BY <2>1, <2>2, <2>3 DEF E, FreedEnds
    <3> QED BY <2>1, <3>1
  <2>4. CASE Free(x) \in Range(SubSeq(ops, 1, n))
    <3>1. PICK k \in 1..n : ops[k] = Free(x)
      BY <1>2, <2>4 DEF Range
    <3>2. k \in DOMAIN ops /\ k \in Nat /\ k <= n /\ Bears(ops[k]) /\ EndOf(ops[k]) = x
      BY <1>1, <3>1, OpEnds
    <3>3. <<"todo", e, k, x>> \in DoEnds(e, ops)
      BY <3>2 DEF DoEnds
    <3>4. <<"todo", e, k, x>> \in E
      BY <3>3 DEF E
    <3> QED BY <2>1, <3>2, <3>4
  <2> QED BY <2>2, <2>3, <2>4
<1>7. \A a \in H \cup TodoEnds' \cup FreedEnds(stat') : \E b \in E : b[4] = a[4] /\ Corr(a, b)
  BY <1>4, <1>5, <1>6
<1>8. ASSUME NEW a, NEW b, NEW c, Corr(a, c), Corr(b, c), a[4] = b[4] PROVE a = b
  <2>1. n \in Nat
    BY <1>1
  <2> QED BY <1>8, <2>1
<1>9. Once(E)
  BY DEF E
<1> HIDE DEF Corr
<1>10. Once(H \cup TodoEnds' \cup FreedEnds(stat'))
  <2>1. SUFFICES ASSUME NEW a \in H \cup TodoEnds' \cup FreedEnds(stat'), NEW b \in H \cup TodoEnds' \cup FreedEnds(stat'),
                        a[4] = b[4]
                 PROVE  a = b
    BY DEF Once
  <2>2. PICK c \in E : c[4] = a[4] /\ Corr(a, c)
    BY <1>7
  <2>3. PICK d \in E : d[4] = b[4] /\ Corr(b, d)
    BY <1>7
  <2>4. c = d
    BY <1>9, <2>1, <2>2, <2>3 DEF Once
  <2> QED BY <1>8, <2>1, <2>2, <2>3, <2>4
<1> QED BY <1>7, <1>10 DEF E, GivenBy

-----------------------------------------------------------------------------
(* The ends of different places have different kinds.                      *)
LEMMA EndKinds ==
  /\ \A a \in Held : a[1] # "chan" /\ a[1] # "todo" /\ a[1] # "freed"
  /\ \A a \in ChanEnds : a[1] = "chan"
  /\ \A e : \A a \in OtherEnds(e) : a[1] = "todo" /\ a[2] # e
  /\ \A e, ops : \A a \in DoEnds(e, ops) : a[1] = "todo" /\ a[2] = e
  /\ \A st : \A a \in FreedEnds(st) : a[1] = "freed"
<1>1. \A a \in Held : a[1] # "chan" /\ a[1] # "todo" /\ a[1] # "freed"
  <2>1. \A a \in ReplicaEnds \cup InstanceEnds \cup GrownEnds \cup QueueEnds :
           a[1] # "chan" /\ a[1] # "todo" /\ a[1] # "freed"
    BY DEF ReplicaEnds, InstanceEnds, GrownEnds, QueueEnds
  <2>2. \A a \in CollEnds \cup OpeningEnds \cup BackEnds \cup BufEnds \cup SinkEnds :
           a[1] # "chan" /\ a[1] # "todo" /\ a[1] # "freed"
    BY DEF CollEnds, OpeningEnds, BackEnds, BufEnds, SinkEnds
  <2>3. \A k, v : \A a \in InEnds(k, v) : a[1] = k
    BY DEF InEnds
  <2>4. \A a \in Reading : a[1] # "chan" /\ a[1] # "todo" /\ a[1] # "freed"
    BY <2>2, <2>3 DEF Reading
  <2> QED BY <2>1, <2>4 DEF Held
<1>2. \A a \in ChanEnds : a[1] = "chan"
  BY DEF ChanEnds
<1>3. \A e, ops : \A a \in DoEnds(e, ops) : a[1] = "todo" /\ a[2] = e
  BY DEF DoEnds
<1>4. \A e : \A a \in OtherEnds(e) : a[1] = "todo" /\ a[2] # e
  BY <1>3 DEF OtherEnds
<1>5. \A st : \A a \in FreedEnds(st) : a[1] = "freed"
  BY DEF FreedEnds
<1> QED BY <1>1, <1>2, <1>3, <1>4, <1>5

(* What an entity holds, what lies in streams and what it has to do may    *)
(* change; what others have to do and what is destroyed stays.             *)
LEMMA StepOnce ==
  ASSUME IsFun(todo), EndsInv, DOMAIN chan' = DOMAIN chan,
         NEW e, NEW ops, IsSeq(ops), NEW st, FreedEnds(st) = FreedEnds(stat), Proceed(e, ops, st),
         NEW H, Foreign(H), Held' \subseteq H, ChanEnds' \subseteq H, Once(H \cup DoEnds(e, ops)),
         NEW G, G \subseteq Ends, \A a \in G : a[1] # "freed" /\ (a[1] = "todo" => a[2] = e),
         GivenBy(H \cup DoEnds(e, ops), G)
  PROVE  EndsInv'
<1> DEFINE V == OtherEnds(e) \cup FreedEnds(stat)
           F == H \cup DoEnds(e, ops)
           A == H \cup TodoEnds' \cup FreedEnds(stat')
           B == H \cup OtherEnds(e) \cup DoEnds(e, ops) \cup FreedEnds(st)
<1>1. V \subseteq Ends
  BY DEF OtherEnds, TodoEnds, Ends
<1>2. \A a \in V : a \notin G
  BY EndKinds
<1>3. Once(Ends) /\ Once(V) /\ Once(F)
  BY <1>1 DEF EndsInv, Once
<1>4. GivenBy(V, Ends \ G)
  BY <1>1, <1>2 DEF GivenBy
<1>5. Once(V \cup F) /\ GivenBy(V \cup F, Ends)
  BY <1>3, <1>4, FreshOnce
<1>6. B = V \cup F
  OBVIOUS
<1>7. Once(A) /\ GivenBy(A, B)
  BY <1>5, <1>6, ProceedOnce
<1>8. Ends' \subseteq A
  BY DEF Ends
<1> HIDE DEF A, B, V, F
<1>9. Once(Ends')
  BY <1>7, <1>8 DEF Once
<1>10. ASSUME NEW a \in Ends' PROVE a[4] \in DOMAIN chan
  <2>1. PICK b \in B : b[4] = a[4]
    BY <1>7, <1>8 DEF GivenBy
  <2>2. PICK c \in Ends : c[4] = a[4]
    BY <1>5, <1>6, <2>1 DEF GivenBy
  <2> QED BY <2>2 DEF EndsInv, Stream
<1> QED BY <1>9, <1>10 DEF EndsInv, Once, Stream

(* What entity e has to do with the ends of X is new.                      *)
LEMMA DoOnce ==
  ASSUME NEW e, NEW ops, NEW X, Carry(ops, X)
  PROVE  Once(DoEnds(e, ops)) /\ \A a \in DoEnds(e, ops) : a[4] \in X
<1>1. ASSUME NEW a \in DoEnds(e, ops)
      PROVE  \E i \in DOMAIN ops : Bears(ops[i]) /\ a = <<"todo", e, i, EndOf(ops[i])>> /\ a[4] = EndOf(ops[i])
  BY DEF DoEnds
<1>2. ASSUME NEW a \in DoEnds(e, ops), NEW b \in DoEnds(e, ops), a[4] = b[4] PROVE a = b
  <2>1. PICK i \in DOMAIN ops : Bears(ops[i]) /\ a = <<"todo", e, i, EndOf(ops[i])>> /\ a[4] = EndOf(ops[i])
    BY <1>1
  <2>2. PICK j \in DOMAIN ops : Bears(ops[j]) /\ b = <<"todo", e, j, EndOf(ops[j])>> /\ b[4] = EndOf(ops[j])
    BY <1>1
  <2>3. i = j
    BY <1>2, <2>1, <2>2 DEF Carry
  <2> QED BY <2>1, <2>2, <2>3
<1>3. \A a \in DoEnds(e, ops) : a[4] \in X
  BY <1>1 DEF Carry
<1> QED BY <1>2, <1>3 DEF Once

(* An entity that has nothing to do takes the ends P out of streams, keeps *)
(* K, gets N and goes on to operations that bear X.                        *)
LEMMA MoveOnce ==
  ASSUME NetShape, EndsInv, DOMAIN chan' = DOMAIN chan,
         NEW P, P \subseteq ChanEnds, Once(ChanEnds'), GivenBy(ChanEnds', ChanEnds \ P),
         NEW e, NEW ops, NEW X, Carry(ops, X), Proceed(e, ops, stat),
         NEW K, K \subseteq Held, NEW N, Foreign(N), Once(N), Held' \subseteq K \cup N,
         GivenBy(N, (Held \ K) \cup P), X \subseteq {b[4] : b \in (Held \ K) \cup P}, \A a \in N : a[4] \notin X
  PROVE  EndsInv'
<1> DEFINE C == ChanEnds'
           D == DoEnds(e, ops)
           G == (Held \ K) \cup P
<1>1. Held \subseteq Ends /\ ChanEnds \subseteq Ends /\ Once(Ends)
  BY DEF Ends, EndsInv
<1>2. Once(D) /\ \A a \in D : a[4] \in X
  BY DoOnce
<1>3. Once(N \cup D) /\ GivenBy(N \cup D, G)
  <2>1. GivenBy(D, G)
    BY <1>2 DEF GivenBy
  <2>2. GivenBy(N \cup D, G)
    BY <2>1 DEF GivenBy
  <2>3. \A a \in N, b \in D : a[4] # b[4]
    BY <1>2
  <2> QED BY <1>2, <2>2, <2>3 DEF Once
<1>4. Once(K \cup C) /\ GivenBy(K \cup C, Ends)
  <2>1. Once(K) /\ GivenBy(K, Ends \ ChanEnds)
    BY <1>1, EndKinds DEF Once, GivenBy
  <2>2. GivenBy(C, ChanEnds)
    BY DEF GivenBy
  <2> HIDE DEF C
  <2>3. Once(C)
    BY DEF C
  <2> QED BY <1>1, <2>1, <2>2, <2>3, FreshOnce
<1>5. GivenBy(K \cup C, Ends \ G)
  <2>1. ASSUME NEW a \in K PROVE a \in Ends \ G
    BY <1>1, EndKinds
  <2>2. ASSUME NEW a \in C PROVE \E b \in Ends \ G : b[4] = a[4]
    <3>1. PICK b \in ChanEnds \ P : b[4] = a[4]
      BY DEF GivenBy
    <3> QED BY <1>1, <3>1, EndKinds
  <2> QED BY <2>1, <2>2 DEF GivenBy
<1>6. Once((K \cup C) \cup (N \cup D)) /\ GivenBy((K \cup C) \cup (N \cup D), Ends)
  <2> HIDE DEF C, D, G
  <2>1. G \subseteq Ends
    BY <1>1 DEF G
  <2> QED BY <1>1, <1>3, <1>4, <1>5, <2>1, FreshOnce
<1> DEFINE H == K \cup C \cup N
           A == Held \cup ChanEnds
<1>7. Foreign(H)
  <2>1. \A a \in C : \A b \in ChanEnds : a[1] = "chan"
    BY DEF ChanEnds
  <2>2. Foreign(K) /\ Foreign(C)
    BY <2>1, EndKinds DEF Foreign, ChanEnds
  <2> QED BY <2>2 DEF Foreign
<1>8. Once(H \cup D) /\ GivenBy(H \cup D, A)
  <2>1. H \cup D = (K \cup C) \cup (N \cup D)
    OBVIOUS
  <2>2. GivenBy(K, A) /\ GivenBy(C, A) /\ GivenBy(N \cup D, A)
    BY <1>3 DEF GivenBy
  <2>3. GivenBy(H \cup D, A)
    BY <2>2 DEF GivenBy
  <2> QED BY <1>6, <2>1, <2>3
<1>9. IsFun(todo) /\ IsSeq(ops) /\ FreedEnds(stat) = FreedEnds(stat)
  BY DEF NetShape, Carry
<1>10. A \subseteq Ends /\ \A a \in A : a[1] # "freed" /\ (a[1] = "todo" => a[2] = e)
  BY <1>1, EndKinds
<1>11. Held' \subseteq H /\ ChanEnds' \subseteq H
  OBVIOUS
<1> HIDE DEF H, A, D, C
<1> QED BY <1>7, <1>8, <1>9, <1>10, <1>11, StepOnce DEF D

(* Proceeding keeps the shape of what the entities share.                  *)
LEMMA ProceedShape ==
  ASSUME NetShape, NEW e, NEW ops, IsSeq(ops), NEW st, IsFun(st), Proceed(e, ops, st)
  PROVE  /\ IsFun(stat') /\ DOMAIN stat' = DOMAIN st
         /\ IsFun(todo') /\ DOMAIN todo' = DOMAIN todo
         /\ \A x \in DOMAIN todo' : IsSeq(todo'[x]) /\ (todo'[x] # << >> => Head(todo'[x]).op = "write")
<1> DEFINE n == Local(ops)
           rest == SubSeq(ops, n + 1, Len(ops))
<1>1. n \in 0..Len(ops) /\ Len(ops) \in Nat /\ DOMAIN ops = 1..Len(ops) /\ (n = Len(ops) \/ ops[n + 1].op = "write")
  BY LocalPrefix, SeqFacts
<1>2. IsSeq(rest) /\ DOMAIN rest = 1..(Len(ops) - n) /\ \A i \in 1..(Len(ops) - n) : rest[i] = ops[n + i]
  BY <1>1, PartSeq
<1>3. todo' = [todo EXCEPT ![e] = rest] /\ stat' = Performed(SubSeq(ops, 1, n), st)
  BY DEF Proceed
<1> HIDE DEF n, rest
<1>4. ASSUME rest # << >> PROVE Head(rest).op = "write"
  <2>1. 1 \in DOMAIN rest /\ Head(rest) = rest[1]
    BY <1>2, <1>4, SeqFacts
  <2>2. \A l \in Nat : 1 \in 1..(l - l) => FALSE
    OBVIOUS
  <2>3. n # Len(ops) /\ rest[1] = ops[n + 1]
    BY <1>1, <1>2, <2>1, <2>2, Zenon
  <2> QED BY <1>1, <2>1, <2>3
<1>5. IsFun(stat') /\ DOMAIN stat' = DOMAIN st
  BY <1>3 DEF Performed, IsFun
<1>6. IsFun(todo') /\ DOMAIN todo' = DOMAIN todo
  <2>1. IsFun(todo)
    BY DEF NetShape
  <2> QED BY <1>3, <2>1 DEF IsFun
<1>7. \A x \in DOMAIN todo : todo'[x] = IF x = e THEN rest ELSE todo[x]
  BY <1>3
<1> QED BY <1>2, <1>4, <1>5, <1>6, <1>7 DEF NetShape

(* What the record that a read of stream s returns hands over.             *)
TopEnds(s) == IF IsHandover(Top(s)) THEN {<<"chan", s, 1, Top(s).s>>} ELSE {}

(* A read takes the handover of its record out of the stream, and none     *)
(* else.                                                                   *)
LEMMA PopOnce ==
  ASSUME NetShape, Once(ChanEnds), NEW s, s \in Stream, chan[s] # << >>, chan' = [chan EXCEPT ![s] = Tail(@)]
  PROVE  /\ IsFun(chan') /\ DOMAIN chan' = DOMAIN chan /\ \A x \in DOMAIN chan' : IsSeq(chan'[x])
         /\ TopEnds(s) \subseteq ChanEnds
         /\ Once(ChanEnds') /\ GivenBy(ChanEnds', ChanEnds \ TopEnds(s))
<1> DEFINE Back(a) == IF a[2] = s THEN <<"chan", s, a[3] + 1, a[4]>> ELSE a
           Shifted(a) == IF a[2] = s THEN a[3] \in Nat \ {0} /\ a = <<"chan", s, a[3], a[4]>>
                                     ELSE a = <<"chan", a[2], a[3], a[4]>>
<1>1. s \in DOMAIN chan /\ IsSeq(chan[s]) /\ DOMAIN chan[s] = 1..Len(chan[s]) /\ Len(chan[s]) \in Nat
  BY SeqFacts DEF NetShape, Stream
<1>2. IsFun(chan') /\ DOMAIN chan' = DOMAIN chan /\ \A x \in DOMAIN chan : chan'[x] = IF x = s THEN Tail(chan[s]) ELSE chan[x]
  BY DEF NetShape, IsFun
<1>3. /\ IsSeq(Tail(chan[s])) /\ DOMAIN Tail(chan[s]) = 1..(Len(chan[s]) - 1)
      /\ \A i \in DOMAIN Tail(chan[s]) : Tail(chan[s])[i] = chan[s][i + 1]
  BY <1>1, TailSeq
<1>4. 1 \in DOMAIN chan[s] /\ Top(s) = chan[s][1]
  BY <1>1, SeqFacts DEF Top
<1>5. ASSUME IsHandover(Top(s)) PROVE <<"chan", s, 1, Top(s).s>> \in ChanEnds
  BY <1>1, <1>4, <1>5 DEF ChanEnds, Stream
<1>6. ASSUME NEW a \in ChanEnds' PROVE Shifted(a) /\ Back(a) \in ChanEnds \ TopEnds(s) /\ Back(a)[4] = a[4]
  <2>0. PICK x \in DOMAIN chan : \E i \in DOMAIN chan'[x] : IsHandover(chan'[x][i]) /\ a = <<"chan", x, i, chan'[x][i].s>>
    BY <1>2 DEF ChanEnds, Stream, IsHandover
  <2>1. PICK i \in DOMAIN chan'[x] : IsHandover(chan'[x][i]) /\ a = <<"chan", x, i, chan'[x][i].s>>
    BY <2>0
  <2>2. CASE x = s
    <3>1. i \in Nat \ {0} /\ i + 1 \in DOMAIN chan[s] /\ chan'[x][i] = chan[s][i + 1]
      BY <1>1, <1>2, <1>3, <2>1, <2>2
    <3>2. <<"chan", s, i + 1, chan[s][i + 1].s>> \in ChanEnds
      BY <1>1, <2>1, <3>1 DEF ChanEnds, Stream
    <3>3. <<"chan", s, i + 1, chan[s][i + 1].s>> \notin TopEnds(s)
      BY <3>1 DEF TopEnds
    <3>4. a[2] = s /\ a[3] = i /\ a[4] = chan[s][i + 1].s
      BY <2>1, <2>2, <3>1
    <3> QED BY <2>1, <2>2, <3>1, <3>2, <3>3, <3>4
  <2>3. CASE x # s
    <3>1. chan'[x] = chan[x]
      BY <1>2, <2>3
    <3>2. a \in ChanEnds
      BY <2>1, <3>1 DEF ChanEnds, Stream
    <3>3. a \notin TopEnds(s)
      BY <2>1, <2>3 DEF TopEnds
    <3>4. a[2] = x
      BY <2>1
    <3> QED BY <2>1, <2>3, <3>2, <3>3, <3>4
  <2> QED BY <2>2, <2>3
<1>7. ASSUME NEW a, NEW b, Shifted(a), Shifted(b), Back(a) = Back(b), a[4] = b[4] PROVE a = b
  BY <1>7
<1> HIDE DEF Back, Shifted
<1>8. GivenBy(ChanEnds', ChanEnds \ TopEnds(s))
  BY <1>6 DEF GivenBy
<1>9. Once(ChanEnds')
  BY <1>6, <1>7 DEF Once
<1>10. TopEnds(s) \subseteq ChanEnds
  BY <1>5 DEF TopEnds
<1> QED BY <1>2, <1>3, <1>8, <1>9, <1>10 DEF NetShape

(* What is destroyed or about to be stays so.                              *)
LEMMA FreeGone ==
  ASSUME NetShape, NEW e, e \in DOMAIN todo, NEW ops, IsSeq(ops), NEW st, Proceed(e, ops, st),
         NEW x, x \in DOMAIN st, NEW i, i \in DOMAIN ops, ops[i] = Free(x)
  PROVE  Gone(x)'
<1> DEFINE n == Local(ops)
           rest == SubSeq(ops, n + 1, Len(ops))
<1>1. n \in 0..Len(ops) /\ Len(ops) \in Nat /\ DOMAIN ops = 1..Len(ops)
  BY LocalPrefix, SeqFacts
<1>2. /\ DOMAIN rest = 1..(Len(ops) - n) /\ \A j \in 1..(Len(ops) - n) : rest[j] = ops[n + j]
      /\ DOMAIN SubSeq(ops, 1, n) = 1..n /\ \A j \in 1..n : SubSeq(ops, 1, n)[j] = ops[j]
  BY <1>1, PartSeq
<1>3. todo' = [todo EXCEPT ![e] = rest] /\ stat' = Performed(SubSeq(ops, 1, n), st)
  BY DEF Proceed
<1> HIDE DEF n, rest
<1>4. CASE i <= n
  <2>1. i \in 1..n
    BY <1>1, <1>4
  <2>2. Free(x) \in Range(SubSeq(ops, 1, n))
    BY <1>2, <2>1 DEF Range
  <2>3. x \in DOMAIN stat' /\ stat'[x] = "freed"
    BY <1>3, <2>2 DEF Performed
  <2> QED BY <2>3 DEF Gone
<1>5. CASE ~(i <= n)
  <2>1. \A l \in Nat : \A k \in 0..l : \A j \in 1..l : ~(j <= k) => j - k \in 1..(l - k) /\ k + (j - k) = j
    OBVIOUS
  <2>2. i - n \in DOMAIN rest /\ rest[i - n] = Free(x)
    BY <1>1, <1>2, <1>5, <2>1, Zenon
  <2>3. e \in DOMAIN todo' /\ todo'[e] = rest
    BY <1>3
  <2> QED BY <2>2, <2>3 DEF Gone
<1> QED BY <1>4, <1>5

(* What is destroyed, or to be, remains so when an entity goes on.         *)
LEMMA ProceedGone ==
  ASSUME NetShape, EndsInv, NEW e, NEW ops, IsSeq(ops), NEW st, DOMAIN st = DOMAIN stat, Proceed(e, ops, st),
         \A y \in DOMAIN stat : stat[y] = "freed" => st[y] = "freed",
         \A i \in DOMAIN todo[e] : \A y : todo[e][i] = Free(y) => \E j \in DOMAIN ops : ops[j] = Free(y),
         NEW x, Gone(x)
  PROVE  Gone(x)'
<1>1. CASE x \in DOMAIN stat /\ stat[x] = "freed"
  <2>1. x \in DOMAIN stat' /\ stat'[x] = "freed"
    BY <1>1 DEF Proceed, Performed
  <2> QED BY <2>1 DEF Gone
<1>2. ASSUME NEW u \in DOMAIN todo, NEW i \in DOMAIN todo[u], todo[u][i] = Free(x) PROVE Gone(x)'
  <2>1. <<"todo", u, i, x>> \in TodoEnds
    <3>1. Bears(todo[u][i]) /\ EndOf(todo[u][i]) = x
      BY <1>2, OpEnds
    <3>2. <<"todo", u, i, x>> \in DoEnds(u, todo[u])
      BY <3>1 DEF DoEnds
    <3> QED BY <3>2 DEF TodoEnds
  <2>2. x \in DOMAIN stat
    <3>1. <<"todo", u, i, x>>[4] \in Stream
      BY <2>1 DEF EndsInv, Ends
    <3> QED BY <3>1 DEF Stream, NetShape
  <2>3. CASE u = e
    <3>1. PICK j \in DOMAIN ops : ops[j] = Free(x)
      BY <1>2, <2>3
    <3> QED BY <2>2, <2>3, <3>1, FreeGone
  <2>4. CASE u # e
    <3>1. u \in DOMAIN todo' /\ todo'[u] = todo[u]
      BY <2>4 DEF Proceed, NetShape, IsFun
    <3> QED BY <1>2, <3>1 DEF Gone
  <2> QED BY <2>3, <2>4
<1> QED BY <1>1, <1>2 DEF Gone

(* What a step must do to the ends and what the entities share.            *)
Kept == NetShape' /\ EndsInv' /\ DOMAIN todo' = DOMAIN todo /\ \A x : Gone(x) => Gone(x)'

(* An entity takes a record: see MoveOnce.                                 *)
LEMMA TakeOnce ==
  ASSUME NetShape, EndsInv, NEW e, todo[e] = << >>, NEW s, s \in Stream, chan[s] # << >>,
         NEW ops, NEW X, Carry(ops, X), Take(e, s, ops),
         NEW K, K \subseteq Held, NEW N, Foreign(N), Once(N), Held' \subseteq K \cup N,
         GivenBy(N, (Held \ K) \cup TopEnds(s)), X \subseteq {b[4] : b \in (Held \ K) \cup TopEnds(s)},
         \A a \in N : a[4] \notin X
  PROVE  Kept
<1>1. chan' = [chan EXCEPT ![s] = Tail(@)] /\ Proceed(e, ops, stat)
  BY DEF Take
<1>2. Once(ChanEnds)
  BY DEF EndsInv, Ends, Once
<1>3. /\ IsFun(chan') /\ DOMAIN chan' = DOMAIN chan /\ \A x \in DOMAIN chan' : IsSeq(chan'[x])
      /\ TopEnds(s) \subseteq ChanEnds
      /\ Once(ChanEnds') /\ GivenBy(ChanEnds', ChanEnds \ TopEnds(s))
  BY <1>1, <1>2, PopOnce
<1>4. /\ IsFun(stat') /\ DOMAIN stat' = DOMAIN stat
      /\ IsFun(todo') /\ DOMAIN todo' = DOMAIN todo
      /\ \A x \in DOMAIN todo' : IsSeq(todo'[x]) /\ (todo'[x] # << >> => Head(todo'[x]).op = "write")
  BY <1>1, ProceedShape DEF NetShape, Carry
<1>5. EndsInv'
  BY <1>1, <1>3, MoveOnce
<1>6. DOMAIN stat' = DOMAIN chan'
  BY <1>3, <1>4 DEF NetShape
<1>7. ASSUME NEW x, Gone(x) PROVE Gone(x)'
  <2>1. DOMAIN todo[e] = {}
    BY ShortSeq, SeqFacts
  <2> QED BY <1>1, <1>7, <2>1, ProceedGone DEF Carry
<1> QED BY <1>3, <1>4, <1>5, <1>6, <1>7 DEF NetShape, Kept

(* An entity does something else: see MoveOnce.                            *)
LEMMA ActOnce ==
  ASSUME NetShape, EndsInv, NEW e, todo[e] = << >>, UNCHANGED chan,
         NEW ops, NEW X, Carry(ops, X), Proceed(e, ops, stat),
         NEW K, K \subseteq Held, NEW N, Foreign(N), Once(N), Held' \subseteq K \cup N,
         GivenBy(N, Held \ K), X \subseteq {b[4] : b \in Held \ K}, \A a \in N : a[4] \notin X
  PROVE  Kept
<1>1. Once(ChanEnds)
  BY DEF EndsInv, Ends, Once
<1>2. ChanEnds' = ChanEnds
  BY DEF ChanEnds, Stream
<1>3. Once(ChanEnds') /\ GivenBy(ChanEnds', ChanEnds \ {})
  BY <1>1, <1>2 DEF GivenBy
<1>4. /\ IsFun(stat') /\ DOMAIN stat' = DOMAIN stat
      /\ IsFun(todo') /\ DOMAIN todo' = DOMAIN todo
      /\ \A x \in DOMAIN todo' : IsSeq(todo'[x]) /\ (todo'[x] # << >> => Head(todo'[x]).op = "write")
  BY ProceedShape DEF NetShape, Carry
<1>5. EndsInv'
  <2>1. GivenBy(N, (Held \ K) \cup {}) /\ X \subseteq {b[4] : b \in (Held \ K) \cup {}}
    <3>1. (Held \ K) \cup {} = Held \ K
      OBVIOUS
    <3> QED BY <3>1
  <2>2. {} \subseteq ChanEnds /\ DOMAIN chan' = DOMAIN chan
    OBVIOUS
  <2> QED BY <1>3, <2>1, <2>2, MoveOnce
<1>7. ASSUME NEW x, Gone(x) PROVE Gone(x)'
  <2>1. DOMAIN todo[e] = {}
    BY ShortSeq, SeqFacts
  <2> QED BY <1>7, <2>1, ProceedGone DEF Carry
<1> QED BY <1>4, <1>5, <1>7 DEF NetShape, Kept

(* A record that is written carries its handover into the stream.          *)
PutEnds(s, r) == IF IsHandover(r) THEN {<<"chan", s, Len(chan[s]) + 1, r.s>>} ELSE {}

(* A write to a stream.                                                    *)
LEMMA PutChan ==
  ASSUME NetShape, NEW s, NEW r, chan' = [chan EXCEPT ![s] = Append(@, r)]
  PROVE  /\ IsFun(chan') /\ DOMAIN chan' = DOMAIN chan /\ \A x \in DOMAIN chan' : IsSeq(chan'[x])
         /\ ChanEnds' \subseteq ChanEnds \cup PutEnds(s, r)
<1>1. IsFun(chan') /\ DOMAIN chan' = DOMAIN chan /\ \A x \in DOMAIN chan : chan'[x] = IF x = s THEN Append(chan[s], r) ELSE chan[x]
  BY DEF NetShape, IsFun
<1>2. ASSUME s \in DOMAIN chan
      PROVE  /\ IsSeq(Append(chan[s], r)) /\ DOMAIN Append(chan[s], r) = 1..(Len(chan[s]) + 1)
             /\ Append(chan[s], r)[Len(chan[s]) + 1] = r
             /\ \A i \in 1..Len(chan[s]) : Append(chan[s], r)[i] = chan[s][i]
             /\ Len(chan[s]) \in Nat /\ DOMAIN chan[s] = 1..Len(chan[s])
  <2>1. IsSeq(chan[s])
    BY <1>2 DEF NetShape
  <2> QED BY <2>1, AppendSeq, SeqFacts
<1>3. \A x \in DOMAIN chan : IsSeq(chan[x])
  BY DEF NetShape
<1>4. \A x \in DOMAIN chan' : IsSeq(chan'[x])
  BY <1>1, <1>2, <1>3
<1>5. ASSUME NEW a \in ChanEnds' PROVE a \in ChanEnds \cup PutEnds(s, r)
  <2>0. PICK x \in DOMAIN chan : \E i \in DOMAIN chan'[x] : IsHandover(chan'[x][i]) /\ a = <<"chan", x, i, chan'[x][i].s>>
    BY <1>1 DEF ChanEnds, Stream, IsHandover
  <2>1. PICK i \in DOMAIN chan'[x] : IsHandover(chan'[x][i]) /\ a = <<"chan", x, i, chan'[x][i].s>>
    BY <2>0
  <2>2. CASE i \in DOMAIN chan[x] /\ chan'[x][i] = chan[x][i]
    BY <2>1, <2>2 DEF ChanEnds, Stream
  <2>3. CASE x = s /\ i = Len(chan[s]) + 1 /\ chan'[x][i] = r
    BY <2>1, <2>3 DEF PutEnds
  <2>4. CASE x # s
    BY <1>1, <2>2, <2>4
  <2>5. CASE x = s
    <3>1. \A n \in Nat : \A j \in 1..(n + 1) : j \in 1..n \/ j = n + 1
      OBVIOUS
    <3>2. chan'[s] = Append(chan[s], r) /\ i \in 1..(Len(chan[s]) + 1)
      BY <1>1, <1>2, <2>1, <2>5
    <3>3. i \in 1..Len(chan[s]) \/ i = Len(chan[s]) + 1
      BY <1>2, <2>5, <3>1, <3>2, Zenon
    <3>4. CASE i \in 1..Len(chan[s])
      BY <1>2, <2>2, <2>5, <3>2, <3>4, Zenon
    <3>5. CASE i = Len(chan[s]) + 1
      BY <1>2, <2>3, <2>5, <3>2, <3>5, Zenon
    <3> QED BY <3>3, <3>4, <3>5
  <2> QED BY <2>4, <2>5
<1> QED BY <1>1, <1>4, <1>5

(* A write destroys no stream and restores none.                           *)
LEMMA TouchedShape ==
  ASSUME NetShape, NEW s
  PROVE  /\ IsFun(Touched(s)) /\ DOMAIN Touched(s) = DOMAIN stat
         /\ \A x \in DOMAIN stat : Touched(s)[x] = "freed" <=> stat[x] = "freed"
         /\ FreedEnds(Touched(s)) = FreedEnds(stat)
<1>1. IsFun(stat)
  BY DEF NetShape
<1>2. IsFun(Touched(s)) /\ DOMAIN Touched(s) = DOMAIN stat
  BY <1>1 DEF Touched, IsFun
<1>3. \A x \in DOMAIN stat : Touched(s)[x] = "freed" <=> stat[x] = "freed"
  BY <1>1 DEF Touched, IsFun
<1>4. FreedEnds(Touched(s)) = FreedEnds(stat)
  BY <1>2, <1>3 DEF FreedEnds
<1> QED BY <1>2, <1>3, <1>4

(* A pending write is performed.                                           *)
LEMMA FlushOnce ==
  ASSUME NetShape, EndsInv, NEW e \in DOMAIN todo, Flush(e), Held' = Held
  PROVE  Kept
<1> DEFINE ops == todo[e]
           w == Head(ops)
           s == w.s
           r == w.rec
           t == Tail(ops)
           st == Touched(s)
<1>1. /\ ops # << >> /\ IsSeq(ops) /\ w = ops[1] /\ w.op = "write"
      /\ 1 \in DOMAIN ops /\ DOMAIN ops = 1..Len(ops) /\ Len(ops) \in Nat
  BY SeqFacts DEF Flush, NetShape
<1>2. IsSeq(t) /\ DOMAIN t = 1..(Len(ops) - 1) /\ \A i \in DOMAIN t : t[i] = ops[i + 1]
  BY <1>1, TailSeq
<1>3. chan' = [chan EXCEPT ![s] = Append(@, r)] /\ Proceed(e, t, st)
  BY DEF Flush
<1>4. /\ IsFun(st) /\ DOMAIN st = DOMAIN stat /\ \A x \in DOMAIN stat : st[x] = "freed" <=> stat[x] = "freed"
      /\ FreedEnds(st) = FreedEnds(stat)
  BY TouchedShape
<1> HIDE DEF ops, w, t, s, r, st
<1>5. /\ IsFun(chan') /\ DOMAIN chan' = DOMAIN chan /\ \A x \in DOMAIN chan' : IsSeq(chan'[x])
      /\ ChanEnds' \subseteq ChanEnds \cup PutEnds(s, r)
  BY <1>3, PutChan
<1>6. /\ IsFun(stat') /\ DOMAIN stat' = DOMAIN st
      /\ IsFun(todo') /\ DOMAIN todo' = DOMAIN todo
      /\ \A x \in DOMAIN todo' : IsSeq(todo'[x]) /\ (todo'[x] # << >> => Head(todo'[x]).op = "write")
  BY <1>2, <1>3, <1>4, ProceedShape
<1>7. NetShape'
  <2>1. DOMAIN stat' = DOMAIN chan'
    BY <1>4, <1>5, <1>6 DEF NetShape
  <2> QED BY <1>5, <1>6, <2>1 DEF NetShape
<1> DEFINE F == PutEnds(s, r) \cup DoEnds(e, t)
           G == DoEnds(e, ops)
           Back(a) == IF a[1] = "chan" THEN <<"todo", e, 1, a[4]>> ELSE <<"todo", e, a[3] + 1, a[4]>>
           Own(a) == \/ a = <<"chan", s, Len(chan[s]) + 1, a[4]>>
                     \/ a[3] \in Nat \ {0} /\ a = <<"todo", e, a[3], a[4]>>
<1>8. ASSUME NEW a \in F PROVE Own(a) /\ Back(a) \in G /\ Back(a)[4] = a[4]
  <2>1. CASE a \in PutEnds(s, r)
    <3>1. IsHandover(r) /\ a = <<"chan", s, Len(chan[s]) + 1, r.s>>
      BY <2>1 DEF PutEnds
    <3>2. Bears(ops[1]) /\ EndOf(ops[1]) = r.s
      BY <1>1, <3>1 DEF Bears, EndOf, IsPass, r
    <3>3. <<"todo", e, 1, r.s>> \in G
      BY <1>1, <3>2 DEF DoEnds
    <3> QED BY <3>1, <3>3
  <2>2. CASE a \in DoEnds(e, t)
    <3>1. PICK i \in DOMAIN t : Bears(t[i]) /\ a = <<"todo", e, i, EndOf(t[i])>>
      BY <2>2 DEF DoEnds
    <3>2. i \in Nat \ {0} /\ i + 1 \in DOMAIN ops /\ t[i] = ops[i + 1]
      <4>1. \A n \in Nat : \A j \in 1..(n - 1) : j \in Nat \ {0} /\ j + 1 \in 1..n
        OBVIOUS
      <4> QED BY <1>1, <1>2, <4>1, Zenon
    <3>3. <<"todo", e, i + 1, EndOf(t[i])>> \in G
      BY <3>1, <3>2 DEF DoEnds
    <3>4. a[1] = "todo" /\ a[3] = i /\ a[4] = EndOf(t[i])
      BY <3>1
    <3> QED BY <3>1, <3>2, <3>3, <3>4
  <2> QED BY <2>1, <2>2
<1>9. ASSUME NEW a, NEW b, Own(a), Own(b), Back(a) = Back(b), a[4] = b[4] PROVE a = b
  <2>1. (a[1] = "chan" /\ b[1] = "chan") \/ (a[1] # "chan" /\ b[1] # "chan")
    BY <1>9
  <2> QED BY <1>9, <2>1
<1>10. GivenBy(F, G)
  <2> HIDE DEF F, G, Back, Own
  <2> QED BY <1>8 DEF GivenBy
<1>11. Once(Ends) /\ G \subseteq Ends /\ Held \cup ChanEnds \subseteq Ends
  BY DEF EndsInv, Ends, TodoEnds, ops
<1>12. Once(F)
  <2> HIDE DEF F, G, Back, Own
  <2>1. \A a \in F, b \in F : a[4] = b[4] => Back(a) = Back(b)
    BY <1>8, <1>11 DEF Once
  <2> QED BY <1>8, <1>9, <2>1 DEF Once
<1> HIDE DEF Back, Own
<1> DEFINE V == Held \cup ChanEnds
<1>13. Once(V) /\ GivenBy(V, Ends \ G)
  BY <1>11, EndKinds DEF Once, GivenBy
<1>14. Once(V \cup F) /\ GivenBy(V \cup F, Ends)
  <2> HIDE DEF F, G, V
  <2> QED BY <1>10, <1>11, <1>12, <1>13, FreshOnce
<1> DEFINE H == V \cup PutEnds(s, r)
           A == V \cup G
<1>15. Foreign(H)
  <2>1. Foreign(Held) /\ Foreign(ChanEnds) /\ Foreign(PutEnds(s, r))
    BY EndKinds DEF Foreign, PutEnds
  <2> QED BY <2>1 DEF Foreign
<1>16. Held' \subseteq H /\ ChanEnds' \subseteq H
  BY <1>5
<1>17. Once(H \cup DoEnds(e, t)) /\ GivenBy(H \cup DoEnds(e, t), A)
  <2>1. H \cup DoEnds(e, t) = V \cup F
    OBVIOUS
  <2>2. GivenBy(V \cup F, V \cup G)
    <3> HIDE DEF V, F, G
    <3> QED BY <1>10 DEF GivenBy
  <2> QED BY <1>14, <2>1, <2>2
<1>18. A \subseteq Ends /\ \A a \in A : a[1] # "freed" /\ (a[1] = "todo" => a[2] = e)
  BY <1>11, EndKinds
<1>19. EndsInv'
  <2>1. IsFun(todo)
    BY DEF NetShape
  <2> HIDE DEF V, F, G, H, A
  <2> QED BY <1>2, <1>3, <1>4, <1>5, <1>15, <1>16, <1>17, <1>18, <2>1, StepOnce
<1>20. ASSUME NEW x, Gone(x) PROVE Gone(x)'
  <2>1. ASSUME NEW i \in DOMAIN todo[e], NEW y, todo[e][i] = Free(y) PROVE \E j \in DOMAIN t : t[j] = Free(y)
    <3>1. ops[i] = Free(y) /\ i \in DOMAIN ops
      BY <2>1 DEF ops
    <3>2. i # 1
      BY <1>1, <3>1 DEF Free
    <3>3. \A n \in Nat : \A j \in 1..n : j # 1 => j - 1 \in 1..(n - 1) /\ (j - 1) + 1 = j
      OBVIOUS
    <3>4. i - 1 \in DOMAIN t /\ t[i - 1] = ops[i]
      BY <1>1, <1>2, <3>1, <3>2, <3>3, Zenon
    <3> QED BY <3>1, <3>4
  <2> QED BY <1>2, <1>3, <1>4, <1>20, <2>1, ProceedGone
<1> QED BY <1>6, <1>7, <1>19, <1>20 DEF Kept

(* A step that leaves alone what the entities have to do and are to        *)
(* destroy, and may write a record.                                        *)
LEMMA RestOnce ==
  ASSUME NetShape, EndsInv, todo' = todo, IsFun(stat'), DOMAIN stat' = DOMAIN stat,
         \A x \in DOMAIN stat : stat'[x] = "freed" <=> stat[x] = "freed",
         IsFun(chan'), DOMAIN chan' = DOMAIN chan, \A x \in DOMAIN chan' : IsSeq(chan'[x]),
         NEW C, ChanEnds' \subseteq ChanEnds \cup C,
         NEW K, K \subseteq Held, NEW N, Held' \subseteq K \cup N,
         Once(N \cup C), GivenBy(N \cup C, Held \ K)
  PROVE  Kept
<1> DEFINE R == ChanEnds \cup TodoEnds \cup FreedEnds(stat)
           V == K \cup R
           F == N \cup C
           G == Held \ K
<1>1. TodoEnds' = TodoEnds /\ FreedEnds(stat') = FreedEnds(stat)
  BY DEF TodoEnds, FreedEnds
<1>2. Ends' \subseteq V \cup F
  BY <1>1 DEF Ends
<1>3. Once(Ends) /\ Ends = Held \cup R
  BY DEF EndsInv, Ends
<1>4. \A a \in R : a \notin Held
  <2>1. \A a \in TodoEnds : a[1] = "todo"
    BY EndKinds DEF TodoEnds
  <2> QED BY <2>1, EndKinds
<1> HIDE DEF R
<1>5. Once(V) /\ GivenBy(V, Ends \ G) /\ G \subseteq Ends
  BY <1>3, <1>4 DEF Once, GivenBy
<1> HIDE DEF V, F, G
<1>6. Once(V \cup F) /\ GivenBy(V \cup F, Ends)
  <2>1. Once(F) /\ GivenBy(F, G)
    BY DEF F, G
  <2> QED BY <1>3, <1>5, <2>1, FreshOnce
<1>7. Once(Ends')
  BY <1>2, <1>6 DEF Once
<1>8. ASSUME NEW a \in Ends' PROVE a[4] \in DOMAIN chan
  <2>1. PICK c \in Ends : c[4] = a[4]
    BY <1>2, <1>6 DEF GivenBy
  <2> QED BY <2>1 DEF EndsInv, Stream
<1>9. EndsInv'
  BY <1>7, <1>8 DEF EndsInv, Once, Stream
<1>10. \A x : Gone(x) => Gone(x)'
  BY DEF Gone
<1>11. NetShape'
  BY DEF NetShape
<1> QED BY <1>9, <1>10, <1>11 DEF Kept

(* A record is written at once: the ends N and the record replace ends     *)
(* held.                                                                   *)
LEMMA PutOnce ==
  ASSUME NetShape, EndsInv, NEW s, NEW r, chan' = [chan EXCEPT ![s] = Append(@, r)], stat' = Touched(s),
         todo' = todo, NEW K, K \subseteq Held, NEW N, Held' \subseteq K \cup N,
         Once(N \cup PutEnds(s, r)), GivenBy(N \cup PutEnds(s, r), Held \ K)
  PROVE  Kept
<1>1. /\ IsFun(chan') /\ DOMAIN chan' = DOMAIN chan /\ \A x \in DOMAIN chan' : IsSeq(chan'[x])
      /\ ChanEnds' \subseteq ChanEnds \cup PutEnds(s, r)
  BY PutChan
<1>2. IsFun(stat') /\ DOMAIN stat' = DOMAIN stat /\ \A x \in DOMAIN stat : stat'[x] = "freed" <=> stat[x] = "freed"
  BY TouchedShape
<1> QED BY <1>1, <1>2, RestOnce

(* No stream is touched: the ends N replace ends that were held.           *)
LEMMA StayOnce ==
  ASSUME NetShape, EndsInv, UNCHANGED netVars, NEW K, K \subseteq Held, NEW N, Held' \subseteq K \cup N,
         Once(N), GivenBy(N, Held \ K)
  PROVE  Kept
<1>1. IsFun(chan') /\ DOMAIN chan' = DOMAIN chan /\ \A x \in DOMAIN chan' : IsSeq(chan'[x])
  BY DEF NetShape, netVars
<1>2. IsFun(stat') /\ DOMAIN stat' = DOMAIN stat /\ \A x \in DOMAIN stat : stat'[x] = "freed" <=> stat[x] = "freed"
  BY DEF NetShape, netVars
<1>3. ChanEnds' \subseteq ChanEnds \cup {}
  BY DEF ChanEnds, netVars, Stream
<1>4. Once(N \cup {}) /\ GivenBy(N \cup {}, Held \ K)
  <2>1. N \cup {} = N
    OBVIOUS
  <2> QED BY <2>1
<1> QED BY <1>1, <1>2, <1>3, <1>4, RestOnce DEF netVars

-----------------------------------------------------------------------------
(* The parts of what the entities hold.                                    *)
LEMMA PartKinds ==
  /\ \A k, v : \A a \in InEnds(k, v) : a[1] = k
  /\ \A a \in CollEnds : a[1] = "coll"
  /\ \A a \in OpeningEnds : a[1] = "opening"
  /\ \A a \in BackEnds : a[1] = "back"
  /\ \A a \in BufEnds : a[1] = "fbbuf"
  /\ \A a \in SinkEnds : a[1] = "sink"
  /\ \A a \in QueueEnds : a[1] = "queue"
  /\ \A a \in ReplicaEnds : a[1] = "replica"
  /\ \A a \in InstanceEnds : a[1] = "instance"
  /\ \A a \in GrownEnds : a[1] = "grown"
<1>1. \A k, v : \A a \in InEnds(k, v) : a[1] = k
  BY DEF InEnds
<1>2. \A a \in CollEnds : a[1] = "coll"
  BY DEF CollEnds
<1>3. (\A a \in OpeningEnds : a[1] = "opening") /\ (\A a \in BackEnds : a[1] = "back")
  BY DEF OpeningEnds, BackEnds
<1>4. (\A a \in BufEnds : a[1] = "fbbuf") /\ (\A a \in SinkEnds : a[1] = "sink")
  BY DEF BufEnds, SinkEnds
<1>5. (\A a \in QueueEnds : a[1] = "queue") /\ (\A a \in ReplicaEnds : a[1] = "replica")
  BY DEF QueueEnds, ReplicaEnds
<1>6. (\A a \in InstanceEnds : a[1] = "instance") /\ (\A a \in GrownEnds : a[1] = "grown")
  BY DEF InstanceEnds, GrownEnds
<1> QED BY <1>1, <1>2, <1>3, <1>4, <1>5, <1>6

(* They change with the variables they are made of.                        *)
LEMMA PartsSame ==
  /\ \A k : /\ UNCHANGED box => InEnds(k, box)' = InEnds(k, box)
            /\ UNCHANGED par => InEnds(k, par)' = InEnds(k, par)
            /\ UNCHANGED sync => InEnds(k, sync)' = InEnds(k, sync)
            /\ UNCHANGED split => InEnds(k, split)' = InEnds(k, split)
            /\ UNCHANGED star => InEnds(k, star)' = InEnds(k, star)
            /\ UNCHANGED filter => InEnds(k, filter)' = InEnds(k, filter)
            /\ UNCHANGED fbcoll => InEnds(k, fbcoll)' = InEnds(k, fbcoll)
            /\ UNCHANGED fbdisp => InEnds(k, fbdisp)' = InEnds(k, fbdisp)
  /\ UNCHANGED coll => CollEnds' = CollEnds /\ OpeningEnds' = OpeningEnds
  /\ UNCHANGED fbcoll => BackEnds' = BackEnds
  /\ UNCHANGED fbbuf => BufEnds' = BufEnds /\ QueueEnds' = QueueEnds /\ GrownEnds' = GrownEnds
  /\ UNCHANGED sink => SinkEnds' = SinkEnds
  /\ UNCHANGED split => ReplicaEnds' = ReplicaEnds
  /\ UNCHANGED star => InstanceEnds' = InstanceEnds
<1>1. UNCHANGED coll => CollEnds' = CollEnds /\ OpeningEnds' = OpeningEnds
  BY DEF CollEnds, OpeningEnds
<1>2. UNCHANGED fbcoll => BackEnds' = BackEnds
  BY DEF BackEnds
<1>3. UNCHANGED fbbuf => BufEnds' = BufEnds /\ QueueEnds' = QueueEnds /\ GrownEnds' = GrownEnds
  BY DEF BufEnds, QueueEnds, GrownEnds
<1>4. UNCHANGED sink => SinkEnds' = SinkEnds
  BY DEF SinkEnds
<1>5. UNCHANGED split => ReplicaEnds' = ReplicaEnds
  BY DEF ReplicaEnds
<1>6. UNCHANGED star => InstanceEnds' = InstanceEnds
  BY DEF InstanceEnds
<1>7. ASSUME NEW k
      PROVE /\ UNCHANGED box => InEnds(k, box)' = InEnds(k, box)
            /\ UNCHANGED par => InEnds(k, par)' = InEnds(k, par)
            /\ UNCHANGED sync => InEnds(k, sync)' = InEnds(k, sync)
            /\ UNCHANGED split => InEnds(k, split)' = InEnds(k, split)
            /\ UNCHANGED star => InEnds(k, star)' = InEnds(k, star)
            /\ UNCHANGED filter => InEnds(k, filter)' = InEnds(k, filter)
            /\ UNCHANGED fbcoll => InEnds(k, fbcoll)' = InEnds(k, fbcoll)
            /\ UNCHANGED fbdisp => InEnds(k, fbdisp)' = InEnds(k, fbdisp)
  BY DEF InEnds
<1> QED BY <1>1, <1>2, <1>3, <1>4, <1>5, <1>6, <1>7

(* Without a change of local state the entities hold what they held.       *)
LEMMA HeldSame ==
  ASSUME UNCHANGED <<box, coll, par, sync, split, star, filter, fbVars, sink>>
  PROVE  Held' = Held
BY PartsSame DEF Held, Reading, fbVars

(* A single reader goes on to another stream, or ends.                     *)
In(k, e, s) == <<k, e, "in", s>>
Edited(v, w, e) == IsFun(w) /\ DOMAIN w = DOMAIN v /\ \A x \in DOMAIN v : x # e => w[x] = v[x]

(* The parts of such an end.                                               *)
LEMMA InFacts == \A k, e, s : In(k, e, s)[1] = k /\ In(k, e, s)[2] = e /\ In(k, e, s)[4] = s
BY DEF In

(* One reader of a kind changes its state.                                 *)
LEMMA InStep ==
  ASSUME NEW k, NEW v, NEW w, NEW e \in DOMAIN v, Edited(v, w, e)
  PROVE  /\ InEnds(k, w) \subseteq (InEnds(k, v) \ {In(k, e, v[e].in)}) \cup {In(k, e, w[e].in)}
         /\ w[e].done => InEnds(k, w) \subseteq InEnds(k, v) \ {In(k, e, v[e].in)}
<1>1. ASSUME NEW a \in InEnds(k, w)
      PROVE  \/ a \in InEnds(k, v) /\ a[2] # e
             \/ ~w[e].done /\ a = In(k, e, w[e].in)
  BY DEF InEnds, In, Edited
<1> QED BY <1>1, InFacts

(* A reader that has not ended holds its end.                              *)
LEMMA InOwn ==
  ASSUME NEW k, NEW v, NEW e \in DOMAIN v, ~v[e].done
  PROVE  In(k, e, v[e].in) \in InEnds(k, v)
BY DEF InEnds, In

-----------------------------------------------------------------------------
(* What readers of a single stream do with a record.                       *)
LEMMA ReadsStream ==
  ASSUME EndsInv, NEW own \in Held
  PROVE  own[4] \in Stream
BY DEF EndsInv, Ends

(* What a record hands over is not what its reader holds.                  *)
LEMMA TopOther ==
  ASSUME EndsInv, NetShape, NEW own \in Held, NEW s, s \in Stream, chan[s] # << >>, IsHandover(Top(s))
  PROVE  own[4] # Top(s).s /\ TopEnds(s) = {<<"chan", s, 1, Top(s).s>>}
<1>1. TopEnds(s) = {<<"chan", s, 1, Top(s).s>>}
  BY DEF TopEnds
<1>2. <<"chan", s, 1, Top(s).s>> \in ChanEnds
  <2>1. IsSeq(chan[s])
    BY DEF NetShape, Stream
  <2>2. 1 \in DOMAIN chan[s] /\ Top(s) = chan[s][1]
    BY <2>1, SeqFacts DEF Top
  <2> QED BY <2>2 DEF ChanEnds
<1>3. own \in Ends /\ <<"chan", s, 1, Top(s).s>> \in Ends /\ own[1] # "chan"
  BY <1>2, EndKinds DEF Ends
<1> QED BY <1>1, <1>3 DEF EndsInv, Once

(* It passes on records that hand nothing over.                            *)
LEMMA InPass ==
  ASSUME NetShape, EndsInv, NEW own \in Held, NEW e, todo[e] = << >>, NEW s, own[4] = s, chan[s] # << >>,
         NEW ops, Carry(ops, {}), Take(e, s, ops), Held' \subseteq Held
  PROVE  Kept
<1>1. s \in Stream
  BY ReadsStream
<1>2. Foreign({}) /\ Once({}) /\ GivenBy({}, (Held \ Held) \cup TopEnds(s))
  BY DEF Foreign, Once, GivenBy
<1>3. Held' \subseteq Held \cup {}
  OBVIOUS
<1> QED BY <1>1, <1>2, <1>3, TakeOnce

(* It ends and destroys the stream or passes it on.                        *)
LEMMA InQuit ==
  ASSUME NetShape, EndsInv, NEW own \in Held, NEW e, todo[e] = << >>, NEW s, own[4] = s, chan[s] # << >>,
         NEW ops, Carry(ops, {s}), Take(e, s, ops), Held' \subseteq Held \ {own}
  PROVE  Kept
<1> DEFINE K == Held \ {own}
           N == {}
           X == {s}
<1>1. s \in Stream /\ K \subseteq Held
  BY ReadsStream
<1>2. Foreign(N) /\ Once(N) /\ GivenBy(N, (Held \ K) \cup TopEnds(s))
  BY DEF Foreign, Once, GivenBy
<1>3. Held' \subseteq K \cup N
  OBVIOUS
<1>4. X \subseteq {b[4] : b \in (Held \ K) \cup TopEnds(s)}
  OBVIOUS
<1>5. Carry(ops, X) /\ \A a \in N : a[4] \notin X
  OBVIOUS
<1> HIDE DEF K, N, X
<1> QED BY <1>1, <1>2, <1>3, <1>4, <1>5, TakeOnce

(* It ends, destroys the stream and passes on the one it was handed.       *)
LEMMA InLeave ==
  ASSUME NetShape, EndsInv, NEW own \in Held, NEW e, todo[e] = << >>, NEW s, own[4] = s, chan[s] # << >>,
         IsHandover(Top(s)), NEW ops, Carry(ops, {s, Top(s).s}), Take(e, s, ops), Held' \subseteq Held \ {own}
  PROVE  Kept
<1> DEFINE K == Held \ {own}
           N == {}
           X == {s, Top(s).s}
<1>1. s \in Stream /\ K \subseteq Held
  BY ReadsStream
<1>2. Foreign(N) /\ Once(N) /\ GivenBy(N, (Held \ K) \cup TopEnds(s))
  BY DEF Foreign, Once, GivenBy
<1>3. Held' \subseteq K \cup N
  OBVIOUS
<1>4. X \subseteq {b[4] : b \in (Held \ K) \cup TopEnds(s)}
  <2>1. own \in (Held \ K) \cup TopEnds(s) /\ <<"chan", s, 1, Top(s).s>> \in (Held \ K) \cup TopEnds(s)
    BY DEF TopEnds
  <2>2. own[4] = s /\ <<"chan", s, 1, Top(s).s>>[4] = Top(s).s
    OBVIOUS
  <2> HIDE DEF K
  <2> QED BY <2>1, <2>2
<1>5. Carry(ops, X) /\ \A a \in N : a[4] \notin X
  OBVIOUS
<1> HIDE DEF K, N, X
<1> QED BY <1>1, <1>2, <1>3, <1>4, <1>5, TakeOnce

(* It destroys the stream and reads the one it was handed.                 *)
LEMMA InReplace ==
  ASSUME NetShape, EndsInv, NEW own \in Held, NEW e, todo[e] = << >>, NEW s, own[4] = s, chan[s] # << >>,
         IsHandover(Top(s)), NEW ops, Carry(ops, {s}), Take(e, s, ops), NEW new, new[1] = own[1], new[4] = Top(s).s,
         Held' \subseteq (Held \ {own}) \cup {new}
  PROVE  Kept
<1> DEFINE K == Held \ {own}
<1>1. s \in Stream /\ K \subseteq Held
  BY ReadsStream
<1>2. own[4] # Top(s).s /\ TopEnds(s) = {<<"chan", s, 1, Top(s).s>>}
  BY <1>1, TopOther
<1>3. Foreign({new}) /\ Once({new})
  BY EndKinds DEF Foreign, Once
<1>4. GivenBy({new}, (Held \ K) \cup TopEnds(s))
  <2>1. <<"chan", s, 1, Top(s).s>> \in (Held \ K) \cup TopEnds(s) /\ <<"chan", s, 1, Top(s).s>>[4] = new[4]
    BY <1>2
  <2> QED BY <2>1 DEF GivenBy
<1>5. {s} \subseteq {b[4] : b \in (Held \ K) \cup TopEnds(s)}
  OBVIOUS
<1>6. \A a \in {new} : a[4] \notin {s}
  BY <1>2
<1> HIDE DEF K
<1>7. Held' \subseteq K \cup {new}
  BY DEF K
<1> QED BY <1>1, <1>3, <1>4, <1>5, <1>6, <1>7, TakeOnce

(* An entity that reads nothing now.                                       *)
LEMMA ActPass ==
  ASSUME NetShape, EndsInv, NEW e, todo[e] = << >>, UNCHANGED chan, NEW ops, Carry(ops, {}),
         Proceed(e, ops, stat), Held' \subseteq Held
  PROVE  Kept
<1> DEFINE N == {}
           X == {}
<1>1. Foreign(N) /\ Once(N) /\ GivenBy(N, Held \ Held) /\ X \subseteq {b[4] : b \in Held \ Held}
  BY DEF Foreign, Once, GivenBy
<1>2. Held' \subseteq Held \cup N /\ Carry(ops, X) /\ \A a \in N : a[4] \notin X
  OBVIOUS
<1> HIDE DEF N, X
<1> QED BY <1>1, <1>2, ActOnce

(* A stream that was held is passed on or destroyed, without a read.       *)
LEMMA ActGive ==
  ASSUME NetShape, EndsInv, NEW e, todo[e] = << >>, UNCHANGED chan, NEW own \in Held, NEW ops, NEW x, own[4] = x,
         Carry(ops, {x}), Proceed(e, ops, stat), Held' \subseteq Held \ {own}
  PROVE  Kept
<1> DEFINE K == Held \ {own}
           N == {}
           X == {x}
<1>1. Foreign(N) /\ Once(N) /\ GivenBy(N, Held \ K) /\ X \subseteq {b[4] : b \in Held \ K}
  BY DEF Foreign, Once, GivenBy
<1>2. K \subseteq Held /\ Held' \subseteq K \cup N /\ Carry(ops, X) /\ \A a \in N : a[4] \notin X
  OBVIOUS
<1> HIDE DEF K, N, X
<1> QED BY <1>1, <1>2, ActOnce

-----------------------------------------------------------------------------
(* What a step of an entity leaves alone.                                  *)
LEMMA ShapesSame ==
  /\ BoxShape /\ UNCHANGED box => BoxShape'
  /\ FilterShape /\ UNCHANGED filter => FilterShape'
  /\ SyncShape /\ UNCHANGED sync => SyncShape'
  /\ SplitShape /\ UNCHANGED split => SplitShape'
  /\ StarShape /\ UNCHANGED star => StarShape'
  /\ ParShape /\ UNCHANGED par => ParShape'
  /\ FeedbackShape /\ UNCHANGED fbVars => FeedbackShape'
  /\ TaskShape /\ UNCHANGED <<src, sink>> => TaskShape'
<1>1. BoxShape /\ UNCHANGED box => BoxShape'
  BY DEF BoxShape
<1>2. FilterShape /\ UNCHANGED filter => FilterShape'
  BY DEF FilterShape
<1>3. SyncShape /\ UNCHANGED sync => SyncShape'
  BY DEF SyncShape
<1>4. SplitShape /\ UNCHANGED split => SplitShape'
  BY DEF SplitShape
<1>5. StarShape /\ UNCHANGED star => StarShape'
  BY DEF StarShape
<1>6. ParShape /\ UNCHANGED par => ParShape'
  BY DEF ParShape
<1>7. FeedbackShape /\ UNCHANGED fbVars => FeedbackShape'
  BY DEF FeedbackShape, fbVars
<1>8. TaskShape /\ UNCHANGED <<src, sink>> => TaskShape'
  BY DEF TaskShape
<1> QED BY <1>1, <1>2, <1>3, <1>4, <1>5, <1>6, <1>7, <1>8

(* The collectors remain as they were.                                     *)
LEMMA CollSame ==
  ASSUME CollShape, CollInv, CollectorAccounting, UNCHANGED coll, Kept
  PROVE  CollShape' /\ CollInv' /\ CollectorAccounting'
<1>1. CollShape'
  BY DEF CollShape, Kept
<1>2. CollectorAccounting'
  BY DEF CollectorAccounting
<1>3. ASSUME NEW c \in DOMAIN coll, NEW d \in coll[c].ready \cup coll[c].waiting PROVE coll[c].at[d] = d \/ Gone(d)'
  BY DEF CollInv, Kept
<1>4. CollInv'
  BY <1>3 DEF CollInv
<1> QED BY <1>1, <1>2, <1>4
=============================================================================
