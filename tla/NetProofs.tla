----------------------------- MODULE NetProofs ------------------------------
(***************************************************************************)
(* Proofs about networks of the stream runtime, for every wiring in which  *)
(* a stream starts with one reader, every capacity and every input: a      *)
(* stream never has two readers, nobody reads a destroyed stream, and the  *)
(* collectors count their streams right.                                   *)
(***************************************************************************)
EXTENDS NetTasks

(* Collectors: the ends that one holds in state st.                        *)
CEnd(c, d, s) == <<"coll", c, d, s>>
CE(c, st) == {CEnd(c, d, st.at[d]) : d \in {x \in st.ready \cup st.waiting : ~st.done}}
               \cup {a \in {In("opening", c, st.opening)} : st.opening # NULL}

(* What holds of the state of a collector whatever it does, what holds     *)
(* before the end of a turn, and what between two turns.                   *)
CollBase(st) ==
  /\ IsColl(st)
  /\ IsFiniteSet(st.ready) /\ IsFiniteSet(st.waiting) /\ st.ready \cap st.waiting = {}
  /\ st.scan \subseteq st.waiting /\ (st.opening = NULL => st.scan = {})
  /\ IsFun(st.at) /\ st.ready \cup st.waiting \subseteq DOMAIN st.at
Counted(st) == st.incount = Cardinality(st.ready) + Cardinality(st.waiting) /\ (st.waiting # {} => st.sort # << >>)
CollMid(st)  == CollBase(st) /\ Counted(st) /\ ~st.done /\ (st.opening # NULL => st.ready # {})
CollGood(st) == CollBase(st) /\ (st.done => st.opening = NULL) /\ (~st.done => Counted(st) /\ st.ready # {})

(* The ends of a collector.                                                *)
LEMMA CEFacts ==
  /\ \A c, d, s : CEnd(c, d, s)[1] = "coll" /\ CEnd(c, d, s)[2] = c /\ CEnd(c, d, s)[3] = d /\ CEnd(c, d, s)[4] = s
  /\ \A c, st : \A d \in st.ready \cup st.waiting : ~st.done => CEnd(c, d, st.at[d]) \in CE(c, st)
  /\ \A c, st : st.opening # NULL => In("opening", c, st.opening) \in CE(c, st)
  /\ \A c, st : \A a \in CE(c, st) :
       \/ a[1] = "coll" /\ ~st.done /\ \E d \in st.ready \cup st.waiting : a = CEnd(c, d, st.at[d])
       \/ a[1] = "opening" /\ st.opening # NULL /\ a = In("opening", c, st.opening)
<1>1. \A c, d, s : CEnd(c, d, s)[1] = "coll" /\ CEnd(c, d, s)[2] = c /\ CEnd(c, d, s)[3] = d /\ CEnd(c, d, s)[4] = s
  BY DEF CEnd
<1>2. ASSUME NEW c, NEW st, NEW d \in st.ready \cup st.waiting, ~st.done PROVE CEnd(c, d, st.at[d]) \in CE(c, st)
  BY <1>2 DEF CE
<1>3. ASSUME NEW c, NEW st, st.opening # NULL PROVE In("opening", c, st.opening) \in CE(c, st)
  BY <1>3 DEF CE
<1>4. ASSUME NEW c, NEW st, NEW a \in CE(c, st)
      PROVE  \/ a[1] = "coll" /\ ~st.done /\ \E d \in st.ready \cup st.waiting : a = CEnd(c, d, st.at[d])
             \/ a[1] = "opening" /\ st.opening # NULL /\ a = In("opening", c, st.opening)
  <2>1. CASE \E d \in {x \in st.ready \cup st.waiting : ~st.done} : a = CEnd(c, d, st.at[d])
    BY <1>1, <2>1
  <2>2. CASE a = In("opening", c, st.opening) /\ st.opening # NULL
    BY <2>2, InFacts
  <2> QED BY <2>1, <2>2 DEF CE
<1> QED BY <1>1, <1>2, <1>3, <1>4

(* The ends do not change with the fields that are no part of them, and    *)
(* lose that of a descriptor that leaves both sets.                        *)
LEMMA CEShrink ==
  ASSUME NEW c, NEW st, NEW t, t.ready \cup t.waiting \subseteq st.ready \cup st.waiting, t.at = st.at,
         ~st.done, t.opening = st.opening
  PROVE  /\ CE(c, t) \subseteq CE(c, st)
         /\ \A d : d \notin t.ready \cup t.waiting => CE(c, t) \subseteq CE(c, st) \ {CEnd(c, d, st.at[d])}
<1>1. ASSUME NEW a \in CE(c, t) PROVE a \in CE(c, st)
  BY CEFacts
<1>2. ASSUME NEW a \in CE(c, t), NEW d, d \notin t.ready \cup t.waiting PROVE a # CEnd(c, d, st.at[d])
  <2>1. CASE a[1] = "coll" /\ \E x \in t.ready \cup t.waiting : a = CEnd(c, x, t.at[x])
    BY <1>2, <2>1, CEFacts
  <2>2. CASE a[1] = "opening"
    BY <2>2, CEFacts
  <2> QED BY <2>1, <2>2, CEFacts
<1> QED BY <1>1, <1>2

(* What a collector does to what the entities hold.                        *)
LEMMA CollHeld ==
  ASSUME UNCHANGED <<box, par, sync, split, star, filter, fbVars, src, sink>>, NEW c \in DOMAIN coll, Edited(coll, coll', c)
  PROVE  Held' \subseteq (Held \ CE(c, coll[c])) \cup CE(c, coll'[c]) /\ CE(c, coll[c]) \subseteq Held
<1>1. CE(c, coll[c]) \subseteq CollEnds \cup OpeningEnds
  BY DEF CE, CollEnds, OpeningEnds, CEnd, In
<1>2. ASSUME NEW a \in CollEnds' PROVE (a \in CollEnds /\ a[2] # c) \/ a \in CE(c, coll'[c])
  <2>1. PICK y \in DOMAIN coll' : ~coll'[y].done /\ \E d \in coll'[y].ready \cup coll'[y].waiting : a = <<"coll", y, d, coll'[y].at[d]>>
    BY DEF CollEnds
  <2>2. CASE y = c
    BY <2>1, <2>2 DEF CE, CEnd
  <2>3. CASE y # c
    <3>1. y \in DOMAIN coll /\ coll'[y] = coll[y]
      BY <2>1, <2>3 DEF Edited
    <3> QED BY <2>1, <2>3, <3>1 DEF CollEnds
  <2> QED BY <2>2, <2>3
<1>3. ASSUME NEW a \in OpeningEnds' PROVE (a \in OpeningEnds /\ a[2] # c) \/ a \in CE(c, coll'[c])
  <2>1. PICK y \in DOMAIN coll' : coll'[y].opening # NULL /\ a = <<"opening", y, "in", coll'[y].opening>>
    BY DEF OpeningEnds
  <2>2. CASE y = c
    BY <2>1, <2>2 DEF CE, In
  <2>3. CASE y # c
    <3>1. y \in DOMAIN coll /\ coll'[y] = coll[y]
      BY <2>1, <2>3 DEF Edited
    <3> QED BY <2>1, <2>3, <3>1 DEF OpeningEnds
  <2> QED BY <2>2, <2>3
<1>4. \A a \in CE(c, coll[c]) : a[2] = c /\ (a[1] = "coll" \/ a[1] = "opening")
  BY CEFacts, InFacts
<1> QED BY <1>1, <1>2, <1>3, <1>4, PartsSame, PartKinds DEF Held, Reading, fbVars

(* The end of a turn: the collector goes on with all that it holds, or     *)
(* ends and possibly hands on one stream.                                  *)
Settled(c, st, more, fin) ==
  /\ CollGood(fin) /\ fin.at = st.at /\ fin.ready \cup fin.waiting = st.ready \cup st.waiting
  /\ st.ready # {} => fin = st /\ more = << >>
  /\ \/ Carry(more, {}) /\ CE(c, fin) \subseteq CE(c, st)
     \/ CE(c, fin) = {} /\ \E in \in st.ready \cup st.waiting : Carry(more, {st.at[in]})

(* See Settled.                                                            *)
LEMMA SettleFacts ==
  ASSUME NEW c, NEW st, CollMid(st), NEW end, end = Settle(c, st)
  PROVE  Settled(c, st, end.ops, end.st)
<1> USE DEF Settled
<1>1. Carry(Restored(c, st), {}) /\ Carry(<< >>, {})
  <2> DEFINE o == Write(CollOut[c], Lower(Head(st.sort)))
  <2>1. ~Bears(o)
    BY OpEnds DEF Lower
  <2>2. Carry(<<o>>, {}) /\ Carry(<< >>, {})
    <3> HIDE DEF o
    <3> QED BY <2>1, CarryOne
  <2> QED BY <2>2 DEF Restored
<1>2. IsColl(st) /\ ~st.done /\ (st.opening # NULL => st.ready # {})
  BY DEF CollMid, CollBase
<1>3. ASSUME NEW t, t = [st EXCEPT !.done = TRUE], st.ready = {}
      PROVE  CollGood(t) /\ t.at = st.at /\ t.ready \cup t.waiting = st.ready \cup st.waiting /\ CE(c, t) = {}
  <2>1. /\ IsColl(t) /\ t.ready = st.ready /\ t.waiting = st.waiting /\ t.at = st.at
        /\ t.scan = st.scan /\ t.opening = st.opening /\ t.done
    BY <1>2, <1>3 DEF IsRec, IsColl, IsFun
  <2>2. t.opening = NULL
    BY <1>2, <1>3, <2>1
  <2>3. CollGood(t)
    BY <2>1, <2>2 DEF CollGood, CollBase, CollMid
  <2>4. CE(c, t) = {}
    BY <2>1, <2>2, CEFacts
  <2> QED BY <2>1, <2>3, <2>4
<1>4. CASE st.ready # {}
  <2>1. end = [st |-> st, ops |-> << >>]
    BY <1>4 DEF Settle
  <2>2. end.st = st /\ end.ops = << >>
    BY <2>1
  <2>3. CollGood(st)
    BY <1>4 DEF CollGood, CollMid
  <2> QED BY <1>1, <2>2, <2>3
<1>5. CASE st.ready = {} /\ st.waiting # {} /\ IsStatic[c] /\ st.incount = 1
  <2> DEFINE in == CHOOSE d \in st.waiting : TRUE
             t  == [st EXCEPT !.done = TRUE]
             a  == IF in = st.last THEN Restored(c, st) ELSE << >>
             o  == Write(CollOut[c], Sync(st.at[in], NULL))
             b  == <<o>>
  <2>1. end = [st |-> t, ops |-> a \o b]
    BY <1>5 DEF Settle
  <2>2. end.st = t /\ end.ops = a \o b
    BY <2>1
  <2>3. in \in st.ready \cup st.waiting
    BY <1>5
  <2>4. Carry(a, {})
    BY <1>1
  <2>5. EndOf(o) = st.at[in]
    BY OpEnds
  <2> HIDE DEF in, o, a
  <2>6. Carry(b, {st.at[in]})
    BY <2>5, CarryOne
  <2> HIDE DEF b
  <2>7. Carry(end.ops, {st.at[in]})
    BY <2>2, <2>4, <2>6, CarryRight
  <2>8. CollGood(t) /\ t.at = st.at /\ t.ready \cup t.waiting = st.ready \cup st.waiting /\ CE(c, t) = {}
    BY <1>3, <1>5
  <2> HIDE DEF t
  <2> QED BY <1>5, <2>2, <2>3, <2>7, <2>8
<1>6. CASE st.ready = {} /\ st.waiting # {} /\ ~(IsStatic[c] /\ st.incount = 1)
  <2> DEFINE t == [st EXCEPT !.ready = st.waiting, !.waiting = {}, !.sort = << >>]
  <2>1. end = [st |-> t, ops |-> Restored(c, st)]
    BY <1>6 DEF Settle
  <2>2. end.st = t /\ end.ops = Restored(c, st)
    BY <2>1
  <2>3. /\ IsColl(t) /\ t.ready = st.waiting /\ t.waiting = {} /\ t.at = st.at
        /\ t.scan = st.scan /\ t.opening = st.opening /\ t.done = st.done /\ t.incount = st.incount
    BY <1>2 DEF IsRec, IsColl, IsFun
  <2> HIDE DEF t
  <2>4. IsFiniteSet({}) /\ Cardinality({}) = 0 /\ Cardinality(st.waiting) \in Nat
    BY FS_EmptySet, FS_CardinalityType DEF CollMid, CollBase
  <2>5. t.opening = NULL /\ t.scan = {}
    BY <1>2, <1>6, <2>3 DEF CollMid, CollBase
  <2>6. Counted(t)
    <3>1. st.incount = Cardinality({}) + Cardinality(st.waiting)
      BY <1>6 DEF CollMid, Counted
    <3>2. st.incount = Cardinality(st.waiting) + Cardinality({})
      BY <2>4, <3>1
    <3> QED BY <2>3, <3>2 DEF Counted
  <2>7. CollBase(t)
    BY <2>3, <2>4, <2>5 DEF CollMid, CollBase
  <2>8. CollGood(t)
    BY <1>2, <1>6, <2>3, <2>5, <2>6, <2>7 DEF CollGood
  <2>9. t.ready \cup t.waiting = st.ready \cup st.waiting
    BY <1>6, <2>3
  <2>10. CE(c, t) \subseteq CE(c, st)
    BY <1>2, <2>3, <2>9, CEShrink
  <2> QED BY <1>1, <1>6, <2>2, <2>3, <2>8, <2>9, <2>10
<1>7. CASE st.ready = {} /\ st.waiting = {}
  <2> DEFINE t == [st EXCEPT !.done = TRUE]
             o == Write(CollOut[c], Term)
  <2>1. end = [st |-> t, ops |-> <<o>>]
    BY <1>7 DEF Settle
  <2>2. end.st = t /\ end.ops = <<o>>
    BY <2>1
  <2>3. ~Bears(o)
    BY OpEnds
  <2>4. CollGood(t) /\ t.at = st.at /\ t.ready \cup t.waiting = st.ready \cup st.waiting /\ CE(c, t) = {}
    BY <1>3, <1>7
  <2> HIDE DEF t, o
  <2>5. Carry(end.ops, {})
    BY <2>2, <2>3, CarryOne
  <2> QED BY <1>7, <2>2, <2>4, <2>5
<1> QED BY <1>4, <1>5, <1>6, <1>7

(* What the invariant says of a collector, and what it takes to keep it.   *)
LEMMA CollFacts ==
  ASSUME IInv, NEW c \in DOMAIN coll
  PROVE  /\ NetShape /\ EndsInv /\ IsFun(coll) /\ c \in DOMAIN todo /\ CollGood(coll[c])
         /\ \A d \in coll[c].ready \cup coll[c].waiting : coll[c].at[d] = d \/ Gone(d)
BY DEF IInv, Shape, CollShape, CollInv, CollectorAccounting, CollGood, CollBase, Counted

(* See CollFacts.                                                          *)
LEMMA CollKeeps ==
  ASSUME IInv, UNCHANGED <<box, par, sync, split, star, filter, fbVars, src, sink>>, NEW c \in DOMAIN coll,
         Edited(coll, coll', c), Kept, CollGood(coll'[c]),
         \A d \in coll'[c].ready \cup coll'[c].waiting : coll'[c].at[d] = d \/ Gone(d)'
  PROVE  IInv'
<1>1. BoxShape' /\ FilterShape' /\ SyncShape' /\ SplitShape' /\ StarShape' /\ ParShape' /\ FeedbackShape' /\ TaskShape'
  BY ShapesSame DEF IInv, Shape
<1>2. ASSUME NEW x \in DOMAIN coll'
      PROVE  /\ CollGood(coll'[x]) /\ x \in DOMAIN todo'
             /\ \A d \in coll'[x].ready \cup coll'[x].waiting : coll'[x].at[d] = d \/ Gone(d)'
  <2>1. x \in DOMAIN coll /\ (x # c => coll'[x] = coll[x])
    BY DEF Edited
  <2>2. /\ CollGood(coll[x]) /\ x \in DOMAIN todo'
        /\ \A d \in coll[x].ready \cup coll[x].waiting : coll[x].at[d] = d \/ Gone(d)'
    BY <2>1, CollFacts DEF Kept
  <2> QED BY <2>1, <2>2
<1>3. IsFun(coll')
  BY DEF Edited
<1>4. CollShape'
  BY <1>2, <1>3 DEF CollShape, CollGood, CollBase
<1>5. CollInv'
  BY <1>2 DEF CollInv, CollGood, CollBase
<1>6. CollectorAccounting'
  BY <1>2 DEF CollectorAccounting, CollGood, Counted
<1> QED BY <1>1, <1>4, <1>5, <1>6 DEF IInv, Shape, Kept

(* A turn of the main loop.                                                *)
Turned(c, d, st, ops, more, fin) ==
  /\ Take(c, coll[c].at[d], ops \o more) /\ Edited(coll, coll', c) /\ coll'[c] = fin
  /\ Held' \subseteq (Held \ CE(c, coll[c])) \cup CE(c, fin) /\ CE(c, coll[c]) \subseteq Held
  /\ Settled(c, st, more, fin)

(* See Turned.                                                             *)
LEMMA TurnEnd ==
  ASSUME IInv, UNCHANGED <<box, par, sync, split, star, filter, fbVars, src, sink>>, NEW c \in DOMAIN coll,
         NEW d, NEW st, CollMid(st), NEW ops, CollTurn(c, d, st, ops)
  PROVE  \E more, fin : Turned(c, d, st, ops, more, fin)
<1> DEFINE end == Settle(c, st)
<1>1. Take(c, coll[c].at[d], ops \o end.ops) /\ coll' = [coll EXCEPT ![c] = end.st]
  BY DEF CollTurn
<1> HIDE DEF end
<1>2. Edited(coll, coll', c) /\ coll'[c] = end.st
  BY <1>1, CollFacts DEF Edited, IsFun
<1>3. end = Settle(c, st)
  BY DEF end
<1>4. Settled(c, st, end.ops, end.st)
  BY <1>3, SettleFacts
<1>5. Held' \subseteq (Held \ CE(c, coll[c])) \cup CE(c, end.st) /\ CE(c, coll[c]) \subseteq Held
  BY <1>2, CollHeld
<1> WITNESS end.ops, end.st
<1> QED BY <1>1, <1>2, <1>4, <1>5 DEF Turned

(* A turn that hands nothing over and keeps the streams.                   *)
LEMMA TurnPass ==
  ASSUME IInv, UNCHANGED <<box, par, sync, split, star, filter, fbVars, src, sink>>, NEW c \in DOMAIN coll,
         NEW d \in coll[c].ready, ~coll[c].done, todo[c] = << >>, chan[coll[c].at[d]] # << >>,
         NEW st, CollMid(st), CE(c, st) \subseteq CE(c, coll[c]), st.at = coll[c].at,
         st.ready \cup st.waiting \subseteq coll[c].ready \cup coll[c].waiting,
         NEW ops, Carry(ops, {}), CollTurn(c, d, st, ops)
  PROVE  IInv'
<1> DEFINE s == coll[c].at[d]
           own == CEnd(c, d, s)
<1>0. PICK more, fin : Turned(c, d, st, ops, more, fin)
  BY TurnEnd
<1>1. /\ Take(c, s, ops \o more) /\ Edited(coll, coll', c) /\ coll'[c] = fin
      /\ CollGood(fin) /\ fin.at = st.at /\ fin.ready \cup fin.waiting = st.ready \cup st.waiting
      /\ Held' \subseteq (Held \ CE(c, coll[c])) \cup CE(c, fin) /\ CE(c, coll[c]) \subseteq Held
      /\ \/ Carry(more, {}) /\ CE(c, fin) \subseteq CE(c, st)
         \/ CE(c, fin) = {} /\ \E in \in st.ready \cup st.waiting : Carry(more, {st.at[in]})
  BY <1>0 DEF Turned, Settled
<1>2. NetShape /\ EndsInv /\ own \in Held /\ own[4] = s
  BY <1>1, CollFacts, CEFacts
<1>3. Kept
  <2> HIDE DEF own
  <2>1. CASE Carry(more, {}) /\ CE(c, fin) \subseteq CE(c, st)
    <3>1. Carry(ops \o more, {}) /\ Held' \subseteq Held
      BY <1>1, <2>1, CarryLeft
    <3> QED BY <1>1, <1>2, <3>1, InPass
  <2>2. CASE CE(c, fin) = {} /\ \E in \in st.ready \cup st.waiting : Carry(more, {st.at[in]})
    <3>1. PICK in \in st.ready \cup st.waiting : Carry(more, {st.at[in]})
      BY <2>2
    <3> DEFINE x == st.at[in]
               o == CEnd(c, in, x)
    <3>2. o \in CE(c, coll[c]) /\ o[4] = x
      BY <3>1, CEFacts DEF CollMid
    <3>3. o \in Held /\ Held' \subseteq Held \ {o} /\ Carry(ops \o more, {x})
      BY <1>1, <2>2, <3>1, <3>2, CarryRight
    <3> HIDE DEF o, x
    <3> QED BY <1>1, <1>2, <3>2, <3>3, InGive
  <2> QED BY <1>1, <2>1, <2>2
<1>4. \A x \in fin.ready \cup fin.waiting : fin.at[x] = x \/ Gone(x)'
  BY <1>1, <1>3, CollFacts DEF Kept
<1> QED BY <1>1, <1>3, <1>4, CollKeeps

(* A turn that closes the stream of descriptor d.                          *)
LEMMA TurnClose ==
  ASSUME IInv, UNCHANGED <<box, par, sync, split, star, filter, fbVars, src, sink>>, NEW c \in DOMAIN coll,
         NEW d \in coll[c].ready, ~coll[c].done, todo[c] = << >>, chan[coll[c].at[d]] # << >>,
         NEW st, CollMid(st), CE(c, st) \subseteq CE(c, coll[c]) \ {CEnd(c, d, coll[c].at[d])}, st.at = coll[c].at,
         st.ready \cup st.waiting \subseteq coll[c].ready \cup coll[c].waiting,
         NEW ops, Carry(ops, {coll[c].at[d]}), CollTurn(c, d, st, ops)
  PROVE  IInv'
<1> DEFINE s == coll[c].at[d]
           own == CEnd(c, d, s)
<1>0. PICK more, fin : Turned(c, d, st, ops, more, fin)
  BY TurnEnd
<1>1. /\ Take(c, s, ops \o more) /\ Edited(coll, coll', c) /\ coll'[c] = fin
      /\ CollGood(fin) /\ fin.at = st.at /\ fin.ready \cup fin.waiting = st.ready \cup st.waiting
      /\ Held' \subseteq (Held \ CE(c, coll[c])) \cup CE(c, fin) /\ CE(c, coll[c]) \subseteq Held
      /\ \/ Carry(more, {}) /\ CE(c, fin) \subseteq CE(c, st)
         \/ CE(c, fin) = {} /\ \E in \in st.ready \cup st.waiting : Carry(more, {st.at[in]})
  BY <1>0 DEF Turned, Settled
<1>2. NetShape /\ EndsInv /\ own \in CE(c, coll[c]) /\ own \in Held /\ own[4] = s
  BY <1>1, CollFacts, CEFacts
<1>3. Kept
  <2> HIDE DEF own
  <2>1. CASE Carry(more, {}) /\ CE(c, fin) \subseteq CE(c, st)
    <3>1. Carry(ops \o more, {s}) /\ Held' \subseteq Held \ {own}
      BY <1>1, <1>2, <2>1, CarryLeft DEF own
    <3> QED BY <1>1, <1>2, <3>1, InQuit
  <2>2. CASE CE(c, fin) = {} /\ \E in \in st.ready \cup st.waiting : Carry(more, {st.at[in]})
    <3>1. PICK in \in st.ready \cup st.waiting : Carry(more, {st.at[in]})
      BY <2>2
    <3> DEFINE x == st.at[in]
               o == CEnd(c, in, x)
    <3>2. o \in CE(c, coll[c]) /\ o[4] = x /\ o # own
      <4>1. o \in CE(c, st) /\ o[4] = x
        BY <3>1, CEFacts DEF CollMid
      <4> HIDE DEF o
      <4> QED BY <4>1 DEF own
    <3>3. o \in Held /\ Held' \subseteq Held \ {own, o}
      BY <1>1, <1>2, <2>2, <3>2
    <3>4. x # s
      BY <1>2, <3>2, <3>3 DEF EndsInv, Once, Ends
    <3>5. Carry(ops \o more, {x, s})
      <4> DEFINE X == {s}
                 Y == {x}
      <4>1. Carry(ops, X) /\ Carry(more, Y) /\ X \cap Y = {} /\ X \cup Y = {x, s}
        BY <3>1, <3>4
      <4> HIDE DEF X, Y, x
      <4> QED BY <4>1, CarryConcat
    <3> HIDE DEF o, x
    <3> QED BY <1>1, <1>2, <3>2, <3>3, <3>5, InGiveQuit
  <2> QED BY <1>1, <2>1, <2>2
<1>4. \A x \in fin.ready \cup fin.waiting : fin.at[x] = x \/ Gone(x)'
  BY <1>1, <1>3, CollFacts DEF Kept
<1> QED BY <1>1, <1>3, <1>4, CollKeeps

(* A reader keeps what it was handed.                                      *)
LEMMA InGain ==
  ASSUME NetShape, EndsInv, NEW own \in Held, NEW e, todo[e] = << >>, NEW s, own[4] = s, chan[s] # << >>,
         IsHandover(Top(s)), NEW ops, Carry(ops, {}), Take(e, s, ops), NEW new, new[1] = "opening", new[4] = Top(s).s,
         Held' \subseteq Held \cup {new}
  PROVE  Kept
<1> DEFINE K == Held
           N == {new}
           X == {}
<1>1. s \in Stream /\ K \subseteq Held
  BY ReadsStream
<1>2. TopEnds(s) = {<<"chan", s, 1, Top(s).s>>}
  BY <1>1, TopOther
<1>3. Foreign(N) /\ Once(N)
  BY DEF Foreign, Once
<1>4. GivenBy(N, (Held \ K) \cup TopEnds(s))
  <2>1. <<"chan", s, 1, Top(s).s>> \in TopEnds(s) /\ <<"chan", s, 1, Top(s).s>>[4] = new[4]
    BY <1>2
  <2> QED BY <2>1 DEF GivenBy
<1>5. Carry(ops, X) /\ X \subseteq {b[4] : b \in (Held \ K) \cup TopEnds(s)} /\ \A a \in N : a[4] \notin X
  OBVIOUS
<1>6. Held' \subseteq K \cup N
  OBVIOUS
<1> HIDE DEF K, N, X
<1> QED BY <1>1, <1>3, <1>4, <1>5, <1>6, TakeOnce

(* A step that touches no stream.                                          *)
LEMMA StayPass ==
  ASSUME NetShape, EndsInv, UNCHANGED netVars, Held' \subseteq Held
  PROVE  Kept
<1> DEFINE K == Held
           N == {}
<1>1. K \subseteq Held /\ Held' \subseteq K \cup N
  OBVIOUS
<1>2. Once(N) /\ GivenBy(N, Held \ K)
  BY DEF Once, GivenBy
<1> HIDE DEF K, N
<1> QED BY <1>1, <1>2, StayOnce

(* The sets and what is counted of them do not change.                     *)
LEMMA MidSame ==
  ASSUME NEW st, CollGood(st), ~st.done, NEW t, IsColl(t), t.ready = st.ready, t.waiting = st.waiting,
         t.incount = st.incount, t.sort = st.sort, ~t.done, IsFun(t.at), DOMAIN t.at = DOMAIN st.at,
         t.scan \subseteq st.waiting, t.opening = NULL => t.scan = {}
  PROVE  CollMid(t) /\ CollGood(t)
BY DEF CollGood, CollMid, CollBase, Counted

(* A descriptor goes from one set to the other, or is closed.              *)
LEMMA SetsCounted ==
  ASSUME NEW R, NEW W, NEW d \in R, IsFiniteSet(R), IsFiniteSet(W), R \cap W = {},
         NEW n, n = Cardinality(R) + Cardinality(W)
  PROVE  /\ IsFiniteSet(R \ {d}) /\ IsFiniteSet(W \cup {d}) /\ (R \ {d}) \cap (W \cup {d}) = {}
         /\ Cardinality(R \ {d}) + Cardinality(W \cup {d}) = n
         /\ Cardinality(R \ {d}) + Cardinality(W) = n - 1 /\ Cardinality(W) + Cardinality(R \ {d}) = n - 1
<1>1. Cardinality(R) \in Nat /\ Cardinality(W) \in Nat
  BY FS_CardinalityType
<1>2. IsFiniteSet(R \ {d}) /\ Cardinality(R \ {d}) = Cardinality(R) - 1
  BY FS_RemoveElement
<1>3. d \notin W
  OBVIOUS
<1>4. IsFiniteSet(W \cup {d}) /\ Cardinality(W \cup {d}) = Cardinality(W) + 1
  BY <1>3, FS_AddElement
<1> QED BY <1>1, <1>2, <1>3, <1>4

(* Every step of a collector keeps the invariant.                          *)
LEMMA CollTaskInv ==
  ASSUME IInv, NEW c \in DOMAIN coll, CollStep(c)
  PROVE  IInv'
<1> DEFINE st == coll[c]
           rest == UNCHANGED <<box, par, sync, split, star, filter, fbVars, src, sink>>
<1>1. /\ NetShape /\ EndsInv /\ rest /\ IsFun(coll) /\ CollGood(st)
      /\ IsColl(st) /\ IsFun(st.at) /\ c \in DOMAIN todo
      /\ \A d \in st.ready \cup st.waiting : d \in DOMAIN st.at /\ (st.at[d] = d \/ Gone(d))
  BY CollFacts DEF CollStep, CollGood, CollBase
<1>2. ASSUME NEW d \in st.ready \cup st.waiting, ~st.done
      PROVE  CEnd(c, d, st.at[d]) \in Held /\ CEnd(c, d, st.at[d]) \in CE(c, st) /\ CEnd(c, d, st.at[d])[4] = st.at[d]
  <2>1. CE(c, st) \subseteq Held
    BY DEF CE, Held, Reading, CollEnds, OpeningEnds, CEnd, In
  <2> QED BY <1>2, <2>1, CEFacts
<1>3. CASE CollPeek(c)
  <2>1. ~st.done /\ coll' = [coll EXCEPT ![c].cur = NULL] /\ UNCHANGED netVars
    BY <1>3 DEF CollPeek
  <2> DEFINE t == coll'[c]
  <2>2. /\ Edited(coll, coll', c) /\ IsColl(t)
        /\ t.ready = st.ready /\ t.waiting = st.waiting /\ t.at = st.at /\ t.incount = st.incount
        /\ t.sort = st.sort /\ t.opening = st.opening /\ t.scan = st.scan /\ t.done = st.done
    BY <1>1, <2>1 DEF Edited, IsRec, IsColl, IsFun
  <2>3. CollGood(t)
    <3>1. t.scan \subseteq st.waiting /\ (t.opening = NULL => t.scan = {})
      BY <1>1, <2>2 DEF CollGood, CollBase
    <3> HIDE DEF t, st
    <3> QED BY <1>1, <2>1, <2>2, <3>1, MidSame
  <2>4. Held' \subseteq Held
    <3>1. CE(c, t) \subseteq CE(c, st)
      <4> HIDE DEF t, st
      <4> QED BY <2>1, <2>2, CEShrink
    <3> QED BY <1>1, <2>2, <3>1, CollHeld
  <2>5. Kept
    BY <1>1, <2>1, <2>4, StayPass
  <2>6. \A d \in t.ready \cup t.waiting : t.at[d] = d \/ Gone(d)'
    BY <1>1, <2>2, <2>5 DEF Kept
  <2> QED BY <1>1, <2>2, <2>3, <2>5, <2>6, CollKeeps
<1>4. CASE CollOpen(c)
  <2> DEFINE s == st.opening
             nat == [d \in DOMAIN st.at \cup {s} |-> IF d = s THEN s ELSE st.at[d]]
             t == coll'[c]
             op  == In("opening", c, s)
             new == CEnd(c, s, s)
  <2>1. /\ s # NULL /\ st.scan = {} /\ UNCHANGED netVars
        /\ coll' = [coll EXCEPT ![c].ready = @ \cup {s},
                                ![c].at = nat,
                                ![c].incount = @ + 1, ![c].opening = NULL]
    BY <1>4 DEF CollOpen
  <2>2. /\ Edited(coll, coll', c) /\ IsColl(t)
        /\ t.ready = st.ready \cup {s} /\ t.waiting = st.waiting /\ t.incount = st.incount + 1
        /\ t.at = nat
        /\ t.sort = st.sort /\ t.opening = NULL /\ t.scan = {} /\ t.done = st.done
    <3> HIDE DEF nat
    <3> QED BY <1>1, <2>1 DEF Edited, IsRec, IsColl, IsFun
  <2>3. ~st.done
    BY <1>1, <2>1 DEF CollGood
  <2>4. op \in Held /\ op \in CE(c, st) /\ op[4] = s /\ op[1] = "opening"
    <3>1. op \in OpeningEnds
      BY <2>1 DEF OpeningEnds, In
    <3>2. op \in Held
      <4> HIDE DEF op
      <4> QED BY <3>1 DEF Held, Reading
    <3>3. op \in CE(c, st)
      <4> HIDE DEF st
      <4> QED BY <2>1, CEFacts
    <3> QED BY <3>2, <3>3, InFacts
  <2>5. s \notin st.ready \cup st.waiting
    <3>1. ASSUME s \in st.ready \cup st.waiting PROVE FALSE
      <4>1. CASE st.at[s] = s
        <5>1. new \in Held /\ new[4] = s /\ new[1] = "coll"
          BY <1>2, <2>3, <3>1, <4>1, CEFacts
        <5>2. new # op
          BY <2>4, <5>1
        <5> HIDE DEF new, op
        <5> QED BY <1>1, <2>4, <5>1, <5>2 DEF EndsInv, Once, Ends
      <4>2. CASE Gone(s)
        <5>1. CASE s \in DOMAIN stat /\ stat[s] = "freed"
          <6> DEFINE a == <<"freed", s, "in", s>>
          <6>1. a \in FreedEnds(stat) /\ a[4] = s /\ a # op
            BY <2>4, <5>1 DEF FreedEnds
          <6> HIDE DEF a, op
          <6> QED BY <1>1, <2>4, <6>1 DEF EndsInv, Once, Ends
        <5>2. CASE \E e \in DOMAIN todo : \E i \in DOMAIN todo[e] : todo[e][i] = Free(s)
          <6>1. PICK e \in DOMAIN todo : \E i \in DOMAIN todo[e] : todo[e][i] = Free(s)
            BY <5>2
          <6>2. PICK i \in DOMAIN todo[e] : todo[e][i] = Free(s)
            BY <6>1
          <6> DEFINE a == <<"todo", e, i, s>>
          <6>3. a[4] = s /\ a # op
            BY <2>4
          <6>4. a \in DoEnds(e, todo[e])
            <7>1. Bears(todo[e][i]) /\ EndOf(todo[e][i]) = s
              BY <6>2, OpEnds
            <7> QED BY <7>1 DEF DoEnds
          <6>5. a \in TodoEnds
            BY <6>4 DEF TodoEnds
          <6> HIDE DEF a, op
          <6> QED BY <1>1, <2>4, <6>3, <6>5 DEF EndsInv, Once, Ends
        <5> QED BY <4>2, <5>1, <5>2 DEF Gone
      <4> QED BY <1>1, <3>1, <4>1, <4>2
    <3> QED BY <3>1
  <2>6. CollGood(t)
    <3>1. /\ IsFiniteSet(st.ready) /\ IsFiniteSet(st.waiting) /\ st.ready \cap st.waiting = {}
          /\ st.incount = Cardinality(st.ready) + Cardinality(st.waiting) /\ (st.waiting # {} => st.sort # << >>)
          /\ st.ready \cup st.waiting \subseteq DOMAIN st.at
      BY <1>1, <2>3 DEF CollGood, CollBase, Counted
    <3>2. IsFiniteSet(t.ready) /\ Cardinality(t.ready) = Cardinality(st.ready) + 1
      <4> DEFINE R == st.ready
      <4>1. IsFiniteSet(R) /\ s \notin R /\ t.ready = R \cup {s}
        BY <2>2, <2>5, <3>1
      <4> HIDE DEF R, s, t
      <4>2. IsFiniteSet(R \cup {s}) /\ Cardinality(R \cup {s}) = Cardinality(R) + 1
        BY <4>1, FS_AddElement
      <4> QED BY <4>1, <4>2, Zenon DEF R
    <3>3. Cardinality(st.ready) \in Nat /\ Cardinality(st.waiting) \in Nat
      BY <3>1, FS_CardinalityType
    <3>4. t.incount = Cardinality(t.ready) + Cardinality(t.waiting)
      BY <2>2, <3>1, <3>2, <3>3
    <3>5. IsFun(t.at) /\ t.ready \cup t.waiting \subseteq DOMAIN t.at
      BY <2>2, <3>1 DEF IsFun
    <3>6. t.ready # {} /\ t.ready \cap t.waiting = {}
      BY <2>2, <2>5, <3>1
    <3> HIDE DEF t, st
    <3> QED BY <2>2, <2>3, <3>1, <3>2, <3>4, <3>5, <3>6 DEF CollGood, CollBase, Counted
  <2>7. CE(c, t) \subseteq (CE(c, st) \ {op}) \cup {new}
    <3>1. ASSUME NEW a \in CE(c, t) PROVE a \in (CE(c, st) \ {op}) \cup {new}
      <4>1. PICK d \in t.ready \cup t.waiting : a = CEnd(c, d, t.at[d]) /\ a[1] = "coll"
        BY <2>2, CEFacts
      <4>2. a # op
        BY <2>4, <4>1
      <4>3. CASE d = s
        BY <2>2, <4>1, <4>3
      <4>4. CASE d # s
        <5>1. d \in st.ready \cup st.waiting
          BY <2>2, <4>1, <4>4
        <5>2. t.at[d] = st.at[d]
          BY <1>1, <2>2, <4>4, <5>1
        <5>3. a \in CE(c, st)
          BY <1>2, <2>3, <4>1, <5>1, <5>2
        <5> QED BY <4>2, <5>3
      <4> QED BY <4>3, <4>4
    <3> QED BY <3>1
  <2>8. Kept
    <3> DEFINE K == Held \ {op}
               N == {new}
    <3>1. K \subseteq Held /\ Held' \subseteq K \cup N
      <4>1. Held' \subseteq (Held \ CE(c, st)) \cup CE(c, t) /\ CE(c, st) \subseteq Held
        BY <1>1, <2>2, CollHeld
      <4> HIDE DEF op, new
      <4> QED BY <2>4, <2>7, <4>1
    <3>2. new[4] = s
      BY CEFacts
    <3> HIDE DEF op, new
    <3>3. Once(N) /\ GivenBy(N, Held \ K)
      BY <2>4, <3>2 DEF Once, GivenBy
    <3> HIDE DEF K, N
    <3> QED BY <1>1, <2>1, <3>1, <3>3, StayOnce
  <2>9. \A d \in t.ready \cup t.waiting : t.at[d] = d \/ Gone(d)'
    <3>1. ASSUME NEW d \in t.ready \cup t.waiting PROVE t.at[d] = d \/ Gone(d)'
      <4>1. CASE d = s
        BY <2>2, <4>1
      <4>2. CASE d # s
        <5>1. d \in st.ready \cup st.waiting
          BY <2>2, <4>2
        <5>2. t.at[d] = st.at[d]
          BY <1>1, <2>2, <4>2, <5>1
        <5> QED BY <1>1, <2>8, <5>1, <5>2 DEF Kept
      <4> QED BY <4>1, <4>2
    <3> QED BY <3>1
  <2> QED BY <1>1, <2>2, <2>6, <2>8, <2>9, CollKeeps
<1>5. ASSUME NEW d \in st.ready \cup st.waiting,
             \/ CollData(c, d) \/ CollNotice(c, d) \/ CollSort(c, d) \/ CollSync(c, d)
             \/ CollTerm(c, d) \/ CollCollect(c, d)
      PROVE  IInv'
  <2> DEFINE s == st.at[d]
             own == CEnd(c, d, s)
  <2>1. ~st.done /\ st.opening = NULL /\ d \in st.ready /\ todo[c] = << >> /\ chan[s] # << >>
    BY <1>5 DEF CollData, CollNotice, CollSort, CollSync, CollTerm, CollCollect, CollReads, Reads
  <2>2. own \in Held /\ own \in CE(c, st) /\ own[4] = s /\ own[1] = "coll" /\ st.scan = {}
    BY <1>1, <1>2, <2>1, CEFacts DEF CollGood, CollBase
  <2>3. ASSUME NEW t, NEW ops, CollTurn(c, d, t, ops), Carry(ops, {}), IsColl(t),
               t.ready = st.ready, t.waiting = st.waiting, t.at = st.at, t.incount = st.incount,
               t.sort = st.sort, t.opening = st.opening, t.scan = st.scan, t.done = st.done
        PROVE  IInv'
    <3>1. IsFun(t.at) /\ t.scan \subseteq st.waiting /\ (t.opening = NULL => t.scan = {})
      BY <1>1, <2>2, <2>3
    <3>2. CollMid(t)
      <4> HIDE DEF st
      <4> QED BY <1>1, <2>1, <2>3, <3>1, MidSame
    <3>3. CE(c, t) \subseteq CE(c, st)
      <4> HIDE DEF st
      <4> QED BY <2>1, <2>3, CEShrink
    <3> QED BY <1>1, <2>1, <2>3, <3>2, <3>3, TurnPass
  <2>4. CASE CollData(c, d)
    <3> DEFINE t == [st EXCEPT !.cur = d]
               ops == <<Write(CollOut[c], Top(s))>>
    <3>1. CollTurn(c, d, t, ops) /\ ~IsHandover(Top(s))
      BY <2>4 DEF CollData, CollReads, Reads, IsHandover
    <3>2. Carry(ops, {})
      BY <3>1, CarryOne, OpEnds
    <3>3. IsColl(t) /\ t.ready = st.ready /\ t.waiting = st.waiting /\ t.at = st.at /\ t.incount = st.incount
          /\ t.sort = st.sort /\ t.opening = st.opening /\ t.scan = st.scan /\ t.done = st.done
      BY <1>1 DEF IsRec, IsColl, IsFun
    <3> HIDE DEF t, ops
    <3> QED BY <2>3, <3>1, <3>2, <3>3
  <2>5. CASE CollNotice(c, d)
    <3> DEFINE t == [st EXCEPT !.cur = d, !.last = d]
               ops == << >>
    <3>1. CollTurn(c, d, t, ops)
      BY <2>5 DEF CollNotice
    <3>2. Carry(ops, {})
      BY CarryOne
    <3>3. IsColl(t) /\ t.ready = st.ready /\ t.waiting = st.waiting /\ t.at = st.at /\ t.incount = st.incount
          /\ t.sort = st.sort /\ t.opening = st.opening /\ t.scan = st.scan /\ t.done = st.done
      BY <1>1 DEF IsRec, IsColl, IsFun
    <3> HIDE DEF t, ops
    <3> QED BY <2>3, <3>1, <3>2, <3>3
  <2>6. /\ IsFiniteSet(st.ready) /\ IsFiniteSet(st.waiting) /\ st.ready \cap st.waiting = {}
        /\ st.incount = Cardinality(st.ready) + Cardinality(st.waiting) /\ (st.waiting # {} => st.sort # << >>)
        /\ st.ready \cup st.waiting \subseteq DOMAIN st.at
    BY <1>1, <2>1 DEF CollGood, CollBase, Counted
  <2>7. /\ IsFiniteSet(st.ready \ {d}) /\ IsFiniteSet(st.waiting \cup {d})
        /\ (st.ready \ {d}) \cap (st.waiting \cup {d}) = {}
        /\ Cardinality(st.ready \ {d}) + Cardinality(st.waiting \cup {d}) = st.incount
        /\ Cardinality(st.ready \ {d}) + Cardinality(st.waiting) = st.incount - 1
    <3> DEFINE R == st.ready
               W == st.waiting
    <3>1. d \in R /\ IsFiniteSet(R) /\ IsFiniteSet(W) /\ R \cap W = {} /\ st.incount = Cardinality(R) + Cardinality(W)
      BY <2>1, <2>6
    <3>2. R = st.ready /\ W = st.waiting
      OBVIOUS
    <3> HIDE DEF R, W
    <3> HIDE DEF st
    <3>3. /\ IsFiniteSet(R \ {d}) /\ IsFiniteSet(W \cup {d}) /\ (R \ {d}) \cap (W \cup {d}) = {}
          /\ Cardinality(R \ {d}) + Cardinality(W \cup {d}) = st.incount
          /\ Cardinality(R \ {d}) + Cardinality(W) = st.incount - 1
      BY <3>1, SetsCounted
    <3> QED BY <3>2, <3>3, Zenon
  <2>8. CASE CollSort(c, d)
    <3> DEFINE r == SortSeen(c, d)
               first == st.sort = << >>
               so == IF first THEN <<r>> ELSE st.sort
               mis == st.mismatch \/ (~first /\ st.sort # <<r>>)
               t == [st EXCEPT !.cur = NULL, !.ready = @ \ {d}, !.waiting = @ \cup {d}, !.sort = so, !.mismatch = mis]
               ops == << >>
    <3>1. CollTurn(c, d, t, ops)
      BY <2>8 DEF CollSort
    <3>2. so # << >>
      <4>1. <<r>> # << >>
        OBVIOUS
      <4> HIDE DEF r
      <4> QED BY <4>1
    <3> HIDE DEF so, mis
    <3>3. IsColl(t) /\ t.ready = st.ready \ {d} /\ t.waiting = st.waiting \cup {d} /\ t.at = st.at /\ t.incount = st.incount
          /\ t.sort = so /\ t.opening = st.opening /\ t.scan = st.scan /\ t.done = st.done
      BY <1>1 DEF IsRec, IsColl, IsFun
    <3> HIDE DEF t
    <3>4. CollMid(t)
      BY <1>1, <2>1, <2>2, <2>6, <2>7, <3>2, <3>3 DEF CollMid, CollBase, Counted
    <3>5. t.ready \cup t.waiting \subseteq st.ready \cup st.waiting
      BY <2>1, <3>3
    <3>6. CE(c, t) \subseteq CE(c, st)
      <4> HIDE DEF st
      <4> QED BY <2>1, <3>3, <3>5, CEShrink
    <3>7. Carry(ops, {})
      BY CarryOne
    <3> HIDE DEF ops
    <3> QED BY <1>1, <2>1, <3>1, <3>3, <3>4, <3>5, <3>6, <3>7, TurnPass
  <2>9. CASE CollTerm(c, d)
    <3> DEFINE t == [st EXCEPT !.cur = NULL, !.ready = @ \ {d}, !.incount = @ - 1]
               ops == <<Free(s)>>
    <3>1. CollTurn(c, d, t, ops)
      BY <2>9 DEF CollTerm
    <3>2. IsColl(t) /\ t.ready = st.ready \ {d} /\ t.waiting = st.waiting /\ t.at = st.at /\ t.incount = st.incount - 1
          /\ t.sort = st.sort /\ t.opening = st.opening /\ t.scan = st.scan /\ t.done = st.done
      BY <1>1 DEF IsRec, IsColl, IsFun
    <3> HIDE DEF t
    <3>3. CollMid(t)
      BY <1>1, <2>1, <2>2, <2>6, <2>7, <3>2 DEF CollMid, CollBase, Counted
    <3>4. t.ready \cup t.waiting \subseteq st.ready \cup st.waiting /\ d \notin t.ready \cup t.waiting
      BY <2>1, <2>6, <3>2
    <3>5. CE(c, t) \subseteq CE(c, st) \ {own}
      <4> HIDE DEF st
      <4> QED BY <2>1, <3>2, <3>4, CEShrink
    <3>6. Carry(ops, {s})
      BY CarryOne, OpEnds
    <3> HIDE DEF ops
    <3> QED BY <1>1, <2>1, <3>1, <3>2, <3>3, <3>4, <3>5, <3>6, TurnClose
  <2>10. CASE CollSync(c, d)
    <3> DEFINE t == [st EXCEPT !.cur = d, !.at[d] = Top(s).s]
               ops == <<Free(s)>>
               new == CEnd(c, d, Top(s).s)
    <3>1. CollTurn(c, d, t, ops) /\ IsHandover(Top(s))
      BY <2>10 DEF CollSync, CollReads, Reads, IsHandover
    <3>2. IsColl(t) /\ t.ready = st.ready /\ t.waiting = st.waiting /\ t.at = [st.at EXCEPT ![d] = Top(s).s] /\ t.incount = st.incount
          /\ t.sort = st.sort /\ t.opening = st.opening /\ t.scan = st.scan /\ t.done = st.done
      BY <1>1 DEF IsRec, IsColl, IsFun
    <3> HIDE DEF t
    <3>3. /\ IsFun(t.at) /\ DOMAIN t.at = DOMAIN st.at /\ t.at[d] = Top(s).s
          /\ \A x \in DOMAIN st.at : x # d => t.at[x] = st.at[x]
      BY <1>1, <3>2 DEF IsFun
    <3>4. CollMid(t)
      <4>1. t.scan \subseteq st.waiting /\ (t.opening = NULL => t.scan = {})
        BY <2>2, <3>2
      <4> HIDE DEF st
      <4> QED BY <1>1, <2>1, <3>2, <3>3, <4>1, MidSame
    <3>5. CE(c, t) \subseteq (CE(c, st) \ {own}) \cup {new}
      <4>1. ASSUME NEW a \in CE(c, t) PROVE a \in (CE(c, st) \ {own}) \cup {new}
        <5>1. PICK x \in t.ready \cup t.waiting : a = CEnd(c, x, t.at[x])
          BY <2>1, <3>2, CEFacts
        <5>2. CASE x = d
          BY <3>3, <5>1, <5>2
        <5>3. CASE x # d
          <6>1. x \in st.ready \cup st.waiting /\ t.at[x] = st.at[x]
            BY <1>1, <3>2, <3>3, <5>1, <5>3
          <6>2. a \in CE(c, st)
            BY <1>2, <2>1, <5>1, <6>1
          <6>3. a # own
            BY <5>1, <5>3, CEFacts
          <6> QED BY <6>2, <6>3
        <5> QED BY <5>2, <5>3
      <4> QED BY <4>1
    <3>6. PICK more, fin : Turned(c, d, t, ops, more, fin)
      BY <1>1, <3>1, <3>4, TurnEnd
    <3>7. /\ Take(c, s, ops \o more) /\ Edited(coll, coll', c) /\ coll'[c] = t /\ CollGood(t) /\ more = << >>
          /\ Held' \subseteq (Held \ CE(c, st)) \cup CE(c, t) /\ CE(c, st) \subseteq Held
      <4>1. t.ready # {}
        BY <2>1, <3>2
      <4> QED BY <3>6, <4>1 DEF Turned, Settled
    <3>8. Carry(ops \o more, {s})
      <4>1. Carry(ops, {s}) /\ Carry(more, {})
        BY <3>7, CarryOne, OpEnds
      <4> HIDE DEF ops
      <4> QED BY <4>1, CarryLeft
    <3>9. new[1] = own[1] /\ new[4] = Top(s).s
      BY CEFacts
    <3>10. Kept
      <4> HIDE DEF own, new
      <4>1. Held' \subseteq (Held \ {own}) \cup {new}
        BY <2>2, <3>5, <3>7
      <4> HIDE DEF ops
      <4> QED BY <1>1, <2>1, <2>2, <3>1, <3>7, <3>8, <3>9, <4>1, InReplace
    <3>11. Gone(d)'
      <4>1. CASE Gone(d)
        BY <3>10, <4>1 DEF Kept
      <4>2. CASE s = d
        <5> DEFINE all == ops \o more
        <5>1. IsSeq(all) /\ 1 \in DOMAIN all /\ all[1] = Free(d)
          <6>1. IsSeq(ops) /\ Len(ops) = 1 /\ ops[1] = Free(s) /\ IsSeq(more) /\ Len(more) = 0
            BY <3>7, ShortSeq
          <6> HIDE DEF ops
          <6>2. DOMAIN all = 1..(1 + 0) /\ \A i \in 1..(1 + 0) : all[i] = IF i <= 1 THEN ops[i] ELSE more[i - 1]
            BY <6>1, ConcatSeq
          <6>3. IsSeq(all)
            BY <6>1, ConcatSeq
          <6> QED BY <4>2, <6>1, <6>2, <6>3
        <5>2. Proceed(c, all, stat) /\ d \in DOMAIN stat
          <6>1. s \in Stream
            BY <1>1, <2>2, ReadsStream
          <6> QED BY <1>1, <3>7, <4>2, <6>1 DEF Take, NetShape, Stream
        <5> HIDE DEF all
        <5> QED BY <1>1, <5>1, <5>2, FreeGone
      <4> QED BY <1>1, <2>1, <4>1, <4>2
    <3>12. \A x \in t.ready \cup t.waiting : t.at[x] = x \/ Gone(x)'
      <4>1. ASSUME NEW x \in t.ready \cup t.waiting PROVE t.at[x] = x \/ Gone(x)'
        <5>1. CASE x = d
          BY <3>11, <5>1
        <5>2. CASE x # d
          <6>1. x \in st.ready \cup st.waiting /\ t.at[x] = st.at[x]
            BY <1>1, <3>2, <3>3, <5>2
          <6> QED BY <1>1, <3>10, <6>1 DEF Kept
        <5> QED BY <5>1, <5>2
      <4> QED BY <4>1
    <3> QED BY <1>1, <3>7, <3>10, <3>12, CollKeeps
  <2>11. CASE CollCollect(c, d)
    <3> DEFINE y == Top(s).s
               t == [st EXCEPT !.cur = d, !.opening = y, !.scan = st.waiting]
               ops == << >>
               new == In("opening", c, y)
    <3>1. CollTurn(c, d, t, ops) /\ IsHandover(Top(s))
      BY <2>11 DEF CollCollect, CollReads, Reads, IsHandover
    <3>2. IsColl(t) /\ t.ready = st.ready /\ t.waiting = st.waiting /\ t.at = st.at /\ t.incount = st.incount
          /\ t.sort = st.sort /\ t.opening = y /\ t.scan = st.waiting /\ t.done = st.done
      BY <1>1 DEF IsRec, IsColl, IsFun
    <3> HIDE DEF t
    <3>3. y # NULL
      <4>1. s \in Stream
        BY <1>1, <2>2, ReadsStream
      <4>2. TopEnds(s) \subseteq ChanEnds
        <5>1. IsSeq(chan[s]) /\ 1 \in DOMAIN chan[s] /\ Top(s) = chan[s][1]
          BY <1>1, <2>1, <4>1, SeqFacts DEF NetShape, Stream, Top
        <5> QED BY <4>1, <5>1 DEF TopEnds, ChanEnds
      <4>3. <<"chan", s, 1, y>> \in Ends /\ <<"chan", s, 1, y>>[4] = y
        BY <3>1, <4>2 DEF TopEnds, Ends
      <4>4. y \in Stream
        BY <1>1, <4>3 DEF EndsInv
      <4> QED BY <1>1, <4>4 DEF NetShape, Stream
    <3>4. CollMid(t)
      <4>1. IsFun(t.at) /\ DOMAIN t.at = DOMAIN st.at /\ t.scan \subseteq st.waiting /\ (t.opening = NULL => t.scan = {})
        BY <1>1, <3>2, <3>3
      <4> HIDE DEF st, y
      <4> QED BY <1>1, <2>1, <3>2, <4>1, MidSame
    <3>5. PICK more, fin : Turned(c, d, t, ops, more, fin)
      BY <1>1, <3>1, <3>4, TurnEnd
    <3>6. /\ Take(c, s, ops \o more) /\ Edited(coll, coll', c) /\ coll'[c] = t /\ CollGood(t) /\ more = << >>
          /\ Held' \subseteq (Held \ CE(c, st)) \cup CE(c, t) /\ CE(c, st) \subseteq Held
      <4>1. t.ready # {}
        BY <2>1, <3>2
      <4> QED BY <3>5, <4>1 DEF Turned, Settled
    <3>7. CE(c, t) \subseteq CE(c, st) \cup {new}
      <4>1. ASSUME NEW a \in CE(c, t) PROVE a \in CE(c, st) \cup {new}
        <5>1. CASE \E x \in t.ready \cup t.waiting : a = CEnd(c, x, t.at[x])
          BY <1>2, <2>1, <3>2, <5>1
        <5>2. CASE a = In("opening", c, t.opening)
          BY <3>2, <5>2
        <5> QED BY <5>1, <5>2, CEFacts
      <4> QED BY <4>1
    <3>8. new[1] = "opening" /\ new[4] = y
      BY InFacts
    <3>9. Kept
      <4>1. Carry(ops \o more, {})
        <5>1. Carry(ops, {}) /\ Carry(more, {})
          BY <3>6, CarryOne
        <5> HIDE DEF ops
        <5> QED BY <5>1, CarryLeft
      <4> HIDE DEF new, ops, own
      <4>2. Held' \subseteq Held \cup {new}
        BY <3>6, <3>7
      <4> QED BY <1>1, <2>1, <2>2, <3>1, <3>6, <3>8, <4>1, <4>2, InGain
    <3>10. \A x \in t.ready \cup t.waiting : t.at[x] = x \/ Gone(x)'
      BY <1>1, <3>2, <3>9 DEF Kept
    <3> QED BY <1>1, <3>6, <3>9, <3>10, CollKeeps
  <2> QED BY <1>5, <2>4, <2>5, <2>8, <2>9, <2>10, <2>11
<1>6. ASSUME NEW d \in st.ready \cup st.waiting, CollScan(c, d)
      PROVE  IInv'
  <2> DEFINE s == st.at[d]
             own == CEnd(c, d, s)
             t == coll'[c]
  <2>1. d \in st.scan /\ todo[c] = << >> /\ d \in st.waiting /\ st.opening # NULL /\ ~st.done
    BY <1>1, <1>6 DEF CollScan, CollGood, CollBase
  <2>2. own \in Held /\ own \in CE(c, st) /\ own[4] = s
    BY <1>2, <2>1
  <2>3. CASE chan[s] # << >> /\ Take(c, s, <<Free(s)>>)
             /\ coll' = [coll EXCEPT ![c].scan = @ \ {d}, ![c].waiting = @ \ {d}, ![c].incount = @ - 1]
    <3>1. /\ Edited(coll, coll', c) /\ IsColl(t)
          /\ t.ready = st.ready /\ t.waiting = st.waiting \ {d} /\ t.at = st.at /\ t.incount = st.incount - 1
          /\ t.sort = st.sort /\ t.opening = st.opening /\ t.scan = st.scan \ {d} /\ t.done = st.done
      BY <1>1, <2>3 DEF Edited, IsRec, IsColl, IsFun
    <3>2. /\ IsFiniteSet(st.ready) /\ IsFiniteSet(st.waiting) /\ st.ready \cap st.waiting = {} /\ st.ready # {}
          /\ st.incount = Cardinality(st.ready) + Cardinality(st.waiting) /\ (st.waiting # {} => st.sort # << >>)
          /\ st.ready \cup st.waiting \subseteq DOMAIN st.at /\ st.scan \subseteq st.waiting
      BY <1>1, <2>1 DEF CollGood, CollBase, Counted
    <3>3. IsFiniteSet(t.waiting) /\ Cardinality(t.ready) + Cardinality(t.waiting) = st.incount - 1
      <4>1. IsFiniteSet(st.waiting \ {d}) /\ Cardinality(st.ready) + Cardinality(st.waiting \ {d}) = st.incount - 1
        <5> DEFINE R == st.waiting
                   W == st.ready
        <5>1. d \in R /\ IsFiniteSet(R) /\ IsFiniteSet(W) /\ R \cap W = {} /\ st.incount = Cardinality(R) + Cardinality(W)
          <6>1. Cardinality(W) \in Nat /\ Cardinality(R) \in Nat
            BY <3>2, FS_CardinalityType
          <6> QED BY <2>1, <3>2, <6>1
        <5>2. R = st.waiting /\ W = st.ready
          OBVIOUS
        <5> HIDE DEF R, W
        <5> HIDE DEF st
        <5>3. /\ IsFiniteSet(R \ {d}) /\ IsFiniteSet(W \cup {d}) /\ (R \ {d}) \cap (W \cup {d}) = {}
              /\ Cardinality(R \ {d}) + Cardinality(W \cup {d}) = st.incount
              /\ Cardinality(W) + Cardinality(R \ {d}) = st.incount - 1
          BY <5>1, SetsCounted
        <5> QED BY <5>2, <5>3, Zenon
      <4> HIDE DEF st, t
      <4> QED BY <3>1, <4>1, Zenon
    <3> HIDE DEF t
    <3>4. CollGood(t)
      BY <1>1, <2>1, <3>1, <3>2, <3>3 DEF CollGood, CollBase, Counted
    <3>5. d \notin t.ready \cup t.waiting /\ t.ready \cup t.waiting \subseteq st.ready \cup st.waiting
      BY <2>1, <3>1, <3>2
    <3>6. CE(c, t) \subseteq CE(c, st) \ {own}
      <4> HIDE DEF st
      <4> QED BY <2>1, <3>1, <3>5, CEShrink
    <3>7. Held' \subseteq Held \ {own}
      <4>1. Held' \subseteq (Held \ CE(c, st)) \cup CE(c, t) /\ CE(c, st) \subseteq Held
        BY <1>1, <3>1, CollHeld DEF t
      <4> HIDE DEF own
      <4> QED BY <2>2, <3>6, <4>1
    <3>8. Carry(<<Free(s)>>, {s})
      BY CarryOne, OpEnds
    <3>9. Kept
      <4> HIDE DEF own
      <4> QED BY <1>1, <2>1, <2>2, <2>3, <3>7, <3>8, InQuit
    <3>10. \A x \in t.ready \cup t.waiting : t.at[x] = x \/ Gone(x)'
      BY <1>1, <3>1, <3>5, <3>9 DEF Kept
    <3> QED BY <1>1, <3>1, <3>4, <3>9, <3>10, CollKeeps DEF t
  <2>4. CASE coll' = [coll EXCEPT ![c].scan = @ \ {d}] /\ UNCHANGED netVars
    <3>1. /\ Edited(coll, coll', c) /\ IsColl(t)
          /\ t.ready = st.ready /\ t.waiting = st.waiting /\ t.at = st.at /\ t.incount = st.incount
          /\ t.sort = st.sort /\ t.opening = st.opening /\ t.scan = st.scan \ {d} /\ t.done = st.done
      BY <1>1, <2>4 DEF Edited, IsRec, IsColl, IsFun
    <3>2. CollGood(t)
      <4>1. t.scan \subseteq st.waiting /\ (t.opening = NULL => t.scan = {})
        BY <1>1, <2>1, <3>1 DEF CollGood, CollBase
      <4> HIDE DEF t, st
      <4> QED BY <1>1, <2>1, <3>1, <4>1, MidSame
    <3>3. Held' \subseteq Held
      <4>1. CE(c, t) \subseteq CE(c, st)
        <5> HIDE DEF t, st
        <5> QED BY <2>1, <3>1, CEShrink
      <4> QED BY <1>1, <3>1, <4>1, CollHeld
    <3>4. Kept
      BY <1>1, <2>4, <3>3, StayPass
    <3>5. \A x \in t.ready \cup t.waiting : t.at[x] = x \/ Gone(x)'
      BY <1>1, <3>1, <3>4 DEF Kept
    <3> QED BY <1>1, <3>1, <3>2, <3>4, <3>5, CollKeeps
  <2> QED BY <1>6, <2>3, <2>4 DEF CollScan
<1> QED BY <1>3, <1>4, <1>5, <1>6 DEF CollStep, CollectorTask
(* A step that leaves the state of every entity alone.                     *)
LEMMA RestKept ==
  ASSUME IInv, Kept, UNCHANGED <<box, coll, par, sync, split, star, filter, fbVars>>, TaskShape'
  PROVE  IInv'
<1>1. CollShape' /\ CollInv' /\ CollectorAccounting'
  BY CollSame DEF IInv, Shape
<1>2. BoxShape' /\ FilterShape' /\ SyncShape' /\ SplitShape' /\ StarShape' /\ ParShape' /\ FeedbackShape'
  BY ShapesSame DEF IInv, Shape
<1> QED BY <1>1, <1>2 DEF IInv, Shape, Kept

(* A write that had to wait for room keeps the invariant.                  *)
LEMMA FlushInv ==
  ASSUME IInv, NEW e \in DOMAIN todo, Flushes(e)
  PROVE  IInv'
<1>1. NetShape /\ EndsInv /\ TaskShape /\ UNCHANGED <<box, coll, par, sync, split, star, filter, fbVars>> /\ UNCHANGED <<src, sink>> /\ Flush(e)
  BY DEF IInv, Shape, Flushes
<1>2. Held' = Held
  BY <1>1, HeldSame
<1>3. Kept
  BY <1>1, <1>2, FlushOnce
<1>4. TaskShape'
  BY <1>1, ShapesSame
<1> QED BY <1>1, <1>3, <1>4, RestKept

(* The global input feeds no record that hands over a stream.              *)
LEMMA InputInv ==
  ASSUME IInv, InputStep
  PROVE  IInv'
<1> DEFINE s == NetIn[src.net]
           r == src.in[src.pos + 1]
<1>1. NetShape /\ EndsInv /\ TaskShape /\ UNCHANGED <<box, coll, par, sync, split, star, filter, fbVars>> /\ UNCHANGED <<sink, todo>>
  BY DEF IInv, Shape, InputStep, GlobInputTask
<1>2. /\ chan' = [chan EXCEPT ![s] = Append(@, r)] /\ stat' = Touched(s)
      /\ src.pos < Len(src.in) /\ src' = [src EXCEPT !.pos = @ + 1]
  BY DEF InputStep, GlobInputTask
<1>3. ~IsHandover(r)
  <2>1. /\ src.net \in Nets /\ src.in \in Inputs[src.net] /\ src.pos \in Nat
    BY <1>1 DEF TaskShape
  <2>2. src.in \in Seq(Range(src.in)) /\ \A x \in Range(src.in) : x.t \notin {"sync", "collect"}
    BY <2>1, InputAssumption
  <2>3. DOMAIN src.in = 1..Len(src.in) /\ Len(src.in) \in Nat
    BY <2>2, LenProperties
  <2>4. r \in Range(src.in)
    BY <1>2, <2>1, <2>3 DEF Range
  <2> QED BY <2>2, <2>4 DEF IsHandover
<1>4. Kept
  <2> DEFINE K == Held
             N == {}
  <2>1. Held' = Held
    BY <1>1, HeldSame
  <2>2. PutEnds(s, r) = {}
    BY <1>3 DEF PutEnds
  <2>3. K \subseteq Held /\ Held' \subseteq K \cup N /\ N \cup PutEnds(s, r) = {}
    BY <2>1, <2>2
  <2>4. Once(N \cup PutEnds(s, r)) /\ GivenBy(N \cup PutEnds(s, r), Held \ K)
    <3> HIDE DEF N, K, s, r
    <3> QED BY <2>3 DEF Once, GivenBy
  <2> HIDE DEF K, N, s, r
  <2> QED BY <1>1, <1>2, <2>3, <2>4, PutOnce
<1>5. TaskShape'
  <2>1. /\ IsRec(src, {"net", "in", "pos"}) /\ src.net \in Nets /\ src.in \in Inputs[src.net] /\ src.pos \in Nat
        /\ IsRec(sink, {"in", "out", "done"})
    BY <1>1 DEF TaskShape
  <2>2. IsRec(src', {"net", "in", "pos"}) /\ src'.net = src.net /\ src'.in = src.in /\ src'.pos = src.pos + 1
    BY <1>2, <2>1 DEF IsRec, IsFun
  <2> QED BY <1>1, <2>1, <2>2 DEF TaskShape
<1> QED BY <1>1, <1>4, <1>5, RestKept

(* What the sink reads.                                                    *)
LEMMA SinkHeld ==
  ASSUME UNCHANGED <<box, coll, par, sync, split, star, filter, fbVars>>, ~sink.done
  PROVE  /\ In("sink", output, sink.in) \in Held
         /\ Held' \subseteq (Held \ {In("sink", output, sink.in)}) \cup {In("sink", output, sink'.in)}
         /\ sink'.done => Held' \subseteq Held \ {In("sink", output, sink.in)}
<1> DEFINE own == In("sink", output, sink.in)
           new == In("sink", output, sink'.in)
<1>1. SinkEnds = {own}
  BY DEF SinkEnds, In
<1>2. SinkEnds' \subseteq {new} /\ (sink'.done => SinkEnds' = {})
  BY DEF SinkEnds, In, output
<1>3. own[1] = "sink"
  BY InFacts
<1> HIDE DEF own, new
<1> QED BY <1>1, <1>2, <1>3, PartsSame, PartKinds DEF Held, Reading, fbVars, own, new

(* The global output keeps the invariant.                                  *)
LEMMA OutputInv ==
  ASSUME IInv, OutputStep
  PROVE  IInv'
<1> DEFINE s == sink.in
           own == In("sink", output, s)
           new == In("sink", output, sink'.in)
<1>1. /\ NetShape /\ EndsInv /\ TaskShape /\ UNCHANGED <<box, coll, par, sync, split, star, filter, fbVars>> /\ UNCHANGED src
      /\ ~sink.done /\ todo[output] = << >> /\ chan[s] # << >>
  BY DEF IInv, Shape, OutputStep, GlobOutputTask, OutputRec, OutputSync, OutputTerm, OutputReads, Reads
<1>2. /\ own \in Held /\ own[4] = s /\ own[1] = "sink" /\ new[4] = sink'.in /\ new[1] = "sink"
      /\ Held' \subseteq (Held \ {own}) \cup {new} /\ (sink'.done => Held' \subseteq Held \ {own})
  BY <1>1, SinkHeld, InFacts
<1>3. IsRec(sink, {"in", "out", "done"})
  BY <1>1 DEF TaskShape
<1>4. ASSUME IsRec(sink', {"in", "out", "done"}), Kept PROVE IInv'
  <2>1. TaskShape'
    BY <1>1, <1>4 DEF TaskShape
  <2> QED BY <1>1, <1>4, <2>1, RestKept
<1>5. CASE OutputRec
  <2>1. Take(output, s, << >>) /\ sink' = [sink EXCEPT !.out = Append(@, Top(s))]
    BY <1>5 DEF OutputRec
  <2>2. IsRec(sink', {"in", "out", "done"}) /\ sink'.in = s
    BY <1>3, <2>1 DEF IsRec, IsFun
  <2>3. Held' \subseteq Held
    BY <1>2, <2>2
  <2>4. Carry(<< >>, {})
    BY CarryOne
  <2> HIDE DEF own, new
  <2>5. Kept
    BY <1>1, <1>2, <2>1, <2>3, <2>4, InPass
  <2> QED BY <1>4, <2>2, <2>5
<1>6. CASE OutputSync
  <2>1. Take(output, s, <<Free(s)>>) /\ sink' = [sink EXCEPT !.in = Top(s).s] /\ IsHandover(Top(s))
    BY <1>6 DEF OutputSync, OutputReads, Reads, IsHandover
  <2>2. IsRec(sink', {"in", "out", "done"}) /\ sink'.in = Top(s).s
    BY <1>3, <2>1 DEF IsRec, IsFun
  <2>3. Carry(<<Free(s)>>, {s})
    BY CarryOne, OpEnds
  <2> HIDE DEF own, new
  <2>4. Kept
    BY <1>1, <1>2, <2>1, <2>2, <2>3, InReplace
  <2> QED BY <1>4, <2>2, <2>4
<1>7. CASE OutputTerm
  <2>1. Take(output, s, <<Free(s)>>) /\ sink' = [sink EXCEPT !.done = TRUE]
    BY <1>7 DEF OutputTerm
  <2>2. IsRec(sink', {"in", "out", "done"}) /\ sink'.done
    BY <1>3, <2>1 DEF IsRec, IsFun
  <2>3. Carry(<<Free(s)>>, {s})
    BY CarryOne, OpEnds
  <2> HIDE DEF own, new
  <2>4. Kept
    BY <1>1, <1>2, <2>1, <2>2, <2>3, InQuit
  <2> QED BY <1>4, <2>2, <2>4
<1> QED BY <1>5, <1>6, <1>7 DEF OutputStep, GlobOutputTask

(* Every step of the network keeps the invariant.                          *)
LEMMA StepInv ==
  ASSUME IInv, [Next]_vars
  PROVE  IInv'
<1>1. CASE UNCHANGED vars
  <2>1. UNCHANGED netVars /\ UNCHANGED <<box, coll, par, sync, split, star, filter, fbVars, sink>> /\ UNCHANGED <<src, sink>>
    BY <1>1 DEF vars
  <2>2. Held' \subseteq Held
    BY <2>1, HeldSame
  <2>3. Kept
    BY <2>1, <2>2, StayPass DEF IInv, Shape
  <2>4. TaskShape'
    BY <2>1, ShapesSame DEF IInv, Shape
  <2> QED BY <2>1, <2>3, <2>4, RestKept
<1>2. CASE Work
  <2>1. CASE \E e \in Entity : Flushes(e)
    BY <2>1, FlushInv DEF Entity
  <2>2. CASE \E b \in DOMAIN box : BoxStep(b)
    BY <2>2, BoxInv
  <2>3. CASE \E c \in DOMAIN coll : CollStep(c)
    BY <2>3, CollTaskInv
  <2>4. CASE \E p \in DOMAIN par : ParStep(p)
    BY <2>4, ParInv
  <2>5. CASE \E x \in DOMAIN sync : SyncStep(x)
    BY <2>5, SyncInv
  <2>6. CASE \E x \in DOMAIN split : SplitStep(x)
    BY <2>6, SplitInv
  <2>7. CASE \E x \in DOMAIN star : StarStep(x)
    BY <2>7, StarInv
  <2>8. CASE \E f \in DOMAIN filter : FilterStep(f)
    BY <2>8, FilterInv
  <2>9. CASE \E f \in DOMAIN fbcoll : FbCollStep(f) \/ FbDispStep(f)
    BY <2>9, FbCollInv, FbDispInv
  <2>10. CASE InputStep
    BY <2>10, InputInv
  <2>11. CASE OutputStep
    BY <2>11, OutputInv
  <2> QED BY <1>2, <2>1, <2>2, <2>3, <2>4, <2>5, <2>6, <2>7, <2>8, <2>9, <2>10, <2>11 DEF Work
<1>3. CASE Buffering
  BY <1>3, FbBufInv DEF Buffering
<1> QED BY <1>1, <1>2, <1>3 DEF Next, Idle
-----------------------------------------------------------------------------
(* In the beginning: what the creation functions give.                     *)
LEMMA InitShape ==
  ASSUME Init
  PROVE  Shape
<1>1. PICK n \in Nets :
        /\ NetInit(Links[n], Members[n])
        /\ BoxInit(Members[n]) /\ CollInit(Members[n]) /\ ParInit(Members[n]) /\ SyncInit(Members[n])
        /\ SplitInit(Members[n]) /\ StarInit(Members[n]) /\ FilterInit(Members[n]) /\ FeedbackInit(Members[n])
        /\ src \in [net : {n}, in : Inputs[n], pos : {0}]
        /\ sink = [in |-> NetOut[n], out |-> << >>, done |-> FALSE]
  BY DEF Init
<1>2. IsSeq(<< >>)
  BY ShortSeq
<1>3. NetShape
  <2>1. /\ chan = [s \in Links[n] |-> << >>] /\ stat = [s \in Links[n] |-> "fresh"] /\ todo = [e \in Members[n] |-> << >>]
    BY <1>1 DEF NetInit
  <2>2. NULL \notin Links[n]
    BY WiringAssumption
  <2> HIDE <1>1
  <2> QED BY <1>2, <2>1, <2>2 DEF NetShape, IsFun
<1>4. BoxShape
  BY <1>1 DEF BoxInit, BoxShape, IsRec, IsFun
<1>5. FilterShape
  BY <1>1 DEF FilterInit, FilterShape, IsRec, IsFun
<1>6. SyncShape
  BY <1>1 DEF SyncInit, SyncShape, IsRec, IsFun
<1>7. SplitShape
  BY <1>1, <1>2 DEF SplitInit, SplitShape, IsRec, IsFun
<1>8. StarShape
  BY <1>1 DEF StarInit, StarShape, IsRec, IsFun
<1>9. ParShape
  BY <1>1 DEF ParInit, ParShape, IsRec, IsFun
<1>10. CollShape
  BY <1>1 DEF CollInit, NetInit, CollShape, IsRec, IsColl, IsFun
<1>11. FeedbackShape
  <2> DEFINE here == {f \in Feedbacks : FbColl[f] \in Members[n]}
  <2>1. /\ fbcoll = [f \in here |-> [in |-> FbIn[f], back |-> BackOuts[f][1], mode |-> "in", done |-> FALSE]]
        /\ fbdisp = [f \in here |-> [in |-> FromOp[f], done |-> FALSE]]
        /\ fbbuf = [f \in here |-> [out |-> BackOuts[f][1], made |-> 1, q |-> << >>, n |-> 0, pc |-> "first", late |-> FALSE, done |-> FALSE]]
        /\ here \subseteq Feedbacks
    BY <1>1 DEF FeedbackInit
  <2> HIDE DEF here
  <2> HIDE <1>1
  <2>2. IsFun(fbcoll) /\ DOMAIN fbcoll = here /\ \A f \in here : IsRec(fbcoll[f], {"in", "back", "mode", "done"})
    BY <2>1 DEF IsRec, IsFun
  <2>3. IsFun(fbdisp) /\ DOMAIN fbdisp = here /\ \A f \in here : IsRec(fbdisp[f], {"in", "done"})
    BY <2>1 DEF IsRec, IsFun
  <2>4. /\ IsFun(fbbuf) /\ DOMAIN fbbuf = here
        /\ \A f \in here : IsBuf(fbbuf[f])
    BY <2>1 DEF IsBuf, IsRec, IsFun
  <2>5. \A f \in here : fbbuf[f].q = << >> /\ fbbuf[f].made = 1
    BY <2>1
  <2> QED BY <1>2, <2>1, <2>2, <2>3, <2>4, <2>5 DEF FeedbackShape
<1>12. TaskShape
  BY <1>1 DEF TaskShape, IsRec, IsFun
<1> QED BY <1>3, <1>4, <1>5, <1>6, <1>7, <1>8, <1>9, <1>10, <1>11, <1>12 DEF Shape

(* Every end of a stream is in the hands of the one entity that the        *)
(* creation functions gave it to.                                          *)
LEMMA InitEnds ==
  ASSUME Init
  PROVE  EndsInv
<1>1. PICK n \in Nets :
        /\ NetInit(Links[n], Members[n])
        /\ BoxInit(Members[n]) /\ CollInit(Members[n]) /\ ParInit(Members[n]) /\ SyncInit(Members[n])
        /\ SplitInit(Members[n]) /\ StarInit(Members[n]) /\ FilterInit(Members[n]) /\ FeedbackInit(Members[n])
        /\ src \in [net : {n}, in : Inputs[n], pos : {0}]
        /\ sink = [in |-> NetOut[n], out |-> << >>, done |-> FALSE]
  BY DEF Init
<1> DEFINE I == InitialEnds(n)
<1>2. /\ chan = [s \in Links[n] |-> << >>] /\ stat = [s \in Links[n] |-> "fresh"] /\ todo = [e \in Members[n] |-> << >>]
  BY <1>1 DEF NetInit
<1>3. ChanEnds = {} /\ TodoEnds = {} /\ FreedEnds(stat) = {}
  <2>1. DOMAIN << >> = {}
    BY ShortSeq, SeqFacts
  <2>2. ChanEnds = {}
    BY <1>2, <2>1 DEF ChanEnds, Stream
  <2>3. TodoEnds = {}
    BY <1>2, <2>1 DEF TodoEnds, DoEnds
  <2>4. FreedEnds(stat) = {}
    BY <1>2 DEF FreedEnds
  <2> QED BY <2>2, <2>3, <2>4
<1> DEFINE here == Members[n]
           fbs  == {f \in Feedbacks : FbColl[f] \in here}
<1> DEFINE OfBoxes == {<<"box", e, "in", BoxIn[e]>> : e \in Boxes \cap here}
           OfPars == {<<"par", e, "in", ParIn[e]>> : e \in Parallels \cap here}
           OfSyncs == {<<"sync", e, "in", SyncIn[e]>> : e \in Syncs \cap here}
           OfSplits == {<<"split", e, "in", SplitIn[e]>> : e \in Splits \cap here}
           OfStars == {<<"star", e, "in", StarIn[e]>> : e \in Stars \cap here}
           OfFilters == {<<"filter", e, "in", FilterIn[e]>> : e \in Filters \cap here}
           OfColls == UNION {{<<"coll", c, d, d>> : d \in CollIns[c]} : c \in Collectors \cap here}
           OfFbColls == {<<"fbcoll", f, "in", FbIn[f]>> : f \in fbs}
           OfFbDisps == {<<"fbdisp", f, "in", FromOp[f]>> : f \in fbs}
           OfBacks == {<<"back", f, "in", BackOuts[f][1]>> : f \in fbs}
           OfFbBufs == {<<"fbbuf", f, "in", BackIn[f]>> : f \in fbs}
           OfSink == {<<"sink", "output", "in", NetOut[n]>>}
           OfReplicas == UNION {{<<"replica", x, k, RepOut[x][k]>> : k \in 1 .. Len(RepOut[x])} : x \in Splits \cap here}
           OfInstances == {<<"instance", x, "in", StarChildOut[x]>> : x \in Stars \cap here}
           OfGrown == UNION {{<<"grown", f, k, BackOuts[f][k]>> : k \in 2 .. Len(BackOuts[f])} : f \in fbs}
<1>4. I = OfBoxes \cup OfPars \cup OfSyncs \cup OfSplits \cup OfStars \cup OfFilters \cup OfColls \cup OfFbColls
           \cup OfFbDisps \cup OfBacks \cup OfFbBufs \cup OfSink \cup OfReplicas \cup OfInstances \cup OfGrown
  BY DEF InitialEnds
<1>5. /\ OfBoxes \subseteq I /\ OfPars \subseteq I /\ OfSyncs \subseteq I /\ OfSplits \subseteq I /\ OfStars \subseteq I
      /\ OfFilters \subseteq I /\ OfColls \subseteq I /\ OfFbColls \subseteq I /\ OfFbDisps \subseteq I /\ OfBacks \subseteq I
      /\ OfFbBufs \subseteq I /\ OfSink \subseteq I /\ OfReplicas \subseteq I /\ OfInstances \subseteq I /\ OfGrown \subseteq I
  <2> HIDE DEF I, OfBoxes, OfPars, OfSyncs, OfSplits, OfStars, OfFilters, OfColls, OfFbColls, OfFbDisps, OfBacks, OfFbBufs, OfSink, OfReplicas, OfInstances, OfGrown
  <2> QED BY <1>4
<1> HIDE DEF I
<1>8. /\ InEnds("box", box) \subseteq I
      /\ InEnds("filter", filter) \subseteq I
      /\ InEnds("sync", sync) \subseteq I
      /\ InEnds("par", par) \subseteq I
      /\ InEnds("split", split) \subseteq I
      /\ InEnds("star", star) \subseteq I
  <2>1. InEnds("box", box) \subseteq I
    <3>1. DOMAIN box = Boxes \cap here /\ \A e \in DOMAIN box : box[e].in = BoxIn[e]
      BY <1>1 DEF BoxInit
    <3> QED BY <1>5, <3>1 DEF InEnds
  <2>2. InEnds("filter", filter) \subseteq I
    <3>1. DOMAIN filter = Filters \cap here /\ \A e \in DOMAIN filter : filter[e].in = FilterIn[e]
      BY <1>1 DEF FilterInit
    <3> QED BY <1>5, <3>1 DEF InEnds
  <2>3. InEnds("sync", sync) \subseteq I
    <3>1. DOMAIN sync = Syncs \cap here /\ \A e \in DOMAIN sync : sync[e].in = SyncIn[e]
      BY <1>1 DEF SyncInit
    <3> QED BY <1>5, <3>1 DEF InEnds
  <2>4. InEnds("par", par) \subseteq I
    <3>1. DOMAIN par = Parallels \cap here /\ \A e \in DOMAIN par : par[e].in = ParIn[e]
      BY <1>1 DEF ParInit
    <3> QED BY <1>5, <3>1 DEF InEnds
  <2>5. InEnds("split", split) \subseteq I
    <3>1. DOMAIN split = Splits \cap here /\ \A e \in DOMAIN split : split[e].in = SplitIn[e]
      BY <1>1 DEF SplitInit
    <3> QED BY <1>5, <3>1 DEF InEnds
  <2>6. InEnds("star", star) \subseteq I
    <3>1. DOMAIN star = Stars \cap here /\ \A e \in DOMAIN star : star[e].in = StarIn[e]
      BY <1>1 DEF StarInit
    <3> QED BY <1>5, <3>1 DEF InEnds
  <2> QED BY <2>1, <2>2, <2>3, <2>4, <2>5, <2>6
<1>9. /\ DOMAIN fbcoll = fbs /\ DOMAIN fbdisp = fbs /\ DOMAIN fbbuf = fbs
      /\ \A f \in fbs : /\ fbcoll[f].in = FbIn[f] /\ fbcoll[f].back = BackOuts[f][1] /\ fbdisp[f].in = FromOp[f]
                        /\ fbbuf[f].made = 1 /\ fbbuf[f].q = << >>
  BY <1>1 DEF FeedbackInit
<1>10. InEnds("fbcoll", fbcoll) \subseteq I /\ InEnds("fbdisp", fbdisp) \subseteq I /\ BackEnds \subseteq I /\ BufEnds \subseteq I
  <2> HIDE DEF fbs
  <2>1. InEnds("fbcoll", fbcoll) \subseteq I
    BY <1>5, <1>9 DEF InEnds
  <2>2. InEnds("fbdisp", fbdisp) \subseteq I
    BY <1>5, <1>9 DEF InEnds
  <2>3. BackEnds \subseteq I
    BY <1>5, <1>9 DEF BackEnds
  <2>4. BufEnds \subseteq I
    BY <1>5, <1>9 DEF BufEnds
  <2> QED BY <2>1, <2>2, <2>3, <2>4
<1>11. CollEnds \subseteq I /\ OpeningEnds = {}
  <2>1. DOMAIN coll = Collectors \cap here
    BY <1>1 DEF CollInit
  <2>2. ASSUME NEW c \in DOMAIN coll
        PROVE  coll[c].ready = CollIns[c] /\ coll[c].waiting = {} /\ coll[c].opening = NULL /\ \A d \in CollIns[c] : coll[c].at[d] = d
    BY <1>1 DEF CollInit
  <2>3. ASSUME NEW a \in CollEnds PROVE a \in I
    <3>1. PICK c \in DOMAIN coll : \E d \in coll[c].ready \cup coll[c].waiting : a = <<"coll", c, d, coll[c].at[d]>>
      BY DEF CollEnds
    <3>2. PICK d \in CollIns[c] : a = <<"coll", c, d, d>>
      BY <2>2, <3>1
    <3> QED BY <1>5, <2>1, <3>2
  <2>4. OpeningEnds = {}
    BY <2>2 DEF OpeningEnds
  <2> QED BY <2>3, <2>4
<1>12. SinkEnds \subseteq I
  BY <1>1, <1>5 DEF SinkEnds, output
<1>13. QueueEnds = {}
  <2>1. DOMAIN << >> = {}
    BY ShortSeq, SeqFacts
  <2> HIDE DEF fbs
  <2> QED BY <1>9, <2>1 DEF QueueEnds
<1>14. ReplicaEnds \subseteq I
  <2>1. DOMAIN split = Splits \cap here /\ \A x \in DOMAIN split : Len(split[x].tab) + 1 = 1
    <3>1. Len(<< >>) = 0
      BY EmptySeq
    <3> QED BY <1>1, <3>1 DEF SplitInit
  <2> QED BY <1>5, <2>1 DEF ReplicaEnds
<1>15. InstanceEnds \subseteq I
  <2>1. DOMAIN star = Stars \cap here
    BY <1>1 DEF StarInit
  <2> QED BY <1>5, <2>1 DEF InstanceEnds
<1>16. GrownEnds \subseteq I
  <2> HIDE DEF fbs
  <2>1. \A f \in fbs : fbbuf[f].made + 1 = 2
    BY <1>9
  <2> QED BY <1>5, <1>9, <2>1 DEF GrownEnds
<1>17. Ends \subseteq I
  BY <1>3, <1>8, <1>10, <1>11, <1>12, <1>13, <1>14, <1>15, <1>16 DEF Ends, Held, Reading
<1>18. \A a, b \in I : a[4] \in Links[n] /\ (a[4] = b[4] => a = b)
  BY WiringAssumption DEF I
<1>19. Stream = Links[n]
  BY <1>2 DEF Stream
<1> QED BY <1>17, <1>18, <1>19 DEF EndsInv, Once

(* Every collector counts the streams that it starts with.                 *)
LEMMA InitColl ==
  ASSUME Init
  PROVE  CollInv /\ CollectorAccounting
<1>1. PICK n \in Nets : CollInit(Members[n])
  BY DEF Init
<1> SUFFICES ASSUME NEW c \in DOMAIN coll
             PROVE  /\ IsFiniteSet(coll[c].ready) /\ IsFiniteSet(coll[c].waiting)
                    /\ coll[c].ready \cap coll[c].waiting = {} /\ coll[c].scan = {} /\ coll[c].opening = NULL
                    /\ IsFun(coll[c].at) /\ coll[c].ready \cup coll[c].waiting \subseteq DOMAIN coll[c].at
                    /\ \A d \in coll[c].ready \cup coll[c].waiting : coll[c].at[d] = d
                    /\ coll[c].incount = Cardinality(coll[c].ready) + Cardinality(coll[c].waiting)
                    /\ coll[c].ready # {} /\ coll[c].waiting = {}
  BY DEF CollInv, CollectorAccounting
<1>2. /\ c \in Collectors /\ coll[c].ready = CollIns[c] /\ coll[c].waiting = {} /\ coll[c].scan = {}
      /\ coll[c].opening = NULL /\ coll[c].at = [s \in CollIns[c] |-> s] /\ coll[c].incount = Cardinality(CollIns[c])
  BY <1>1 DEF CollInit
<1>3. IsFiniteSet(CollIns[c]) /\ CollIns[c] # {}
  BY <1>2, CollectorAssumption
<1>4. Cardinality({}) = 0 /\ IsFiniteSet({})
  BY FS_EmptySet
<1>5. Cardinality(CollIns[c]) \in Nat
  BY <1>3, FS_CardinalityType
<1>6. coll[c].incount = Cardinality(coll[c].ready) + Cardinality(coll[c].waiting)
  BY <1>2, <1>4, <1>5
<1> QED BY <1>2, <1>3, <1>4, <1>6 DEF IsFun

(* The readers and the records that hand streams over are among the ends.  *)
LEMMA PassesCounted == Reading \cup Handover \subseteq Ends /\ \A a \in Reading \cup Handover : a[1] # "freed"
<1>1. ASSUME NEW a \in PassEnds PROVE a \in TodoEnds /\ a[1] = "todo"
  <2>1. PICK e \in DOMAIN todo : \E i \in DOMAIN todo[e] : IsPass(todo[e][i]) /\ a = <<"todo", e, i, todo[e][i].rec.s>>
    BY DEF PassEnds, Entity
  <2>2. PICK i \in DOMAIN todo[e] : IsPass(todo[e][i]) /\ a = <<"todo", e, i, todo[e][i].rec.s>>
    BY <2>1
  <2>3. Bears(todo[e][i]) /\ EndOf(todo[e][i]) = todo[e][i].rec.s
    BY <2>2 DEF Bears, EndOf, IsPass
  <2>4. a \in DoEnds(e, todo[e])
    BY <2>2, <2>3 DEF DoEnds
  <2> QED BY <2>2, <2>4 DEF TodoEnds
<1>2. \A a \in ChanEnds : a[1] = "chan"
  BY DEF ChanEnds
<1> QED BY <1>1, <1>2, PartKinds DEF Ends, Held, Handover, Reading

(* The invariant is one.                                                   *)
THEOREM Invariance == Spec => []IInv
<1>1. Init => IInv
  BY InitShape, InitEnds, InitColl DEF IInv
<1>2. IInv /\ [Next]_vars => IInv'
  BY StepInv
<1> QED BY <1>1, <1>2, PTL DEF Spec

(* At no time are there two readers of one stream, or a reader and a sync  *)
(* or collect record that will make another one, whatever the network:     *)
(* SNetStreamReplace and SNetStreamOpen by the entities that dissolve      *)
(* (syncro.c, star.c, parallel.c, collector.c) keep s->consumer unique.    *)
THEOREM OneReaderSafe == Spec => []OneReader
<1>1. IInv => OneReader
  <2> SUFFICES ASSUME IInv, NEW a \in Reading \cup Handover, NEW b \in Reading \cup Handover, a[4] = b[4]
               PROVE  a = b
    BY DEF OneReader
  <2>1. Reading \cup Handover \subseteq Ends
    BY PassesCounted
  <2> QED BY <2>1 DEF IInv, EndsInv, Once
<1> QED BY <1>1, Invariance, PTL

(* Nobody reads a stream that SNetStreamClose or SNetStreamReplace has     *)
(* destroyed, is handed it, or destroys it again.                          *)
THEOREM ReadSafe == Spec => []NoReadAfterFree
<1>1. IInv => NoReadAfterFree
  <2> SUFFICES ASSUME IInv PROVE NoReadAfterFree
    OBVIOUS
  <2>1. Once(Ends) /\ DOMAIN stat = Stream
    BY DEF IInv, EndsInv, Shape, NetShape, Stream
  <2>2. ASSUME NEW a \in Ends, a[1] # "freed" PROVE a[4] \notin Destroyed
    <3>1. ASSUME a[4] \in Destroyed PROVE FALSE
      <4> DEFINE b == <<"freed", a[4], "in", a[4]>>
      <4>1. b \in FreedEnds(stat)
        BY <2>1, <3>1 DEF FreedEnds, Destroyed
      <4>2. b \in Ends /\ b[4] = a[4] /\ b[1] = "freed"
        BY <4>1 DEF Ends
      <4> HIDE DEF b
      <4> QED BY <2>1, <2>2, <4>2 DEF Once
    <3> QED BY <3>1
  <2>3. ASSUME NEW a \in Reading \cup Handover PROVE a[4] \notin Destroyed
    BY <2>2, PassesCounted
  <2>4. ASSUME NEW e \in Entity, NEW i \in DOMAIN todo[e], todo[e][i].op = "freed"
        PROVE  todo[e][i].s \notin Destroyed
    <3> DEFINE a == <<"todo", e, i, todo[e][i].s>>
    <3>1. Bears(todo[e][i]) /\ EndOf(todo[e][i]) = todo[e][i].s
      BY <2>4 DEF Bears, EndOf
    <3>2. a \in DoEnds(e, todo[e])
      BY <3>1 DEF DoEnds
    <3>3. a \in Ends /\ a[1] = "todo" /\ a[4] = todo[e][i].s
      BY <3>2 DEF Ends, TodoEnds, Entity
    <3> HIDE DEF a
    <3> QED BY <2>2, <3>3
  <2> QED BY <2>3, <2>4 DEF NoReadAfterFree
<1> QED BY <1>1, Invariance, PTL

(* incount of a collector is the number of its open streams, its ready set *)
(* is not empty while it waits for a record (the assertion collector.c:109)*)
(* and a stream only waits for the others when there is a sort record that *)
(* they wait for.                                                          *)
THEOREM AccountingSafe == Spec => []CollectorAccounting
<1>1. IInv => CollectorAccounting
  BY DEF IInv
<1> QED BY <1>1, Invariance, PTL
=============================================================================
