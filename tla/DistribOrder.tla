---------------------------- MODULE DistribOrder ----------------------------
(***************************************************************************)
(* Proof that the records of a stream that crosses nodes stay in order, for*)
(* every path of a network, every capacity and every interleaving.         *)
(***************************************************************************)
EXTENDS DistribProofs

(* The line of records of a destination, from its reader back to its       *)
(* writer, in seven stages: read, in the stream of the input manager, in   *)
(* the list of the buffer, in the manager's hand, under way, in the stream *)
(* to the output manager and in the stream a sync record hands over.  Data *)
(* has the number of the record it was made for, the end of the stream a   *)
(* larger one, and 0 stands for what is no record of this line.            *)
Stage == 1..7
Num(x) == IF x.kind = "data" THEN x.ref.id ELSE IF x.kind = "term" THEN plan.records + 1 ELSE 0
Nums(s) == [i \in DOMAIN s |-> Num(s[i])]
NetNum(x, d) == IF x.type = "rec" THEN IF x.dest = d THEN Num(x.rec) ELSE 0 ELSE 0

InHandOf(d) ==
  IF im[d.dst].pc = "handle" /\ im[d.dst].hand.dest = d THEN <<Num(im[d.dst].hand.rec)>> ELSE << >>
OnWay(d) == [i \in DOMAIN net[d.src][d.dst] |-> NetNum(net[d.src][d.dst][i], d)]
Line(d) ==
  <<got[d], Nums(in[d]), Nums(buf[d].list), InHandOf(d), OnWay(d), Nums(out[d].cur), Nums(out[d].next)>>

(* A line in order, and the numbers on it.                                 *)
Before(a, i, b, j) == a < b \/ (a = b /\ i <= j)
Ordered(L) ==
  \A a, b \in Stage : \A i \in DOMAIN L[a], j \in DOMAIN L[b] :
    Before(a, i, b, j) => L[a][i] = 0 \/ L[b][j] = 0 \/ L[a][i] <= L[b][j]
Below(L, x) == \A a \in Stage : \A i \in DOMAIN L[a] : L[a][i] <= x

OrderInv == \A d \in Dest : Ordered(Line(d))

(* The number of the last record a box has read: that of the data it       *)
(* holds, and the largest on the line behind it.                           *)
Reached(d) == IF got[d] = << >> THEN 0 ELSE got[d][Len(got[d])]
PassInv ==
  \A d \in Dest :
    /\ \A i \in DOMAIN held[d] : held[d][i].id = Reached(d)
    /\ \A e \in Dest : e.dest = d.dest + 1 => Below(Line(e), Reached(d))

(* The producer numbers its records upwards and ends once.                 *)
ProducerInv ==
  /\ made <= plan.records
  /\ ended => made = plan.records /\ spare = << >>
  /\ spare # << >> => Head(spare).id = made
  /\ ~ended => Below(Line(FirstDest), made)

(* Only behind a sync record is there a stream to move to.                 *)
MovedInv == \A d \in Dest : ~Moved(d) => out[d].next = << >>

IInv == LockInv /\ OrderInv /\ PassInv /\ ProducerInv /\ MovedInv

-----------------------------------------------------------------------------
(* Lines as such.  A step that adds no number moves the first k records of *)
(* stage b to the end of an earlier stage a, behind its first p records,   *)
(* where nothing is in between; a record may also disappear or be replaced *)
(* by 0, and what is no record of the line may come and go.                *)
Lines == [Stage -> Seq(Nat)]
Shift(L, M, a, b, p, k) ==
  /\ \A c \in Stage \ {a, b} : \A i \in DOMAIN M[c] :
       M[c][i] = 0 \/ (i \in DOMAIN L[c] /\ M[c][i] = L[c][i])
  /\ \A i \in DOMAIN M[a] : \/ M[a][i] = 0
                            \/ i <= p /\ i \in DOMAIN L[a] /\ M[a][i] = L[a][i]
                            \/ i > p /\ i - p <= k /\ i - p \in DOMAIN L[b] /\ M[a][i] = L[b][i - p]
  /\ \A i \in DOMAIN M[b] : M[b][i] = 0 \/ (i + k \in DOMAIN L[b] /\ M[b][i] = L[b][i + k])
  /\ \A c \in Stage : a < c /\ c < b => DOMAIN L[c] = {}

(* A shift keeps the order of a line and its bounds.                       *)
LEMMA ShiftOrdered ==
  ASSUME NEW L \in Lines, NEW M \in Lines, NEW a \in Stage, NEW b \in Stage, a < b,
         NEW p \in Nat, NEW k \in Nat, Shift(L, M, a, b, p, k)
  PROVE  /\ Ordered(L) => Ordered(M)
         /\ \A x \in Nat : Below(L, x) => Below(M, x)
<1> DEFINE Src(c, i, e, j) == \/ c # a /\ c # b /\ e = c /\ j = i
                              \/ c = a /\ e = a /\ j = i /\ i <= p
                              \/ c = a /\ e = b /\ j = i - p /\ j <= k /\ i > p
                              \/ c = b /\ e = b /\ j = i + k
<1>1. a \in Int /\ b \in Int /\ Stage \subseteq Int
  BY DEF Stage
<1>2. \A c \in Stage : L[c] \in Seq(Nat) /\ M[c] \in Seq(Nat)
  BY DEF Lines
<1>3. \A c \in Stage : DOMAIN L[c] \subseteq Nat /\ DOMAIN M[c] \subseteq Nat
  <2> SUFFICES ASSUME NEW c \in Stage PROVE DOMAIN L[c] \subseteq Nat /\ DOMAIN M[c] \subseteq Nat
    OBVIOUS
  <2>1. DOMAIN L[c] = 1..Len(L[c]) /\ DOMAIN M[c] = 1..Len(M[c]) /\ Len(L[c]) \in Nat /\ Len(M[c]) \in Nat
    BY <1>2, LenProperties
  <2> QED BY <2>1
<1>4. ASSUME NEW c \in Stage, NEW i \in DOMAIN M[c], M[c][i] # 0
      PROVE  \E e \in Stage : \E j \in DOMAIN L[e] : M[c][i] = L[e][j] /\ Src(c, i, e, j)
  <2>1. CASE c # a /\ c # b
    BY <1>4, <2>1 DEF Shift
  <2>2. CASE c = a
    <3>1. \/ i <= p /\ i \in DOMAIN L[a] /\ M[a][i] = L[a][i]
          \/ i > p /\ i - p <= k /\ i - p \in DOMAIN L[b] /\ M[a][i] = L[b][i - p]
      BY <1>4, <2>2 DEF Shift
    <3> QED BY <2>2, <3>1
  <2>3. CASE c = b
    <3>1. i + k \in DOMAIN L[b] /\ M[b][i] = L[b][i + k]
      BY <1>4, <2>3 DEF Shift
    <3> QED BY <2>3, <3>1
  <2> QED BY <2>1, <2>2, <2>3
<1>5. ASSUME NEW c1 \in Stage, NEW i1 \in DOMAIN M[c1], NEW c2 \in Stage, NEW i2 \in DOMAIN M[c2],
             NEW e1 \in Stage, NEW j1 \in DOMAIN L[e1], NEW e2 \in Stage, NEW j2 \in DOMAIN L[e2],
             Src(c1, i1, e1, j1), Src(c2, i2, e2, j2), Before(c1, i1, c2, i2)
      PROVE  Before(e1, j1, e2, j2)
  <2>1. i1 \in Nat /\ i2 \in Nat /\ j1 \in Nat /\ j2 \in Nat /\ c1 \in Int /\ c2 \in Int
    BY <1>1, <1>3
  <2>2. ~(a < e1 /\ e1 < b) /\ ~(a < e2 /\ e2 < b)
    BY DEF Shift
  <2> QED BY <1>1, <1>5, <2>1, <2>2 DEF Before
<1>6. ASSUME Ordered(L) PROVE Ordered(M)
  <2>1. SUFFICES ASSUME NEW c1 \in Stage, NEW c2 \in Stage, NEW i1 \in DOMAIN M[c1], NEW i2 \in DOMAIN M[c2],
                        Before(c1, i1, c2, i2), M[c1][i1] # 0, M[c2][i2] # 0
                 PROVE  M[c1][i1] <= M[c2][i2]
    BY DEF Ordered
  <2>2. PICK e1 \in Stage : \E j1 \in DOMAIN L[e1] : M[c1][i1] = L[e1][j1] /\ Src(c1, i1, e1, j1)
    BY <1>4, <2>1
  <2>3. PICK j1 \in DOMAIN L[e1] : M[c1][i1] = L[e1][j1] /\ Src(c1, i1, e1, j1)
    BY <2>2
  <2>4. PICK e2 \in Stage : \E j2 \in DOMAIN L[e2] : M[c2][i2] = L[e2][j2] /\ Src(c2, i2, e2, j2)
    BY <1>4, <2>1
  <2>5. PICK j2 \in DOMAIN L[e2] : M[c2][i2] = L[e2][j2] /\ Src(c2, i2, e2, j2)
    BY <2>4
  <2> HIDE DEF Src
  <2>6. Before(e1, j1, e2, j2)
    BY <1>5, <2>1, <2>3, <2>5
  <2> QED BY <1>6, <2>1, <2>3, <2>5, <2>6 DEF Ordered
<1>7. ASSUME NEW x \in Nat, Below(L, x) PROVE Below(M, x)
  <2>1. SUFFICES ASSUME NEW c \in Stage, NEW i \in DOMAIN M[c] PROVE M[c][i] <= x
    BY DEF Below
  <2>2. CASE M[c][i] = 0
    BY <2>2
  <2>3. CASE M[c][i] # 0
    BY <1>4, <1>7, <2>3 DEF Below
  <2> QED BY <2>2, <2>3
<1> QED BY <1>6, <1>7

(* A record written at the end of a line, with a number not below any      *)
(* other.                                                                  *)
LEMMA WriteOrdered ==
  ASSUME NEW L \in Lines, NEW M \in Lines, NEW b \in Stage, NEW v \in Nat, NEW x \in Nat,
         \A c \in Stage \ {b} : M[c] = L[c], M[b] = Append(L[b], v),
         \A c \in Stage : b < c => L[c] = << >>,
         Ordered(L), Below(L, x), v = 0 \/ x <= v
  PROVE  Ordered(M) /\ \A y \in Nat : x <= y /\ v <= y => Below(M, y)
<1>1. /\ L[b] \in Seq(Nat) /\ Len(L[b]) \in Nat /\ DOMAIN L[b] = 1..Len(L[b])
      /\ DOMAIN M[b] = 1..(Len(L[b]) + 1) /\ M[b][Len(L[b]) + 1] = v
      /\ \A j \in 1..Len(L[b]) : M[b][j] = L[b][j]
  <2>1. L[b] \in Seq(Nat)
    BY DEF Lines
  <2> QED BY <2>1, AppendFacts
<1>2. \A c \in Stage : \A i \in DOMAIN L[c] : L[c][i] \in Nat /\ L[c][i] <= x
  <2>1. \A c \in Stage : L[c] \in Seq(Nat)
    BY DEF Lines
  <2>2. \A c \in Stage : \A i \in DOMAIN L[c] : L[c][i] \in Nat
    BY <2>1
  <2> QED BY <2>2 DEF Below
<1>3. ASSUME NEW c \in Stage, NEW i \in DOMAIN M[c]
      PROVE  (i \in DOMAIN L[c] /\ M[c][i] = L[c][i]) \/ (c = b /\ i = Len(L[b]) + 1 /\ M[c][i] = v)
  <2>1. CASE c # b
    BY <2>1
  <2>2. CASE c = b
    <3>1. i \in 1..Len(L[b]) \/ i = Len(L[b]) + 1
      BY <1>1, <2>2
    <3> QED BY <1>1, <2>2, <3>1
  <2> QED BY <2>1, <2>2
<1>4. Ordered(M)
  <2>1. SUFFICES ASSUME NEW c1 \in Stage, NEW c2 \in Stage, NEW i1 \in DOMAIN M[c1], NEW i2 \in DOMAIN M[c2],
                        Before(c1, i1, c2, i2), M[c1][i1] # 0, M[c2][i2] # 0
                 PROVE  M[c1][i1] <= M[c2][i2]
    BY DEF Ordered
  <2>2. CASE i1 \in DOMAIN L[c1] /\ M[c1][i1] = L[c1][i1] /\ i2 \in DOMAIN L[c2] /\ M[c2][i2] = L[c2][i2]
    BY <2>1, <2>2 DEF Ordered
  <2>3. CASE i1 \in DOMAIN L[c1] /\ M[c1][i1] = L[c1][i1] /\ M[c2][i2] = v
    <3>1. L[c1][i1] \in Nat /\ L[c1][i1] <= x /\ x <= v
      BY <1>2, <2>1, <2>3
    <3> QED BY <2>3, <3>1
  <2>4. CASE c1 = b /\ i1 = Len(L[b]) + 1 /\ M[c1][i1] = v
    <3>1. c2 = b /\ i2 = Len(L[b]) + 1
      <4>1. ~(b < c2)
        <5>1. b < c2 => M[c2] = L[c2] /\ L[c2] = << >>
          BY DEF Stage
        <5> QED BY <5>1
      <4>2. c2 = b /\ Len(L[b]) + 1 <= i2
        BY <2>1, <2>4, <4>1 DEF Before, Stage
      <4> QED BY <1>1, <4>2
    <3> QED BY <1>1, <2>4, <3>1
  <2> QED BY <1>3, <2>2, <2>3, <2>4
<1>5. ASSUME NEW y \in Nat, x <= y, v <= y PROVE Below(M, y)
  <2>1. SUFFICES ASSUME NEW c \in Stage, NEW i \in DOMAIN M[c] PROVE M[c][i] <= y
    BY DEF Below
  <2>2. CASE i \in DOMAIN L[c] /\ M[c][i] = L[c][i]
    <3>1. L[c][i] \in Nat /\ L[c][i] <= x
      BY <1>2, <2>2
    <3> QED BY <1>5, <2>2, <3>1
  <2>3. CASE M[c][i] = v
    BY <1>5, <2>3
  <2> QED BY <1>3, <2>2, <2>3
<1> QED BY <1>4, <1>5

-----------------------------------------------------------------------------
(* The stages of a line are sequences of numbers.                          *)
LEMMA NumsTypes ==
  ASSUME LockInv
  PROVE  /\ \A x \in Recs : Num(x) \in Nat
         /\ \A s \in Seq(Recs) : Nums(s) \in Seq(Nat)
         /\ \A s \in Seq(Carried) : Nums(s) \in Seq(Nat)
<1>1. plan.records \in Nat
  BY DEF LockInv, TypeOK, PlanOK, Network
<1>2. ASSUME NEW x \in Recs PROVE Num(x) \in Nat
  BY <1>1 DEF Recs, Carried, Ref, Num
<1>3. ASSUME NEW s \in Seq(Recs) PROVE Nums(s) \in Seq(Nat)
  <2>1. Len(s) \in Nat /\ DOMAIN s = 1..Len(s) /\ \A i \in 1..Len(s) : s[i] \in Recs
    OBVIOUS
  <2>2. Nums(s) = [i \in 1..Len(s) |-> Num(s[i])]
    BY <2>1 DEF Nums
  <2> QED BY <1>2, <2>1, <2>2
<1>4. ASSUME NEW s \in Seq(Carried) PROVE Nums(s) \in Seq(Nat)
  <2>1. Len(s) \in Nat /\ DOMAIN s = 1..Len(s) /\ \A i \in 1..Len(s) : s[i] \in Recs
    BY DEF Recs
  <2>2. Nums(s) = [i \in 1..Len(s) |-> Num(s[i])]
    BY <2>1 DEF Nums
  <2> QED BY <1>2, <2>1, <2>2
<1> QED BY <1>2, <1>3, <1>4

(* The stages of a line are sequences of numbers.                          *)
LEMMA LineTypes == LockInv => \A d \in Dest : Line(d) \in Lines
<1> SUFFICES ASSUME LockInv, NEW d \in Dest PROVE Line(d) \in Lines
  OBVIOUS
<1>1. d.src \in Node /\ d.dst \in Node
  BY DestFacts DEF LockInv, TypeOK
<1>2. got[d] \in Seq(Nat)
  <2>1. got[d] \in Seq(Nat \ {0})
    BY DEF LockInv, TypeOK, BoxesOK
  <2> QED BY <2>1
<1>3. Nums(in[d]) \in Seq(Nat)
  <2>1. in[d] \in Seq(Carried)
    BY DEF LockInv, TypeOK, NetOK
  <2> QED BY <2>1, NumsTypes
<1>4. Nums(buf[d].list) \in Seq(Nat)
  <2>1. buf[d].list \in Seq(Carried)
    BY DEF LockInv, TypeOK, ManagersOK, BufType
  <2> QED BY <2>1, NumsTypes
<1>5. InHandOf(d) \in Seq(Nat)
  <2> DEFINE I == im[d.dst]
  <2>1. I \in IMType /\ InHand(d.dst, I)
    BY <1>1 DEF LockInv, TypeOK, ManagersOK, RouteInv
  <2>2. I.pc = "handle" => I.hand.rec \in Recs
    BY <2>1 DEF InHand, IMType, Message, NoMsg, Signal, Recs
  <2>3. I.pc = "handle" => Num(I.hand.rec) \in Nat
    BY <2>2, NumsTypes
  <2> QED BY <2>3 DEF InHandOf
<1>6. OnWay(d) \in Seq(Nat)
  <2> DEFINE s == net[d.src][d.dst]
  <2>1. s \in Seq(Message)
    BY <1>1 DEF LockInv, TypeOK, NetOK
  <2> HIDE DEF s
  <2>2. Len(s) \in Nat /\ DOMAIN s = 1..Len(s) /\ \A i \in 1..Len(s) : s[i] \in Message
    BY <2>1
  <2>3. \A x \in Message : NetNum(x, d) \in Nat
    <3> SUFFICES ASSUME NEW x \in Message, x.type = "rec" PROVE Num(x.rec) \in Nat
      BY DEF NetNum
    <3>1. x.rec \in Recs
      BY DEF Message, Recs
    <3> QED BY <3>1, NumsTypes
  <2>4. OnWay(d) = [i \in 1..Len(s) |-> NetNum(s[i], d)]
    BY <2>2 DEF OnWay, s
  <2> QED BY <2>2, <2>3, <2>4
<1>7. Nums(out[d].cur) \in Seq(Nat) /\ Nums(out[d].next) \in Seq(Nat)
  <2>1. out[d].cur \in Seq(Recs) /\ out[d].next \in Seq(Recs)
    BY DEF LockInv, TypeOK, NetOK
  <2> QED BY <2>1, NumsTypes
<1> QED BY <1>2, <1>3, <1>4, <1>5, <1>6, <1>7 DEF Line, Lines, Stage

(* The stages of a line one by one.                                        *)
LEMMA LineStages ==
  ASSUME NEW d
  PROVE  /\ Line(d)[1] = got[d] /\ Line(d)[2] = Nums(in[d]) /\ Line(d)[3] = Nums(buf[d].list)
         /\ Line(d)[4] = InHandOf(d) /\ Line(d)[5] = OnWay(d)
         /\ Line(d)[6] = Nums(out[d].cur) /\ Line(d)[7] = Nums(out[d].next)
         /\ (Line(d)')[1] = got'[d] /\ (Line(d)')[2] = Nums(in[d])' /\ (Line(d)')[3] = Nums(buf[d].list)'
         /\ (Line(d)')[4] = InHandOf(d)' /\ (Line(d)')[5] = OnWay(d)'
         /\ (Line(d)')[6] = Nums(out[d].cur)' /\ (Line(d)')[7] = Nums(out[d].next)'
BY DEF Line

(* A stage on which nothing is done.                                       *)
LEMMA SameStages ==
  ASSUME NEW d, plan'.records = plan.records
  PROVE  /\ in'[d] = in[d] => (Line(d)')[2] = Line(d)[2]
         /\ buf'[d].list = buf[d].list => (Line(d)')[3] = Line(d)[3]
         /\ im'[d.dst].pc = im[d.dst].pc /\ im'[d.dst].hand = im[d.dst].hand => (Line(d)')[4] = Line(d)[4]
         /\ net'[d.src][d.dst] = net[d.src][d.dst] => (Line(d)')[5] = Line(d)[5]
         /\ out'[d].cur = out[d].cur => (Line(d)')[6] = Line(d)[6]
         /\ out'[d].next = out[d].next => (Line(d)')[7] = Line(d)[7]
<1>1. \A x : Num(x)' = Num(x)
  BY DEF Num
<1>2. in'[d] = in[d] => Nums(in[d])' = Nums(in[d])
  BY <1>1 DEF Nums
<1>3. buf'[d].list = buf[d].list => Nums(buf[d].list)' = Nums(buf[d].list)
  BY <1>1 DEF Nums
<1>4. im'[d.dst].pc = im[d.dst].pc /\ im'[d.dst].hand = im[d.dst].hand => InHandOf(d)' = InHandOf(d)
  BY <1>1 DEF InHandOf, Num
<1>5. net'[d.src][d.dst] = net[d.src][d.dst] => OnWay(d)' = OnWay(d)
  BY <1>1 DEF OnWay, NetNum, Num
<1>6. out'[d].cur = out[d].cur => Nums(out[d].cur)' = Nums(out[d].cur)
  BY <1>1 DEF Nums
<1>7. out'[d].next = out[d].next => Nums(out[d].next)' = Nums(out[d].next)
  BY <1>1 DEF Nums
<1> QED BY <1>2, <1>3, <1>4, <1>5, <1>6, <1>7, LineStages

-----------------------------------------------------------------------------
(* Messages between the ends of d after a step: those from k on, and       *)
(* others that are no records of its line.                                 *)
Thinned(d, k) ==
  \A i \in DOMAIN net'[d.src][d.dst] :
    \/ net'[d.src][d.dst][i].type = "rec" => net'[d.src][d.dst][i].dest # d
    \/ i + k \in DOMAIN net[d.src][d.dst] /\ net'[d.src][d.dst][i] = net[d.src][d.dst][i + k]

(* What a thinned queue means for the stage of records on the way.         *)
LEMMA ThinnedWay ==
  ASSUME NEW d, plan'.records = plan.records, NEW k, Thinned(d, k)
  PROVE  \A i \in DOMAIN (Line(d)')[5] :
           (Line(d)')[5][i] = 0 \/ (i + k \in DOMAIN Line(d)[5] /\ (Line(d)')[5][i] = Line(d)[5][i + k])
<1>1. \A x : NetNum(x, d)' = NetNum(x, d)
  BY DEF NetNum, Num
<1>2. DOMAIN OnWay(d)' = DOMAIN net'[d.src][d.dst]
  BY DEF OnWay
<1>3. \A i \in DOMAIN net'[d.src][d.dst] : OnWay(d)'[i] = NetNum(net'[d.src][d.dst][i], d)
  BY DEF OnWay, NetNum, Num
<1>4. \A i \in DOMAIN net[d.src][d.dst] : OnWay(d)[i] = NetNum(net[d.src][d.dst][i], d)
  BY DEF OnWay
<1>5. DOMAIN OnWay(d) = DOMAIN net[d.src][d.dst]
  BY DEF OnWay
<1>6. ASSUME NEW i \in DOMAIN net'[d.src][d.dst]
      PROVE  OnWay(d)'[i] = 0 \/ (i + k \in DOMAIN OnWay(d) /\ OnWay(d)'[i] = OnWay(d)[i + k])
  <2>1. CASE net'[d.src][d.dst][i].type = "rec" => net'[d.src][d.dst][i].dest # d
    <3>1. NetNum(net'[d.src][d.dst][i], d) = 0
      BY <2>1 DEF NetNum
    <3> QED BY <1>3, <3>1
  <2>2. CASE i + k \in DOMAIN net[d.src][d.dst] /\ net'[d.src][d.dst][i] = net[d.src][d.dst][i + k]
    BY <1>3, <1>4, <1>5, <2>2
  <2> QED BY <2>1, <2>2 DEF Thinned
<1> QED BY <1>2, <1>6, LineStages

(* What a step may do to the messages of every line but the one it moves a *)
(* record on.                                                              *)
LEMMA ThinnedSame ==
  ASSUME LockInv, NEW d \in Dest, net'[d.src][d.dst] = net[d.src][d.dst]
  PROVE  Thinned(d, 0)
<1>1. d.src \in Node /\ d.dst \in Node
  BY DestFacts DEF LockInv, TypeOK
<1>2. net[d.src][d.dst] \in Seq(Message)
  BY <1>1 DEF LockInv, TypeOK, NetOK
<1>3. \A i \in DOMAIN net[d.src][d.dst] : i + 0 = i
  BY <1>2
<1> QED BY <1>3 DEF Thinned

(* One message more between two nodes, one less.                           *)
LEMMA SentFacts ==
  ASSUME NEW N \in [Node -> [Node -> Seq(Message)]], NEW n \in Node, NEW m \in Node, NEW x \in Message
  PROVE  Sent(N, n, m, <<x>>)[n][m] = Append(N[n][m], x)
<1>1. N[n][m] \in Seq(Message)
  OBVIOUS
<1>2. N[n][m] \o <<x>> = Append(N[n][m], x)
  BY <1>1
<1> QED BY <1>2 DEF Sent

(* A received message leaves its queue and no other.                       *)
LEMMA ReceivedFacts ==
  ASSUME LockInv, NEW n \in Node, NEW m \in Node, NEW a \in Node, NEW b \in Node
  PROVE  /\ a # m \/ b # n => Received(m, n)[a][b] = net[a][b]
         /\ Received(m, n)[m][n] = Tail(net[m][n])
<1>1. net \in [Node -> [Node -> Seq(Message)]]
  BY DEF LockInv, TypeOK, NetOK
<1> DEFINE s == Tail(net[m][n])
<1>2. Received(m, n) = [net EXCEPT ![m] = [net[m] EXCEPT ![n] = s]]
  BY DEF Received
<1> HIDE DEF s
<1>3. Received(m, n)[m][n] = s
  BY <1>1, <1>2
<1>4. a # m \/ b # n => Received(m, n)[a][b] = net[a][b]
  BY <1>1, <1>2
<1> QED BY <1>3, <1>4 DEF s

(* Sending a message that is no record for d only thins the queue of d.    *)
LEMMA ThinnedSent ==
  ASSUME LockInv, NEW n \in Node, NEW m \in Node, NEW x \in Message, NEW d \in Dest,
         x.type = "rec" => x.dest # d, net' = Sent(net, n, m, <<x>>)
  PROVE  Thinned(d, 0)
<1>1. d.src \in Node /\ d.dst \in Node
  BY DestFacts DEF LockInv, TypeOK
<1>2. net \in [Node -> [Node -> Seq(Message)]]
  BY DEF LockInv, TypeOK, NetOK
<1>3. CASE d.src # n \/ d.dst # m
  <2>1. net'[d.src][d.dst] = net[d.src][d.dst]
    BY <1>1, <1>2, <1>3 DEF Sent
  <2> QED BY <2>1, ThinnedSame
<1>4. CASE d.src = n /\ d.dst = m
  <2> DEFINE s == net[n][m]
  <2>1. s \in Seq(Message) /\ net'[n][m] = Append(s, x)
    BY <1>2, SentFacts
  <2> HIDE DEF s
  <2>2. /\ DOMAIN s = 1..Len(s) /\ DOMAIN Append(s, x) = 1..(Len(s) + 1) /\ Len(s) \in Nat
        /\ Append(s, x)[Len(s) + 1] = x /\ \A j \in 1..Len(s) : Append(s, x)[j] = s[j]
    BY <2>1, AppendFacts
  <2>3. ASSUME NEW i \in DOMAIN Append(s, x)
        PROVE  \/ Append(s, x)[i].type = "rec" => Append(s, x)[i].dest # d
               \/ (i + 0 \in DOMAIN s /\ Append(s, x)[i] = s[i + 0])
    <3>1. i \in 1..Len(s) \/ i = Len(s) + 1
      BY <2>2
    <3>2. CASE i = Len(s) + 1
      BY <2>2, <3>2
    <3>3. CASE i \in 1..Len(s)
      <4>1. i + 0 = i
        BY <2>2, <3>3
      <4> QED BY <2>2, <3>3, <4>1
    <3> QED BY <3>1, <3>2, <3>3
  <2>4. PICK t : t = Append(s, x)
    OBVIOUS
  <2>5. net'[d.src][d.dst] = t /\ net[d.src][d.dst] = s
    BY <1>4, <2>1, <2>4 DEF s
  <2>6. \A i \in DOMAIN t : \/ t[i].type = "rec" => t[i].dest # d
                            \/ (i + 0 \in DOMAIN s /\ t[i] = s[i + 0])
    BY <2>3, <2>4
  <2> QED BY <2>5, <2>6 DEF Thinned
<1> QED BY <1>3, <1>4

(* So does receiving one, with or without an answer.                       *)
LEMMA ThinnedReceived ==
  ASSUME LockInv, NEW n \in Node, NEW m \in Node, net[m][n] # << >>, NEW d \in Dest,
         net' = Received(m, n) \/ \E x \in Message : x.type # "rec" /\ net' = Sent(Received(m, n), n, m, <<x>>)
  PROVE  \E k \in Nat : Thinned(d, k)
<1> DEFINE s == net[d.src][d.dst]
           k == IF d.src = m /\ d.dst = n THEN 1 ELSE 0
           r == Received(m, n)[d.src][d.dst]
<1>1. d.src \in Node /\ d.dst \in Node
  BY DestFacts DEF LockInv, TypeOK
<1>2. net \in [Node -> [Node -> Seq(Message)]]
  BY DEF LockInv, TypeOK, NetOK
<1>3. s \in Seq(Message)
  BY <1>1, <1>2
<1>4. k \in Nat /\ r \in Seq(Message) /\ \A i \in DOMAIN r : i + k \in DOMAIN s /\ r[i] = s[i + k]
  <2>1. CASE d.src = m /\ d.dst = n
    <3>1. r = Tail(s) /\ s # << >>
      BY <1>1, <2>1, ReceivedFacts
    <3> HIDE DEF s
    <3>2. /\ Tail(s) \in Seq(Message) /\ Len(s) \in Nat \ {0}
          /\ DOMAIN s = 1..Len(s) /\ DOMAIN Tail(s) = 1..(Len(s) - 1)
          /\ \A j \in 1..(Len(s) - 1) : Tail(s)[j] = s[j + 1]
      BY <1>3, <3>1, TailFacts
    <3> HIDE DEF r
    <3> QED BY <2>1, <3>1, <3>2
  <2>2. CASE d.src # m \/ d.dst # n
    <3>1. r = s /\ k = 0
      BY <1>1, <2>2, ReceivedFacts
    <3> HIDE DEF s, r, k
    <3>2. \A i \in DOMAIN s : i + 0 = i
      BY <1>3
    <3> QED BY <1>3, <3>1, <3>2
  <2> QED BY <2>1, <2>2
<1>5. CASE net' = Received(m, n)
  <2>1. net'[d.src][d.dst] = r
    BY <1>5
  <2> HIDE DEF r, k
  <2>2. Thinned(d, k)
    BY <1>4, <2>1 DEF Thinned
  <2> QED BY <1>4, <2>2
<1>6. CASE \E x \in Message : x.type # "rec" /\ net' = Sent(Received(m, n), n, m, <<x>>)
  <2>1. PICK x \in Message : x.type # "rec" /\ net' = Sent(Received(m, n), n, m, <<x>>)
    BY <1>6
  <2>2. Received(m, n) \in [Node -> [Node -> Seq(Message)]]
    BY <1>2, MessageTaken DEF Received, LockInv, RouteInv
  <2>3. net'[d.src][d.dst] = r \/ net'[d.src][d.dst] = Append(r, x)
    <3> DEFINE N == Received(m, n)
    <3> HIDE DEF N
    <3>1. N \in [Node -> [Node -> Seq(Message)]] /\ net' = Sent(N, n, m, <<x>>) /\ r = N[d.src][d.dst]
      BY <2>1, <2>2 DEF N
    <3> HIDE DEF r
    <3>2. CASE d.src = n /\ d.dst = m
      BY <3>1, <3>2, SentFacts
    <3>3. CASE d.src # n \/ d.dst # m
      BY <1>1, <3>1, <3>3 DEF Sent
    <3> QED BY <3>2, <3>3
  <2> HIDE DEF r, k
  <2>4. /\ DOMAIN r = 1..Len(r) /\ DOMAIN Append(r, x) = 1..(Len(r) + 1) /\ Len(r) \in Nat
        /\ Append(r, x)[Len(r) + 1] = x /\ \A j \in 1..Len(r) : Append(r, x)[j] = r[j]
    BY <1>4, AppendFacts
  <2>5. ASSUME NEW i \in DOMAIN Append(r, x)
        PROVE  Append(r, x)[i].type # "rec" \/ (i \in DOMAIN r /\ Append(r, x)[i] = r[i])
    <3>1. i \in 1..Len(r) \/ i = Len(r) + 1
      BY <2>4
    <3> QED BY <2>1, <2>4, <3>1
  <2>6. ASSUME NEW i \in DOMAIN net'[d.src][d.dst]
        PROVE  \/ net'[d.src][d.dst][i].type # "rec"
               \/ i \in DOMAIN r /\ net'[d.src][d.dst][i] = r[i]
    BY <2>3, <2>5
  <2>7. Thinned(d, k)
    BY <1>4, <2>6 DEF Thinned
  <2> QED BY <1>4, <2>7
<1> QED BY <1>5, <1>6

-----------------------------------------------------------------------------
(* A line after a step that adds no number to it.                          *)
Calm(d) == Ordered(Line(d)') /\ \A x \in Nat : Below(Line(d), x) => Below(Line(d)', x)

(* Both lines of a step are lines.                                         *)
LEMMA BothLines ==
  ASSUME LockInv, LockInv', Dest' = Dest
  PROVE  \A d \in Dest : Line(d) \in Lines /\ Line(d)' \in Lines
<1>1. \A d \in Dest : Line(d) \in Lines
  BY LineTypes
<1>2. (LockInv => \A d \in Dest : Line(d) \in Lines)'
  BY LineTypes, PTL
<1>3. \A d \in Dest : Line(d)' \in Lines
  BY <1>2
<1> QED BY <1>1, <1>3

(* A shift of its line leaves a destination calm.                          *)
LEMMA ShiftCalm ==
  ASSUME IInv, LockInv', Dest' = Dest, NEW d \in Dest,
         NEW a \in Stage, NEW b \in Stage, a < b, NEW p \in Nat, NEW k \in Nat,
         Shift(Line(d), Line(d)', a, b, p, k)
  PROVE  Calm(d)
<1> DEFINE L == Line(d)
           M == Line(d)'
<1>1. L \in Lines /\ M \in Lines /\ Ordered(L)
  BY BothLines DEF IInv, OrderInv
<1> HIDE DEF L, M
<1>2. Shift(L, M, a, b, p, k)
  BY DEF L, M
<1>3. Ordered(M) /\ \A x \in Nat : Below(L, x) => Below(M, x)
  BY <1>1, <1>2, ShiftOrdered
<1> QED BY <1>3 DEF L, M, Calm

(* A line on which only messages that are no records come, or one goes.    *)
LEMMA QuietLine ==
  ASSUME IInv, LockInv', Dest' = Dest, plan'.records = plan.records, NEW d \in Dest,
         got'[d] = got[d], in'[d] = in[d], buf'[d].list = buf[d].list, InHandOf(d)' = InHandOf(d),
         out'[d] = out[d], \E k \in Nat : Thinned(d, k)
  PROVE  Calm(d)
<1> DEFINE L == Line(d)
           M == Line(d)'
<1>1. L \in Lines /\ M \in Lines
  BY BothLines DEF IInv
<1>2. PICK k \in Nat : Thinned(d, k)
  OBVIOUS
<1>3. M[1] = L[1] /\ M[2] = L[2] /\ M[3] = L[3] /\ M[4] = L[4] /\ M[6] = L[6] /\ M[7] = L[7]
  BY SameStages, LineStages
<1>4. \A i \in DOMAIN M[5] : M[5][i] = 0 \/ (i + k \in DOMAIN L[5] /\ M[5][i] = L[5][i + k])
  BY <1>2, ThinnedWay
<1> HIDE DEF L, M
<1>5. 4 \in Stage /\ 5 \in Stage /\ L[4] \in Seq(Nat)
  BY <1>1 DEF Lines, Stage
<1> DEFINE p == Len(L[4])
<1>6. p \in Nat /\ \A i \in DOMAIN L[4] : i <= p
  BY <1>5
<1> HIDE DEF p
<1>7. \A c \in Stage \ {4, 5} : M[c] = L[c]
  BY <1>3 DEF Stage
<1>8. Shift(L, M, 4, 5, p, k)
  <2>1. \A c \in Stage : ~(4 < c /\ c < 5)
    BY DEF Stage
  <2>2. \A i \in DOMAIN M[4] : i <= p /\ i \in DOMAIN L[4] /\ M[4][i] = L[4][i]
    BY <1>3, <1>6
  <2> QED BY <1>4, <1>7, <2>1, <2>2 DEF Shift
<1> QED BY <1>2, <1>5, <1>6, <1>8, ShiftCalm DEF L, M

(* The numbers read so far.                                                *)
LEMMA ReachedTypes == LockInv => \A d \in Dest : Reached(d) \in Nat
<1> SUFFICES ASSUME LockInv, NEW d \in Dest PROVE Reached(d) \in Nat
  OBVIOUS
<1>1. got[d] \in Seq(Nat \ {0})
  BY DEF LockInv, TypeOK, BoxesOK
<1>2. got[d] # << >> => Len(got[d]) \in DOMAIN got[d] /\ got[d][Len(got[d])] \in Nat
  BY <1>1
<1> QED BY <1>2 DEF Reached

(* Reached is a number before and after a step.                            *)
LEMMA BothReached ==
  ASSUME LockInv, LockInv', Dest' = Dest
  PROVE  \A d \in Dest : Reached(d) \in Nat /\ Reached(d)' \in Nat
<1>1. \A d \in Dest : Reached(d) \in Nat
  BY ReachedTypes
<1>2. (LockInv => \A d \in Dest : Reached(d) \in Nat)'
  BY ReachedTypes, PTL
<1> QED BY <1>1, <1>2

(* A bound may be raised.                                                  *)
LEMMA BelowMore ==
  ASSUME NEW L \in Lines, NEW x \in Nat, NEW y \in Nat, x <= y, Below(L, x)
  PROVE  Below(L, y)
<1> SUFFICES ASSUME NEW a \in Stage, NEW i \in DOMAIN L[a] PROVE L[a][i] <= y
  BY DEF Below
<1>1. L[a][i] <= x /\ L[a] \in Seq(Nat)
  BY DEF Below, Lines
<1>2. L[a][i] \in Nat
  BY <1>1
<1> QED BY <1>1, <1>2

(* A step that adds no number to any line keeps the invariant.             *)
LEMMA CalmStep ==
  ASSUME IInv, LockInv', Dest' = Dest, plan'.records = plan.records, UNCHANGED <<made, ended, spare>>,
         \A d \in Dest : Calm(d), MovedInv',
         \A d \in Dest : Reached(d) <= Reached(d)',
         \A d \in Dest : \A i \in DOMAIN held'[d] : held'[d][i].id = Reached(d)'
  PROVE  IInv'
<1>0. /\ \A d \in Dest : Line(d) \in Lines /\ Line(d)' \in Lines
      /\ \A d \in Dest : Reached(d) \in Nat /\ Reached(d)' \in Nat
      /\ made \in Nat
  BY BothLines, BothReached DEF IInv, LockInv, TypeOK, BoxesOK
<1>1. OrderInv'
  BY DEF OrderInv, Calm
<1>2. PassInv'
  <2> SUFFICES ASSUME NEW d \in Dest, NEW e \in Dest, e.dest = d.dest + 1
               PROVE  Below(Line(e)', Reached(d)')
    BY DEF PassInv
  <2>1. Below(Line(e), Reached(d))
    BY DEF IInv, PassInv
  <2>2. Below(Line(e)', Reached(d))
    BY <1>0, <2>1 DEF Calm
  <2> QED BY <1>0, <2>2, BelowMore
<1>3. ProducerInv'
  <2>1. FirstDest' = FirstDest /\ FirstDest \in Dest
    BY DestFacts DEF FirstDest, IInv, LockInv, TypeOK
  <2>2. ~ended => Below(Line(FirstDest)', made)
    BY <1>0, <2>1 DEF IInv, ProducerInv, Calm
  <2>3. ~ended' => Below(Line(FirstDest)', made')
    BY <2>2
  <2> QED BY <2>1, <2>3 DEF IInv, ProducerInv
<1> QED BY <1>1, <1>2, <1>3 DEF IInv

-----------------------------------------------------------------------------
(* The stages of a line after a step.                                      *)
LEMMA NextStages ==
  ASSUME NEW d, plan'.records = plan.records
  PROVE  /\ (Line(d)')[2] = Nums(in'[d]) /\ (Line(d)')[3] = Nums(buf'[d].list)
         /\ (Line(d)')[4] = IF im'[d.dst].pc = "handle" /\ im'[d.dst].hand.dest = d
                            THEN <<Num(im'[d.dst].hand.rec)>> ELSE << >>
         /\ (Line(d)')[5] = [i \in DOMAIN net'[d.src][d.dst] |-> NetNum(net'[d.src][d.dst][i], d)]
         /\ (Line(d)')[6] = Nums(out'[d].cur) /\ (Line(d)')[7] = Nums(out'[d].next)
<1>1. \A x : Num(x)' = Num(x)
  BY DEF Num
<1>2. Nums(in[d])' = Nums(in'[d]) /\ Nums(buf[d].list)' = Nums(buf'[d].list)
  BY <1>1 DEF Nums
<1>3. InHandOf(d)' = IF im'[d.dst].pc = "handle" /\ im'[d.dst].hand.dest = d
                      THEN <<Num(im'[d.dst].hand.rec)>> ELSE << >>
  BY <1>1 DEF InHandOf
<1>4. \A x : NetNum(x, d)' = NetNum(x, d)
  BY <1>1 DEF NetNum
<1>5. OnWay(d)' = [i \in DOMAIN net'[d.src][d.dst] |-> NetNum(net'[d.src][d.dst][i], d)]
  BY <1>4 DEF OnWay
<1>6. Nums(out[d].cur)' = Nums(out'[d].cur) /\ Nums(out[d].next)' = Nums(out'[d].next)
  BY <1>1 DEF Nums
<1> QED BY <1>2, <1>3, <1>5, <1>6, LineStages

(* The numbers of a sequence with one record less, and with one more.      *)
LEMMA NumsTail ==
  ASSUME NEW S, NEW s \in Seq(S), s # << >>
  PROVE  /\ 1 \in DOMAIN Nums(s) /\ Nums(s)[1] = Num(Head(s))
         /\ \A i \in DOMAIN Nums(Tail(s)) : i + 1 \in DOMAIN Nums(s) /\ Nums(Tail(s))[i] = Nums(s)[i + 1]
<1>1. /\ Tail(s) \in Seq(S) /\ Head(s) = s[1] /\ Len(s) \in Nat \ {0}
      /\ DOMAIN s = 1..Len(s) /\ DOMAIN Tail(s) = 1..(Len(s) - 1)
      /\ \A j \in 1..(Len(s) - 1) : Tail(s)[j] = s[j + 1]
  BY TailFacts
<1> QED BY <1>1 DEF Nums

(* The numbers of a sequence with one record more.                         *)
LEMMA NumsAppend ==
  ASSUME NEW S, NEW s \in Seq(S), NEW x \in S
  PROVE  Nums(Append(s, x)) = Append(Nums(s), Num(x))
<1>1. /\ DOMAIN s = 1..Len(s) /\ DOMAIN Append(s, x) = 1..(Len(s) + 1) /\ Len(s) \in Nat
      /\ Append(s, x)[Len(s) + 1] = x /\ \A j \in 1..Len(s) : Append(s, x)[j] = s[j]
  BY AppendFacts
<1> DEFINE t == Nums(s)
           T == {Num(s[i]) : i \in 1..Len(s)} \cup {Num(x)}
<1>2. t = [i \in 1..Len(s) |-> Num(s[i])]
  BY <1>1 DEF Nums
<1>3. t \in Seq(T) /\ Len(t) = Len(s) /\ Num(x) \in T
  BY <1>1, <1>2
<1> HIDE DEF t, T
<1>4. /\ Append(t, Num(x)) \in Seq(T) /\ DOMAIN Append(t, Num(x)) = 1..(Len(s) + 1)
      /\ Append(t, Num(x))[Len(s) + 1] = Num(x) /\ \A j \in 1..Len(s) : Append(t, Num(x))[j] = t[j]
  BY <1>3, AppendFacts
<1>5. Append(t, Num(x)) = [i \in 1..(Len(s) + 1) |-> Append(t, Num(x))[i]]
  <2> DEFINE u == Append(t, Num(x))
  <2>1. u \in Seq(T) /\ DOMAIN u = 1..(Len(s) + 1)
    BY <1>4
  <2> HIDE DEF u
  <2>2. u \in [1..Len(u) -> T] /\ DOMAIN u = 1..Len(u)
    BY <2>1, LenProperties
  <2>3. u = [i \in DOMAIN u |-> u[i]]
    BY <2>2
  <2> QED BY <2>1, <2>3 DEF u
<1>6. Nums(Append(s, x)) = [i \in 1..(Len(s) + 1) |-> Num(Append(s, x)[i])]
  BY <1>1 DEF Nums
<1>7. ASSUME NEW i \in 1..(Len(s) + 1)
      PROVE  Num(Append(s, x)[i]) = Append(t, Num(x))[i]
  <2>1. i \in 1..Len(s) \/ i = Len(s) + 1
    BY <1>1
  <2> QED BY <1>1, <1>2, <1>4, <2>1
<1>8. Nums(Append(s, x)) = Append(t, Num(x))
  BY <1>5, <1>6, <1>7
<1> QED BY <1>8 DEF t

(* Streams with a sync record.                                             *)
LEMMA MovedFrame ==
  ASSUME IInv, NEW d, out'[d] = out[d]
  PROVE  d \in Dest => (~Moved(d)' => out'[d].next = << >>)
BY DEF IInv, MovedInv, Moved

(* A step of an output manager: a record goes from its stream to the       *)
(* network, behind all that is on the way.                                 *)
LEMMA SendingOrder ==
  ASSUME IInv, NEW n \in Node, Sending(n)
  PROVE  IInv'
<1>1. LockInv /\ LockInv' /\ Dest' = Dest
  BY SendingLock, SendingTypes DEF IInv
<1>2. UNCHANGED <<im, buf, cb, plan, begun, made, spare, ended, held, copied, got>>
  BY DEF Sending, imVars, boxVars
<1>3. /\ \A d \in Dest : Reached(d) <= Reached(d)'
      /\ \A d \in Dest : \A i \in DOMAIN held'[d] : held'[d][i].id = Reached(d)'
  <2>1. \A d \in Dest : Reached(d)' = Reached(d) /\ Reached(d) \in Nat
    BY <1>1, <1>2, ReachedTypes DEF Reached
  <2> QED BY <1>2, <2>1 DEF IInv, PassInv
<1>4. plan'.records = plan.records /\ \A d : InHandOf(d)' = InHandOf(d)
  BY <1>2 DEF InHandOf, Num
<1>s. ASSUME MovedInv', \A d \in Dest : Calm(d) PROVE IInv'
  BY <1>1, <1>2, <1>3, <1>s, CalmStep
<1>5. CASE UNCHANGED netVars
  <2>1. UNCHANGED <<net, out, in>>
    BY <1>5 DEF netVars
  <2>2. MovedInv'
    BY <1>1, <2>1, MovedFrame DEF MovedInv
  <2>3. ASSUME NEW d \in Dest PROVE Calm(d)
    <3>1. Thinned(d, 0)
      BY <1>1, <2>1, ThinnedSame
    <3> QED BY <1>1, <1>2, <1>4, <2>1, <3>1, QuietLine
  <2> QED BY <1>s, <2>2, <2>3
<1>6. CASE \E d \in om[n].waiting : OMSync(n, d)
  <2>1. PICK d \in om[n].waiting : OMSync(n, d)
    BY <1>6
  <2>2. d \in Dest /\ out \in [Dest -> [cur: Seq(Recs), next: Seq(Recs)]] /\ in \in [Dest -> Seq(Carried)]
    BY <1>1 DEF LockInv, TypeOK, ManagersOK, OMType, NetOK
  <2>3. out' = [out EXCEPT ![d] = [cur |-> out[d].next, next |-> << >>]] /\ UNCHANGED <<net, in>>
    BY <2>1 DEF OMSync
  <2>4. out'[d].cur = out[d].next /\ out'[d].next = << >> /\ \A e \in Dest \ {d} : out'[e] = out[e]
    BY <2>2, <2>3
  <2>5. MovedInv'
    BY <1>1, <2>4, MovedFrame DEF MovedInv
  <2>6. ASSUME NEW e \in Dest PROVE Calm(e)
    <3>1. CASE e # d
      <4>1. Thinned(e, 0) /\ out'[e] = out[e]
        BY <1>1, <2>3, <2>4, <3>1, ThinnedSame
      <4> QED BY <1>1, <1>2, <1>4, <2>3, <4>1, QuietLine
    <3>2. CASE e = d
      <4> DEFINE L == Line(d)
                 M == Line(d)'
      <4>0. got'[d] = got[d] /\ in'[d] = in[d] /\ buf'[d] = buf[d] /\ im' = im /\ net' = net
        BY <1>2, <2>3
      <4>1. M[1] = L[1] /\ M[2] = L[2] /\ M[3] = L[3] /\ M[4] = L[4] /\ M[5] = L[5]
        BY <1>4, <4>0, SameStages, LineStages
      <4>a. (Line(d)')[6] = Nums(out'[d].cur) /\ (Line(d)')[7] = Nums(out'[d].next)
        BY <1>4, NextStages
      <4>b. Line(d)[7] = Nums(out[d].next)
        BY LineStages
      <4>2. M[6] = L[7] /\ M[7] = Nums(<< >>)
        BY <2>4, <4>a, <4>b
      <4>3. L \in Lines
        BY <1>1, <2>2, BothLines
      <4> HIDE DEF L, M
      <4>4. L[7] \in Seq(Nat) /\ 6 \in Stage /\ 7 \in Stage
        BY <4>3 DEF Lines, Stage
      <4> DEFINE k == Len(L[7])
      <4>5. k \in Nat /\ \A i \in DOMAIN L[7] : i > 0 /\ i - 0 <= k /\ i - 0 = i
        BY <4>4
      <4> HIDE DEF k
      <4>6. Shift(L, M, 6, 7, 0, k)
        <5>1. \A c \in Stage \ {6, 7} : M[c] = L[c]
          BY <4>1 DEF Stage
        <5>2. \A c \in Stage : ~(6 < c /\ c < 7)
          BY DEF Stage
        <5>3. DOMAIN M[7] = {}
          BY <4>2 DEF Nums
        <5>4. \A i \in DOMAIN M[6] : i > 0 /\ i - 0 <= k /\ i - 0 \in DOMAIN L[7] /\ M[6][i] = L[7][i - 0]
          BY <4>2, <4>5
        <5> QED BY <5>1, <5>2, <5>3, <5>4 DEF Shift
      <4>7. Shift(Line(d), Line(d)', 6, 7, 0, k)
        BY <4>6 DEF L, M
      <4>c. k \in Nat /\ 0 \in Nat /\ 6 < 7 /\ d \in Dest /\ LockInv' /\ Dest' = Dest
        BY <1>1, <2>2, <4>5
      <4>8. Calm(d)
        BY <4>4, <4>7, <4>c, ShiftCalm
      <4> QED BY <3>2, <4>8
    <3> QED BY <3>1, <3>2
  <2> QED BY <1>s, <2>5, <2>6
<1>7. CASE \E d \in om[n].waiting : OMTerm(n, d) \/ OMSend(n, d)
  <2>1. PICK d \in om[n].waiting : OMTerm(n, d) \/ OMSend(n, d)
    BY <1>7
  <2>2. /\ d \in Dest /\ out \in [Dest -> [cur: Seq(Recs), next: Seq(Recs)]]
        /\ d.src = n /\ net \in [Node -> [Node -> Seq(Message)]]
    BY <1>1 DEF LockInv, TypeOK, ManagersOK, OMType, NetOK, RouteInv, OwnStreams
  <2> DEFINE s == out[d].cur
             x == Head(s)
             y == RecMsg(d, x)
             w == net[n][d.dst]
  <2>3. /\ s # << >> /\ x.kind \in {"data", "term"}
        /\ out' = [out EXCEPT ![d] = [out[d] EXCEPT !.cur = Tail(s)]]
        /\ net' = Sent(net, n, d.dst, <<y>>) /\ UNCHANGED in
    BY <2>1 DEF OMTerm, OMSend, OMReads, SNetDistribSendRecord
  <2>4. s \in Seq(Recs) /\ x \in Recs /\ d.dst \in Node /\ w \in Seq(Message)
    <3>1. d.dst \in Node
      BY <1>1, <2>2, DestFacts DEF LockInv, TypeOK
    <3> QED BY <2>2, <2>3, <3>1
  <2>5. y \in Message /\ y.type = "rec" /\ y.dest = d /\ y.rec = x
    BY <2>2, <2>3, <2>4 DEF Message, RecMsg, Recs, Carried
  <2>6. out'[d].cur = Tail(s) /\ out'[d].next = out[d].next /\ \A e \in Dest \ {d} : out'[e] = out[e]
    BY <2>2, <2>3
  <2>7. MovedInv'
    <3>1. ASSUME Moved(d) PROVE Moved(d)'
      <4>1. PICK i \in DOMAIN s : s[i] = Sync
        BY <3>1 DEF Moved
      <4>2. i # 1
        BY <2>3, <2>4, <4>1 DEF Sync
      <4>3. i - 1 \in DOMAIN Tail(s) /\ Tail(s)[i - 1] = s[i]
        <5> HIDE DEF s
        <5>1. /\ DOMAIN s = 1..Len(s) /\ DOMAIN Tail(s) = 1..(Len(s) - 1) /\ Len(s) \in Nat \ {0}
              /\ \A j \in 1..(Len(s) - 1) : Tail(s)[j] = s[j + 1]
          BY <2>3, <2>4, TailFacts
        <5>2. i \in 1..Len(s) /\ i - 1 \in 1..(Len(s) - 1) /\ (i - 1) + 1 = i
          BY <4>2, <5>1
        <5> QED BY <5>1, <5>2
      <4> QED BY <2>6, <4>1, <4>3 DEF Moved
    <3>2. ~Moved(d)' => out'[d].next = << >>
      BY <2>2, <2>6, <3>1 DEF IInv, MovedInv
    <3> QED BY <1>1, <2>6, <3>2, MovedFrame DEF MovedInv
  <2> HIDE DEF y
  <2>8. net'[n][d.dst] = Append(w, y)
    BY <2>2, <2>3, <2>4, <2>5, SentFacts
  <2>9. ASSUME NEW e \in Dest PROVE Calm(e)
    <3>1. CASE e # d
      <4>1. Thinned(e, 0)
        BY <1>1, <2>3, <2>4, <2>5, <3>1, ThinnedSent
      <4>2. out'[e] = out[e]
        BY <2>6, <3>1
      <4> QED BY <1>1, <1>2, <1>4, <2>3, <4>1, <4>2, QuietLine
    <3>2. CASE e = d
      <4> DEFINE L == Line(d)
                 M == Line(d)'
      <4>0. /\ got'[d] = got[d] /\ in'[d] = in[d] /\ buf'[d] = buf[d] /\ im' = im
            /\ out'[d].next = out[d].next /\ out'[d].cur = Tail(s)
        BY <1>2, <2>3, <2>6
      <4>1. M[1] = L[1] /\ M[2] = L[2] /\ M[3] = L[3] /\ M[4] = L[4] /\ M[7] = L[7]
        BY <1>4, <4>0, SameStages, LineStages
      <4>a. /\ (Line(d)')[6] = Nums(out'[d].cur)
            /\ (Line(d)')[5] = [i \in DOMAIN net'[d.src][d.dst] |-> NetNum(net'[d.src][d.dst][i], d)]
        BY <1>4, NextStages
      <4>b. Line(d)[6] = Nums(out[d].cur) /\ Line(d)[5] = OnWay(d)
        BY LineStages
      <4>2. M[6] = Nums(Tail(s)) /\ L[6] = Nums(s)
        BY <4>0, <4>a, <4>b
      <4>3. /\ M[5] = [i \in DOMAIN net'[n][d.dst] |-> NetNum(net'[n][d.dst][i], d)]
            /\ L[5] = [i \in DOMAIN w |-> NetNum(w[i], d)]
        BY <2>2, <4>a, <4>b DEF OnWay
      <4>4. L \in Lines
        BY <1>1, <2>2, BothLines
      <4> HIDE DEF L, M, w, s, x
      <4>5. /\ DOMAIN w = 1..Len(w) /\ DOMAIN Append(w, y) = 1..(Len(w) + 1) /\ Len(w) \in Nat
            /\ Append(w, y)[Len(w) + 1] = y /\ \A j \in 1..Len(w) : Append(w, y)[j] = w[j]
        BY <2>4, <2>5, AppendFacts
      <4>6. /\ 1 \in DOMAIN L[6] /\ L[6][1] = Num(x)
            /\ \A i \in DOMAIN M[6] : i + 1 \in DOMAIN L[6] /\ M[6][i] = L[6][i + 1]
        BY <2>3, <2>4, <4>2, NumsTail DEF x
      <4>7. NetNum(y, d) = Num(x)
        BY <2>5 DEF NetNum
      <4>8. M[5] = [i \in DOMAIN Append(w, y) |-> NetNum(Append(w, y)[i], d)]
        BY <2>8, <4>3
      <4>9. ASSUME NEW i \in DOMAIN M[5]
            PROVE  \/ i <= Len(w) /\ i \in DOMAIN L[5] /\ M[5][i] = L[5][i]
                   \/ i > Len(w) /\ i - Len(w) <= 1 /\ i - Len(w) \in DOMAIN L[6] /\ M[5][i] = L[6][i - Len(w)]
        <5>1. i \in 1..(Len(w) + 1)
          BY <4>5, <4>8
        <5>2. CASE i \in 1..Len(w)
          BY <4>3, <4>5, <4>8, <5>2
        <5>3. CASE i = Len(w) + 1
          <6>1. M[5][i] = Num(x)
            BY <4>5, <4>7, <4>8, <5>3
          <6>2. i - Len(w) = 1 /\ i > Len(w)
            BY <4>5, <5>3
          <6> QED BY <4>6, <6>1, <6>2
        <5> QED BY <4>5, <5>1, <5>2, <5>3
      <4>10. Shift(L, M, 5, 6, Len(w), 1)
        <5>1. \A c \in Stage \ {5, 6} : M[c] = L[c]
          BY <4>1 DEF Stage
        <5>2. \A c \in Stage : ~(5 < c /\ c < 6)
          BY DEF Stage
        <5> QED BY <4>6, <4>9, <5>1, <5>2 DEF Shift
      <4>11. 5 \in Stage /\ 6 \in Stage /\ 1 \in Nat
        BY DEF Stage
      <4>12. Shift(Line(d), Line(d)', 5, 6, Len(w), 1)
        BY <4>10 DEF L, M
      <4>c. Len(w) \in Nat /\ 5 < 6 /\ d \in Dest /\ LockInv' /\ Dest' = Dest
        BY <1>1, <2>2, <4>5
      <4>13. Calm(d)
        BY <4>11, <4>12, <4>c, ShiftCalm
      <4> QED BY <3>2, <4>13
    <3> QED BY <3>1, <3>2
  <2> QED BY <1>s, <2>7, <2>9
<1> QED BY <1>5, <1>6, <1>7
        DEF Sending, SNetOutputManager, OMStart, OMWakeup, OMUpdateOutgoing, OMBlock, OMUnblock, OMExit

(* A step that moves no record at all.                                     *)
LEMMA QuietStep ==
  ASSUME IInv, LockInv', Dest' = Dest, plan'.records = plan.records,
         UNCHANGED <<out, in, got, made, ended, spare>>,
         \A d \in Dest : buf'[d].list = buf[d].list,
         \A d \in Dest : InHandOf(d)' = InHandOf(d),
         \A d \in Dest : \E k \in Nat : Thinned(d, k),
         \A d \in Dest : \A i \in DOMAIN held'[d] : \E j \in DOMAIN held[d] : held'[d][i] = held[d][j]
  PROVE  IInv'
<1>1. \A d \in Dest : Reached(d)' = Reached(d) /\ Reached(d) \in Nat
  BY ReachedTypes DEF Reached, IInv
<1>2. \A d \in Dest : Reached(d) <= Reached(d)'
  BY <1>1
<1>3. \A d \in Dest : \A i \in DOMAIN held'[d] : held'[d][i].id = Reached(d)'
  BY <1>1 DEF IInv, PassInv
<1>4. MovedInv'
  BY MovedFrame DEF MovedInv
<1>5. ASSUME NEW d \in Dest PROVE Calm(d)
  <2>1. got'[d] = got[d] /\ in'[d] = in[d] /\ out'[d] = out[d]
    OBVIOUS
  <2>2. buf'[d].list = buf[d].list /\ InHandOf(d)' = InHandOf(d) /\ \E k \in Nat : Thinned(d, k)
    OBVIOUS
  <2> QED BY <2>1, <2>2, QuietLine
<1>6. UNCHANGED <<made, ended, spare>>
  OBVIOUS
<1> QED BY <1>2, <1>3, <1>4, <1>5, <1>6, CalmStep

(* A manager with no record in hand before and after.                      *)
LEMMA HandsFree ==
  ASSUME LockInv, NEW n \in Node, NEW J, im' = [im EXCEPT ![n] = J], plan'.records = plan.records,
         (J.pc # "handle" /\ im[n].pc # "handle") \/ (J.pc = im[n].pc /\ J.hand = im[n].hand)
  PROVE  \A d \in Dest : InHandOf(d)' = InHandOf(d)
<1> SUFFICES ASSUME NEW d \in Dest PROVE InHandOf(d)' = InHandOf(d)
  OBVIOUS
<1>1. im \in [Node -> IMType] /\ d.dst \in Node
  BY DestFacts DEF LockInv, TypeOK, ManagersOK
<1>2. \A x : Num(x)' = Num(x)
  BY DEF Num
<1>3. im'[d.dst] = IF d.dst = n THEN J ELSE im[d.dst]
  BY <1>1
<1> QED BY <1>2, <1>3 DEF InHandOf

(* The reader's callback keeps the order of records.                       *)
LEMMA CallbackOrder ==
  ASSUME IInv, NEW d \in Dest, Callback(d)
  PROVE  IInv'
<1> DEFINE n == d.dst
<1>1. LockInv /\ LockInv' /\ Dest' = Dest
  BY CallbackLock, CallbackTypes DEF IInv
<1>2. UNCHANGED <<plan, begun, made, spare, ended, held, copied, got>>
  BY DEF Callback, boxVars
<1>3. /\ buf \in [Dest -> BufType] /\ im \in [Node -> IMType] /\ n \in Node
      /\ net \in [Node -> [Node -> Seq(Message)]]
  BY <1>1, DestFacts DEF LockInv, TypeOK, ManagersOK, NetOK
<1>4. UNCHANGED <<out, in>>
  BY DEF Callback, ReadCallback, CallbackCount, CallbackUnblock, netVars
<1>5. \A e \in Dest : buf'[e].list = buf[e].list
  <2>1. PICK B : buf' = [buf EXCEPT ![d] = B] /\ B.list = buf[d].list
    <3>1. CASE CallbackCount(n, d)
      <4> DEFINE c == buf[d].counter - 1
                 wait == c = 0 /\ buf[d].list # << >>
                 B == [buf[d] EXCEPT !.counter = c, !.lock = IF wait THEN "reader" ELSE "free",
                                     !.freed = c = 0 /\ ~wait /\ buf[d].done]
      <4>1. buf' = [buf EXCEPT ![d] = B]
        BY <3>1 DEF CallbackCount
      <4>2. B.list = buf[d].list
        BY <1>3 DEF BufType
      <4> HIDE DEF B
      <4> QED BY <4>1, <4>2
    <3>2. CASE CallbackUnblock(n, d)
      <4> DEFINE B == [buf[d] EXCEPT !.lock = "free"]
      <4>1. buf' = [buf EXCEPT ![d] = B]
        BY <3>2 DEF CallbackUnblock
      <4>2. B.list = buf[d].list
        BY <1>3 DEF BufType
      <4> HIDE DEF B
      <4> QED BY <4>1, <4>2
    <3> QED BY <3>1, <3>2 DEF Callback, ReadCallback
  <2> QED BY <1>3, <2>1
<1>6. (\A e \in Dest : InHandOf(e)' = InHandOf(e)) /\ (\A e \in Dest : \E k \in Nat : Thinned(e, k))
  <2>1. CASE CallbackCount(n, d)
    <3>1. UNCHANGED <<net, im>>
      BY <2>1 DEF CallbackCount, netVars
    <3>2. \A e \in Dest : InHandOf(e)' = InHandOf(e)
      BY <1>2, <3>1 DEF InHandOf, Num
    <3>3. \A e \in Dest : Thinned(e, 0)
      BY <1>1, <3>1, ThinnedSame
    <3> QED BY <3>2, <3>3
  <2>2. CASE CallbackUnblock(n, d)
    <3> DEFINE J == [im[n] EXCEPT !.unblocked = Append(im[n].unblocked, d)]
               x == Signal("update")
    <3>1. im' = [im EXCEPT ![n] = J] /\ (net' = net \/ net' = Sent(net, n, n, <<x>>))
      BY <2>2 DEF CallbackUnblock, IMGoto
    <3>2. J.pc = im[n].pc /\ J.hand = im[n].hand
      BY <1>3 DEF IMType
    <3>3. x \in Message /\ x.type # "rec"
      BY DEF Message, Signal
    <3> HIDE DEF J, x
    <3>4. \A e \in Dest : InHandOf(e)' = InHandOf(e)
      BY <1>1, <1>2, <1>3, <3>1, <3>2, HandsFree
    <3>5. \A e \in Dest : Thinned(e, 0)
      <4>1. CASE net' = net
        BY <1>1, <4>1, ThinnedSame
      <4>2. CASE net' = Sent(net, n, n, <<x>>)
        BY <1>1, <1>3, <3>3, <4>2, ThinnedSent
      <4> QED BY <3>1, <4>1, <4>2
    <3> QED BY <3>4, <3>5
  <2> QED BY <2>1, <2>2 DEF Callback, ReadCallback
<1>7. \A e \in Dest : \A i \in DOMAIN held'[e] : \E j \in DOMAIN held[e] : held'[e][i] = held[e][j]
  BY <1>2
<1>8. plan'.records = plan.records /\ UNCHANGED <<out, in, got, made, ended, spare>>
  BY <1>2, <1>4
<1> QED BY <1>1, <1>5, <1>6, <1>7, <1>8, QuietStep

-----------------------------------------------------------------------------
(* The steps of an input manager that move no record of a line.            *)
LEMMA ReceivingQuiet ==
  ASSUME IInv, NEW n \in Node, Receiving(n),
         ~HandleRecord(n), ~Drain(n), ~ \E m \in Node : RecvRecord(n, m, plan.path)
  PROVE  IInv'
<1> DEFINE I == im[n]
<1>1. LockInv /\ LockInv' /\ Dest' = Dest
  BY ReceivingLock, ReceivingTypes DEF IInv
<1>2. UNCHANGED <<plan, begun, made, spare, ended, held, copied, got>>
  BY DEF Receiving, boxVars
<1>3. im \in [Node -> IMType] /\ I \in IMType /\ net \in [Node -> [Node -> Seq(Message)]]
  BY <1>1 DEF LockInv, TypeOK, ManagersOK, NetOK
<1>4. ASSUME UNCHANGED <<out, in, buf>>,
             \A e \in Dest : InHandOf(e)' = InHandOf(e), \A e \in Dest : \E k \in Nat : Thinned(e, k)
      PROVE  IInv'
  <2>1. \A e \in Dest : \A i \in DOMAIN held'[e] : \E j \in DOMAIN held[e] : held'[e][i] = held[e][j]
    BY <1>2
  <2>2. plan'.records = plan.records /\ UNCHANGED <<out, in, got, made, ended, spare>>
    BY <1>2, <1>4
  <2>3. \A e \in Dest : buf'[e].list = buf[e].list
    BY <1>4
  <2> QED BY <1>1, <1>4, <2>1, <2>2, <2>3, QuietStep
<1>5. plan'.records = plan.records
  BY <1>2
<1>6. ASSUME NEW m \in Node, net[m][n] # << >>, net' = Received(m, n) PROVE \A e \in Dest : \E k \in Nat : Thinned(e, k)
  BY <1>1, <1>6, ThinnedReceived
<1>7. CASE RecvUpdate(n) \/ LockUnblocked(n) \/ UnlockUnblocked(n) \/ IMStop(n)
  <2>1. PICK J : im' = [im EXCEPT ![n] = J] /\ J.pc # "handle"
    <3>1. \/ im' = [im EXCEPT ![n] = [I EXCEPT !.pc = "update"]]
          \/ im' = [im EXCEPT ![n] = [I EXCEPT !.pc = "drain", !.lock = "manager"]]
          \/ im' = [im EXCEPT ![n] = [I EXCEPT !.pc = "recv", !.lock = "free"]]
          \/ im' = [im EXCEPT ![n] = [I EXCEPT !.pc = "done"]]
      BY <1>7 DEF RecvUpdate, LockUnblocked, UnlockUnblocked, IMStop, IMGoto
    <3>2. /\ [I EXCEPT !.pc = "update"].pc # "handle"
          /\ [I EXCEPT !.pc = "drain", !.lock = "manager"].pc # "handle"
          /\ [I EXCEPT !.pc = "recv", !.lock = "free"].pc # "handle"
          /\ [I EXCEPT !.pc = "done"].pc # "handle"
      BY <1>3 DEF IMType
    <3> QED BY <3>1, <3>2
  <2>2. I.pc # "handle" /\ UNCHANGED <<out, in, buf>>
    BY <1>7 DEF RecvUpdate, Receives, LockUnblocked, UnlockUnblocked, IMStop, netVars
  <2>3. \A e \in Dest : InHandOf(e)' = InHandOf(e)
    BY <1>1, <1>5, <2>1, <2>2, HandsFree
  <2>4. net' = net \/ (net[n][n] # << >> /\ net' = Received(n, n))
    BY <1>7 DEF RecvUpdate, Receives, LockUnblocked, UnlockUnblocked, IMStop, netVars
  <2>5. \A e \in Dest : \E k \in Nat : Thinned(e, k)
    <3>1. CASE net' = net
      <4>1. \A e \in Dest : Thinned(e, 0)
        BY <1>1, <3>1, ThinnedSame
      <4> QED BY <4>1
    <3>2. CASE net[n][n] # << >> /\ net' = Received(n, n)
      BY <1>6, <3>2
    <3> QED BY <2>4, <3>1, <3>2
  <2> QED BY <1>4, <2>2, <2>3, <2>5
<1>8. CASE \E m \in Node : RecvStop(n, m)
  <2>1. PICK m \in Node : RecvStop(n, m)
    BY <1>8
  <2> DEFINE J == [I EXCEPT !.pc = "stopping", !.failed = @ \/ I.map # {}]
  <2>2. /\ I.pc = "recv" /\ net[m][n] # << >> /\ net' = Received(m, n)
        /\ im' = [im EXCEPT ![n] = J] /\ UNCHANGED <<out, in, buf>>
    BY <2>1 DEF RecvStop, Receives, IMGoto
  <2>3. J.pc # "handle"
    BY <1>3 DEF IMType
  <2> HIDE DEF J
  <2>4. \A e \in Dest : InHandOf(e)' = InHandOf(e)
    BY <1>1, <1>5, <2>2, <2>3, HandsFree
  <2> QED BY <1>4, <1>6, <2>2, <2>4
<1>9. CASE \E m \in Node : RecvBlock(n, m) \/ RecvRefSet(n, m) \/ RecvRefUpdate(n, m) \/ RecvRefFetch(n, m)
  <2>1. PICK m \in Node : RecvBlock(n, m) \/ RecvRefSet(n, m) \/ RecvRefUpdate(n, m) \/ RecvRefFetch(n, m)
    BY <1>9
  <2>2. UNCHANGED <<out, in, im, buf>> /\ net[m][n] # << >>
    BY <2>1 DEF RecvBlock, RecvRefSet, RecvRefUpdate, RecvRefFetch, Receives, imVars
  <2>3. \A e \in Dest : InHandOf(e)' = InHandOf(e)
    BY <1>5, <2>2 DEF InHandOf, Num
  <2>4. net' = Received(m, n) \/ \E x \in Message : x.type # "rec" /\ net' = Sent(Received(m, n), n, m, <<x>>)
    <3>1. CASE ~RecvRefFetch(n, m)
      BY <2>1, <3>1 DEF RecvBlock, RecvRefSet, RecvRefUpdate
    <3>2. CASE RecvRefFetch(n, m)
      <4> DEFINE r == Head(net[m][n]).ref
                 x == RefMsg("ref_set", r, refs.id[r.key])
      <4>1. net' = Sent(Received(m, n), n, m, <<x>>)
        BY <3>2 DEF RecvRefFetch
      <4>2. Head(net[m][n]) \in Message /\ Head(net[m][n]).type = "ref_fetch"
        <5>1. Receives(n, m, {"ref_fetch"})
          BY <3>2 DEF RecvRefFetch
        <5> QED BY <1>1, <5>1, TakenTypes
      <4>3. r \in Ref
        BY <4>2 DEF Message
      <4>4. refs.id[r.key] \in Nat
        BY <1>1, <4>3 DEF LockInv, TypeOK, RefsType, Ref
      <4>5. x \in Message /\ x.type = "ref_set"
        BY <4>3, <4>4 DEF Message, RefMsg
      <4> HIDE DEF x
      <4> QED BY <4>1, <4>5
    <3> QED BY <3>1, <3>2
  <2>5. \A e \in Dest : \E k \in Nat : Thinned(e, k)
    BY <1>1, <2>2, <2>4, ThinnedReceived
  <2> QED BY <1>4, <2>2, <2>3, <2>5
<1> QED BY <1>7, <1>8, <1>9 DEF Receiving, SNetInputManager

(* What an input manager leaves alone.                                     *)
LEMMA ReceivingFrame ==
  ASSUME IInv, NEW n \in Node, Receiving(n)
  PROVE  /\ LockInv /\ LockInv' /\ Dest' = Dest
         /\ UNCHANGED <<out, plan, begun, made, spare, ended, held, copied, got>>
         /\ im \in [Node -> IMType] /\ im[n] \in IMType /\ InHand(n, im[n])
         /\ net \in [Node -> [Node -> Seq(Message)]]
         /\ in \in [Dest -> Seq(Carried)] /\ buf \in [Dest -> BufType]
         /\ (\A d \in Dest : Calm(d)) => IInv'
<1>1. LockInv /\ LockInv' /\ Dest' = Dest
  BY ReceivingLock, ReceivingTypes DEF IInv
<1>2. UNCHANGED <<plan, begun, made, spare, ended, held, copied, got>>
  BY DEF Receiving, boxVars
<1>3. UNCHANGED out
  BY DEF Receiving, SNetInputManager, HandleRecord, RecvUpdate, LockUnblocked, Drain, UnlockUnblocked, IMStop,
         RecvRecord, RecvBlock, RecvRefSet, RecvRefUpdate, RecvRefFetch, RecvStop, netVars
<1>4. /\ im \in [Node -> IMType] /\ im[n] \in IMType /\ InHand(n, im[n])
      /\ net \in [Node -> [Node -> Seq(Message)]]
      /\ in \in [Dest -> Seq(Carried)] /\ buf \in [Dest -> BufType]
  BY <1>1 DEF LockInv, TypeOK, ManagersOK, NetOK, RouteInv
<1>5. ASSUME \A d \in Dest : Calm(d) PROVE IInv'
  <2>1. \A d \in Dest : Reached(d)' = Reached(d) /\ Reached(d) \in Nat
    BY <1>1, <1>2, ReachedTypes DEF Reached
  <2>2. \A d \in Dest : Reached(d) <= Reached(d)'
    BY <2>1
  <2>3. \A d \in Dest : \A i \in DOMAIN held'[d] : held'[d][i].id = Reached(d)'
    BY <1>2, <2>1 DEF IInv, PassInv
  <2>4. MovedInv'
    BY <1>1, <1>3, MovedFrame DEF MovedInv
  <2>5. plan'.records = plan.records /\ UNCHANGED <<made, ended, spare>>
    BY <1>2
  <2> QED BY <1>1, <1>5, <2>2, <2>3, <2>4, <2>5, CalmStep
<1> QED BY <1>1, <1>2, <1>3, <1>4, <1>5

(* A record is taken from the network into the manager's hand.             *)
LEMMA RecvRecordOrder ==
  ASSUME IInv, NEW n \in Node, Receiving(n), NEW m \in Node, RecvRecord(n, m, plan.path)
  PROVE  IInv'
<1> DEFINE I == im[n]
           w == net[m][n]
           x == Head(w)
           known == I.map \cup I.newStreams
           J == [I EXCEPT !.pc = "handle", !.hand = x, !.newStreams = {},
                          !.map = known \cup (IF x.dest \notin known THEN Routes(plan.path, n).ins ELSE {})]
<1>1. /\ LockInv /\ LockInv' /\ Dest' = Dest
      /\ UNCHANGED <<out, plan, begun, made, spare, ended, held, copied, got>>
      /\ im \in [Node -> IMType] /\ I \in IMType /\ net \in [Node -> [Node -> Seq(Message)]]
  BY ReceivingFrame
<1>2. /\ I.pc = "recv" /\ w # << >> /\ net' = Received(m, n) /\ im' = [im EXCEPT ![n] = J]
      /\ UNCHANGED <<in, buf>>
  BY DEF RecvRecord, Receives, IMGoto
<1>3. x \in Message /\ x.type = "rec" /\ x.dest.src = m /\ x.dest.dst = n
  <2>1. Receives(n, m, {"rec"})
    BY DEF RecvRecord
  <2>2. x \in Message /\ x.type \in {"rec"} /\ RoutedMsg(x, m, n)
    BY <1>1, <2>1, TakenTypes
  <2> QED BY <2>2 DEF RoutedMsg
<1>4. x.dest \in Dest
  BY <1>3 DEF Message
<1>5. PICK d \in Dest : d = x.dest
  BY <1>4
<1>6. J.pc = "handle" /\ J.hand = x
  BY <1>1 DEF IMType
<1> HIDE DEF J
<1>7. im'[n] = J /\ (\A e \in Dest : e.dst # n => im'[e.dst] = im[e.dst])
  <2>1. \A e \in Dest : e.dst \in Node
    BY <1>1, DestFacts DEF LockInv, TypeOK
  <2> QED BY <1>1, <1>2, <2>1
<1>8. plan'.records = plan.records /\ \A y : Num(y)' = Num(y)
  BY <1>1 DEF Num
<1>9. ASSUME NEW e \in Dest PROVE Calm(e)
  <2>1. CASE e # d
    <3>1. InHandOf(e)' = InHandOf(e)
      <4>1. CASE e.dst = n
        BY <1>2, <1>5, <1>6, <1>7, <2>1, <4>1 DEF InHandOf
      <4>2. CASE e.dst # n
        <5>1. im'[e.dst] = im[e.dst]
          BY <1>7, <4>2
        <5> QED BY <1>8, <5>1 DEF InHandOf
      <4> QED BY <4>1, <4>2
    <3>2. \E k \in Nat : Thinned(e, k)
      BY <1>1, <1>2, ThinnedReceived
    <3>3. got'[e] = got[e] /\ in'[e] = in[e] /\ buf'[e].list = buf[e].list /\ out'[e] = out[e]
      BY <1>1, <1>2
    <3> QED BY <1>1, <1>8, <3>1, <3>2, <3>3, QuietLine
  <2>2. CASE e = d
    <3> DEFINE L == Line(d)
               M == Line(d)'
    <3>0. /\ got'[d] = got[d] /\ in'[d] = in[d] /\ buf'[d].list = buf[d].list
          /\ out'[d].cur = out[d].cur /\ out'[d].next = out[d].next
      BY <1>1, <1>2
    <3>1. M[1] = L[1] /\ M[2] = L[2] /\ M[3] = L[3] /\ M[6] = L[6] /\ M[7] = L[7]
      BY <1>8, <3>0, SameStages, LineStages
    <3>2. M[4] = <<Num(x.rec)>>
      <4>1. (Line(d)')[4] = IF im'[d.dst].pc = "handle" /\ im'[d.dst].hand.dest = d
                            THEN <<Num(im'[d.dst].hand.rec)>> ELSE << >>
        BY <1>8, NextStages
      <4>2. im'[d.dst].pc = "handle" /\ im'[d.dst].hand = x /\ x.dest = d
        BY <1>3, <1>5, <1>6, <1>7
      <4> QED BY <4>1, <4>2
    <3>3. /\ w \in Seq(Message) /\ net'[m][n] = Tail(w)
      BY <1>1, <1>2, ReceivedFacts
    <3>4. /\ M[5] = [i \in DOMAIN Tail(w) |-> NetNum(Tail(w)[i], d)]
          /\ L[5] = [i \in DOMAIN w |-> NetNum(w[i], d)]
      <4>1. (Line(d)')[5] = [i \in DOMAIN net'[d.src][d.dst] |-> NetNum(net'[d.src][d.dst][i], d)]
        BY <1>8, NextStages
      <4>2. Line(d)[5] = OnWay(d)
        BY LineStages
      <4>3. d.src = m /\ d.dst = n
        BY <1>3, <1>5
      <4> QED BY <3>3, <4>1, <4>2, <4>3 DEF OnWay
    <3> HIDE DEF L, M, w
    <3>5. /\ x = w[1] /\ Len(w) \in Nat \ {0}
          /\ DOMAIN w = 1..Len(w) /\ DOMAIN Tail(w) = 1..(Len(w) - 1)
          /\ \A j \in 1..(Len(w) - 1) : Tail(w)[j] = w[j + 1]
      BY <1>2, <3>3, TailFacts
    <3>6. /\ 1 \in DOMAIN L[5] /\ L[5][1] = Num(x.rec)
          /\ \A i \in DOMAIN M[5] : i + 1 \in DOMAIN L[5] /\ M[5][i] = L[5][i + 1]
      <4>1. NetNum(x, d) = Num(x.rec)
        BY <1>3, <1>5 DEF NetNum
      <4> QED BY <3>4, <3>5, <4>1
    <3>7. \A i \in DOMAIN M[4] : i > 0 /\ i - 0 <= 1 /\ i - 0 \in DOMAIN L[5] /\ M[4][i] = L[5][i - 0]
      BY <3>2, <3>6
    <3>8. Shift(L, M, 4, 5, 0, 1)
      <4>1. \A c \in Stage \ {4, 5} : M[c] = L[c]
        BY <3>1 DEF Stage
      <4>2. \A c \in Stage : ~(4 < c /\ c < 5)
        BY DEF Stage
      <4> QED BY <3>6, <3>7, <4>1, <4>2 DEF Shift
    <3>9. Shift(Line(d), Line(d)', 4, 5, 0, 1)
      BY <3>8 DEF L, M
    <3>10. 4 \in Stage /\ 5 \in Stage /\ 0 \in Nat /\ 1 \in Nat /\ 4 < 5 /\ LockInv' /\ Dest' = Dest
      BY <1>1 DEF Stage
    <3>11. Calm(d)
      BY <3>9, <3>10, ShiftCalm
    <3> QED BY <2>2, <3>11
  <2> QED BY <2>1, <2>2
<1> QED BY <1>9, ReceivingFrame

(* A stage with one number more at its end.                                *)
LEMMA AppendedStage ==
  ASSUME NEW s \in Seq(Nat), NEW x \in Nat
  PROVE  /\ Len(s) \in Nat
         /\ \A i \in DOMAIN Append(s, x) :
              \/ i <= Len(s) /\ i \in DOMAIN s /\ Append(s, x)[i] = s[i]
              \/ i > Len(s) /\ i - Len(s) <= 1 /\ i - Len(s) = 1 /\ Append(s, x)[i] = x
<1>1. /\ DOMAIN s = 1..Len(s) /\ DOMAIN Append(s, x) = 1..(Len(s) + 1) /\ Len(s) \in Nat
      /\ Append(s, x)[Len(s) + 1] = x /\ \A j \in 1..Len(s) : Append(s, x)[j] = s[j]
  BY AppendFacts
<1>2. ASSUME NEW i \in DOMAIN Append(s, x)
      PROVE  \/ i <= Len(s) /\ i \in DOMAIN s /\ Append(s, x)[i] = s[i]
             \/ i > Len(s) /\ i - Len(s) <= 1 /\ i - Len(s) = 1 /\ Append(s, x)[i] = x
  <2>1. i \in 1..Len(s) \/ i = Len(s) + 1
    BY <1>1
  <2> QED BY <1>1, <2>1
<1> QED BY <1>1, <1>2

(* The record in hand goes into the stream if nothing waits in the list,   *)
(* and else to the end of the list.                                        *)
LEMMA HandleRecordOrder ==
  ASSUME IInv, NEW n \in Node, Receiving(n), HandleRecord(n)
  PROVE  IInv'
<1> DEFINE I == im[n]
           x == I.hand.rec
<1>1. /\ LockInv /\ LockInv' /\ Dest' = Dest
      /\ UNCHANGED <<out, plan, begun, made, spare, ended, held, copied, got>>
      /\ im \in [Node -> IMType] /\ I \in IMType /\ InHand(n, I)
      /\ net \in [Node -> [Node -> Seq(Message)]]
      /\ in \in [Dest -> Seq(Carried)] /\ buf \in [Dest -> BufType]
  BY ReceivingFrame
<1>2. I.pc = "handle" /\ I.hand \in Message /\ I.hand.type = "rec" /\ I.hand.dest.dst = n
  BY <1>1 DEF HandleRecord, InHand, IMType, NoMsg, Signal
<1>3. I.hand.dest \in Dest /\ x \in Carried
  BY <1>2 DEF Message
<1>4. PICK d \in Dest : d = I.hand.dest
  BY <1>3
<1> DEFINE q == buf[d].list
           room == q = << >> /\ Len(in[d]) < inCap
           B == [buf[d] EXCEPT !.done = @ \/ x.kind = "term",
                               !.counter = IF room THEN @ + 1 ELSE @,
                               !.list = IF room THEN @ ELSE Append(@, x)]
           J == [I EXCEPT !.pc = "recv", !.hand = NoMsg, !.failed = @ \/ d \notin I.map,
                          !.map = IF x.kind = "term" THEN @ \ {d} ELSE @]
           y == DestMsg("block", d)
<1>5. /\ buf' = [buf EXCEPT ![d] = B]
      /\ in' = (IF room THEN [in EXCEPT ![d] = Append(in[d], x)] ELSE in)
      /\ im' = [im EXCEPT ![n] = J] /\ (net' = net \/ net' = Sent(net, n, d.src, <<y>>))
  BY <1>4 DEF HandleRecord, IMGoto
<1>6. d.src \in Node /\ d.dst = n /\ \A e \in Dest : e.dst \in Node
  <2>1. d.dst = n
    BY <1>2, <1>4
  <2>2. \A e \in Dest : e.src \in Node /\ e.dst \in Node
    BY <1>1, DestFacts DEF LockInv, TypeOK
  <2> QED BY <2>1, <2>2
<1>7. J.pc = "recv" /\ B.list = IF room THEN q ELSE Append(q, x)
  <2>1. J.pc = "recv"
    BY <1>1 DEF IMType
  <2>2. buf[d] \in BufType
    BY <1>1
  <2>3. B.list = IF room THEN q ELSE Append(q, x)
    BY <2>2 DEF BufType
  <2> QED BY <2>1, <2>3
<1> HIDE DEF J, B
<1>8. /\ im'[n] = J /\ (\A e \in Dest : e.dst # n => im'[e.dst] = im[e.dst])
      /\ buf'[d] = B /\ (\A e \in Dest \ {d} : buf'[e] = buf[e] /\ in'[e] = in[e])
      /\ in'[d] = IF room THEN Append(in[d], x) ELSE in[d]
  <2>1. im'[n] = J /\ (\A e \in Dest : e.dst # n => im'[e.dst] = im[e.dst])
    BY <1>1, <1>5, <1>6
  <2>2. buf'[d] = B /\ (\A e \in Dest \ {d} : buf'[e] = buf[e] /\ in'[e] = in[e])
    BY <1>1, <1>5
  <2>3. in'[d] = IF room THEN Append(in[d], x) ELSE in[d]
    BY <1>1, <1>5
  <2> QED BY <2>1, <2>2, <2>3
<1>9. plan'.records = plan.records /\ \A z : Num(z)' = Num(z)
  BY <1>1 DEF Num
<1>10. \A e \in Dest : Thinned(e, 0)
  <2>1. CASE net' = net
    BY <1>1, <2>1, ThinnedSame
  <2>2. CASE net' = Sent(net, n, d.src, <<y>>)
    <3>1. y \in Message /\ y.type # "rec"
      BY DEF Message, DestMsg
    <3> HIDE DEF y
    <3> QED BY <1>1, <1>6, <2>2, <3>1, ThinnedSent
  <2> QED BY <1>5, <2>1, <2>2
<1>11. ASSUME NEW e \in Dest PROVE Calm(e)
  <2>1. CASE e # d
    <3>1. InHandOf(e)' = InHandOf(e)
      <4>1. CASE e.dst = n
        <5>1. im'[e.dst].pc # "handle" /\ im[e.dst].hand.dest # e
          BY <1>4, <1>7, <1>8, <2>1, <4>1
        <5> QED BY <5>1 DEF InHandOf
      <4>2. CASE e.dst # n
        <5>1. im'[e.dst] = im[e.dst]
          BY <1>8, <4>2
        <5> QED BY <1>9, <5>1 DEF InHandOf
      <4> QED BY <4>1, <4>2
    <3>2. \E k \in Nat : Thinned(e, k)
      BY <1>10
    <3>3. got'[e] = got[e] /\ in'[e] = in[e] /\ buf'[e].list = buf[e].list /\ out'[e] = out[e]
      BY <1>1, <1>8, <2>1
    <3> QED BY <1>1, <1>9, <3>1, <3>2, <3>3, QuietLine
  <2>2. CASE e = d
    <3> DEFINE L == Line(d)
               M == Line(d)'
    <3>0. got'[d] = got[d] /\ out'[d].cur = out[d].cur /\ out'[d].next = out[d].next
      BY <1>1
    <3>1. M[1] = L[1] /\ M[6] = L[6] /\ M[7] = L[7]
      BY <1>9, <3>0, SameStages, LineStages
    <3>2. L[4] = <<Num(x)>> /\ M[4] = << >>
      <4>1. Line(d)[4] = InHandOf(d) /\ (Line(d)')[4] = InHandOf(d)'
        BY LineStages
      <4>2. InHandOf(d) = <<Num(x)>>
        BY <1>2, <1>4, <1>6 DEF InHandOf
      <4>3. im'[d.dst].pc # "handle"
        BY <1>6, <1>7, <1>8
      <4>4. InHandOf(d)' = << >>
        BY <4>3 DEF InHandOf
      <4> QED BY <4>1, <4>2, <4>4
    <3>3. \A i \in DOMAIN M[5] : M[5][i] = 0 \/ (i \in DOMAIN L[5] /\ M[5][i] = L[5][i])
      <4>1. \A i \in DOMAIN M[5] : M[5][i] = 0 \/ (i + 0 \in DOMAIN L[5] /\ M[5][i] = L[5][i + 0])
        BY <1>9, <1>10, ThinnedWay
      <4>2. M[5] \in Seq(Nat)
        BY <1>1, BothLines DEF Lines, Stage
      <4> HIDE DEF L, M
      <4>3. \A i \in DOMAIN M[5] : i + 0 = i
        BY <4>2
      <4> QED BY <4>1, <4>3
    <3>4. L[2] = Nums(in[d]) /\ M[2] = Nums(in'[d]) /\ L[3] = Nums(q) /\ M[3] = Nums(buf'[d].list)
      BY <1>9, LineStages, NextStages
    <3>5. L \in Lines /\ Num(x) \in Nat /\ in[d] \in Seq(Carried) /\ q \in Seq(Carried)
      <4>1. L \in Lines
        BY <1>1, BothLines
      <4>2. Num(x) \in Nat
        BY <1>1, <1>3, NumsTypes DEF Recs
      <4>3. buf[d] \in BufType /\ in[d] \in Seq(Carried)
        BY <1>1
      <4> QED BY <4>1, <4>2, <4>3 DEF BufType
    <3> DEFINE v == Num(x)
    <3> HIDE DEF L, M, v
    <3>6. 1 \in DOMAIN L[4] /\ L[4][1] = v /\ DOMAIN M[4] = {}
      BY <3>2 DEF v
    <3>7. L[2] \in Seq(Nat) /\ L[3] \in Seq(Nat) /\ 2 \in Stage /\ 3 \in Stage /\ 4 \in Stage /\ v \in Nat
      BY <3>5 DEF Lines, Stage, v
    <3>8. \E a \in Stage : \E p \in Nat : a < 4 /\ Shift(L, M, a, 4, p, 1)
      <4>1. CASE room
        <5>1. M[2] = Append(L[2], v) /\ M[3] = L[3] /\ DOMAIN L[3] = {}
          <6>1. in'[d] = Append(in[d], x) /\ buf'[d].list = q /\ q = << >>
            BY <1>7, <1>8, <4>1
          <6>2. Nums(Append(in[d], x)) = Append(Nums(in[d]), Num(x))
            BY <1>3, <3>5, NumsAppend
          <6>3. DOMAIN Nums(<< >>) = {}
            BY DEF Nums
          <6> QED BY <3>4, <6>1, <6>2, <6>3 DEF v
        <5>2. /\ Len(L[2]) \in Nat
              /\ \A i \in DOMAIN M[2] :
                   \/ i <= Len(L[2]) /\ i \in DOMAIN L[2] /\ M[2][i] = L[2][i]
                   \/ i > Len(L[2]) /\ i - Len(L[2]) <= 1 /\ i - Len(L[2]) = 1 /\ M[2][i] = v
          BY <3>7, <5>1, AppendedStage
        <5>3. \A c \in Stage \ {2, 4} : c = 5 \/ M[c] = L[c]
          BY <3>1, <5>1 DEF Stage
        <5>4. \A c \in Stage : 2 < c /\ c < 4 => DOMAIN L[c] = {}
          BY <5>1 DEF Stage
        <5>5. Shift(L, M, 2, 4, Len(L[2]), 1)
          BY <3>3, <3>6, <5>2, <5>3, <5>4 DEF Shift
        <5>6. 2 < 4
          OBVIOUS
        <5> QED BY <3>7, <5>2, <5>5, <5>6
      <4>2. CASE ~room
        <5>1. M[3] = Append(L[3], v) /\ M[2] = L[2]
          <6>1. in'[d] = in[d] /\ buf'[d].list = Append(q, x)
            BY <1>7, <1>8, <4>2
          <6>2. Nums(Append(q, x)) = Append(Nums(q), Num(x))
            BY <1>3, <3>5, NumsAppend
          <6> QED BY <3>4, <6>1, <6>2 DEF v
        <5>2. /\ Len(L[3]) \in Nat
              /\ \A i \in DOMAIN M[3] :
                   \/ i <= Len(L[3]) /\ i \in DOMAIN L[3] /\ M[3][i] = L[3][i]
                   \/ i > Len(L[3]) /\ i - Len(L[3]) <= 1 /\ i - Len(L[3]) = 1 /\ M[3][i] = v
          BY <3>7, <5>1, AppendedStage
        <5>3. \A c \in Stage \ {3, 4} : c = 5 \/ M[c] = L[c]
          BY <3>1, <5>1 DEF Stage
        <5>4. \A c \in Stage : ~(3 < c /\ c < 4)
          BY DEF Stage
        <5>5. Shift(L, M, 3, 4, Len(L[3]), 1)
          BY <3>3, <3>6, <5>2, <5>3, <5>4 DEF Shift
        <5>6. 3 < 4
          OBVIOUS
        <5> QED BY <3>7, <5>2, <5>5, <5>6
      <4> QED BY <4>1, <4>2
    <3>9. PICK a \in Stage, p \in Nat : a < 4 /\ Shift(Line(d), Line(d)', a, 4, p, 1)
      BY <3>8 DEF L, M
    <3>10. 1 \in Nat /\ LockInv' /\ Dest' = Dest
      BY <1>1
    <3>11. Calm(d)
      BY <3>7, <3>9, <3>10, ShiftCalm
    <3> QED BY <2>2, <3>11
  <2> QED BY <2>1, <2>2
<1> QED BY <1>11, ReceivingFrame

(* The numbers of the two parts of a sequence.                             *)
LEMMA NumsSplit ==
  ASSUME NEW S, NEW s \in Seq(S), NEW k \in 0..Len(s)
  PROVE  /\ \A i \in DOMAIN Nums(SubSeq(s, 1, k)) :
              i > 0 /\ i - 0 <= k /\ i - 0 \in DOMAIN Nums(s) /\ Nums(SubSeq(s, 1, k))[i] = Nums(s)[i - 0]
         /\ \A i \in DOMAIN Nums(SubSeq(s, k + 1, Len(s))) :
              i + k \in DOMAIN Nums(s) /\ Nums(SubSeq(s, k + 1, Len(s)))[i] = Nums(s)[i + k]
<1> DEFINE t == SubSeq(s, 1, k)
           u == SubSeq(s, k + 1, Len(s))
<1>1. Len(s) \in Nat /\ k \in Nat /\ k <= Len(s) /\ DOMAIN s = 1..Len(s)
  OBVIOUS
<1>2. DOMAIN t = 1..k /\ \A i \in 1..k : t[i] = s[i]
  BY <1>1
<1>3. DOMAIN u = 1..(Len(s) - k) /\ \A i \in 1..(Len(s) - k) : u[i] = s[i + k]
  <2>1. DOMAIN u = 1..(Len(s) - k)
    BY <1>1
  <2>2. ASSUME NEW i \in 1..(Len(s) - k) PROVE u[i] = s[i + k]
    <3>1. u[i] = s[(k + 1) + i - 1]
      BY <1>1
    <3>2. (k + 1) + i - 1 = i + k
      BY <1>1
    <3> QED BY <3>1, <3>2
  <2> QED BY <2>1, <2>2
<1> HIDE DEF t, u
<1>4. ASSUME NEW i \in DOMAIN Nums(t)
      PROVE  i > 0 /\ i - 0 <= k /\ i - 0 \in DOMAIN Nums(s) /\ Nums(t)[i] = Nums(s)[i - 0]
  <2>1. i \in 1..k /\ Nums(t)[i] = Num(t[i])
    BY <1>2 DEF Nums
  <2>2. i - 0 = i /\ i \in 1..Len(s) /\ i > 0 /\ i <= k
    BY <1>1, <2>1
  <2>3. i \in DOMAIN Nums(s) /\ Nums(s)[i] = Num(s[i])
    BY <1>1, <2>2 DEF Nums
  <2> QED BY <1>2, <2>1, <2>2, <2>3
<1>5. ASSUME NEW i \in DOMAIN Nums(u)
      PROVE  i + k \in DOMAIN Nums(s) /\ Nums(u)[i] = Nums(s)[i + k]
  <2>1. i \in 1..(Len(s) - k) /\ Nums(u)[i] = Num(u[i])
    BY <1>3 DEF Nums
  <2>2. i + k \in 1..Len(s)
    BY <1>1, <2>1
  <2>3. i + k \in DOMAIN Nums(s) /\ Nums(s)[i + k] = Num(s[i + k])
    BY <1>1, <2>2 DEF Nums
  <2> QED BY <1>3, <2>1, <2>3
<1> QED BY <1>4, <1>5 DEF t, u

(* The first records of a list go into a stream that is empty.             *)
LEMMA DrainOrder ==
  ASSUME IInv, NEW n \in Node, Receiving(n), Drain(n)
  PROVE  IInv'
<1> DEFINE I == im[n]
           s == I.unblocked
<1>1. /\ LockInv /\ LockInv' /\ Dest' = Dest
      /\ UNCHANGED <<out, plan, begun, made, spare, ended, held, copied, got>>
      /\ im \in [Node -> IMType] /\ I \in IMType
      /\ net \in [Node -> [Node -> Seq(Message)]]
      /\ in \in [Dest -> Seq(Carried)] /\ buf \in [Dest -> BufType]
  BY ReceivingFrame
<1>2. s # << >> /\ s \in Seq(Dest)
  BY <1>1 DEF Drain, IMType
<1>3. Head(s) \in Dest /\ 1 \in DOMAIN s /\ Head(s) = s[1]
  BY <1>2
<1>4. PICK d \in Dest : d = Head(s)
  BY <1>3
<1> DEFINE q == buf[d].list
           k == Least(inCap - Len(in[d]), Len(q))
           first == SubSeq(q, 1, k)
           rest == SubSeq(q, k + 1, Len(q))
           B == [buf[d] EXCEPT !.list = rest, !.counter = @ + k]
           J == [I EXCEPT !.unblocked = Tail(s)]
           y == DestMsg("unblock", d)
<1>5. /\ in' = [in EXCEPT ![d] = in[d] \o first]
      /\ buf' = [buf EXCEPT ![d] = B] /\ im' = [im EXCEPT ![n] = J]
      /\ net' = net \/ net' = Sent(net, n, d.src, <<y>>)
  BY <1>4 DEF Drain, IMGoto
<1>6. Parked(n, d) /\ Account(d)
  BY <1>1, <1>3, <1>4, ListsOfBuffers DEF LockInv
<1>7. q \in Seq(Carried) /\ in[d] \in Seq(Carried) /\ buf[d] \in BufType /\ Len(q) \in Nat /\ inCap \in Nat
  BY <1>1 DEF BufType, LockInv, TypeOK, NetOK
<1>8. in[d] = << >> /\ Len(in[d]) = 0
  BY <1>6, <1>7 DEF Account, Parked
<1>9. k \in 0..Len(q) /\ k \in Nat
  BY <1>7, <1>8 DEF Least
<1> HIDE DEF k
<1>10. first \in Seq(Carried) /\ in[d] \o first = first
  <2>1. first \in Seq(Carried)
    BY <1>7, <1>9, SubSeqProperties
  <2> HIDE DEF first
  <2> QED BY <1>8, <2>1
<1>11. B.list = rest /\ J.pc = I.pc /\ J.hand = I.hand
  BY <1>1, <1>7 DEF BufType, IMType
<1> HIDE DEF B, J, first, rest
<1>12. in'[d] = first /\ buf'[d].list = rest /\ \A e \in Dest \ {d} : in'[e] = in[e] /\ buf'[e] = buf[e]
  BY <1>1, <1>5, <1>10, <1>11
<1>13. plan'.records = plan.records
  BY <1>1
<1>14. \A e \in Dest : InHandOf(e)' = InHandOf(e)
  BY <1>1, <1>5, <1>11, <1>13, HandsFree
<1>15. \A e \in Dest : Thinned(e, 0)
  <2>1. CASE net' = net
    BY <1>1, <2>1, ThinnedSame
  <2>2. CASE net' = Sent(net, n, d.src, <<y>>)
    <3>1. y \in Message /\ y.type # "rec"
      BY DEF Message, DestMsg
    <3>2. d.src \in Node
      BY <1>1, DestFacts DEF LockInv, TypeOK
    <3> HIDE DEF y
    <3> QED BY <1>1, <2>2, <3>1, <3>2, ThinnedSent
  <2> QED BY <1>5, <2>1, <2>2
<1>16. ASSUME NEW e \in Dest PROVE Calm(e)
  <2>1. CASE e # d
    <3>1. InHandOf(e)' = InHandOf(e) /\ Thinned(e, 0)
      BY <1>14, <1>15
    <3>2. got'[e] = got[e] /\ in'[e] = in[e] /\ buf'[e].list = buf[e].list /\ out'[e] = out[e]
      BY <1>1, <1>12, <2>1
    <3> QED BY <1>1, <1>13, <3>1, <3>2, QuietLine
  <2>2. CASE e = d
    <3> DEFINE L == Line(d)
               M == Line(d)'
    <3>0. got'[d] = got[d] /\ out'[d].cur = out[d].cur /\ out'[d].next = out[d].next
      BY <1>1
    <3>1. M[1] = L[1] /\ M[6] = L[6] /\ M[7] = L[7]
      BY <1>13, <3>0, SameStages, LineStages
    <3>2. M[4] = L[4]
      BY <1>14, LineStages
    <3>3. \A i \in DOMAIN M[5] : M[5][i] = 0 \/ (i \in DOMAIN L[5] /\ M[5][i] = L[5][i])
      <4>1. \A i \in DOMAIN M[5] : M[5][i] = 0 \/ (i + 0 \in DOMAIN L[5] /\ M[5][i] = L[5][i + 0])
        BY <1>13, <1>15, ThinnedWay
      <4>2. M[5] \in Seq(Nat)
        BY <1>1, BothLines DEF Lines, Stage
      <4> HIDE DEF L, M
      <4>3. \A i \in DOMAIN M[5] : i + 0 = i
        BY <4>2
      <4> QED BY <4>1, <4>3
    <3>4. M[2] = Nums(in'[d]) /\ L[3] = Nums(q) /\ M[3] = Nums(buf'[d].list)
      BY <1>13, LineStages, NextStages
    <3>5. M[2] = Nums(first) /\ M[3] = Nums(rest)
      BY <1>12, <3>4
    <3> HIDE DEF L, M, q
    <3>6. /\ \A i \in DOMAIN M[2] : i > 0 /\ i - 0 <= k /\ i - 0 \in DOMAIN L[3] /\ M[2][i] = L[3][i - 0]
          /\ \A i \in DOMAIN M[3] : i + k \in DOMAIN L[3] /\ M[3][i] = L[3][i + k]
      BY <1>7, <1>9, <3>4, <3>5, NumsSplit DEF first, rest
    <3>7. Shift(L, M, 2, 3, 0, k)
      <4>1. \A c \in Stage \ {2, 3} : c = 5 \/ M[c] = L[c]
        BY <3>1, <3>2 DEF Stage
      <4>2. \A c \in Stage : ~(2 < c /\ c < 3)
        BY DEF Stage
      <4> QED BY <3>3, <3>6, <4>1, <4>2 DEF Shift
    <3>8. Shift(Line(d), Line(d)', 2, 3, 0, k)
      BY <3>7 DEF L, M
    <3>9. 2 \in Stage /\ 3 \in Stage /\ 0 \in Nat /\ k \in Nat /\ 2 < 3 /\ LockInv' /\ Dest' = Dest
      BY <1>1, <1>9 DEF Stage
    <3>10. Calm(d)
      BY <3>8, <3>9, ShiftCalm
    <3> QED BY <2>2, <3>10
  <2> QED BY <2>1, <2>2
<1> QED BY <1>16, ReceivingFrame

(* An input manager keeps the lines in order.                              *)
LEMMA ReceivingOrder ==
  ASSUME IInv, NEW n \in Node, Receiving(n)
  PROVE  IInv'
<1>1. CASE HandleRecord(n)
  BY <1>1, HandleRecordOrder
<1>2. CASE Drain(n)
  BY <1>2, DrainOrder
<1>3. CASE \E m \in Node : RecvRecord(n, m, plan.path)
  BY <1>3, RecvRecordOrder
<1>4. CASE ~HandleRecord(n) /\ ~Drain(n) /\ ~ \E m \in Node : RecvRecord(n, m, plan.path)
  BY <1>4, ReceivingQuiet
<1> QED BY <1>1, <1>2, <1>3, <1>4

-----------------------------------------------------------------------------
(* A record written to the stream of a destination: what becomes of the    *)
(* streams,                                                                *)
LEMMA WrittenStreams ==
  ASSUME IInv, Dest' = Dest, NEW d \in Dest, NEW r \in Recs, out' = Written(d, r)
  PROVE  /\ \A e \in Dest \ {d} : out'[e] = out[e]
         /\ Moved(d) => out'[d].cur = out[d].cur /\ out'[d].next = Append(out[d].next, r)
         /\ ~Moved(d) => out'[d].cur = Append(out[d].cur, r) /\ out'[d].next = out[d].next /\ out[d].next = << >>
         /\ MovedInv'
<1>1. out \in [Dest -> [cur: Seq(Recs), next: Seq(Recs)]] /\ out[d] \in [cur: Seq(Recs), next: Seq(Recs)]
  BY DEF IInv, LockInv, TypeOK, NetOK
<1>2. CASE Moved(d)
  <2> DEFINE z == Append(out[d].next, r)
  <2>1. out' = [out EXCEPT ![d] = [out[d] EXCEPT !.next = z]]
    BY <1>2 DEF Written
  <2> HIDE DEF z
  <2>2. out'[d].cur = out[d].cur /\ out'[d].next = z /\ \A e \in Dest \ {d} : out'[e] = out[e]
    BY <1>1, <2>1
  <2>3. Moved(d)'
    BY <1>2, <2>2 DEF Moved
  <2>4. MovedInv'
    BY <2>2, <2>3, MovedFrame DEF MovedInv
  <2> QED BY <1>2, <2>2, <2>4 DEF z
<1>3. CASE ~Moved(d)
  <2> DEFINE z == Append(out[d].cur, r)
  <2>1. out' = [out EXCEPT ![d] = [out[d] EXCEPT !.cur = z]]
    BY <1>3 DEF Written
  <2> HIDE DEF z
  <2>2. out'[d].next = out[d].next /\ out'[d].cur = z /\ \A e \in Dest \ {d} : out'[e] = out[e]
    BY <1>1, <2>1
  <2>3. out[d].next = << >>
    BY <1>3 DEF IInv, MovedInv
  <2>4. MovedInv'
    BY <2>2, <2>3, MovedFrame DEF MovedInv
  <2> QED BY <1>3, <2>2, <2>3, <2>4 DEF z
<1> QED BY <1>2, <1>3

(* and what of its line.                                                   *)
LEMMA WrittenLine ==
  ASSUME IInv, LockInv', Dest' = Dest, plan'.records = plan.records,
         NEW d \in Dest, NEW r \in Recs, out' = Written(d, r),
         got'[d] = got[d], in'[d] = in[d], UNCHANGED <<net, im, buf>>,
         NEW x \in Nat, Below(Line(d), x), Num(r) = 0 \/ x <= Num(r)
  PROVE  Ordered(Line(d)') /\ \A y \in Nat : x <= y /\ Num(r) <= y => Below(Line(d)', y)
<1> DEFINE L == Line(d)
           M == Line(d)'
           v == Num(r)
<1>1. L \in Lines /\ M \in Lines /\ Ordered(L)
  BY BothLines DEF IInv, OrderInv
<1>2. v \in Nat /\ out[d].cur \in Seq(Recs) /\ out[d].next \in Seq(Recs)
  BY NumsTypes DEF IInv, LockInv, TypeOK, NetOK
<1>3. M[1] = L[1] /\ M[2] = L[2] /\ M[3] = L[3] /\ M[4] = L[4] /\ M[5] = L[5]
  BY SameStages, LineStages
<1>4. L[6] = Nums(out[d].cur) /\ L[7] = Nums(out[d].next) /\ M[6] = Nums(out'[d].cur) /\ M[7] = Nums(out'[d].next)
  BY LineStages, NextStages
<1>5. Nums(Append(out[d].cur, r)) = Append(Nums(out[d].cur), v) /\ Nums(Append(out[d].next, r)) = Append(Nums(out[d].next), v)
  BY <1>2, NumsAppend
<1>6. Below(L, x) /\ (v = 0 \/ x <= v)
  OBVIOUS
<1>7. 6 \in Stage /\ 7 \in Stage
  BY DEF Stage
<1>8. CASE Moved(d)
  <2>1. M[6] = L[6] /\ M[7] = Append(L[7], v)
    BY <1>4, <1>5, <1>8, WrittenStreams
  <2> HIDE DEF L, M, v
  <2>2. \A c \in Stage \ {7} : M[c] = L[c]
    BY <1>3, <2>1 DEF Stage
  <2>3. \A c \in Stage : 7 < c => L[c] = << >>
    BY DEF Stage
  <2>4. Ordered(M) /\ \A y \in Nat : x <= y /\ v <= y => Below(M, y)
    BY <1>1, <1>2, <1>6, <1>7, <2>1, <2>2, <2>3, WriteOrdered
  <2> QED BY <2>4 DEF L, M, v
<1>9. CASE ~Moved(d)
  <2>1. M[6] = Append(L[6], v) /\ M[7] = L[7] /\ L[7] = Nums(<< >>)
    BY <1>4, <1>5, <1>9, WrittenStreams
  <2>2. Nums(<< >>) = << >>
    BY DEF Nums
  <2> HIDE DEF L, M, v
  <2>3. \A c \in Stage \ {6} : M[c] = L[c]
    BY <1>3, <2>1 DEF Stage
  <2>4. \A c \in Stage : 6 < c => L[c] = << >>
    BY <2>1, <2>2 DEF Stage
  <2>5. Ordered(M) /\ \A y \in Nat : x <= y /\ v <= y => Below(M, y)
    BY <1>1, <1>2, <1>6, <1>7, <2>1, <2>3, <2>4, WriteOrdered
  <2> QED BY <2>5 DEF L, M, v
<1> QED BY <1>8, <1>9

(* A step that leaves the producer alone.                                  *)
LEMMA ProducerFrame ==
  ASSUME IInv, Dest' = Dest, plan'.records = plan.records, UNCHANGED <<made, ended, spare>>, Calm(FirstDest)
  PROVE  ProducerInv'
<1>1. made \in Nat /\ FirstDest' = FirstDest
  BY DEF FirstDest, IInv, LockInv, TypeOK, BoxesOK
<1>2. ~ended => Below(Line(FirstDest)', made)
  BY <1>1 DEF IInv, ProducerInv, Calm
<1>3. ~ended' => Below(Line(FirstDest)', made')
  BY <1>2
<1> QED BY <1>1, <1>3 DEF IInv, ProducerInv

(* A step that writes to the stream of f and adds no number to any other   *)
(* line.                                                                   *)
LEMMA WriteStep ==
  ASSUME IInv, LockInv', Dest' = Dest, NEW f \in Dest, Ordered(Line(f)'),
         \A d \in Dest : f.dest = d.dest + 1 => Below(Line(f)', Reached(d)'),
         \A d \in Dest \ {f} : Calm(d),
         \A d \in Dest : Reached(d) <= Reached(d)',
         \A d \in Dest : \A i \in DOMAIN held'[d] : held'[d][i].id = Reached(d)',
         MovedInv', ProducerInv'
  PROVE  IInv'
<1>0. /\ \A d \in Dest : Line(d) \in Lines /\ Line(d)' \in Lines
      /\ \A d \in Dest : Reached(d) \in Nat /\ Reached(d)' \in Nat
  BY BothLines, BothReached DEF IInv
<1>1. OrderInv'
  BY DEF OrderInv, Calm
<1>2. PassInv'
  <2> SUFFICES ASSUME NEW d \in Dest, NEW e \in Dest, e.dest = d.dest + 1
               PROVE  Below(Line(e)', Reached(d)')
    BY DEF PassInv
  <2>1. CASE e = f
    BY <2>1
  <2>2. CASE e # f
    <3>1. Below(Line(e), Reached(d))
      BY DEF IInv, PassInv
    <3>2. Below(Line(e)', Reached(d))
      BY <1>0, <2>2, <3>1 DEF Calm
    <3> QED BY <1>0, <3>2, BelowMore
  <2> QED BY <2>1, <2>2
<1> QED BY <1>1, <1>2 DEF IInv

-----------------------------------------------------------------------------
(* The producer writes numbers that do not fall, and the end behind them.  *)
LEMMA ProducerOrder ==
  ASSUME IInv, Producer
  PROVE  IInv'
<1>1. LockInv /\ LockInv' /\ Dest' = Dest
  BY ProducerLock, ProducerTypes DEF IInv
<1>2. /\ plan \in Network /\ made \in Nat /\ spare \in Seq(Ref) /\ im \in [Node -> IMType]
      /\ PlanOK /\ ended \in BOOLEAN
  BY <1>1 DEF LockInv, TypeOK, ManagersOK, PlanOK, BoxesOK
<1>3. PICK f \in Dest : f = FirstDest
  BY <1>2, DestFacts
<1>4. f.dest = 0 /\ (\A d \in Dest : f.dest # d.dest + 1) /\ FirstDest' = f
  <2>1. f.dest = 0 /\ \A d \in Dest : d.dest \in Nat
    BY <1>2, <1>3, DestFacts
  <2>2. FirstDest' = FirstDest
    BY <1>1 DEF FirstDest
  <2> QED BY <1>3, <2>1, <2>2
<1>5. /\ UNCHANGED <<net, in, buf, held, got>> /\ plan'.records = plan.records
  <2>1. UNCHANGED <<net, in, buf, held, got>>
    BY DEF Producer, Unfold, Produce, ProduceCopy, Leave, ProduceEnd, netVars, imVars
  <2>2. plan'.records = plan.records
    BY <1>2 DEF Producer, Unfold, Produce, ProduceCopy, Leave, ProduceEnd, Network
  <2> QED BY <2>1, <2>2
<1>6. /\ \A d \in Dest : Thinned(d, 0)
      /\ \A d \in Dest : Reached(d) <= Reached(d)'
      /\ \A d \in Dest : \A i \in DOMAIN held'[d] : held'[d][i].id = Reached(d)'
  <2>1. \A d \in Dest : Reached(d)' = Reached(d) /\ Reached(d) \in Nat
    BY <1>1, <1>5, ReachedTypes DEF Reached
  <2>2. \A d \in Dest : Thinned(d, 0)
    BY <1>1, <1>5, ThinnedSame
  <2>3. \A d \in Dest : Reached(d) <= Reached(d)'
    BY <2>1
  <2>4. \A d \in Dest : \A i \in DOMAIN held'[d] : held'[d][i].id = Reached(d)'
    BY <1>5, <2>1 DEF IInv, PassInv
  <2> QED BY <2>2, <2>3, <2>4
<1>7. CASE Unfold
  <2> DEFINE n == plan.path[1]
             J == [im[n] EXCEPT !.newStreams = im[n].newStreams \cup Routes(plan.path, n).ins]
  <2>1. UNCHANGED <<out, made, ended, spare>> /\ im' = [im EXCEPT ![n] = J]
    BY <1>7 DEF Unfold, IMGoto, netVars
  <2>2. n \in Node
    <3>1. plan.path \in Seq(Node) /\ 1 \in 1..Len(plan.path)
      BY <1>2 DEF PlanOK, Network
    <3> QED BY <3>1, ElementOfSeq
  <2>3. J.pc = im[n].pc /\ J.hand = im[n].hand
    BY <1>2, <2>2 DEF IMType
  <2> HIDE DEF n, J
  <2>4. \A d \in Dest : InHandOf(d)' = InHandOf(d)
    BY <1>1, <1>5, <2>1, <2>2, <2>3, HandsFree
  <2>5. \A d \in Dest : \A i \in DOMAIN held'[d] : \E j \in DOMAIN held[d] : held'[d][i] = held[d][j]
    BY <1>5
  <2>6. UNCHANGED <<out, in, got, made, ended, spare>> /\ \A d \in Dest : buf'[d].list = buf[d].list
    BY <1>5, <2>1
  <2>7. \A d \in Dest : \E k \in Nat : Thinned(d, k)
    BY <1>6
  <2> QED BY <1>1, <1>5, <2>4, <2>5, <2>6, <2>7, QuietStep
<1>8. ASSUME NEW r \in Recs, out' = Written(f, r), UNCHANGED im
      PROVE  MovedInv' /\ \A d \in Dest \ {f} : Calm(d)
  <2>1. MovedInv' /\ \A d \in Dest \ {f} : out'[d] = out[d]
    BY <1>1, <1>8, WrittenStreams
  <2>2. ASSUME NEW d \in Dest \ {f} PROVE Calm(d)
    <3>1. got'[d] = got[d] /\ in'[d] = in[d] /\ buf'[d].list = buf[d].list /\ out'[d] = out[d] /\ Thinned(d, 0)
      BY <1>5, <1>6, <2>1
    <3>2. InHandOf(d)' = InHandOf(d)
      BY <1>5, <1>8 DEF InHandOf, Num
    <3> QED BY <1>1, <1>5, <3>1, <3>2, QuietLine
  <2> QED BY <2>1, <2>2
<1>9. ASSUME NEW r \in Recs, out' = Written(f, r), UNCHANGED im, ~ended, made <= Num(r),
             made' \in Nat, made <= made', made' <= plan.records, ended' => made' = plan.records /\ spare' = << >>,
             spare' # << >> => Head(spare').id = made', ~ended' => Num(r) <= made'
      PROVE  IInv'
  <2>1. Below(Line(f), made)
    BY <1>3, <1>9 DEF IInv, ProducerInv
  <2>2. got'[f] = got[f] /\ in'[f] = in[f] /\ UNCHANGED <<net, im, buf>>
    BY <1>5, <1>9
  <2>3. Ordered(Line(f)') /\ \A y \in Nat : made <= y /\ Num(r) <= y => Below(Line(f)', y)
    BY <1>1, <1>2, <1>5, <1>9, <2>1, <2>2, WrittenLine
  <2>4. ~ended' => Below(Line(f)', made')
    BY <1>9, <2>3
  <2>5. ProducerInv'
    BY <1>4, <1>5, <1>9, <2>4 DEF ProducerInv
  <2>6. MovedInv' /\ \A d \in Dest \ {f} : Calm(d)
    BY <1>8, <1>9
  <2> QED BY <1>1, <1>4, <1>6, <2>3, <2>5, <2>6, WriteStep
<1>10. CASE Produce
  <2> DEFINE k == CHOOSE k \in FreeKeys : TRUE
             r == [key |-> k, id |-> made']
  <2>1. /\ FreeKeys # {} /\ made < plan.records /\ made' = made + 1
        /\ spare' = (IF plan.twice THEN <<r>> ELSE << >>)
        /\ out' = Written(f, Data(r)) /\ UNCHANGED <<im, ended>>
    BY <1>3, <1>10 DEF Produce, imVars
  <2>2. k \in Key
    <3>1. FreeKeys \subseteq Key
      BY <1>2 DEF FreeKeys, Network
    <3> QED BY <2>1, <3>1
  <2> HIDE DEF k
  <2>3. /\ made' \in Nat /\ made' # 0 /\ plan.records \in Nat /\ made <= made' /\ made' <= plan.records
        /\ made # plan.records
    BY <1>2, <2>1 DEF Network
  <2>4. r \in Ref /\ r.id = made'
    BY <2>2, <2>3 DEF Ref
  <2> HIDE DEF r
  <2>5. Data(r) \in Recs /\ Num(Data(r)) = made'
    BY <2>4 DEF Data, Recs, Carried, Num
  <2>6. spare' # << >> => Head(spare').id = made'
    BY <2>1, <2>4
  <2>7. ~ended /\ ~ended'
    BY <2>1, <2>3 DEF IInv, ProducerInv
  <2>8. made <= Num(Data(r)) /\ Num(Data(r)) <= made'
    BY <2>3, <2>5
  <2> QED BY <1>9, <2>1, <2>3, <2>5, <2>6, <2>7, <2>8
<1>11. CASE ProduceCopy
  <2> DEFINE r == Head(spare)
  <2>1. /\ spare # << >> /\ spare' = << >> /\ out' = Written(f, Data(r)) /\ UNCHANGED <<im, made, ended>>
    BY <1>3, <1>11 DEF ProduceCopy, imVars
  <2>2. r \in Ref
    BY <1>2, <2>1
  <2>3. ~ended /\ r.id = made /\ made <= plan.records
    BY <2>1 DEF IInv, ProducerInv
  <2> HIDE DEF r
  <2>4. Data(r) \in Recs /\ Num(Data(r)) = made
    BY <2>2, <2>3 DEF Data, Recs, Carried, Num
  <2>5. made <= Num(Data(r)) /\ Num(Data(r)) <= made' /\ made' \in Nat /\ made <= made' /\ made' <= plan.records
    BY <1>2, <2>1, <2>3, <2>4
  <2> QED BY <1>9, <2>1, <2>3, <2>4, <2>5
<1>12. CASE ProduceEnd
  <2>1. /\ made = plan.records /\ ~ended /\ ended' /\ spare = << >> /\ out' = Written(f, Term)
        /\ UNCHANGED <<im, made, spare>>
    BY <1>3, <1>12 DEF ProduceEnd, imVars
  <2>2. Term \in Recs /\ Num(Term) = plan.records + 1
    BY DEF Term, Recs, Carried, Num
  <2>3. made <= Num(Term) /\ made' \in Nat /\ made <= made' /\ made' <= plan.records
    BY <1>2, <2>1, <2>2
  <2> QED BY <1>9, <2>1, <2>2, <2>3
<1>13. CASE Leave
  <2>1. ~Moved(f) /\ out' = Written(f, Sync) /\ UNCHANGED <<im, made, spare, ended>>
    BY <1>3, <1>13 DEF Leave, imVars
  <2>2. Sync \in Recs /\ Num(Sync) = 0
    BY DEF Sync, Recs, Num
  <2>3. MovedInv' /\ \A d \in Dest \ {f} : Calm(d)
    BY <1>8, <2>1, <2>2
  <2> DEFINE L == Line(f)
             M == Line(f)'
  <2>4. out'[f].cur = Append(out[f].cur, Sync) /\ out'[f].next = out[f].next
    BY <1>1, <2>1, <2>2, WrittenStreams
  <2>5. M[1] = L[1] /\ M[2] = L[2] /\ M[3] = L[3] /\ M[4] = L[4] /\ M[5] = L[5] /\ M[7] = L[7]
    <3>1. /\ got'[f] = got[f] /\ in'[f] = in[f] /\ buf' = buf /\ im' = im /\ net' = net
          /\ out'[f].next = out[f].next
      BY <1>5, <2>1, <2>4
    <3> QED BY <1>5, <3>1, SameStages, LineStages
  <2>6. M[6] = Append(L[6], 0)
    <3>1. (Line(f)')[6] = Nums(out'[f].cur) /\ Line(f)[6] = Nums(out[f].cur)
      BY <1>5, LineStages, NextStages
    <3>2. out[f].cur \in Seq(Recs)
      BY <1>1 DEF LockInv, TypeOK, NetOK
    <3>3. Nums(Append(out[f].cur, Sync)) = Append(Nums(out[f].cur), Num(Sync))
      BY <2>2, <3>2, NumsAppend
    <3> QED BY <2>2, <2>4, <3>1, <3>3
  <2>7. L \in Lines
    BY <1>1, BothLines
  <2> HIDE DEF L, M
  <2>8. 6 \in Stage /\ 7 \in Stage /\ L[6] \in Seq(Nat) /\ L[7] \in Seq(Nat)
    BY <2>7 DEF Lines, Stage
  <2>9. /\ Len(L[6]) \in Nat
        /\ \A i \in DOMAIN M[6] : \/ i <= Len(L[6]) /\ i \in DOMAIN L[6] /\ M[6][i] = L[6][i]
                                  \/ M[6][i] = 0
    BY <2>6, <2>8, AppendedStage
  <2>10. \A i \in DOMAIN L[7] : i + 0 = i
    BY <2>8
  <2>11. Shift(L, M, 6, 7, Len(L[6]), 0)
    <3>1. \A c \in Stage \ {6, 7} : M[c] = L[c]
      BY <2>5 DEF Stage
    <3>2. \A c \in Stage : ~(6 < c /\ c < 7)
      BY DEF Stage
    <3>3. \A i \in DOMAIN M[7] : i + 0 \in DOMAIN L[7] /\ M[7][i] = L[7][i + 0]
      BY <2>5, <2>10
    <3> QED BY <2>9, <3>1, <3>2, <3>3 DEF Shift
  <2>12. Shift(Line(f), Line(f)', 6, 7, Len(L[6]), 0)
    BY <2>11 DEF L, M
  <2>13. Len(L[6]) \in Nat /\ 0 \in Nat /\ 6 < 7 /\ LockInv' /\ Dest' = Dest
    BY <1>1, <2>9
  <2>14. Calm(f)
    BY <2>8, <2>12, <2>13, ShiftCalm
  <2>15. \A d \in Dest : Calm(d)
    BY <2>3, <2>14
  <2>16. UNCHANGED <<made, ended, spare>>
    BY <2>1
  <2> QED BY <1>1, <1>5, <1>6, <2>3, <2>15, <2>16, CalmStep
<1> QED BY <1>7, <1>10, <1>11, <1>12, <1>13 DEF Producer

-----------------------------------------------------------------------------
(* A box reads the first record of its stream.                             *)
LEMMA ReadLine ==
  ASSUME IInv, LockInv', Dest' = Dest, plan'.records = plan.records, NEW d \in Dest, NEW v \in Nat \ {0},
         in[d] # << >>, v = Num(Head(in[d])), in'[d] = Tail(in[d]), got'[d] = Append(got[d], v),
         UNCHANGED <<im, buf>>, out'[d] = out[d], Thinned(d, 0)
  PROVE  Calm(d) /\ Reached(d) <= Reached(d)' /\ Reached(d)' = v
<1> DEFINE L == Line(d)
           M == Line(d)'
           g == got[d]
<1>1. L \in Lines /\ M \in Lines /\ Ordered(L)
  BY BothLines DEF IInv, OrderInv
<1>2. in[d] \in Seq(Carried) /\ g \in Seq(Nat \ {0}) /\ got'[d] = Append(g, v)
  BY DEF IInv, LockInv, TypeOK, NetOK, BoxesOK
<1>3. M[3] = L[3] /\ M[4] = L[4] /\ M[6] = L[6] /\ M[7] = L[7]
  BY SameStages
<1>4. L[1] = g /\ M[1] = got'[d] /\ L[2] = Nums(in[d]) /\ M[2] = Nums(in'[d])
  BY LineStages, NextStages
<1>5. \A i \in DOMAIN M[5] : M[5][i] = 0 \/ (i + 0 \in DOMAIN L[5] /\ M[5][i] = L[5][i + 0])
  BY ThinnedWay
<1>6. /\ 1 \in DOMAIN Nums(in[d]) /\ Nums(in[d])[1] = v
      /\ \A i \in DOMAIN Nums(Tail(in[d])) :
           i + 1 \in DOMAIN Nums(in[d]) /\ Nums(Tail(in[d]))[i] = Nums(in[d])[i + 1]
  BY <1>2, NumsTail
<1>7. /\ 1 \in DOMAIN L[2] /\ L[2][1] = v /\ M[1] = Append(L[1], v)
      /\ \A i \in DOMAIN M[2] : i + 1 \in DOMAIN L[2] /\ M[2][i] = L[2][i + 1]
  <2>1. M[2] = Nums(Tail(in[d])) /\ M[1] = Append(g, v)
    BY <1>2, <1>4
  <2> HIDE DEF L, M, g
  <2> QED BY <1>4, <1>6, <2>1
<1>8. Reached(d) = (IF g = << >> THEN 0 ELSE g[Len(g)]) /\ Reached(d)' = v
  <2>1. Reached(d) = (IF g = << >> THEN 0 ELSE g[Len(g)])
    BY DEF Reached
  <2>2. Reached(d)' = IF got'[d] = << >> THEN 0 ELSE got'[d][Len(got'[d])]
    BY DEF Reached
  <2> HIDE DEF g
  <2>3. Append(g, v) # << >> /\ Append(g, v)[Len(Append(g, v))] = v
    BY <1>2
  <2> QED BY <1>2, <2>1, <2>2, <2>3
<1> HIDE DEF L, M, g
<1>9. L[1] \in Seq(Nat) /\ M[5] \in Seq(Nat) /\ 1 \in Stage /\ 2 \in Stage
  BY <1>1 DEF Lines, Stage
<1>10. Shift(L, M, 1, 2, Len(L[1]), 1)
  <2>1. \A c \in Stage \ {1, 2} : c = 5 \/ M[c] = L[c]
    BY <1>3 DEF Stage
  <2>2. \A i \in DOMAIN M[5] : M[5][i] = 0 \/ (i \in DOMAIN L[5] /\ M[5][i] = L[5][i])
    <3>1. \A i \in DOMAIN M[5] : i + 0 = i
      BY <1>9
    <3> QED BY <1>5, <3>1
  <2>3. \A i \in DOMAIN M[1] :
          \/ i <= Len(L[1]) /\ i \in DOMAIN L[1] /\ M[1][i] = L[1][i]
          \/ i > Len(L[1]) /\ i - Len(L[1]) <= 1 /\ i - Len(L[1]) = 1 /\ M[1][i] = v
    BY <1>7, <1>9, AppendedStage
  <2>4. \A c \in Stage : ~(1 < c /\ c < 2)
    BY DEF Stage
  <2> QED BY <1>7, <2>1, <2>2, <2>3, <2>4 DEF Shift
<1>11. Shift(Line(d), Line(d)', 1, 2, Len(L[1]), 1)
  BY <1>10 DEF L, M
<1>12. Len(L[1]) \in Nat /\ 1 \in Nat /\ 1 < 2
  BY <1>9
<1>13. Calm(d)
  BY <1>9, <1>11, <1>12, ShiftCalm
<1>14. Reached(d) <= v
  <2>1. CASE g = << >>
    BY <1>8, <2>1
  <2>2. CASE g # << >>
    <3>1. Len(g) \in DOMAIN g /\ g[Len(g)] \in Nat \ {0}
      BY <1>2, <2>2
    <3>2. Before(1, Len(g), 2, 1)
      BY DEF Before
    <3>3. L[1][Len(g)] = 0 \/ L[2][1] = 0 \/ L[1][Len(g)] <= L[2][1]
      BY <1>1, <1>4, <1>7, <1>9, <3>1, <3>2 DEF Ordered
    <3>4. L[1][Len(g)] <= L[2][1]
      BY <1>4, <1>7, <3>1, <3>3
    <3> QED BY <1>4, <1>7, <1>8, <2>2, <3>4
  <2> QED BY <2>1, <2>2
<1> QED BY <1>8, <1>13, <1>14

(* A box writes a record with the number it has reached to the next stream.*)
LEMMA BoxWrite ==
  ASSUME IInv, LockInv', Dest' = Dest, plan'.records = plan.records,
         UNCHANGED <<made, ended, spare, net, im, buf>>,
         NEW d \in Dest, NEW f \in Dest, f.dest = d.dest + 1, NEW r \in Recs, out' = Written(f, r),
         got'[f] = got[f], in'[f] = in[f], Num(r) = Reached(d)',
         \A e \in Dest \ {f} : Calm(e), \A e \in Dest : Reached(e) <= Reached(e)',
         \A e \in Dest : \A i \in DOMAIN held'[e] : held'[e][i].id = Reached(e)'
  PROVE  IInv'
<1>1. Reached(d) \in Nat /\ Reached(d)' \in Nat /\ Below(Line(f), Reached(d))
  BY BothReached DEF IInv, PassInv
<1>2. Reached(d) <= Num(r) /\ Num(r) <= Reached(d)' /\ UNCHANGED <<net, im, buf>>
  BY <1>1
<1>3. Ordered(Line(f)') /\ \A y \in Nat : Reached(d) <= y /\ Num(r) <= y => Below(Line(f)', y)
  BY <1>1, <1>2, WrittenLine
<1>4. Below(Line(f)', Reached(d)')
  BY <1>1, <1>2, <1>3
<1>5. PlanOK
  BY DEF IInv, LockInv, TypeOK
<1>6. ASSUME NEW e \in Dest, f.dest = e.dest + 1 PROVE Below(Line(f)', Reached(e)')
  <2>1. e.dest = d.dest
    BY <1>5, <1>6, DestFacts
  <2>2. e = d
    BY <1>5, <2>1, DestFacts
  <2> QED BY <1>4, <2>2
<1>7. FirstDest \in Dest /\ FirstDest # f
  BY <1>5, DestFacts
<1>8. MovedInv'
  BY WrittenStreams
<1>9. UNCHANGED <<made, ended, spare>> /\ Calm(FirstDest)
  BY <1>7
<1>10. ProducerInv'
  BY <1>9, ProducerFrame
<1> QED BY <1>3, <1>6, <1>8, <1>10, WriteStep

(* The steps of a box that neither read nor write.                         *)
LEMMA BoxUseOrder ==
  ASSUME IInv, NEW d \in Dest, BoxStep(d), NEW i \in DOMAIN held[d],
         BoxCopy(d, i) \/ BoxDestroy(d, i) \/ BoxGetData(d, i)
  PROVE  IInv'
<1> DEFINE n == d.dst
           s == held[d]
           r == s[i]
<1>1. LockInv /\ LockInv' /\ Dest' = Dest
  BY BoxLock, BoxTypes DEF IInv
<1>2. /\ held \in [Dest -> Seq(Ref)] /\ s \in Seq(Ref) /\ n \in Node /\ r \in Ref
      /\ net \in [Node -> [Node -> Seq(Message)]]
  <2>1. held \in [Dest -> Seq(Ref)] /\ net \in [Node -> [Node -> Seq(Message)]] /\ PlanOK
    BY <1>1 DEF LockInv, TypeOK, BoxesOK, NetOK
  <2>2. n \in Node
    BY <2>1, DestFacts
  <2> QED BY <2>1, <2>2
<1>3. UNCHANGED <<out, in, got, made, ended, spare, im, buf, plan>>
  BY DEF BoxCopy, BoxDestroy, BoxGetData, imVars
<1>4. UNCHANGED net \/ \E t \in {"ref_update", "ref_fetch"}, v \in -1..1 : Tell(n, r, t, v)
  <2>1. -1 \in -1..1 /\ 0 \in -1..1 /\ 1 \in -1..1
    OBVIOUS
  <2>2. CASE BoxCopy(d, i)
    BY <2>1, <2>2 DEF BoxCopy
  <2>3. CASE BoxDestroy(d, i)
    BY <2>1, <2>3 DEF BoxDestroy
  <2>4. CASE BoxGetData(d, i)
    BY <2>1, <2>4 DEF BoxGetData
  <2> QED BY <2>2, <2>3, <2>4
<1>5. \A e \in Dest : Thinned(e, 0)
  <2>1. CASE UNCHANGED net
    BY <1>1, <2>1, ThinnedSame
  <2>2. CASE \E t \in {"ref_update", "ref_fetch"}, v \in -1..1 : Tell(n, r, t, v)
    <3>1. PICK t \in {"ref_update", "ref_fetch"}, v \in -1..1 : Tell(n, r, t, v)
      BY <2>2
    <3> DEFINE y == RefMsg(t, r, v)
    <3>2. y \in Message /\ y.type # "rec"
      BY <1>2 DEF Message, RefMsg
    <3>3. Owner[r.key] \in Node
      BY <1>2, DistribAssumption DEF Ref
    <3>4. net' = Sent(net, n, Owner[r.key], <<y>>)
      BY <3>1 DEF Tell
    <3> HIDE DEF y
    <3> QED BY <1>1, <1>2, <3>2, <3>3, <3>4, ThinnedSent
  <2> QED BY <1>4, <2>1, <2>2
<1>6. \A e \in Dest : \A j \in DOMAIN held'[e] : \E h \in DOMAIN held[e] : held'[e][j] = held[e][h]
  <2> DEFINE S == {s[h] : h \in DOMAIN s}
  <2>1. s \in Seq(S) /\ r \in S
    <3>1. Len(s) \in Nat /\ DOMAIN s = 1..Len(s) /\ s = [h \in 1..Len(s) |-> s[h]]
      BY <1>2
    <3>2. \A h \in 1..Len(s) : s[h] \in S
      BY <3>1
    <3> HIDE DEF S
    <3>3. s \in [1..Len(s) -> S]
      BY <3>1, <3>2
    <3> QED BY <3>1, <3>2, <3>3
  <2>2. PICK u \in Seq(S) : held' = [held EXCEPT ![d] = u]
    <3> HIDE DEF S
    <3>1. Append(s, r) \in Seq(S) /\ Without(s, i) \in Seq(S)
      BY <2>1, WithoutTypes
    <3>2. CASE BoxCopy(d, i)
      <4>1. held' = held \/ held' = [held EXCEPT ![d] = Append(s, r)]
        BY <3>2 DEF BoxCopy
      <4>2. held = [held EXCEPT ![d] = s]
        BY <1>2
      <4> HIDE DEF s, r
      <4> QED BY <2>1, <3>1, <4>1, <4>2
    <3>3. CASE BoxDestroy(d, i) \/ BoxGetData(d, i)
      <4>1. held' = [held EXCEPT ![d] = Without(s, i)]
        BY <3>3 DEF BoxDestroy, BoxGetData
      <4> QED BY <3>1, <4>1
    <3> QED BY <3>2, <3>3
  <2>3. \A j \in DOMAIN u : u[j] \in S
    <3> HIDE DEF S
    <3> QED BY <2>2
  <2>4. held'[d] = u /\ \A e \in Dest \ {d} : held'[e] = held[e]
    BY <1>2, <2>2
  <2> QED BY <2>3, <2>4
<1>7. plan'.records = plan.records /\ UNCHANGED <<out, in, got, made, ended, spare>>
  BY <1>3
<1>8. \A e \in Dest : buf'[e].list = buf[e].list /\ InHandOf(e)' = InHandOf(e)
  BY <1>3 DEF InHandOf, Num
<1>9. \A e \in Dest : \E k \in Nat : Thinned(e, k)
  BY <1>5
<1> QED BY <1>1, <1>6, <1>7, <1>8, <1>9, QuietStep

(* The end of all streams is told to every node; no record is sent.        *)
LEMMA ThinnedStop ==
  ASSUME LockInv, NEW n \in Node, NEW d \in Dest,
         net' = [net EXCEPT ![n] = [m \in Node |-> Append(net[n][m], Signal("stop"))]]
  PROVE  Thinned(d, 0)
<1>1. d.src \in Node /\ d.dst \in Node
  BY DestFacts DEF LockInv, TypeOK
<1>2. net \in [Node -> [Node -> Seq(Message)]]
  BY DEF LockInv, TypeOK, NetOK
<1>3. CASE d.src # n
  <2>1. net'[d.src][d.dst] = net[d.src][d.dst]
    BY <1>1, <1>2, <1>3
  <2> QED BY <2>1, ThinnedSame
<1>4. CASE d.src = n
  <2> DEFINE s == net[n][d.dst]
             x == Signal("stop")
  <2>1. s \in Seq(Message) /\ net'[n][d.dst] = Append(s, x) /\ x \in Message /\ x.type # "rec"
    BY <1>1, <1>2 DEF Message, Signal
  <2> HIDE DEF s, x
  <2>2. /\ DOMAIN s = 1..Len(s) /\ DOMAIN Append(s, x) = 1..(Len(s) + 1) /\ Len(s) \in Nat
        /\ Append(s, x)[Len(s) + 1] = x /\ \A j \in 1..Len(s) : Append(s, x)[j] = s[j]
    BY <2>1, AppendFacts
  <2>3. ASSUME NEW i \in DOMAIN Append(s, x)
        PROVE  \/ Append(s, x)[i].type = "rec" => Append(s, x)[i].dest # d
               \/ (i + 0 \in DOMAIN s /\ Append(s, x)[i] = s[i + 0])
    <3>1. i \in 1..Len(s) \/ i = Len(s) + 1
      BY <2>2
    <3> QED BY <2>1, <2>2, <3>1
  <2> QED BY <1>4, <2>1, <2>3 DEF Thinned, s
<1> QED BY <1>3, <1>4

(* A box.                                                                  *)
LEMMA BoxOrder ==
  ASSUME IInv, NEW d \in Dest, BoxStep(d)
  PROVE  IInv'
<1>1. LockInv /\ LockInv' /\ Dest' = Dest
  BY BoxLock, BoxTypes DEF IInv
<1>2. /\ plan \in Network /\ PlanOK /\ in \in [Dest -> Seq(Carried)] /\ held \in [Dest -> Seq(Ref)]
      /\ got \in [Dest -> Seq(Nat \ {0})] /\ net \in [Node -> [Node -> Seq(Message)]]
      /\ out \in [Dest -> [cur: Seq(Recs), next: Seq(Recs)]]
  BY <1>1 DEF LockInv, TypeOK, PlanOK, BoxesOK, NetOK
<1>3. CASE \E i \in DOMAIN held[d] : BoxCopy(d, i) \/ BoxDestroy(d, i) \/ BoxGetData(d, i)
  BY <1>3, BoxUseOrder
<1>4. UNCHANGED <<im, buf, plan, made, spare, ended>>
  BY DEF BoxStep, BoxRead, BoxSend, BoxEnd, BoxCopy, BoxDestroy, BoxGetData, imVars
<1>5. plan'.records = plan.records /\ \A e \in Dest : InHandOf(e)' = InHandOf(e)
  BY <1>4 DEF InHandOf, Num
<1>6. ASSUME NEW e \in Dest, got'[e] = got[e], in'[e] = in[e], out'[e] = out[e], Thinned(e, 0) PROVE Calm(e)
  <2>1. buf'[e].list = buf[e].list /\ InHandOf(e)' = InHandOf(e)
    BY <1>4, <1>5
  <2> QED BY <1>1, <1>5, <1>6, <2>1, QuietLine
<1>7. \A e \in Dest : got'[e] = got[e] => Reached(e)' = Reached(e) /\ Reached(e) <= Reached(e)'
  <2>1. \A e \in Dest : Reached(e) \in Nat
    BY <1>1, ReachedTypes
  <2>2. \A e \in Dest : got'[e] = got[e] => Reached(e)' = Reached(e)
    BY DEF Reached
  <2> QED BY <2>1, <2>2
<1>8. UNCHANGED <<made, ended, spare>>
  BY <1>4
<1>9. \A e \in Dest : HasNext(e) => NextDest(e) \in Dest /\ NextDest(e).dest = e.dest + 1 /\ NextDest(e) # e
  <2>1. \A e \in Dest : e.dest \in Nat /\ (HasNext(e) => NextDest(e) \in Dest /\ NextDest(e).dest = e.dest + 1)
    BY <1>2, DestFacts
  <2> QED BY <2>1
<1>10. CASE BoxRead(d)
  <2> DEFINE x == Head(in[d])
  <2>1. /\ in[d] # << >> /\ x.kind = "data" /\ in' = [in EXCEPT ![d] = Tail(in[d])]
        /\ held' = [held EXCEPT ![d] = <<x.ref>>] /\ got' = [got EXCEPT ![d] = Append(got[d], x.ref.id)]
        /\ UNCHANGED <<net, out>>
    BY <1>10 DEF BoxRead
  <2>2. x \in Carried
    BY <1>2, <2>1
  <2>3. x.ref \in Ref
    BY <2>1, <2>2 DEF Carried
  <2>4. x.ref.id \in Nat \ {0} /\ Num(x) = x.ref.id
    BY <2>1, <2>3 DEF Ref, Num
  <2> DEFINE v == x.ref.id
  <2>5. in'[d] = Tail(in[d]) /\ got'[d] = Append(got[d], v) /\ held'[d] = <<x.ref>>
    BY <1>2, <2>1
  <2>6. \A e \in Dest \ {d} : in'[e] = in[e] /\ got'[e] = got[e] /\ held'[e] = held[e]
    BY <1>2, <2>1
  <2>7. \A e \in Dest : Thinned(e, 0) /\ out'[e] = out[e]
    BY <1>1, <2>1, ThinnedSame
  <2>8. UNCHANGED <<im, buf>> /\ out'[d] = out[d] /\ Thinned(d, 0) /\ v = Num(Head(in[d])) /\ v \in Nat \ {0}
    BY <1>4, <2>4, <2>7
  <2> HIDE DEF v
  <2>9. Calm(d) /\ Reached(d) <= Reached(d)' /\ Reached(d)' = v
    BY <1>1, <1>5, <2>1, <2>5, <2>8, ReadLine
  <2>10. \A e \in Dest : Calm(e)
    BY <1>6, <2>6, <2>7, <2>9
  <2>11. \A e \in Dest : Reached(e) <= Reached(e)'
    BY <1>7, <2>6, <2>9
  <2>12. ASSUME NEW e \in Dest, NEW i \in DOMAIN held'[e] PROVE held'[e][i].id = Reached(e)'
    <3>1. CASE e = d
      BY <2>5, <2>9, <3>1 DEF v
    <3>2. CASE e # d
      <4>1. held'[e] = held[e] /\ Reached(e)' = Reached(e)
        BY <1>7, <2>6, <3>2
      <4> QED BY <4>1 DEF IInv, PassInv
    <3> QED BY <3>1, <3>2
  <2>13. MovedInv'
    BY <1>1, <2>7, MovedFrame DEF MovedInv
  <2> QED BY <1>1, <1>5, <1>8, <2>10, <2>11, <2>12, <2>13, CalmStep
<1>11. CASE BoxSend(d)
  <2> DEFINE r == Head(held[d])
  <2>1. /\ held[d] # << >> /\ HasNext(d) /\ out' = Written(NextDest(d), Data(r))
        /\ held' = [held EXCEPT ![d] = Tail(held[d])] /\ UNCHANGED <<net, in, got>>
    BY <1>11 DEF BoxSend
  <2>2. PICK f \in Dest : f = NextDest(d)
    BY <1>9, <2>1
  <2>3. held[d] \in Seq(Ref)
    BY <1>2
  <2>4. r \in Ref /\ 1 \in DOMAIN held[d] /\ r = held[d][1]
    BY <2>1, <2>3
  <2>5. r.id = Reached(d)
    BY <2>4 DEF IInv, PassInv
  <2>6. Data(r) \in Recs /\ Num(Data(r)) = r.id
    BY <2>4 DEF Data, Recs, Carried, Num
  <2> DEFINE z == Data(r)
  <2>7. z \in Recs /\ Num(z) = Reached(d)' /\ out' = Written(f, z)
    BY <1>7, <2>1, <2>2, <2>5, <2>6
  <2> HIDE DEF z
  <2>8. \A e \in Dest \ {f} : out'[e] = out[e]
    BY <1>1, <2>7, WrittenStreams
  <2>9. \A e \in Dest : Thinned(e, 0) /\ got'[e] = got[e] /\ in'[e] = in[e]
    BY <1>1, <2>1, ThinnedSame
  <2>10. \A e \in Dest \ {f} : Calm(e)
    BY <1>6, <2>8, <2>9
  <2>11. \A e \in Dest : Reached(e) <= Reached(e)'
    BY <1>7, <2>9
  <2>12. ASSUME NEW e \in Dest, NEW i \in DOMAIN held'[e] PROVE held'[e][i].id = Reached(e)'
    <3>1. held'[d] = Tail(held[d]) /\ \A a \in Dest \ {d} : held'[a] = held[a]
      BY <1>2, <2>1
    <3>2. PICK j \in DOMAIN held[e] : held'[e][i] = held[e][j]
      <4>1. CASE e = d
        <5> DEFINE s == held[d]
        <5>1. s \in Seq(Ref) /\ s # << >> /\ i \in DOMAIN Tail(s) /\ held'[e][i] = Tail(s)[i]
          BY <2>1, <2>3, <2>12, <3>1, <4>1
        <5> HIDE DEF s
        <5>2. i + 1 \in DOMAIN s /\ Tail(s)[i] = s[i + 1]
          BY <5>1, TailFacts
        <5> QED BY <4>1, <5>1, <5>2 DEF s
      <4>2. CASE e # d
        BY <3>1, <4>2
      <4> QED BY <4>1, <4>2
    <3>3. held[e][j].id = Reached(e) /\ Reached(e)' = Reached(e)
      BY <1>7, <2>9 DEF IInv, PassInv
    <3> QED BY <3>2, <3>3
  <2>13. /\ UNCHANGED <<made, ended, spare, net, im, buf>> /\ f.dest = d.dest + 1
         /\ got'[f] = got[f] /\ in'[f] = in[f]
    BY <1>4, <1>9, <2>1, <2>2, <2>9
  <2> QED BY <1>1, <1>5, <2>7, <2>10, <2>11, <2>12, <2>13, BoxWrite
<1>12. CASE BoxEnd(d)
  <2> DEFINE v == plan.records + 1
             far == [m \in Node |-> Append(net[d.dst][m], Signal("stop"))]
  <2>1. /\ in[d] # << >> /\ Head(in[d]) = Term /\ in' = [in EXCEPT ![d] = Tail(in[d])] /\ held[d] = << >>
        /\ out' = (IF HasNext(d) THEN Written(NextDest(d), Term) ELSE out)
        /\ got' = [got EXCEPT ![d] = Append(got[d], v)]
        /\ net' = (IF HasNext(d) THEN net ELSE [net EXCEPT ![d.dst] = far])
        /\ UNCHANGED held
    BY <1>12 DEF BoxEnd
  <2>2. v \in Nat \ {0} /\ Num(Term) = v /\ Term \in Recs
    BY <1>2 DEF Network, Num, Term, Recs, Carried
  <2> HIDE DEF v
  <2>3. in'[d] = Tail(in[d]) /\ got'[d] = Append(got[d], v) /\ \A e \in Dest \ {d} : in'[e] = in[e] /\ got'[e] = got[e]
    BY <1>2, <2>1
  <2>4. \A e \in Dest : Thinned(e, 0)
    <3>1. CASE HasNext(d)
      BY <1>1, <2>1, <3>1, ThinnedSame
    <3>2. CASE ~HasNext(d)
      <4>1. d.dst \in Node
        BY <1>2, DestFacts
      <4>2. net' = [net EXCEPT ![d.dst] = [m \in Node |-> Append(net[d.dst][m], Signal("stop"))]]
        BY <2>1, <3>2
      <4> QED BY <1>1, <4>1, <4>2, ThinnedStop
    <3> QED BY <3>1, <3>2
  <2>5. \A e \in Dest : (HasNext(d) => e # NextDest(d)) => out'[e] = out[e]
    <3>1. CASE HasNext(d)
      <4>1. PICK f \in Dest : f = NextDest(d) /\ out' = Written(f, Term)
        BY <1>9, <2>1, <3>1
      <4>2. \A e \in Dest \ {f} : out'[e] = out[e]
        BY <1>1, <2>2, <4>1, WrittenStreams
      <4> QED BY <3>1, <4>1, <4>2
    <3>2. CASE ~HasNext(d)
      BY <2>1, <3>2
    <3> QED BY <3>1, <3>2
  <2>6. UNCHANGED <<im, buf>> /\ out'[d] = out[d] /\ Thinned(d, 0) /\ v = Num(Head(in[d]))
    BY <1>4, <1>9, <2>1, <2>2, <2>4, <2>5
  <2>7. Calm(d) /\ Reached(d) <= Reached(d)' /\ Reached(d)' = v
    BY <1>1, <1>5, <2>1, <2>2, <2>3, <2>6, ReadLine
  <2>8. \A e \in Dest : (HasNext(d) => e # NextDest(d)) => Calm(e)
    BY <1>6, <2>3, <2>4, <2>5, <2>7
  <2>9. \A e \in Dest : Reached(e) <= Reached(e)'
    BY <1>7, <2>3, <2>7
  <2>10. ASSUME NEW e \in Dest, NEW i \in DOMAIN held'[e] PROVE held'[e][i].id = Reached(e)'
    <3>1. e # d
      BY <2>1
    <3>2. held'[e] = held[e] /\ Reached(e)' = Reached(e)
      BY <1>7, <2>1, <2>3, <3>1
    <3> QED BY <3>2 DEF IInv, PassInv
  <2>11. CASE HasNext(d)
    <3>1. PICK f \in Dest : f = NextDest(d) /\ out' = Written(f, Term) /\ f.dest = d.dest + 1 /\ f # d
      BY <1>9, <2>1, <2>11
    <3>2. /\ UNCHANGED <<made, ended, spare, net, im, buf>>
          /\ got'[f] = got[f] /\ in'[f] = in[f] /\ \A e \in Dest \ {f} : Calm(e)
      BY <1>4, <2>1, <2>3, <2>8, <2>11, <3>1
    <3>3. Num(Term) = Reached(d)'
      BY <2>2, <2>7
    <3> QED BY <1>1, <1>5, <2>2, <2>9, <2>10, <3>1, <3>2, <3>3, BoxWrite
  <2>12. CASE ~HasNext(d)
    <3>1. (\A e \in Dest : Calm(e)) /\ UNCHANGED out
      BY <2>1, <2>8, <2>12
    <3>2. MovedInv'
      BY <1>1, <3>1, MovedFrame DEF MovedInv
    <3> QED BY <1>1, <1>5, <1>8, <2>9, <2>10, <3>1, <3>2, CalmStep
  <2> QED BY <2>11, <2>12
<1> QED BY <1>3, <1>10, <1>11, <1>12 DEF BoxStep

-----------------------------------------------------------------------------
(* At first all lines are empty.                                           *)
LEMMA InitOrder == Init => IInv
<1> SUFFICES ASSUME Init PROVE IInv
  OBVIOUS
<1>1. LockInv
  BY InitLockInv
<1>2. /\ net = [n \in Node |-> [m \in Node |-> << >>]]
      /\ \A d \in Dest : out[d] = [cur |-> << >>, next |-> << >>] /\ in[d] = << >>
      /\ \A d \in Dest : buf[d].list = << >> /\ held[d] = << >> /\ got[d] = << >>
      /\ \A n \in Node : im[n].pc = "recv"
      /\ made = 0 /\ spare = << >> /\ ended = FALSE
  BY DEF Init, NetInit, OManagerInit, IManagerInit, Dest
<1>3. plan.records \in Nat
  BY <1>1 DEF LockInv, TypeOK, PlanOK, Network
<1>4. \A d \in Dest : d.src \in Node /\ d.dst \in Node
  BY <1>1, DestFacts DEF LockInv, TypeOK
<1>5. ASSUME NEW d \in Dest, NEW a \in Stage PROVE DOMAIN Line(d)[a] = {}
  <2>1. DOMAIN Nums(<< >>) = {}
    BY DEF Nums
  <2>2. InHandOf(d) = << >> /\ DOMAIN OnWay(d) = {}
    BY <1>2, <1>4 DEF InHandOf, OnWay
  <2>3. out[d].cur = << >> /\ out[d].next = << >>
    BY <1>2
  <2> QED BY <1>2, <2>1, <2>2, <2>3, LineStages DEF Stage
<1>6. \A d \in Dest : Ordered(Line(d)) /\ \A x : Below(Line(d), x)
  BY <1>5 DEF Ordered, Below
<1>7. FirstDest \in Dest
  BY <1>1, DestFacts DEF LockInv, TypeOK
<1>8. OrderInv /\ PassInv
  BY <1>2, <1>6 DEF OrderInv, PassInv
<1>9. ProducerInv
  BY <1>2, <1>3, <1>6, <1>7 DEF ProducerInv
<1>10. MovedInv
  BY <1>2 DEF MovedInv
<1> QED BY <1>1, <1>8, <1>9, <1>10 DEF IInv

(* Every step keeps the invariant.                                         *)
LEMMA StepIInv == IInv /\ [Next]_vars => IInv'
<1> SUFFICES ASSUME IInv, [Next]_vars PROVE IInv'
  OBVIOUS
<1>1. CASE Producer
  BY <1>1, ProducerOrder
<1>2. CASE \E n \in Node : Sending(n) \/ Receiving(n)
  BY <1>2, SendingOrder, ReceivingOrder
<1>3. CASE \E d \in Dest : Callback(d) \/ BoxStep(d)
  BY <1>3, CallbackOrder, BoxOrder
<1>4. CASE UNCHANGED vars
  <2>1. UNCHANGED <<net, out, in, inCap, refs, om, im, buf, cb, plan, begun, made, spare, ended, held, copied, got>>
    BY <1>4 DEF vars, netVars, imVars, boxVars
  <2>2. LockInv /\ LockInv' /\ Dest' = Dest
    BY <2>1, StepLockInv DEF IInv, Dest
  <2>3. plan'.records = plan.records /\ UNCHANGED <<out, in, got, made, ended, spare>>
    BY <2>1
  <2>4. \A d \in Dest : Thinned(d, 0)
    BY <2>1, <2>2, ThinnedSame
  <2>5. \A d \in Dest : \E k \in Nat : Thinned(d, k)
    BY <2>4
  <2>6. \A d \in Dest : buf'[d].list = buf[d].list /\ InHandOf(d)' = InHandOf(d)
    BY <2>1 DEF InHandOf, Num
  <2>7. \A d \in Dest : \A i \in DOMAIN held'[d] : \E j \in DOMAIN held[d] : held'[d][i] = held[d][j]
    BY <2>1
  <2> QED BY <2>2, <2>3, <2>5, <2>6, <2>7, QuietStep
<1> QED BY <1>1, <1>2, <1>3, <1>4 DEF Next, Stopped, BoxStep

(* The records behind an input manager come in the order in which they     *)
(* were written in front of the output manager, on every stream of every   *)
(* network: neither the list of a buffer that is full (imanager.c:178),    *)
(* nor its way back into the stream (imanager.c:119), nor a synchrocell    *)
(* that leaves in front of the manager (omanager.c) lets one overtake      *)
(* another, whatever the capacities and the interleaving.                  *)
THEOREM Ordering == Spec => []InOrder
<1>1. Init => IInv
  BY InitOrder
<1>2. IInv /\ [Next]_vars => IInv'
  BY StepIInv
<1>3. IInv => InOrder
  <2> SUFFICES ASSUME IInv, NEW d \in Dest, NEW i \in 1..Len(got[d])-1 PROVE got[d][i] <= got[d][i+1]
    BY DEF InOrder
  <2> DEFINE g == got[d]
             L == Line(d)
  <2>1. g \in Seq(Nat \ {0}) /\ L[1] = g /\ Ordered(L)
    BY LineStages DEF IInv, OrderInv, LockInv, TypeOK, BoxesOK
  <2> HIDE DEF g, L
  <2>2. i \in 1..Len(g)-1
    BY DEF g
  <2>3. i \in DOMAIN g /\ i + 1 \in DOMAIN g /\ g[i] # 0 /\ g[i+1] # 0 /\ Before(1, i, 1, i + 1)
    BY <2>1, <2>2 DEF Before
  <2>4. 1 \in Stage
    BY DEF Stage
  <2>5. g[i] <= g[i+1]
    BY <2>1, <2>3, <2>4 DEF Ordered
  <2> QED BY <2>5 DEF g
<1> QED BY <1>1, <1>2, <1>3, PTL DEF Spec

=============================================================================
