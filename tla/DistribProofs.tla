--------------------------- MODULE DistribProofs ---------------------------
(***************************************************************************)
(* Proofs about the distribution layer, for every number of nodes, every   *)
(* path of a network through them, every capacity and every interleaving   *)
(* of managers, readers and messages: the state is well typed, and the two *)
(* locks of an input manager never block each other.                       *)
(***************************************************************************)
EXTENDS Distrib, SequenceTheorems, FiniteSetTheorems, TLAPS

(* What the streams and messages carry.  Numbers of records start at one.  *)
Ref == [key: Key, id: Nat \ {0}]
Carried == [kind: {"data"}, ref: Ref] \cup [kind: {"term"}]
Recs == Carried \cup [kind: {"sync"}]
Message ==
  [type: {"rec"}, dest: Dest, rec: Carried] \cup [type: {"block", "unblock"}, dest: Dest]
  \cup [type: {"ref_update", "ref_fetch"}, ref: Ref, val: -1..1]
  \cup [type: {"ref_set"}, ref: Ref, val: Nat] \cup [type: {"update", "stop"}]

(* The destinations are those of the network.                              *)
Dests(p) == UNION {Routes(p, n).outs : n \in Node}
PlanOK ==
  /\ plan \in Network
  /\ \E i \in 2..Len(plan.path) : plan.path[i] # plan.path[i-1]
  /\ Dest = Dests(plan.path)

NetOK ==
  /\ net \in [Node -> [Node -> Seq(Message)]]
  /\ out \in [Dest -> [cur: Seq(Recs), next: Seq(Recs)]]
  /\ in \in [Dest -> Seq(Carried)]
  /\ inCap \in Nat \ {0}

Faults == {"remote", "local", "datum", "freed", "left"}
EntryType == [count: Nat, data: Nat, list: Seq(Ref)]
RefsType ==
  [local: [Key -> Nat], remote: [Node -> [Key -> EntryType]],
   users: [Key -> Int], id: [Key -> Nat], wrong: SUBSET Faults, untold: [Key -> Int]]

OMType ==
  [pc: {"start", "poll", "outgoing", "block", "unblock", "done"}, running: BOOLEAN, wakeup: BOOLEAN,
   map: SUBSET Dest, waiting: SUBSET Dest, blocked: SUBSET Dest, newStreams: SUBSET Dest,
   newBlocked: Seq(Dest), newUnblocked: Seq(Dest), failed: BOOLEAN]

IMType ==
  [pc: {"recv", "handle", "update", "drain", "stopping", "done"}, map: SUBSET Dest,
   newStreams: SUBSET Dest, hand: Message \cup {NoMsg}, unblocked: Seq(Dest),
   lock: {"free", "manager"}, failed: BOOLEAN]

BufType ==
  [counter: Int, list: Seq(Carried), done: BOOLEAN, lock: {"free", "reader"}, freed: BOOLEAN]

ManagersOK ==
  /\ om \in [Node -> OMType]
  /\ im \in [Node -> IMType]
  /\ buf \in [Dest -> BufType]
  /\ cb \in [Dest -> {"none", "count", "unblock"}]

BoxesOK ==
  /\ begun \in BOOLEAN /\ made \in Nat /\ ended \in BOOLEAN /\ copied \in Nat
  /\ spare \in Seq(Ref)
  /\ held \in [Dest -> Seq(Ref)]
  /\ got \in [Dest -> Seq(Nat \ {0})]

TypeOK == PlanOK /\ NetOK /\ refs \in RefsType /\ ManagersOK /\ BoxesOK

(* Everything about a destination is at the ends of it: messages under     *)
(* way, the message in hand, and the streams the output manager knows.     *)
RoutedMsg(x, m, n) == x.type = "rec" => x.dest.src = m /\ x.dest.dst = n
Routed(N) == \A m, n \in Node : \A i \in DOMAIN N[m][n] : RoutedMsg(N[m][n][i], m, n)
OwnStreams(n, O) == \A d \in O.map \cup O.waiting \cup O.newStreams : d.src = n
InHand(n, I) == I.pc = "handle" => I.hand.type = "rec" /\ I.hand.dest.dst = n

RouteInv == Routed(net) /\ \A n \in Node : OwnStreams(n, om[n]) /\ InHand(n, im[n])

(* A buffer counts the records in its stream and a read not accounted for; *)
(* a reader keeps the mutex only to put a buffer with waiting records on   *)
(* the list.                                                               *)
AccountInv ==
  \A d \in Dest :
    /\ buf[d].counter = Len(in[d]) + (IF cb[d] = "count" THEN 1 ELSE 0)
    /\ buf[d].lock = "reader" <=> cb[d] = "unblock"
    /\ cb[d] = "unblock" => buf[d].counter = 0 /\ buf[d].list # << >>

(* A buffer on the unblocked list is there once, on its own node, has an   *)
(* empty stream and waiting records.                                       *)
UnblockedInv ==
  \A n \in Node : \A i \in DOMAIN im[n].unblocked :
    LET d == im[n].unblocked[i]
    IN  /\ d.dst = n /\ cb[d] = "none" /\ buf[d].counter = 0 /\ buf[d].list # << >>
        /\ \A j \in DOMAIN im[n].unblocked : im[n].unblocked[j] = d => j = i

LockInv == TypeOK /\ RouteInv /\ AccountInv /\ UnblockedInv

-----------------------------------------------------------------------------
(* The i-th location of path p, where the location changes, and the        *)
(* destination a change there is given.                                    *)
Changes(p, i) == {j \in 2..i : p[j] # p[j-1]}
RouteAt(p, i) == [dest |-> Cardinality(Changes(p, i)) - 1, src |-> p[i-1], dst |-> p[i]]

(* The routes of a node are those of the changes from it and to it.        *)
LEMMA RoutesAt ==
  ASSUME NEW p, NEW n
  PROVE  /\ Routes(p, n).outs = {RouteAt(p, i) : i \in {j \in Changes(p, Len(p)) : p[j-1] = n}}
         /\ Routes(p, n).ins = {RouteAt(p, i) : i \in {j \in Changes(p, Len(p)) : p[j] = n}}
<1>1. ASSUME NEW i \in 2..Len(p)
      PROVE  i \in Changes(p, i) <=> i \in Changes(p, Len(p))
  BY DEF Changes
<1>2. ASSUME NEW i \in 2..Len(p)
      PROVE  /\ SNetRouteUpdate(p, i, n).outs =
                   IF i \in Changes(p, Len(p)) /\ p[i-1] = n THEN {RouteAt(p, i)} ELSE {}
             /\ SNetRouteUpdate(p, i, n).ins =
                   IF i \in Changes(p, Len(p)) /\ p[i] = n THEN {RouteAt(p, i)} ELSE {}
  <2>1. i \in Changes(p, Len(p)) => p[i] # p[i-1]
    BY DEF Changes
  <2> QED BY <1>1, <2>1 DEF SNetRouteUpdate, Changes, RouteAt
<1>3. Changes(p, Len(p)) \subseteq 2..Len(p)
  BY DEF Changes
<1>4. Routes(p, n).outs = UNION {SNetRouteUpdate(p, i, n).outs : i \in 2..Len(p)}
  BY DEF Routes
<1>5. Routes(p, n).ins = UNION {SNetRouteUpdate(p, i, n).ins : i \in 2..Len(p)}
  BY DEF Routes
<1>6. Routes(p, n).outs = {RouteAt(p, i) : i \in {j \in Changes(p, Len(p)) : p[j-1] = n}}
  <2> DEFINE I == {j \in Changes(p, Len(p)) : p[j-1] = n}
  <2>1. ASSUME NEW i \in 2..Len(p)
        PROVE  SNetRouteUpdate(p, i, n).outs = IF i \in I THEN {RouteAt(p, i)} ELSE {}
    BY <1>2
  <2>2. I \subseteq 2..Len(p)
    BY <1>3
  <2> HIDE DEF I
  <2>3. ASSUME NEW d \in Routes(p, n).outs PROVE \E i \in I : d = RouteAt(p, i)
    <3>1. PICK i \in 2..Len(p) : d \in SNetRouteUpdate(p, i, n).outs
      BY <1>4
    <3> QED BY <2>1, <3>1
  <2>4. ASSUME NEW i \in I PROVE RouteAt(p, i) \in Routes(p, n).outs
    <3>1. i \in 2..Len(p) /\ RouteAt(p, i) \in SNetRouteUpdate(p, i, n).outs
      BY <2>1, <2>2
    <3> QED BY <3>1, <1>4
  <2>5. Routes(p, n).outs = {RouteAt(p, i) : i \in I}
    BY <2>3, <2>4
  <2> QED BY <2>5 DEF I
<1>7. Routes(p, n).ins = {RouteAt(p, i) : i \in {j \in Changes(p, Len(p)) : p[j] = n}}
  <2> DEFINE I == {j \in Changes(p, Len(p)) : p[j] = n}
  <2>1. ASSUME NEW i \in 2..Len(p)
        PROVE  SNetRouteUpdate(p, i, n).ins = IF i \in I THEN {RouteAt(p, i)} ELSE {}
    BY <1>2
  <2>2. I \subseteq 2..Len(p)
    BY <1>3
  <2> HIDE DEF I
  <2>3. ASSUME NEW d \in Routes(p, n).ins PROVE \E i \in I : d = RouteAt(p, i)
    <3>1. PICK i \in 2..Len(p) : d \in SNetRouteUpdate(p, i, n).ins
      BY <1>5
    <3> QED BY <2>1, <3>1
  <2>4. ASSUME NEW i \in I PROVE RouteAt(p, i) \in Routes(p, n).ins
    <3>1. i \in 2..Len(p) /\ RouteAt(p, i) \in SNetRouteUpdate(p, i, n).ins
      BY <2>1, <2>2
    <3> QED BY <3>1, <1>5
  <2>5. Routes(p, n).ins = {RouteAt(p, i) : i \in I}
    BY <2>3, <2>4
  <2> QED BY <2>5 DEF I
<1> QED BY <1>6, <1>7

(* Of two changes the later one counts more changes up to it.              *)
LEMMA ChangesCount ==
  ASSUME NEW p, NEW m \in Nat, NEW i \in Changes(p, m), NEW j \in Changes(p, m), i <= j
  PROVE  /\ Cardinality(Changes(p, i)) \in Nat \ {0}
         /\ Cardinality(Changes(p, j)) = Cardinality(Changes(p, i)) => i = j
<1>0. i \in 2..m /\ j \in 2..m /\ p[i] # p[i-1] /\ p[j] # p[j-1]
  BY DEF Changes
<1>1. Changes(p, i) \subseteq 2..i /\ Changes(p, j) \subseteq 2..j
  BY DEF Changes
<1>2. IsFiniteSet(Changes(p, i)) /\ IsFiniteSet(Changes(p, j))
  <2>1. 2 \in Int /\ i \in Int /\ j \in Int
    BY <1>0
  <2>2. IsFiniteSet(2..i) /\ IsFiniteSet(2..j)
    BY <2>1, FS_Interval
  <2> QED BY <1>1, <2>2, FS_Subset
<1>3. Changes(p, i) \subseteq Changes(p, j) /\ i \in Changes(p, i) /\ j \in Changes(p, j)
  BY <1>0 DEF Changes
<1>4. Cardinality(Changes(p, j)) = Cardinality(Changes(p, i)) => Changes(p, i) = Changes(p, j)
  BY <1>2, <1>3, FS_Subset
<1>5. Cardinality(Changes(p, i)) \in Nat /\ Cardinality(Changes(p, i)) # 0
  BY <1>2, <1>3, FS_CardinalityType, FS_EmptySet
<1>6. Changes(p, i) = Changes(p, j) => i = j
  BY <1>0, <1>1, <1>3
<1> QED BY <1>4, <1>5, <1>6

(* The destinations of a network: each is a change of location, all nodes  *)
(* agree on them, and no two have the same number.                         *)
LEMMA DestsOfPath ==
  ASSUME NEW p \in Seq(Node)
  PROVE  /\ Dests(p) \subseteq [dest: Nat, src: Node, dst: Node]
         /\ \A n \in Node : /\ Routes(p, n).outs = {d \in Dests(p) : d.src = n}
                            /\ Routes(p, n).ins = {d \in Dests(p) : d.dst = n}
         /\ \A d, e \in Dests(p) : d.dest = e.dest => d = e
<1> DEFINE C == Changes(p, Len(p))
<1>1. \A i \in C : p[i] \in Node /\ p[i-1] \in Node
  <2> SUFFICES ASSUME NEW i \in C PROVE p[i] \in Node /\ p[i-1] \in Node
    OBVIOUS
  <2>1. i \in 1..Len(p) /\ i - 1 \in 1..Len(p)
    BY DEF Changes
  <2> QED BY <2>1, ElementOfSeq
<1>2. Dests(p) = {RouteAt(p, i) : i \in C}
  <2>1. Dests(p) \subseteq {RouteAt(p, i) : i \in C}
    BY RoutesAt DEF Dests
  <2>2. ASSUME NEW i \in C PROVE RouteAt(p, i) \in Dests(p)
    <3>1. RouteAt(p, i) \in Routes(p, p[i-1]).outs
      BY RoutesAt
    <3> QED BY <3>1, <1>1 DEF Dests
  <2> QED BY <2>1, <2>2
<1>3. \A i, j \in C : /\ Cardinality(Changes(p, i)) \in Nat \ {0}
                      /\ Cardinality(Changes(p, i)) = Cardinality(Changes(p, j)) => i = j
  <2> SUFFICES ASSUME NEW i \in C, NEW j \in C
               PROVE  /\ Cardinality(Changes(p, i)) \in Nat \ {0}
                      /\ Cardinality(Changes(p, i)) = Cardinality(Changes(p, j)) => i = j
    OBVIOUS
  <2>1. Len(p) \in Nat /\ i \in Int /\ j \in Int
    BY LenProperties DEF Changes
  <2>2. CASE i <= j
    BY <2>1, <2>2, ChangesCount
  <2>3. CASE j <= i
    <3>1. Cardinality(Changes(p, i)) \in Nat \ {0}
      BY <2>1, ChangesCount
    <3>2. Cardinality(Changes(p, i)) = Cardinality(Changes(p, j)) => j = i
      BY <2>1, <2>3, ChangesCount
    <3> QED BY <3>1, <3>2
  <2> QED BY <2>1, <2>2, <2>3
<1>4. Dests(p) \subseteq [dest: Nat, src: Node, dst: Node]
  BY <1>1, <1>2, <1>3 DEF RouteAt
<1>5. \A n \in Node : /\ Routes(p, n).outs = {d \in Dests(p) : d.src = n}
                     /\ Routes(p, n).ins = {d \in Dests(p) : d.dst = n}
  BY <1>2, RoutesAt DEF RouteAt
<1>6. \A d, e \in Dests(p) : d.dest = e.dest => d = e
  <2> SUFFICES ASSUME NEW i \in C, NEW j \in C, RouteAt(p, i).dest = RouteAt(p, j).dest
               PROVE  i = j
    BY <1>2
  <2>1. Cardinality(Changes(p, i)) - 1 = Cardinality(Changes(p, j)) - 1
    BY DEF RouteAt
  <2> QED BY <2>1, <1>3
<1> QED BY <1>4, <1>5, <1>6

(* A set of numbers has a smallest one.                                    *)
LEMMA Smallest ==
  ASSUME NEW T \in SUBSET Nat, T # {}
  PROVE  \E x \in T : \A y \in T : x <= y
<1> DEFINE R == OpToRel(<, Nat)
<1>1. R = {ss \in Nat \X Nat : ss[1] < ss[2]}
  BY DEF OpToRel
<1>2. IsWellFoundedOn(R, Nat)
  BY NatLessThanWellFounded
<1>3. \A x, y \in Nat : <<y, x>> \in R <=> y < x
  BY <1>1
<1> HIDE DEF R
<1>4. PICK x \in T : \A y \in T : ~ (<<y, x>> \in R)
  BY <1>2, WFMin, Zenon
<1>5. ASSUME NEW y \in T PROVE x <= y
  <2>1. x \in Nat /\ y \in Nat /\ ~(y < x)
    BY <1>3, <1>4
  <2> QED BY <2>1
<1> QED BY <1>5

(* The first change of location has number 0.                              *)
LEMMA FirstOfPath ==
  ASSUME NEW p \in Seq(Node), \E i \in 2..Len(p) : p[i] # p[i-1]
  PROVE  \E d \in Dests(p) : d.dest = 0
<1> DEFINE C == Changes(p, Len(p))
<1>1. C # {} /\ C \in SUBSET Nat
  BY DEF Changes
<1>2. PICK i \in C : \A j \in C : i <= j
  BY <1>1, Smallest
<1>3. Changes(p, i) = {i}
  <2>1. i \in 2..Len(p) /\ Len(p) \in Nat /\ p[i] # p[i-1]
    BY LenProperties DEF Changes
  <2>2. ASSUME NEW j \in Changes(p, i) PROVE j = i
    <3>1. j \in C /\ j \in 2..i
      BY <2>1 DEF Changes
    <3> QED BY <3>1, <2>1, <1>2
  <2>3. i \in Changes(p, i)
    BY <2>1 DEF Changes
  <2> QED BY <2>2, <2>3
<1>4. RouteAt(p, i).dest = 0
  <2>1. Cardinality({i}) = 1
    BY FS_Singleton
  <2>2. Cardinality(Changes(p, i)) = 1
    BY <1>3, <2>1
  <2> QED BY <2>2 DEF RouteAt
<1>5. RouteAt(p, i) \in Dests(p)
  <2>1. i - 1 \in 1..Len(p)
    BY DEF Changes
  <2>2. p[i-1] \in Node
    BY <2>1, ElementOfSeq
  <2>3. RouteAt(p, i) \in Routes(p, p[i-1]).outs
    BY RoutesAt
  <2> QED BY <2>2, <2>3 DEF Dests
<1> QED BY <1>4, <1>5

(* What the network gives every proof about the state.                     *)
LEMMA DestFacts ==
  ASSUME PlanOK
  PROVE  /\ Dest \subseteq [dest: Nat, src: Node, dst: Node]
         /\ \A n \in Node : /\ Routes(plan.path, n).outs = {d \in Dest : d.src = n}
                            /\ Routes(plan.path, n).ins = {d \in Dest : d.dst = n}
         /\ \A d, e \in Dest : d.dest = e.dest => d = e
         /\ FirstDest \in Dest /\ FirstDest.dest = 0
         /\ \A d \in Dest : HasNext(d) => NextDest(d) \in Dest /\ NextDest(d).dest = d.dest + 1
<1>1. plan.path \in Seq(Node)
  BY DEF PlanOK, Network
<1>2. \E d \in Dest : d.dest = 0
  BY <1>1, FirstOfPath DEF PlanOK
<1>3. FirstDest \in Dest /\ FirstDest.dest = 0
  BY <1>2 DEF FirstDest
<1>4. ASSUME NEW d \in Dest, HasNext(d)
      PROVE  NextDest(d) \in Dest /\ NextDest(d).dest = d.dest + 1
  <2>1. \E e \in Dest : e.dest = d.dest + 1
    BY <1>4 DEF HasNext
  <2> DEFINE x == d.dest + 1
  <2> HIDE DEF x
  <2>2. (CHOOSE e \in Dest : e.dest = x) \in Dest /\ (CHOOSE e \in Dest : e.dest = x).dest = x
    BY <2>1 DEF x
  <2> QED BY <2>2 DEF NextDest, x
<1>5. Dest = Dests(plan.path)
  BY DEF PlanOK
<1> QED BY <1>1, <1>3, <1>4, <1>5, DestsOfPath

-----------------------------------------------------------------------------
(* The pieces the operations on references are made of.                    *)
LEMMA RefsPieces ==
  ASSUME NEW R \in RefsType, NEW n \in Node, NEW k \in Key
  PROVE  /\ R.local[k] \in Nat /\ R.users[k] \in Int /\ R.remote[n][k] \in EntryType
         /\ \A c \in Nat : [R EXCEPT !.local[k] = c] \in RefsType
         /\ \A e \in EntryType : [R EXCEPT !.remote[n][k] = e] \in RefsType
         /\ \A by \in Int : Users(R, k, by) \in RefsType
         /\ \A what \in Faults : Missing(R, what) \in RefsType
         /\ \A id \in Nat : SNetRefCreate(R, k, id) \in RefsType
<1>1. R.local[k] \in Nat /\ R.users[k] \in Int /\ R.remote[n][k] \in EntryType
  BY DEF RefsType
<1>2. \A c \in Nat : [R EXCEPT !.local[k] = c] \in RefsType
  BY DEF RefsType
<1>3. \A e \in EntryType : [R EXCEPT !.remote[n][k] = e] \in RefsType
  BY DEF RefsType
<1>4. \A by \in Int : Users(R, k, by) \in RefsType
  BY DEF RefsType, Users
<1>5. \A what \in Faults : Missing(R, what) \in RefsType
  BY DEF RefsType, Missing
<1>6. ASSUME NEW id \in Nat PROVE SNetRefCreate(R, k, id) \in RefsType
  <2>1. [R EXCEPT !.users[k] = 1] \in RefsType
    <3> DEFINE u == [R.users EXCEPT ![k] = 1]
    <3>1. u \in [Key -> Int]
      BY DEF RefsType
    <3> HIDE DEF u
    <3>2. [R EXCEPT !.users = u] \in RefsType
      BY <3>1 DEF RefsType
    <3> QED BY <3>2 DEF u
  <2>2. [[R EXCEPT !.users[k] = 1] EXCEPT !.id[k] = id] \in RefsType
    BY <2>1 DEF RefsType
  <2> QED BY <2>2 DEF SNetRefCreate
<1> QED BY <1>1, <1>2, <1>3, <1>4, <1>5, <1>6

(* Every operation on references keeps the type of the maps; the owner's   *)
(* counts and the counts of the remote entries never become negative.      *)
LEMMA RefsTypes ==
  ASSUME NEW R \in RefsType, NEW n \in Node, NEW r \in Ref
  PROVE  /\ \A v \in -1..1 : SNetRefUpdate(R, r, v) \in RefsType
         /\ \A id \in Nat : SNetRefSet(R, n, r, id) \in RefsType
         /\ SNetRefCopy(R, n, r) \in RefsType /\ SNetRefDestroy(R, n, r) \in RefsType
         /\ GetCached(R, n, r) \in RefsType /\ GetWait(R, n, r) \in RefsType
         /\ SNetRefIncoming(R, n, r) \in RefsType /\ SNetRefOutgoing(R, n, r) \in RefsType
<1> DEFINE k == r.key
           E == R.remote[n][k]
           Local(c) == [R EXCEPT !.local[k] = c]
           Remote(e) == [R EXCEPT !.remote[n][k] = e]
<1>0. k \in Key /\ NoEntry \in EntryType
  BY DEF Ref, NoEntry, EntryType
<1>1. /\ Missing(R, "remote") \in RefsType /\ Missing(R, "local") \in RefsType
      /\ Missing(R, "datum") \in RefsType
  <2>1. \A what \in Faults : Missing(R, what) \in RefsType
    BY <1>0, RefsPieces
  <2> QED BY <2>1 DEF Faults
<1>2. \A Q \in RefsType : \A by \in Int : Users(Q, k, by) \in RefsType
  BY <1>0, RefsPieces
<1>3. \A e \in EntryType : Remote(e) \in RefsType
  BY <1>0, RefsPieces
<1>4. \A c \in Nat : Local(c) \in RefsType
  BY <1>0, RefsPieces
<1>5. R.local[k] \in Nat /\ E \in EntryType
  BY <1>0, RefsPieces
<1>5a. E.count \in Nat /\ E.data \in Nat /\ E.list \in Seq(Ref)
  BY <1>5 DEF EntryType
<1> HIDE DEF k, E, Local, Remote
<1>6. OneLess(R, n, r) \in RefsType
  <2> DEFINE e == IF E.count = 1 THEN NoEntry ELSE [E EXCEPT !.count = E.count - 1]
  <2>1. E.count # 0 => e \in EntryType
    BY <1>0, <1>5, <1>5a DEF EntryType
  <2>2. OneLess(R, n, r) = IF E.count = 0 THEN Missing(R, "remote") ELSE Remote(e)
    BY DEF OneLess, Entry, E, k, Remote
  <2> HIDE DEF e
  <2> QED BY <2>1, <2>2, <1>1, <1>3
<1>7. ASSUME NEW v \in -1..1 PROVE SNetRefUpdate(R, r, v) \in RefsType
  <2> DEFINE D == Local(R.local[k] + v)
  <2>1. R.local[k] # 0 => R.local[k] + v \in Nat
    BY <1>5
  <2>2. R.local[k] # 0 => D \in RefsType
    BY <2>1, <1>4
  <2>3. SNetRefUpdate(R, r, v) = IF R.local[k] = 0 THEN Missing(R, "local")
                                 ELSE IF D.local[k] = 0 THEN Users(D, k, -1) ELSE D
    BY DEF SNetRefUpdate, Local, k
  <2> HIDE DEF D
  <2> QED BY <2>2, <2>3, <1>1, <1>2
<1>8. ASSUME NEW id \in Nat PROVE SNetRefSet(R, n, r, id) \in RefsType
  <2> DEFINE left == E.count - Len(E.list)
             W == IF \E i \in DOMAIN E.list : E.list[i].id # id THEN Missing(R, "datum") ELSE R
             e == IF left > 0 THEN [count |-> left, data |-> id, list |-> << >>] ELSE NoEntry
  <2>1. W \in RefsType
    BY <1>1
  <2>2. left > 0 => left \in Nat
    <3>1. Len(E.list) \in Nat
      BY <1>5a
    <3> QED BY <3>1, <1>5a
  <2>3. SNetRefSet(R, n, r, id) = IF E.count = 0 THEN Missing(R, "remote")
                                  ELSE [W EXCEPT !.remote[n][k] = e, !.untold[k] = @ + Len(E.list) - 1]
    BY DEF SNetRefSet, Entry, E, k
  <2> HIDE DEF W, left
  <2>4. e \in EntryType
    BY <2>2, <1>0 DEF EntryType
  <2> HIDE DEF e
  <2> DEFINE V == [W EXCEPT !.remote[n][k] = e]
             u == V.untold[k] + Len(E.list) - 1
  <2>5. V \in RefsType
    BY <2>1, <2>4, <1>0, RefsPieces
  <2>6. u \in Int
    <3>1. V.untold[k] \in Int
      <4> HIDE DEF V
      <4> QED BY <2>5, <1>0 DEF RefsType
    <3>2. Len(E.list) \in Nat
      BY <1>5a
    <3> HIDE DEF V
    <3> QED BY <3>1, <3>2
  <2>7. [W EXCEPT !.remote[n][k] = e, !.untold[k] = @ + Len(E.list) - 1] = [V EXCEPT !.untold[k] = u]
    OBVIOUS
  <2> HIDE DEF V, u
  <2>8. [V EXCEPT !.untold[k] = u] \in RefsType
    BY <2>5, <2>6 DEF RefsType
  <2> QED BY <2>3, <2>7, <2>8, <1>1
<1>9. /\ [E EXCEPT !.count = E.count + 1] \in EntryType
      /\ [E EXCEPT !.list = Append(E.list, r)] \in EntryType
  <2>1. E.count + 1 \in Nat /\ Append(E.list, r) \in Seq(Ref)
    BY <1>5a
  <2> QED BY <2>1, <1>5 DEF EntryType
<1>10. SNetRefCopy(R, n, r) \in RefsType
  <2>1. [R EXCEPT !.remote[n][k].count = @ + 1] = Remote([E EXCEPT !.count = E.count + 1])
    BY DEF Remote, E
  <2>2. SNetRefCopy(R, n, r) =
          IF IsLocal(n, r) THEN Users(R, k, 1)
          ELSE IF E.count = 0 THEN Missing(R, "remote")
          ELSE IF E.data # 0 THEN R ELSE Remote([E EXCEPT !.count = E.count + 1])
    BY <2>1 DEF SNetRefCopy, Entry, E, k
  <2> QED BY <2>2, <1>1, <1>2, <1>3, <1>9
<1>11. SNetRefDestroy(R, n, r) \in RefsType /\ GetCached(R, n, r) \in RefsType
  BY <1>2, <1>6 DEF SNetRefDestroy, GetCached, k
<1>12. GetWait(R, n, r) \in RefsType
  <2>1. GetWait(R, n, r) = Remote([E EXCEPT !.list = Append(E.list, r)])
    BY DEF GetWait, Remote, E, k
  <2> QED BY <2>1, <1>3, <1>9
<1>13. SNetRefIncoming(R, n, r) \in RefsType
  <2> DEFINE D == Local(R.local[k] - 1)
  <2>1. R.local[k] # 0 => D \in RefsType
    BY <1>4, <1>5
  <2>2. [R EXCEPT !.remote[n][k].count = @ + 1] = Remote([E EXCEPT !.count = E.count + 1])
    BY DEF Remote, E
  <2>3. SNetRefIncoming(R, n, r) =
          IF ~IsLocal(n, r) THEN Remote([E EXCEPT !.count = E.count + 1])
          ELSE IF R.local[k] = 0 THEN Missing(R, "local")
          ELSE IF D.local[k] = 0 THEN D ELSE Users(D, k, 1)
    BY <2>2 DEF SNetRefIncoming, Local, k
  <2> HIDE DEF D
  <2> QED BY <2>1, <2>3, <1>1, <1>2, <1>3, <1>9
<1>14. SNetRefOutgoing(R, n, r) \in RefsType
  <2> DEFINE D == Local(R.local[k] + 1)
  <2>1. D \in RefsType
    BY <1>4, <1>5
  <2>2. SNetRefOutgoing(R, n, r) =
          IF ~IsLocal(n, r) THEN OneLess(R, n, r)
          ELSE IF R.local[k] > 0 THEN Users(D, k, -1) ELSE D
    BY DEF SNetRefOutgoing, Local, k
  <2> HIDE DEF D
  <2> QED BY <2>1, <2>2, <1>2, <1>6
<1> QED BY <1>7, <1>8, <1>10, <1>11, <1>12, <1>13, <1>14

-----------------------------------------------------------------------------
(* Init: no records, no messages, routes at the nodes that build early.    *)
LEMMA InitLockInv == Init => LockInv
<1> SUFFICES ASSUME Init PROVE LockInv
  OBVIOUS
<1>0. /\ plan \in Network
      /\ \E i \in 2..Len(plan.path) : plan.path[i] # plan.path[i-1]
  BY PlansAssumption DEF Init
<1>1. PlanOK
  BY <1>0 DEF Init, NetInit, PlanOK, Dests, Dest
<1>2. /\ Dest \subseteq [dest: Nat, src: Node, dst: Node]
      /\ \A n \in Node : /\ Routes(plan.path, n).outs = {d \in Dest : d.src = n}
                         /\ Routes(plan.path, n).ins = {d \in Dest : d.dst = n}
  BY <1>1, DestFacts
<1>3. \A S : << >> \in Seq(S)
  OBVIOUS
<1>4. NetOK
  <2>1. out = [d \in Dest |-> [cur |-> << >>, next |-> << >>]]
    BY DEF Init, NetInit, Dest
  <2>2. /\ net = [n \in Node |-> [m \in Node |-> << >>]] /\ in = [d \in Dest |-> << >>]
        /\ inCap = plan.cap
    BY DEF Init, NetInit
  <2>3. inCap \in Nat \ {0}
    BY <1>0, <2>2 DEF Network
  <2> QED BY <1>3, <2>1, <2>2, <2>3 DEF NetOK
<1>5. refs \in RefsType
  <2>1. NoEntry \in EntryType
    BY <1>3 DEF NoEntry, EntryType
  <2> QED BY <2>1 DEF Init, NetInit, SNetReferenceInit, RefsType
<1>6. ManagersOK
  <2>1. om \in [Node -> OMType]
    BY <1>2, <1>3 DEF Init, OManagerInit, OMType
  <2>2. im \in [Node -> IMType]
    BY <1>2, <1>3 DEF Init, IManagerInit, IMType
  <2>3. buf \in [Dest -> BufType]
    BY <1>3 DEF Init, IManagerInit, BufType
  <2>4. cb \in [Dest -> {"none", "count", "unblock"}]
    BY DEF Init, IManagerInit
  <2> QED BY <2>1, <2>2, <2>3, <2>4 DEF ManagersOK
<1>7. BoxesOK
  <2>1. begun = (plan.path[1] \in plan.static)
    BY DEF Init
  <2>2. begun \in BOOLEAN
    BY <2>1
  <2> QED BY <1>3, <2>2 DEF Init, BoxesOK
<1>8. RouteInv
  BY <1>2 DEF Init, NetInit, OManagerInit, IManagerInit, RouteInv, Routed, OwnStreams, InHand
<1>9. AccountInv
  <2>1. \A d \in Dest : /\ in[d] = << >> /\ Len(in[d]) = 0
                        /\ buf[d].counter = 0 /\ buf[d].lock = "free" /\ cb[d] = "none"
    BY DEF Init, NetInit, IManagerInit
  <2> SUFFICES ASSUME NEW d \in Dest
               PROVE  /\ buf[d].counter = Len(in[d]) + (IF cb[d] = "count" THEN 1 ELSE 0)
                      /\ buf[d].lock = "reader" <=> cb[d] = "unblock"
                      /\ cb[d] = "unblock" => buf[d].counter = 0 /\ buf[d].list # << >>
    BY DEF AccountInv
  <2>2. cb[d] = "none" /\ buf[d].lock = "free" /\ buf[d].counter = 0 /\ Len(in[d]) = 0
    BY <2>1
  <2>3. buf[d].counter = Len(in[d]) + (IF cb[d] = "count" THEN 1 ELSE 0)
    BY <2>2
  <2> QED BY <2>2, <2>3
<1>10. UnblockedInv
  BY DEF Init, IManagerInit, UnblockedInv
<1> QED BY <1>1, <1>4, <1>5, <1>6, <1>7, <1>8, <1>9, <1>10 DEF LockInv, TypeOK

(* No step changes the set of destinations, so the types stay the same.    *)
LEMMA TypeFrame ==
  ASSUME PlanOK, Dest' = Dest, plan' \in Network, plan'.path = plan.path
  PROVE  PlanOK' /\ Message' = Message /\ OMType' = OMType /\ IMType' = IMType
<1>1. Message' = Message
  BY DEF Message
<1>2. OMType' = OMType
  BY DEF OMType
<1>3. IMType' = IMType
  BY <1>1 DEF IMType
<1>4. PlanOK'
  BY DEF PlanOK
<1> QED BY <1>1, <1>2, <1>3, <1>4

(* The parts of a step on which nothing is done.                           *)
LEMMA SameBoxes == ASSUME TypeOK, Dest' = Dest, UNCHANGED boxVars PROVE BoxesOK' /\ plan' = plan
BY DEF TypeOK, BoxesOK, boxVars

(* The steps of an output manager that touch no stream.                    *)
LEMMA ManagerState ==
  ASSUME LockInv, NEW n \in Node, NEW O \in OMType, OwnStreams(n, O)
  PROVE  /\ \A pc \in {"start", "poll", "outgoing", "block", "unblock", "done"} :
              [O EXCEPT !.pc = pc] \in OMType /\ OwnStreams(n, [O EXCEPT !.pc = pc])
         /\ UpdateOutgoing(O) \in OMType /\ OwnStreams(n, UpdateOutgoing(O))
         /\ Block(O) \in OMType /\ OwnStreams(n, Block(O))
         /\ Unblock(O) \in OMType /\ OwnStreams(n, Unblock(O))
         /\ StopRunning(O) \in OMType /\ OwnStreams(n, StopRunning(O))
         /\ StopWakeup(O) \in OMType /\ OwnStreams(n, StopWakeup(O))
         /\ \A d \in Dest, block \in BOOLEAN :
              UpdateState(O, d, block) \in OMType /\ OwnStreams(n, UpdateState(O, d, block))
         /\ \A ds \in SUBSET Dest : (\A d \in ds : d.src = n) =>
              NewOut(O, ds) \in OMType /\ OwnStreams(n, NewOut(O, ds))
<1> USE DEF OMType, OwnStreams
<1>1. ASSUME NEW pc \in {"start", "poll", "outgoing", "block", "unblock", "done"}
      PROVE  [O EXCEPT !.pc = pc] \in OMType /\ OwnStreams(n, [O EXCEPT !.pc = pc])
  OBVIOUS
<1>2. UpdateOutgoing(O) \in OMType /\ OwnStreams(n, UpdateOutgoing(O))
  BY DEF UpdateOutgoing
<1>3. Block(O) \in OMType /\ OwnStreams(n, Block(O))
  <2> DEFINE ds == Range(O.newBlocked) \cap O.map
  <2>1. ds \subseteq Dest /\ \A d \in ds : d.src = n
    OBVIOUS
  <2>2. Block(O) = [O EXCEPT !.waiting = @ \ ds, !.blocked = @ \cup ds, !.newBlocked = << >>]
    BY DEF Block
  <2> HIDE DEF ds
  <2>3. O.waiting \ ds \subseteq Dest /\ O.blocked \cup ds \subseteq Dest /\ << >> \in Seq(Dest)
    BY <2>1
  <2>4. Block(O) \in OMType
    BY <2>2, <2>3
  <2>5. /\ Block(O).map = O.map /\ Block(O).waiting = O.waiting \ ds
        /\ Block(O).newStreams = O.newStreams
    BY <2>2
  <2> QED BY <2>1, <2>4, <2>5
<1>4. Unblock(O) \in OMType /\ OwnStreams(n, Unblock(O))
  <2> DEFINE q == O.newUnblocked
             first(i) == {q[j] : j \in 1..i} \cap O.map
             ds == first(Len(q))
             fails == \E i \in DOMAIN q : q[i] \in O.map /\ O.blocked \ first(i - 1) = {}
             failed == O.failed \/ fails
  <2>1. ds \subseteq Dest /\ \A d \in ds : d.src = n
    OBVIOUS
  <2>2. Unblock(O) = [O EXCEPT !.failed = failed, !.blocked = @ \ ds, !.waiting = @ \cup ds,
                               !.newUnblocked = << >>]
    BY DEF Unblock
  <2> HIDE DEF ds, fails
  <2>3. /\ failed \in BOOLEAN /\ << >> \in Seq(Dest)
        /\ O.blocked \ ds \subseteq Dest /\ O.waiting \cup ds \subseteq Dest
    BY <2>1
  <2> HIDE DEF failed
  <2>4. Unblock(O) \in OMType
    BY <2>2, <2>3
  <2>5. /\ Unblock(O).map = O.map /\ Unblock(O).waiting = O.waiting \cup ds
        /\ Unblock(O).newStreams = O.newStreams
    BY <2>2
  <2> QED BY <2>1, <2>4, <2>5
<1>5. /\ StopRunning(O) \in OMType /\ OwnStreams(n, StopRunning(O))
      /\ StopWakeup(O) \in OMType /\ OwnStreams(n, StopWakeup(O))
  BY DEF StopRunning, StopWakeup
<1>6. ASSUME NEW d \in Dest, NEW block \in BOOLEAN
      PROVE  UpdateState(O, d, block) \in OMType /\ OwnStreams(n, UpdateState(O, d, block))
  <2>1. /\ (IF block THEN Append(O.newBlocked, d) ELSE O.newBlocked) \in Seq(Dest)
        /\ (IF block THEN O.newUnblocked ELSE Append(O.newUnblocked, d)) \in Seq(Dest)
    OBVIOUS
  <2> QED BY <2>1 DEF UpdateState
<1>7. ASSUME NEW ds \in SUBSET Dest, \A d \in ds : d.src = n
      PROVE  NewOut(O, ds) \in OMType /\ OwnStreams(n, NewOut(O, ds))
  BY <1>7 DEF NewOut
<1> QED BY <1>1, <1>2, <1>3, <1>4, <1>5, <1>6, <1>7

(* The positions of a sequence that has grown or shrunk by one.            *)
LEMMA AppendFacts ==
  ASSUME NEW S, NEW s \in Seq(S), NEW x \in S
  PROVE  /\ Append(s, x) \in Seq(S) /\ Len(s) \in Nat
         /\ DOMAIN s = 1..Len(s) /\ DOMAIN Append(s, x) = 1..(Len(s) + 1)
         /\ Append(s, x)[Len(s) + 1] = x
         /\ \A j \in 1..Len(s) : Append(s, x)[j] = s[j]
<1>1. Append(s, x) \in Seq(S) /\ Len(Append(s, x)) = Len(s) + 1
  BY AppendProperties
<1>2. DOMAIN Append(s, x) = 1..Len(Append(s, x)) /\ DOMAIN s = 1..Len(s) /\ Len(s) \in Nat
  BY <1>1, LenProperties
<1> QED BY <1>1, <1>2, AppendProperties

(* The rest of a sequence and its first element.                           *)
LEMMA TailFacts ==
  ASSUME NEW S, NEW s \in Seq(S), s # << >>
  PROVE  /\ Tail(s) \in Seq(S) /\ Head(s) \in S /\ Head(s) = s[1] /\ Len(s) \in Nat \ {0}
         /\ DOMAIN s = 1..Len(s) /\ DOMAIN Tail(s) = 1..(Len(s) - 1)
         /\ \A j \in 1..(Len(s) - 1) : Tail(s)[j] = s[j + 1]
OBVIOUS

(* One message more and one message less on the way.                       *)
LEMMA MessageSent ==
  ASSUME NEW S, NEW N \in [Node -> [Node -> Seq(S)]], NEW n \in Node, NEW m \in Node, NEW x \in S
  PROVE  /\ Sent(N, n, m, <<x>>) \in [Node -> [Node -> Seq(S)]]
         /\ Sent(N, n, m, <<x>>)[n][m] = Append(N[n][m], x)
         /\ \A i, j \in Node : i # n \/ j # m => Sent(N, n, m, <<x>>)[i][j] = N[i][j]
         /\ Routed(N) /\ RoutedMsg(x, n, m) => Routed(Sent(N, n, m, <<x>>))
<1>1. N[n][m] \in Seq(S)
  OBVIOUS
<1>2. N[n][m] \o <<x>> = Append(N[n][m], x) /\ Append(N[n][m], x) \in Seq(S)
  BY <1>1, AppendIsConcat
<1> DEFINE M == Sent(N, n, m, <<x>>)
<1> DEFINE t == Append(N[n][m], x)
<1>3. M = [N EXCEPT ![n][m] = t] /\ t \in Seq(S)
  BY <1>2 DEF Sent
<1> HIDE DEF t, M
<1>4. /\ M \in [Node -> [Node -> Seq(S)]] /\ M[n][m] = t
      /\ \A i, j \in Node : i # n \/ j # m => M[i][j] = N[i][j]
  BY <1>3
<1>5. ASSUME Routed(N), RoutedMsg(x, n, m), NEW a \in Node, NEW b \in Node, NEW i \in DOMAIN M[a][b]
      PROVE  RoutedMsg(M[a][b][i], a, b)
  <2>1. CASE a = n /\ b = m
    <3> DEFINE s == N[n][m]
    <3>1. s \in Seq(S) /\ M[n][m] = Append(s, x)
      BY <1>1, <1>4 DEF t
    <3> HIDE DEF s
    <3>2. /\ DOMAIN Append(s, x) = 1..(Len(s) + 1) /\ DOMAIN s = 1..Len(s) /\ Len(s) \in Nat
          /\ Append(s, x)[Len(s) + 1] = x
          /\ \A j \in 1..Len(s) : Append(s, x)[j] = s[j]
      BY <3>1, AppendFacts
    <3>3. M[a][b][i] = x \/ (i \in DOMAIN s /\ M[a][b][i] = s[i])
      BY <3>1, <3>2, <2>1
    <3> QED BY <3>3, <2>1, <1>5 DEF Routed, s
  <2>2. CASE a # n \/ b # m
    BY <2>2, <1>4, <1>5 DEF Routed
  <2> QED BY <2>1, <2>2
<1>6. Routed(N) /\ RoutedMsg(x, n, m) => Routed(M)
  BY <1>5 DEF Routed
<1> QED BY <1>4, <1>6 DEF M, t

(* The first message of a queue is taken: its type and its route.          *)
LEMMA MessageTaken ==
  ASSUME NEW S, NEW N \in [Node -> [Node -> Seq(S)]], NEW m \in Node, NEW n \in Node, N[m][n] # << >>
  PROVE  LET M == [N EXCEPT ![m][n] = Tail(@)]
         IN  /\ M \in [Node -> [Node -> Seq(S)]] /\ M[m][n] = Tail(N[m][n])
             /\ \A i, j \in Node : i # m \/ j # n => M[i][j] = N[i][j]
             /\ Head(N[m][n]) \in S
             /\ Routed(N) => Routed(M) /\ RoutedMsg(Head(N[m][n]), m, n)
<1>1. N[m][n] \in Seq(S) /\ Tail(N[m][n]) \in Seq(S) /\ Head(N[m][n]) \in S
  OBVIOUS
<1> DEFINE M == [N EXCEPT ![m][n] = Tail(@)]
<1>2. /\ M \in [Node -> [Node -> Seq(S)]] /\ M[m][n] = Tail(N[m][n])
      /\ \A i, j \in Node : i # m \/ j # n => M[i][j] = N[i][j]
  BY <1>1
<1> HIDE DEF M
<1>3. /\ DOMAIN M[m][n] = 1..Len(N[m][n]) - 1 /\ DOMAIN N[m][n] = 1..Len(N[m][n])
      /\ Len(N[m][n]) \in Nat \ {0} /\ Head(N[m][n]) = N[m][n][1]
      /\ \A j \in 1..Len(N[m][n]) - 1 : M[m][n][j] = N[m][n][j + 1]
  BY <1>1, <1>2
<1>4. ASSUME Routed(N), NEW a \in Node, NEW b \in Node, NEW i \in DOMAIN M[a][b]
      PROVE  RoutedMsg(M[a][b][i], a, b)
  <2>1. CASE a = m /\ b = n
    <3>1. i + 1 \in DOMAIN N[m][n] /\ M[m][n][i] = N[m][n][i + 1]
      BY <1>3, <2>1
    <3> QED BY <3>1, <2>1, <1>4 DEF Routed
  <2>2. CASE a # m \/ b # n
    BY <2>2, <1>2, <1>4 DEF Routed
  <2> QED BY <2>1, <2>2
<1>5. Routed(N) => RoutedMsg(Head(N[m][n]), m, n)
  BY <1>3 DEF Routed
<1>6. Routed(N) => Routed(M)
  BY <1>4 DEF Routed
<1> QED BY <1>1, <1>2, <1>5, <1>6 DEF M

-----------------------------------------------------------------------------
(* The parts of LockInv a step of an output manager can disturb.           *)
LEMMA SendingTypes ==
  ASSUME LockInv, NEW n \in Node, Sending(n)
  PROVE  TypeOK' /\ RouteInv' /\ Dest' = Dest
<1> DEFINE O == om[n]
<1>0. /\ om \in [Node -> OMType] /\ O \in OMType /\ OwnStreams(n, O)
      /\ UNCHANGED imVars /\ UNCHANGED boxVars
      /\ NetOK /\ refs \in RefsType /\ PlanOK /\ plan' = plan /\ plan \in Network
  BY DEF LockInv, TypeOK, ManagersOK, RouteInv, Sending, PlanOK, boxVars
<1>s. SUFFICES /\ Dest' = Dest /\ NetOK' /\ refs' \in RefsType /\ Routed(net')
               /\ \E Q \in OMType : om' = [om EXCEPT ![n] = Q] /\ OwnStreams(n, Q)
  <2>1. PlanOK' /\ Message' = Message /\ OMType' = OMType /\ IMType' = IMType
    BY <1>0, <1>s, TypeFrame
  <2>2. BoxesOK'
    BY <1>0, <1>s, SameBoxes DEF LockInv
  <2>3. om' \in [Node -> OMType] /\ \A m \in Node : OwnStreams(m, om'[m])
    BY <1>0, <1>s DEF LockInv, RouteInv
  <2>4. ManagersOK'
    BY <1>0, <1>s, <2>1, <2>3 DEF LockInv, TypeOK, ManagersOK, imVars
  <2>5. RouteInv'
    BY <1>0, <1>s, <2>3 DEF LockInv, RouteInv, imVars, Routed, InHand, OwnStreams
  <2> QED BY <1>s, <2>1, <2>2, <2>4, <2>5 DEF TypeOK, RefsType
<1>a. ASSUME UNCHANGED netVars
      PROVE  Dest' = Dest /\ NetOK' /\ refs' \in RefsType /\ Routed(net')
  <2>1. Dest' = Dest
    BY <1>a DEF netVars, Dest
  <2>2. Message' = Message
    BY <2>1 DEF Message
  <2> QED BY <1>a, <1>0, <2>1, <2>2 DEF netVars, NetOK, LockInv, RouteInv
<1>b. ASSUME NEW d \in O.waiting, out[d].cur # << >>, Head(out[d].cur).kind \in {"data", "term"},
             out' = [out EXCEPT ![d].cur = Tail(@)],
             SNetDistribSendRecord(n, d, Head(out[d].cur)), UNCHANGED <<in, inCap>>
      PROVE  Dest' = Dest /\ NetOK' /\ refs' \in RefsType /\ Routed(net')
  <2> DEFINE x == Head(out[d].cur)
  <2>1. d \in Dest /\ d.src = n /\ d.dst \in Node
    BY <1>0, DestFacts DEF OMType, OwnStreams
  <2>2. /\ out[d].cur \in Seq(Recs) /\ Tail(out[d].cur) \in Seq(Recs) /\ x \in Recs
        /\ out[d] \in [cur: Seq(Recs), next: Seq(Recs)]
    BY <1>0, <1>b, <2>1 DEF NetOK
  <2>3. x \in Carried /\ (x.kind = "data" => x.ref \in Ref)
    BY <1>b, <2>2 DEF Recs, Carried
  <2>4. Dest' = Dest
    BY <1>b DEF Dest
  <2>5. Message' = Message
    BY <2>4 DEF Message
  <2>6. out' \in [Dest -> [cur: Seq(Recs), next: Seq(Recs)]]
    BY <1>0, <1>b, <2>1, <2>2 DEF NetOK
  <2> DEFINE msg == RecMsg(d, x)
  <2>7. msg \in Message /\ RoutedMsg(msg, n, d.dst)
    BY <2>1, <2>3 DEF RecMsg, Message, RoutedMsg
  <2>8. net' = Sent(net, n, d.dst, <<msg>>)
    BY <1>b DEF SNetDistribSendRecord
  <2> HIDE DEF msg
  <2>9. net' \in [Node -> [Node -> Seq(Message)]] /\ Routed(net')
    <3>1. net \in [Node -> [Node -> Seq(Message)]] /\ Routed(net)
      BY <1>0 DEF NetOK, LockInv, RouteInv
    <3> QED BY <3>1, <2>1, <2>7, <2>8, MessageSent
  <2>10. refs' \in RefsType
    <3>1. refs' = IF x.kind = "data" THEN SNetRefOutgoing(refs, n, x.ref) ELSE refs
      BY <1>b DEF SNetDistribSendRecord
    <3>2. x.kind = "data" => SNetRefOutgoing(refs, n, x.ref) \in RefsType
      BY <1>0, <2>3, RefsTypes
    <3> QED BY <3>1, <3>2, <1>0
  <2>11. NetOK'
    BY <1>0, <1>b, <2>4, <2>5, <2>6, <2>9 DEF NetOK
  <2> QED BY <2>4, <2>9, <2>10, <2>11
<1>1. CASE OMStart(n) \/ OMUpdateOutgoing(n)
  <2> DEFINE U == UpdateOutgoing(O)
  <2>1. U \in OMType /\ OwnStreams(n, U)
    BY <1>0, ManagerState
  <2> HIDE DEF U
  <2>2. UNCHANGED netVars /\ \E pc \in {"poll", "block"} : om' = [om EXCEPT ![n] = [U EXCEPT !.pc = pc]]
    BY <1>1 DEF OMStart, OMUpdateOutgoing, OMGoto, U
  <2>3. \A pc \in {"poll", "block"} :
          [U EXCEPT !.pc = pc] \in OMType /\ OwnStreams(n, [U EXCEPT !.pc = pc])
    BY <2>1, ManagerState
  <2> QED BY <1>a, <2>2, <2>3
<1>2. CASE OMWakeup(n)
  <2> DEFINE Q == [O EXCEPT !.pc = "outgoing", !.wakeup = FALSE]
  <2>1. UNCHANGED netVars /\ om' = [om EXCEPT ![n] = Q]
    BY <1>2 DEF OMWakeup, OMGoto
  <2>2. Q \in OMType /\ OwnStreams(n, Q)
    BY <1>0 DEF OMType, OwnStreams
  <2> QED BY <1>a, <2>1, <2>2
<1>3. CASE OMBlock(n)
  <2> DEFINE U == Block(O)
             Q == [U EXCEPT !.pc = "unblock"]
  <2>1. U \in OMType /\ OwnStreams(n, U)
    BY <1>0, ManagerState
  <2>2. UNCHANGED netVars /\ om' = [om EXCEPT ![n] = Q]
    BY <1>3 DEF OMBlock, OMGoto
  <2> HIDE DEF U
  <2>3. Q \in OMType /\ OwnStreams(n, Q)
    BY <2>1, ManagerState
  <2> QED BY <1>a, <2>2, <2>3
<1>4. CASE OMUnblock(n)
  <2> DEFINE U == Unblock(O)
             Q == [U EXCEPT !.pc = "poll"]
  <2>1. U \in OMType /\ OwnStreams(n, U)
    BY <1>0, ManagerState
  <2>2. UNCHANGED netVars /\ om' = [om EXCEPT ![n] = Q]
    BY <1>4 DEF OMUnblock, OMGoto
  <2> HIDE DEF U
  <2>3. Q \in OMType /\ OwnStreams(n, Q)
    BY <2>1, ManagerState
  <2> QED BY <1>a, <2>2, <2>3
<1>5. CASE OMExit(n)
  <2> DEFINE left == O.map # {} \/ O.waiting # {} \/ O.blocked # {}
             f == O.failed \/ left
             Q == [O EXCEPT !.pc = "done", !.failed = f]
  <2>1. UNCHANGED netVars /\ om' = [om EXCEPT ![n] = Q]
    BY <1>5 DEF OMExit, OMGoto
  <2> HIDE DEF left
  <2>2. f \in BOOLEAN
    BY <1>0 DEF OMType
  <2> HIDE DEF f
  <2>3. Q \in OMType /\ OwnStreams(n, Q)
    BY <1>0, <2>2 DEF OMType, OwnStreams
  <2> QED BY <1>a, <2>1, <2>3
<1>6. CASE \E d \in O.waiting : OMTerm(n, d)
  <2>1. PICK d \in O.waiting : OMTerm(n, d)
    BY <1>6
  <2> DEFINE Q == [O EXCEPT !.map = @ \ {d}, !.waiting = @ \ {d}]
  <2>2. /\ out[d].cur # << >> /\ Head(out[d].cur).kind \in {"data", "term"}
        /\ out' = [out EXCEPT ![d].cur = Tail(@)]
        /\ SNetDistribSendRecord(n, d, Head(out[d].cur)) /\ UNCHANGED <<in, inCap>>
        /\ om' = [om EXCEPT ![n] = Q]
    BY <2>1 DEF OMTerm, OMReads, OMGoto
  <2>3. Q \in OMType /\ OwnStreams(n, Q)
    BY <1>0 DEF OMType, OwnStreams
  <2> QED BY <1>b, <2>2, <2>3
<1>7. CASE \E d \in O.waiting : OMSend(n, d)
  <2>1. PICK d \in O.waiting : OMSend(n, d)
    BY <1>7
  <2>2. /\ out[d].cur # << >> /\ Head(out[d].cur).kind \in {"data", "term"}
        /\ out' = [out EXCEPT ![d].cur = Tail(@)]
        /\ SNetDistribSendRecord(n, d, Head(out[d].cur)) /\ UNCHANGED <<in, inCap>>
        /\ om' = [om EXCEPT ![n] = O]
    BY <1>0, <2>1 DEF OMSend, OMReads
  <2> QED BY <1>0, <1>b, <2>2
<1>8. CASE \E d \in O.waiting : OMSync(n, d)
  <2>1. PICK d \in O.waiting : OMSync(n, d)
    BY <1>8
  <2>2. /\ out' = [out EXCEPT ![d] = [cur |-> out[d].next, next |-> << >>]]
        /\ UNCHANGED <<net, in, inCap, refs>> /\ om' = [om EXCEPT ![n] = O]
    BY <1>0, <2>1 DEF OMSync
  <2>3. d \in Dest
    BY <1>0 DEF OMType
  <2>4. Dest' = Dest
    BY <2>2 DEF Dest
  <2>5. Message' = Message
    BY <2>4 DEF Message
  <2>6. [cur |-> out[d].next, next |-> << >>] \in [cur: Seq(Recs), next: Seq(Recs)]
    BY <1>0, <2>3 DEF NetOK
  <2>7. NetOK'
    BY <1>0, <2>2, <2>3, <2>4, <2>5, <2>6 DEF NetOK
  <2>8. refs' \in RefsType /\ Routed(net')
    BY <1>0, <2>2 DEF LockInv, RouteInv
  <2> QED BY <1>0, <2>2, <2>4, <2>7, <2>8
<1> QED BY <1>1, <1>2, <1>3, <1>4, <1>5, <1>6, <1>7, <1>8 DEF Sending, SNetOutputManager

(* A message a node takes from the network.                                *)
LEMMA TakenTypes ==
  ASSUME LockInv, NEW n \in Node, NEW m \in Node, NEW types, Receives(n, m, types)
  PROVE  /\ Head(net[m][n]) \in Message /\ Head(net[m][n]).type \in types
         /\ RoutedMsg(Head(net[m][n]), m, n)
         /\ Received(m, n) \in [Node -> [Node -> Seq(Message)]] /\ Routed(Received(m, n))
<1>1. net \in [Node -> [Node -> Seq(Message)]] /\ Routed(net)
  BY DEF LockInv, TypeOK, NetOK, RouteInv
<1>2. net[m][n] # << >> /\ Head(net[m][n]).type \in types
  BY DEF Receives
<1> QED BY <1>1, <1>2, MessageTaken DEF Received

(* The same for an input manager.                                          *)
LEMMA ReceivingTypes ==
  ASSUME LockInv, NEW n \in Node, Receiving(n)
  PROVE  TypeOK' /\ RouteInv' /\ Dest' = Dest
<1> DEFINE I == im[n]
           NetType == [Node -> [Node -> Seq(Message)]]
<1>0. /\ om \in [Node -> OMType] /\ om[n] \in OMType /\ OwnStreams(n, om[n])
      /\ im \in [Node -> IMType] /\ I \in IMType /\ InHand(n, I)
      /\ buf \in [Dest -> BufType] /\ cb \in [Dest -> {"none", "count", "unblock"}]
      /\ net \in NetType /\ Routed(net) /\ in \in [Dest -> Seq(Carried)] /\ inCap \in Nat \ {0}
      /\ UNCHANGED boxVars /\ refs \in RefsType /\ PlanOK /\ plan' = plan /\ plan \in Network
  BY DEF LockInv, TypeOK, NetOK, ManagersOK, RouteInv, Receiving, PlanOK, boxVars
<1>s. SUFFICES /\ UNCHANGED <<out, inCap, cb>>
               /\ net' \in NetType /\ Routed(net') /\ in' \in [Dest -> Seq(Carried)]
               /\ refs' \in RefsType /\ buf' \in [Dest -> BufType]
               /\ \E Q \in OMType : om' = [om EXCEPT ![n] = Q] /\ OwnStreams(n, Q)
               /\ \E J \in IMType : im' = [im EXCEPT ![n] = J] /\ InHand(n, J)
  <2>0. Dest' = Dest
    BY <1>s DEF Dest
  <2>1. PlanOK' /\ Message' = Message /\ OMType' = OMType /\ IMType' = IMType
    BY <1>0, <2>0, TypeFrame
  <2>2. BoxesOK'
    BY <1>0, <2>0, SameBoxes DEF LockInv
  <2>3. om' \in [Node -> OMType] /\ \A m \in Node : OwnStreams(m, om'[m])
    BY <1>0, <1>s DEF LockInv, RouteInv
  <2>4. im' \in [Node -> IMType] /\ \A m \in Node : InHand(m, im'[m])
    BY <1>0, <1>s DEF LockInv, RouteInv
  <2>5. ManagersOK'
    BY <1>0, <1>s, <2>0, <2>1, <2>3, <2>4 DEF ManagersOK
  <2>6. NetOK'
    BY <1>0, <1>s, <2>0, <2>1 DEF NetOK, LockInv, TypeOK
  <2>7. RouteInv'
    BY <1>s, <2>3, <2>4 DEF RouteInv, Routed, InHand, OwnStreams
  <2> QED BY <1>s, <2>0, <2>1, <2>2, <2>5, <2>6, <2>7 DEF TypeOK, RefsType
<1>1. CASE \E m \in Node : RecvRecord(n, m, plan.path)
  <2>1. PICK m \in Node : RecvRecord(n, m, plan.path)
    BY <1>1
  <2> DEFINE x == Head(net[m][n])
             known == I.map \cup I.newStreams
             new == x.dest \notin known
             ins == known \cup (IF new THEN Routes(plan.path, n).ins ELSE {})
             J == [I EXCEPT !.pc = "handle", !.hand = x, !.newStreams = {}, !.map = ins]
             Q == IF new THEN NewOut(om[n], Routes(plan.path, n).outs) ELSE om[n]
  <2>2. /\ x \in Message /\ x.type \in {"rec"} /\ RoutedMsg(x, m, n)
        /\ Received(m, n) \in NetType /\ Routed(Received(m, n))
    BY <2>1, TakenTypes DEF RecvRecord
  <2>3. /\ net' = Received(m, n) /\ UNCHANGED <<out, in, inCap, buf, cb>>
        /\ refs' = IF x.rec.kind = "data" THEN SNetRefIncoming(refs, n, x.rec.ref) ELSE refs
        /\ im' = [im EXCEPT ![n] = J] /\ om' = [om EXCEPT ![n] = Q]
    BY <2>1 DEF RecvRecord, IMGoto, OMGoto
  <2>4. x.rec \in Carried /\ x.dest.dst = n
    BY <2>2 DEF Message, RoutedMsg
  <2>5. refs' \in RefsType
    <3>1. x.rec.kind = "data" => x.rec.ref \in Ref
      BY <2>4 DEF Carried
    <3>2. x.rec.kind = "data" => SNetRefIncoming(refs, n, x.rec.ref) \in RefsType
      BY <1>0, <3>1, RefsTypes
    <3> QED BY <1>0, <2>3, <3>2
  <2>6. /\ Routes(plan.path, n).ins \subseteq Dest /\ Routes(plan.path, n).outs \subseteq Dest
        /\ \A d \in Routes(plan.path, n).outs : d.src = n
    <3>1. /\ Routes(plan.path, n).outs = {d \in Dest : d.src = n}
          /\ Routes(plan.path, n).ins = {d \in Dest : d.dst = n}
      BY <1>0, DestFacts
    <3> QED BY <3>1
  <2>7. Q \in OMType /\ OwnStreams(n, Q)
    BY <1>0, <2>6, ManagerState
  <2>8. ins \subseteq Dest
    BY <1>0, <2>6 DEF IMType
  <2> HIDE DEF x, ins, Q
  <2>9. J \in IMType /\ InHand(n, J)
    BY <1>0, <2>2, <2>4, <2>8 DEF IMType, InHand
  <2> QED BY <1>0, <2>2, <2>3, <2>5, <2>7, <2>9
<1>2. CASE HandleRecord(n)
  <2> DEFINE x == I.hand
             d == x.dest
             room == buf[d].list = << >> /\ Len(in[d]) < inCap
             done == buf[d].done \/ x.rec.kind = "term"
             counter == IF room THEN buf[d].counter + 1 ELSE buf[d].counter
             list == IF room THEN buf[d].list ELSE Append(buf[d].list, x.rec)
             B == [buf[d] EXCEPT !.done = @ \/ x.rec.kind = "term",
                                 !.counter = IF room THEN @ + 1 ELSE @,
                                 !.list = IF room THEN @ ELSE Append(@, x.rec)]
             failed == I.failed \/ d \notin I.map
             map == IF x.rec.kind = "term" THEN I.map \ {d} ELSE I.map
             J == [I EXCEPT !.pc = "recv", !.hand = NoMsg, !.failed = failed, !.map = map]
             y == DestMsg("block", d)
  <2>1. /\ I.pc = "handle" /\ buf' = [buf EXCEPT ![d] = B]
        /\ in' = (IF room THEN [in EXCEPT ![d] = Append(in[d], x.rec)] ELSE in)
        /\ net' = (IF ~room /\ buf[d].list = << >> THEN Sent(net, n, d.src, <<y>>) ELSE net)
        /\ im' = [im EXCEPT ![n] = J] /\ UNCHANGED <<out, inCap, refs, om, cb>>
    <3>1. /\ I.pc = "handle" /\ UNCHANGED <<out, inCap, refs, om, cb>>
          /\ in' = (IF room THEN [in EXCEPT ![d] = Append(in[d], x.rec)] ELSE in)
      BY <1>2 DEF HandleRecord
    <3>2. net' = (IF ~room /\ buf[d].list = << >> THEN Sent(net, n, d.src, <<y>>) ELSE net)
      BY <1>2 DEF HandleRecord
    <3>3. buf' = [buf EXCEPT ![d] = B]
      BY <1>2, Zenon DEF HandleRecord
    <3>4. im' = [im EXCEPT ![n] = J]
      BY <1>2 DEF HandleRecord, IMGoto
    <3> QED BY <3>1, <3>2, <3>3, <3>4
  <2>2. x \in Message /\ x.type = "rec"
    BY <1>0, <2>1 DEF InHand, IMType, NoMsg, Signal
  <2>3. d \in Dest /\ x.rec \in Carried
    BY <2>2 DEF Message
  <2>4. d.src \in Node
    BY <1>0, <2>3, DestFacts
  <2>5. /\ buf[d] \in BufType /\ buf[d].counter \in Int /\ buf[d].list \in Seq(Carried)
        /\ buf[d].done \in BOOLEAN /\ in[d] \in Seq(Carried)
    BY <1>0, <2>3 DEF BufType
  <2>6. y \in Message /\ RoutedMsg(y, n, d.src)
    BY <2>3 DEF Message, DestMsg, RoutedMsg
  <2>7. failed \in BOOLEAN /\ map \subseteq Dest
    BY <1>0 DEF IMType
  <2> HIDE DEF y, d, x
  <2>8. done \in BOOLEAN /\ counter \in Int /\ list \in Seq(Carried)
    BY <2>3, <2>5
  <2>9. B \in BufType
    <3>1. B = [buf[d] EXCEPT !.done = done, !.counter = counter, !.list = list]
      BY <2>5 DEF BufType
    <3> HIDE DEF done, counter, list
    <3> QED BY <2>5, <2>8, <3>1 DEF BufType
  <2> HIDE DEF failed, map
  <2>10. J \in IMType /\ InHand(n, J)
    BY <1>0, <2>7 DEF IMType, InHand
  <2> HIDE DEF B, J, room
  <2>11. buf' \in [Dest -> BufType] /\ in' \in [Dest -> Seq(Carried)]
    <3>1. Append(in[d], x.rec) \in Seq(Carried)
      BY <2>3, <2>5
    <3> QED BY <1>0, <2>1, <2>3, <2>9, <3>1
  <2>12. net' \in NetType /\ Routed(net')
    <3>1. Sent(net, n, d.src, <<y>>) \in NetType /\ Routed(Sent(net, n, d.src, <<y>>))
      BY <1>0, <2>4, <2>6, MessageSent
    <3> QED BY <1>0, <2>1, <3>1
  <2> QED BY <1>0, <2>1, <2>10, <2>11, <2>12
<1>3. CASE RecvUpdate(n)
  <2> DEFINE J == [I EXCEPT !.pc = "update"]
  <2>1. /\ net' = Received(n, n) /\ im' = [im EXCEPT ![n] = J]
        /\ UNCHANGED <<out, in, inCap, refs, om, buf, cb>>
    BY <1>3 DEF RecvUpdate, IMGoto
  <2>2. Received(n, n) \in NetType /\ Routed(Received(n, n))
    BY <1>3, TakenTypes DEF RecvUpdate
  <2>3. J \in IMType /\ InHand(n, J)
    BY <1>0 DEF IMType, InHand
  <2> QED BY <1>0, <2>1, <2>2, <2>3
<1>4. CASE LockUnblocked(n) \/ UnlockUnblocked(n)
  <2>1. PICK pc \in {"drain", "recv"}, lock \in {"free", "manager"} :
          im' = [im EXCEPT ![n] = [I EXCEPT !.pc = pc, !.lock = lock]]
    BY <1>4 DEF LockUnblocked, UnlockUnblocked, IMGoto
  <2> DEFINE J == [I EXCEPT !.pc = pc, !.lock = lock]
  <2>2. UNCHANGED <<net, out, in, inCap, refs, om, buf, cb>>
    BY <1>4 DEF LockUnblocked, UnlockUnblocked, netVars
  <2>3. J \in IMType /\ InHand(n, J)
    BY <1>0 DEF IMType, InHand
  <2> QED BY <1>0, <2>1, <2>2, <2>3
<1>5. CASE Drain(n)
  <2> DEFINE d == Head(I.unblocked)
             k == Least(inCap - Len(in[d]), Len(buf[d].list))
             rest == SubSeq(buf[d].list, k + 1, Len(buf[d].list))
             moved == SubSeq(buf[d].list, 1, k)
             B == [buf[d] EXCEPT !.list = rest, !.counter = @ + k]
             J == [I EXCEPT !.unblocked = Tail(I.unblocked)]
             y == DestMsg("unblock", d)
  <2>1. /\ I.unblocked # << >> /\ in' = [in EXCEPT ![d] = in[d] \o moved]
        /\ buf' = [buf EXCEPT ![d] = B]
        /\ net' = (IF rest = << >> /\ ~buf[d].done THEN Sent(net, n, d.src, <<y>>) ELSE net)
        /\ im' = [im EXCEPT ![n] = J] /\ UNCHANGED <<out, inCap, refs, om, cb>>
    <3>1. I.unblocked # << >> /\ UNCHANGED <<out, inCap, refs, om, cb>> /\ in' = [in EXCEPT ![d] = in[d] \o moved]
      BY <1>5 DEF Drain
    <3>2. net' = (IF rest = << >> /\ ~buf[d].done THEN Sent(net, n, d.src, <<y>>) ELSE net)
      BY <1>5 DEF Drain
    <3>3. buf' = [buf EXCEPT ![d] = B]
      BY <1>5, Zenon DEF Drain
    <3>4. im' = [im EXCEPT ![n] = J]
      BY <1>5 DEF Drain, IMGoto
    <3> QED BY <3>1, <3>2, <3>3, <3>4
  <2>2. I.unblocked \in Seq(Dest)
    BY <1>0 DEF IMType
  <2>3. /\ d \in Dest /\ Tail(I.unblocked) \in Seq(Dest)
        /\ 1 \in DOMAIN I.unblocked /\ d = I.unblocked[1]
    <3> DEFINE u == I.unblocked
    <3>1. u \in Seq(Dest) /\ u # << >>
      BY <2>1, <2>2
    <3> HIDE DEF u
    <3>2. Head(u) \in Dest /\ Tail(u) \in Seq(Dest) /\ 1 \in DOMAIN u /\ Head(u) = u[1]
      BY <3>1
    <3> QED BY <3>2 DEF u
  <2>4. d.src \in Node
    BY <1>0, <2>3, DestFacts
  <2>5. /\ buf[d] \in BufType /\ buf[d].counter \in Int /\ buf[d].list \in Seq(Carried)
        /\ in[d] \in Seq(Carried)
    BY <1>0, <2>3 DEF BufType
  <2>6. y \in Message /\ RoutedMsg(y, n, d.src)
    BY <2>3 DEF Message, DestMsg, RoutedMsg
  <2>7. J \in IMType /\ InHand(n, J)
    BY <1>0, <2>3 DEF IMType, InHand
  <2> HIDE DEF y, d, J
  <2>8. Len(in[d]) \in Nat /\ Len(buf[d].list) \in Nat
    BY <2>5
  <2>8a. buf[d].counter = 0 /\ Len(in[d]) = 0
    <3>1. cb[d] = "none" /\ buf[d].counter = 0
      BY <2>3 DEF LockInv, UnblockedInv
    <3>2. buf[d].counter = Len(in[d]) + (IF cb[d] = "count" THEN 1 ELSE 0)
      BY <2>3 DEF LockInv, AccountInv
    <3> QED BY <2>8, <3>1, <3>2
  <2>9. k \in Nat /\ k <= Len(buf[d].list)
    BY <1>0, <2>8, <2>8a DEF Least
  <2> HIDE DEF k
  <2>10. rest \in Seq(Carried) /\ moved \in Seq(Carried)
    <3>1. \A i \in 1..Len(buf[d].list) : buf[d].list[i] \in Carried
      BY <2>5
    <3>2. rest \in Seq(Carried)
      <4>1. k + 1 \in Int /\ \A i \in k + 1..Len(buf[d].list) : buf[d].list[i] \in Carried
        BY <2>8, <2>9, <3>1
      <4> QED BY <4>1, <2>8, SubSeqProperties
    <3>3. moved \in Seq(Carried)
      <4>1. \A i \in 1..k : buf[d].list[i] \in Carried
        BY <2>8, <2>9, <3>1
      <4> QED BY <4>1, <2>9, SubSeqProperties
    <3> QED BY <3>2, <3>3
  <2> HIDE DEF rest, moved
  <2>11. B \in BufType /\ in[d] \o moved \in Seq(Carried)
    <3>1. buf[d].counter + k \in Int /\ in[d] \o moved \in Seq(Carried)
      BY <2>5, <2>9, <2>10
    <3> QED BY <2>5, <2>10, <3>1 DEF BufType
  <2> HIDE DEF B
  <2>12. buf' \in [Dest -> BufType] /\ in' \in [Dest -> Seq(Carried)]
    BY <1>0, <2>1, <2>3, <2>11
  <2>13. net' \in NetType /\ Routed(net')
    <3>1. Sent(net, n, d.src, <<y>>) \in NetType /\ Routed(Sent(net, n, d.src, <<y>>))
      BY <1>0, <2>4, <2>6, MessageSent
    <3> QED BY <1>0, <2>1, <3>1
  <2> QED BY <1>0, <2>1, <2>7, <2>12, <2>13
<1>6. CASE \E m \in Node : RecvBlock(n, m)
  <2>1. PICK m \in Node : RecvBlock(n, m)
    BY <1>6
  <2> DEFINE x == Head(net[m][n])
             block == x.type = "block"
             Q == UpdateState(om[n], x.dest, block)
  <2>2. /\ x \in Message /\ x.type \in {"block", "unblock"}
        /\ Received(m, n) \in NetType /\ Routed(Received(m, n))
    BY <2>1, TakenTypes DEF RecvBlock
  <2>3. /\ net' = Received(m, n) /\ UNCHANGED <<out, in, inCap, refs, im, buf, cb>>
        /\ om' = [om EXCEPT ![n] = Q]
    BY <2>1 DEF RecvBlock, OMGoto, imVars
  <2>4. x.dest \in Dest /\ block \in BOOLEAN
    BY <2>2 DEF Message
  <2> HIDE DEF x, block
  <2>5. Q \in OMType /\ OwnStreams(n, Q)
    BY <1>0, <2>4, ManagerState
  <2>6. im' = [im EXCEPT ![n] = I]
    BY <1>0, <2>3
  <2> QED BY <1>0, <2>2, <2>3, <2>5, <2>6
<1>7. CASE \E m \in Node : RecvRefSet(n, m) \/ RecvRefUpdate(n, m)
  <2>1. PICK m \in Node : RecvRefSet(n, m) \/ RecvRefUpdate(n, m)
    BY <1>7
  <2> DEFINE x == Head(net[m][n])
  <2>2. /\ x \in Message /\ Received(m, n) \in NetType /\ Routed(Received(m, n))
        /\ \/ x.type \in {"ref_set"} /\ refs' = SNetRefSet(refs, n, x.ref, x.val)
           \/ x.type \in {"ref_update"} /\ refs' = SNetRefUpdate(refs, x.ref, x.val)
    BY <2>1, TakenTypes DEF RecvRefSet, RecvRefUpdate
  <2>3. net' = Received(m, n) /\ UNCHANGED <<out, in, inCap, om, im, buf, cb>>
    BY <2>1 DEF RecvRefSet, RecvRefUpdate, imVars
  <2>4. refs' \in RefsType
    <3>1. CASE x.type = "ref_set" /\ refs' = SNetRefSet(refs, n, x.ref, x.val)
      <4>1. x.ref \in Ref /\ x.val \in Nat
        BY <2>2, <3>1 DEF Message
      <4> QED BY <1>0, <3>1, <4>1, RefsTypes
    <3>2. CASE x.type = "ref_update" /\ refs' = SNetRefUpdate(refs, x.ref, x.val)
      <4>1. x.ref \in Ref /\ x.val \in -1..1
        BY <2>2, <3>2 DEF Message
      <4> QED BY <1>0, <3>2, <4>1, RefsTypes
    <3> QED BY <2>2, <3>1, <3>2
  <2>5. im' = [im EXCEPT ![n] = I] /\ om' = [om EXCEPT ![n] = om[n]]
    BY <1>0, <2>3
  <2> QED BY <1>0, <2>2, <2>3, <2>4, <2>5
<1>8. CASE \E m \in Node : RecvRefFetch(n, m)
  <2>1. PICK m \in Node : RecvRefFetch(n, m)
    BY <1>8
  <2> DEFINE x == Head(net[m][n])
             r == x.ref
             used == IF refs.users[r.key] = 0 THEN Missing(refs, "freed") ELSE refs
             y == RefMsg("ref_set", r, refs.id[r.key])
  <2>2. /\ x \in Message /\ x.type \in {"ref_fetch"}
        /\ Received(m, n) \in NetType /\ Routed(Received(m, n))
    BY <2>1, TakenTypes DEF RecvRefFetch
  <2>3. /\ net' = Sent(Received(m, n), n, m, <<y>>) /\ refs' = SNetRefUpdate(used, r, -1)
        /\ UNCHANGED <<out, in, inCap, om, im, buf, cb>>
    BY <2>1 DEF RecvRefFetch, imVars
  <2>4. r \in Ref /\ r.key \in Key
    BY <2>2 DEF Message, Ref
  <2>5. refs.id[r.key] \in Nat
    BY <1>0, <2>4 DEF RefsType
  <2>6. y \in Message /\ RoutedMsg(y, n, m)
    BY <2>4, <2>5 DEF Message, RefMsg, RoutedMsg
  <2>7. used \in RefsType
    <3>1. \A what \in Faults : Missing(refs, what) \in RefsType
      BY <1>0, <2>4, RefsPieces
    <3> QED BY <1>0, <3>1 DEF Faults
  <2> HIDE DEF r, y, used
  <2>8. refs' \in RefsType
    <3>1. -1 \in -1..1
      OBVIOUS
    <3> QED BY <2>3, <2>4, <2>7, <3>1, RefsTypes
  <2>9. net' \in NetType /\ Routed(net')
    BY <2>2, <2>3, <2>6, MessageSent
  <2>10. im' = [im EXCEPT ![n] = I] /\ om' = [om EXCEPT ![n] = om[n]]
    BY <1>0, <2>3
  <2> QED BY <1>0, <2>3, <2>8, <2>9, <2>10
<1>9. CASE \E m \in Node : RecvStop(n, m)
  <2>1. PICK m \in Node : RecvStop(n, m)
    BY <1>9
  <2> DEFINE failed == I.failed \/ I.map # {}
             J == [I EXCEPT !.pc = "stopping", !.failed = failed]
             Q == StopRunning(om[n])
  <2>2. Received(m, n) \in NetType /\ Routed(Received(m, n))
    BY <2>1, TakenTypes DEF RecvStop
  <2>3. /\ net' = Received(m, n) /\ UNCHANGED <<out, in, inCap, refs, buf, cb>>
        /\ im' = [im EXCEPT ![n] = J] /\ om' = [om EXCEPT ![n] = Q]
    BY <2>1 DEF RecvStop, IMGoto, OMGoto
  <2>4. failed \in BOOLEAN
    BY <1>0 DEF IMType
  <2> HIDE DEF failed
  <2>5. J \in IMType /\ InHand(n, J)
    BY <1>0, <2>4 DEF IMType, InHand
  <2>6. Q \in OMType /\ OwnStreams(n, Q)
    BY <1>0, ManagerState
  <2> QED BY <1>0, <2>2, <2>3, <2>5, <2>6
<1>10. CASE IMStop(n)
  <2> DEFINE J == [I EXCEPT !.pc = "done"]
             Q == StopWakeup(om[n])
  <2>1. /\ UNCHANGED <<net, out, in, inCap, buf, cb>>
        /\ im' = [im EXCEPT ![n] = J] /\ om' = [om EXCEPT ![n] = Q]
        /\ refs' \in {refs, Missing(refs, "left")}
    BY <1>10 DEF IMStop, IMGoto, OMGoto
  <2>2. Missing(refs, "left") \in RefsType
    BY <1>0 DEF Missing, RefsType, Faults
  <2>3. J \in IMType /\ InHand(n, J)
    BY <1>0 DEF IMType, InHand
  <2>4. Q \in OMType /\ OwnStreams(n, Q)
    BY <1>0, ManagerState
  <2> QED BY <1>0, <2>1, <2>2, <2>3, <2>4
<1> QED BY <1>1, <1>2, <1>3, <1>4, <1>5, <1>6, <1>7, <1>8, <1>9, <1>10
        DEF Receiving, SNetInputManager

(* ReadCallback.                                                           *)
LEMMA CallbackTypes ==
  ASSUME LockInv, NEW d \in Dest, Callback(d)
  PROVE  TypeOK' /\ RouteInv' /\ Dest' = Dest
<1> DEFINE n == d.dst
           I == im[n]
           NetType == [Node -> [Node -> Seq(Message)]]
<1>1. /\ PlanOK /\ plan \in Network /\ UNCHANGED boxVars /\ plan' = plan
      /\ im \in [Node -> IMType] /\ buf \in [Dest -> BufType]
      /\ om \in [Node -> OMType] /\ cb \in [Dest -> {"none", "count", "unblock"}]
      /\ net \in NetType /\ NetOK
  BY DEF LockInv, TypeOK, ManagersOK, NetOK, PlanOK, Callback, boxVars
<1>2. n \in Node
  BY <1>1, DestFacts
<1>3. I \in IMType /\ InHand(n, I) /\ buf[d] \in BufType
  BY <1>1, <1>2 DEF LockInv, RouteInv
<1> HIDE DEF n
<1>s. SUFFICES /\ UNCHANGED <<out, in, inCap, refs, om>> /\ net' \in NetType /\ Routed(net')
               /\ cb' \in [Dest -> {"none", "count", "unblock"}] /\ buf' \in [Dest -> BufType]
               /\ \E J \in IMType : im' = [im EXCEPT ![n] = J] /\ InHand(n, J)
  <2>0. Dest' = Dest
    BY <1>s DEF Dest
  <2>1. PlanOK' /\ Message' = Message /\ OMType' = OMType /\ IMType' = IMType
    BY <1>1, <2>0, TypeFrame
  <2>2. BoxesOK'
    BY <1>1, <2>0, SameBoxes DEF LockInv
  <2>3. im' \in [Node -> IMType] /\ \A m \in Node : InHand(m, im'[m])
    BY <1>1, <1>2, <1>s DEF LockInv, RouteInv
  <2>4. ManagersOK'
    BY <1>1, <1>s, <2>0, <2>1, <2>3 DEF ManagersOK
  <2>5. NetOK'
    BY <1>1, <1>s, <2>0, <2>1 DEF NetOK
  <2>6. RouteInv'
    BY <1>s, <2>3 DEF LockInv, RouteInv, Routed, InHand, OwnStreams
  <2>7. refs' \in RefsType
    BY <1>s DEF LockInv, TypeOK
  <2> QED BY <2>0, <2>1, <2>2, <2>4, <2>5, <2>6, <2>7 DEF TypeOK, RefsType
<1>4. CASE CallbackCount(n, d)
  <2> DEFINE c == buf[d].counter - 1
             wait == c = 0 /\ buf[d].list # << >>
             freed == c = 0 /\ ~wait /\ buf[d].done
             lock == IF wait THEN "reader" ELSE "free"
             B == [buf[d] EXCEPT !.counter = c, !.lock = lock, !.freed = freed]
  <2>1. /\ buf' = [buf EXCEPT ![d] = B] /\ cb' = [cb EXCEPT ![d] = IF wait THEN "unblock" ELSE "none"]
        /\ UNCHANGED <<net, out, in, inCap, refs, om, im>>
    BY <1>4 DEF CallbackCount, netVars
  <2>2. c \in Int /\ lock \in {"free", "reader"}
    BY <1>3 DEF BufType
  <2>3. freed \in BOOLEAN
    BY <1>3 DEF BufType
  <2> HIDE DEF c, wait, freed, lock
  <2>4. B \in BufType
    BY <1>3, <2>2, <2>3 DEF BufType
  <2> HIDE DEF B
  <2>5. /\ buf' \in [Dest -> BufType] /\ cb' \in [Dest -> {"none", "count", "unblock"}]
        /\ im' = [im EXCEPT ![n] = I] /\ Routed(net')
    BY <1>1, <2>1, <2>4 DEF LockInv, RouteInv
  <2> QED BY <1>1, <1>3, <2>1, <2>5
<1>5. CASE CallbackUnblock(n, d)
  <2> DEFINE J == [I EXCEPT !.unblocked = Append(I.unblocked, d)]
             y == Signal("update")
  <2>1. /\ buf' = [buf EXCEPT ![d].lock = "free"] /\ cb' = [cb EXCEPT ![d] = "none"]
        /\ UNCHANGED <<out, in, inCap, refs, om>> /\ im' = [im EXCEPT ![n] = J]
        /\ net' = IF I.unblocked = << >> THEN Sent(net, n, n, <<y>>) ELSE net
    BY <1>5 DEF CallbackUnblock, IMGoto
  <2>2. I.unblocked \in Seq(Dest)
    BY <1>3 DEF IMType
  <2>3. Append(I.unblocked, d) \in Seq(Dest)
    BY <2>2
  <2>4. J \in IMType /\ InHand(n, J)
    BY <1>3, <2>3 DEF IMType, InHand
  <2>5. y \in Message /\ RoutedMsg(y, n, n)
    BY DEF Message, Signal, RoutedMsg
  <2> HIDE DEF y, J
  <2>6. net' \in NetType /\ Routed(net')
    <3>1. Routed(net)
      BY DEF LockInv, RouteInv
    <3>2. Sent(net, n, n, <<y>>) \in NetType /\ Routed(Sent(net, n, n, <<y>>))
      BY <1>1, <1>2, <2>5, <3>1, MessageSent
    <3> QED BY <1>1, <2>1, <3>1, <3>2
  <2>7. [buf[d] EXCEPT !.lock = "free"] \in BufType
    BY <1>3 DEF BufType
  <2>8. buf' \in [Dest -> BufType] /\ cb' \in [Dest -> {"none", "count", "unblock"}]
    BY <1>1, <2>1, <2>7
  <2> QED BY <2>1, <2>4, <2>6, <2>8
<1> QED BY <1>4, <1>5 DEF Callback, ReadCallback, n

(* A record written to the stream of a destination.                        *)
LEMMA WrittenTypes ==
  ASSUME NetOK, NEW d \in Dest, NEW x \in Recs
  PROVE  Written(d, x) \in [Dest -> [cur: Seq(Recs), next: Seq(Recs)]]
<1>1. /\ out \in [Dest -> [cur: Seq(Recs), next: Seq(Recs)]]
      /\ out[d] \in [cur: Seq(Recs), next: Seq(Recs)]
  BY DEF NetOK
<1>2. Append(out[d].cur, x) \in Seq(Recs) /\ Append(out[d].next, x) \in Seq(Recs)
  BY <1>1
<1> QED BY <1>1, <1>2 DEF Written

(* The data left when a box gives one away.                                *)
LEMMA WithoutTypes ==
  ASSUME NEW S, NEW s \in Seq(S), NEW i \in DOMAIN s
  PROVE  Without(s, i) \in Seq(S)
<1>1. i \in 1..Len(s) /\ Len(s) \in Nat /\ \A j \in 1..Len(s) : s[j] \in S
  OBVIOUS
<1>2. SubSeq(s, 1, i - 1) \in Seq(S)
  <2>1. i - 1 \in Int /\ \A j \in 1..i - 1 : s[j] \in S
    BY <1>1
  <2> QED BY <2>1, SubSeqProperties
<1>3. SubSeq(s, i + 1, Len(s)) \in Seq(S)
  <2>1. i + 1 \in Int /\ Len(s) \in Int /\ \A j \in i + 1..Len(s) : s[j] \in S
    BY <1>1
  <2> QED BY <2>1, SubSeqProperties
<1> QED BY <1>2, <1>3 DEF Without

(* A message about a reference to its owner.                               *)
LEMMA TellTypes ==
  ASSUME LockInv, NEW n \in Node, NEW r \in Ref, NEW t \in {"ref_update", "ref_fetch"}, NEW v \in -1..1,
         Tell(n, r, t, v)
  PROVE  net' \in [Node -> [Node -> Seq(Message)]] /\ Routed(net')
<1> DEFINE y == RefMsg(t, r, v)
<1>1. y \in Message /\ RoutedMsg(y, n, Owner[r.key])
  BY DEF Message, RefMsg, RoutedMsg
<1>2. net \in [Node -> [Node -> Seq(Message)]] /\ Routed(net) /\ Owner[r.key] \in Node
  BY DistribAssumption DEF LockInv, TypeOK, NetOK, RouteInv, Ref
<1>3. net' = Sent(net, n, Owner[r.key], <<y>>)
  BY DEF Tell
<1> HIDE DEF y
<1> QED BY <1>1, <1>2, <1>3, MessageSent

(* The steps of the box behind d.                                          *)
BoxStep(d) ==
  \/ BoxRead(d) \/ BoxSend(d) \/ BoxEnd(d)
  \/ \E i \in DOMAIN held[d] : BoxCopy(d, i) \/ BoxDestroy(d, i) \/ BoxGetData(d, i)

(* A step of a box keeps the types and routes.                             *)
LEMMA BoxTypes ==
  ASSUME LockInv, NEW d \in Dest, BoxStep(d)
  PROVE  TypeOK' /\ RouteInv' /\ Dest' = Dest
<1> DEFINE NetType == [Node -> [Node -> Seq(Message)]]
           OutType == [Dest -> [cur: Seq(Recs), next: Seq(Recs)]]
<1>1. /\ PlanOK /\ plan \in Network /\ NetOK /\ ManagersOK /\ BoxesOK /\ refs \in RefsType
      /\ net \in NetType /\ Routed(net) /\ out \in OutType /\ in \in [Dest -> Seq(Carried)]
      /\ cb \in [Dest -> {"none", "count", "unblock"}]
      /\ held \in [Dest -> Seq(Ref)] /\ got \in [Dest -> Seq(Nat \ {0})] /\ copied \in Nat
  BY DEF LockInv, TypeOK, ManagersOK, NetOK, PlanOK, BoxesOK, RouteInv
<1>2. d.dst \in Node /\ (HasNext(d) => NextDest(d) \in Dest)
  BY <1>1, DestFacts
<1>3. held[d] \in Seq(Ref) /\ in[d] \in Seq(Carried) /\ got[d] \in Seq(Nat \ {0})
  BY <1>1
<1>s. SUFFICES /\ UNCHANGED <<inCap, om, im, buf, plan, begun, made, spare, ended>>
               /\ net' \in NetType /\ Routed(net') /\ out' \in OutType /\ in' \in [Dest -> Seq(Carried)]
               /\ refs' \in RefsType /\ cb' \in [Dest -> {"none", "count", "unblock"}]
               /\ held' \in [Dest -> Seq(Ref)] /\ got' \in [Dest -> Seq(Nat \ {0})] /\ copied' \in Nat
  <2>0. Dest' = Dest
    BY <1>s DEF Dest
  <2>1. PlanOK' /\ Message' = Message /\ OMType' = OMType /\ IMType' = IMType
    BY <1>1, <1>s, <2>0, TypeFrame
  <2>2. BoxesOK'
    BY <1>1, <1>s, <2>0 DEF BoxesOK
  <2>4. ManagersOK'
    BY <1>1, <1>s, <2>0, <2>1 DEF ManagersOK
  <2>5. NetOK'
    BY <1>1, <1>s, <2>0, <2>1 DEF NetOK
  <2>6. RouteInv'
    BY <1>s DEF LockInv, RouteInv, Routed, InHand, OwnStreams
  <2> QED BY <1>s, <2>0, <2>1, <2>2, <2>4, <2>5, <2>6 DEF TypeOK, RefsType
<1>4. CASE BoxRead(d)
  <2>1. /\ in[d] # << >> /\ Head(in[d]).kind = "data" /\ in' = [in EXCEPT ![d] = Tail(in[d])]
        /\ cb' = [cb EXCEPT ![d] = "count"] /\ held' = [held EXCEPT ![d] = <<Head(in[d]).ref>>]
        /\ got' = [got EXCEPT ![d] = Append(got[d], Head(in[d]).ref.id)]
        /\ UNCHANGED <<net, out, inCap, refs, om, im, buf, plan, begun, made, spare, ended, copied>>
    BY <1>4 DEF BoxRead
  <2>2. Tail(in[d]) \in Seq(Carried) /\ Head(in[d]) \in Carried
    BY <1>3, <2>1
  <2>3. Head(in[d]).ref \in Ref
    BY <2>1, <2>2 DEF Carried
  <2>4. Head(in[d]).ref.id \in Nat \ {0}
    BY <2>3 DEF Ref
  <2>5. Append(got[d], Head(in[d]).ref.id) \in Seq(Nat \ {0}) /\ <<Head(in[d]).ref>> \in Seq(Ref)
    BY <1>3, <2>3, <2>4
  <2> QED BY <1>1, <2>1, <2>2, <2>5
<1>5. CASE BoxSend(d)
  <2> DEFINE x == Data(Head(held[d]))
  <2>1. /\ held[d] # << >> /\ HasNext(d) /\ out' = Written(NextDest(d), x)
        /\ held' = [held EXCEPT ![d] = Tail(held[d])]
        /\ UNCHANGED <<net, in, inCap, refs, om, im, buf, cb, plan, begun, made, spare, ended, copied, got>>
    BY <1>5 DEF BoxSend, imVars
  <2>2. Head(held[d]) \in Ref /\ Tail(held[d]) \in Seq(Ref)
    BY <1>3, <2>1
  <2>3. x \in Recs
    BY <2>2 DEF Data, Recs, Carried
  <2> HIDE DEF x
  <2>4. out' \in OutType
    BY <1>1, <1>2, <2>1, <2>3, WrittenTypes
  <2> QED BY <1>1, <2>1, <2>2, <2>4
<1>6. CASE BoxEnd(d)
  <2> DEFINE stop == Signal("stop")
             far == [m \in Node |-> Append(net[d.dst][m], stop)]
  <2>1. /\ in[d] # << >> /\ in' = [in EXCEPT ![d] = Tail(in[d])] /\ cb' = [cb EXCEPT ![d] = "count"]
        /\ out' = (IF HasNext(d) THEN Written(NextDest(d), Term) ELSE out)
        /\ got' = [got EXCEPT ![d] = Append(got[d], plan.records + 1)]
        /\ net' = (IF HasNext(d) THEN net ELSE [net EXCEPT ![d.dst] = far])
        /\ UNCHANGED <<inCap, refs, om, im, buf, plan, begun, made, spare, ended, held, copied>>
    BY <1>6 DEF BoxEnd
  <2>2. Tail(in[d]) \in Seq(Carried)
    BY <1>3, <2>1
  <2>3. out' \in OutType
    <3>1. Term \in Recs
      BY DEF Term, Recs, Carried
    <3> QED BY <1>1, <1>2, <2>1, <3>1, WrittenTypes
  <2>4. Append(got[d], plan.records + 1) \in Seq(Nat \ {0})
    <3>1. plan.records + 1 \in Nat \ {0}
      BY <1>1 DEF Network
    <3> QED BY <1>3, <3>1
  <2>5. stop \in Message /\ stop.type = "stop"
    BY DEF Message, Signal
  <2> HIDE DEF stop
  <2>6. far \in [Node -> Seq(Message)]
    BY <1>1, <1>2, <2>5
  <2>7. net' \in NetType
    BY <1>1, <1>2, <2>1, <2>6
  <2>8. Routed(net')
    <3>1. CASE HasNext(d)
      BY <1>1, <2>1, <3>1
    <3>2. CASE ~HasNext(d)
      <4>1. net' = [net EXCEPT ![d.dst] = far]
        BY <2>1, <3>2
      <4>2. ASSUME NEW a \in Node, NEW b \in Node, NEW i \in DOMAIN net'[a][b]
            PROVE  RoutedMsg(net'[a][b][i], a, b)
        <5>1. CASE a # d.dst
          BY <1>1, <1>2, <4>1, <4>2, <5>1 DEF Routed
        <5>2. CASE a = d.dst
          <6> DEFINE s == net[a][b]
          <6>1. s \in Seq(Message) /\ net'[a][b] = Append(s, stop)
            BY <1>1, <1>2, <4>1, <5>2
          <6> HIDE DEF s
          <6>2. /\ DOMAIN Append(s, stop) = 1..(Len(s) + 1) /\ DOMAIN s = 1..Len(s) /\ Len(s) \in Nat
                /\ Append(s, stop)[Len(s) + 1] = stop
                /\ \A j \in 1..Len(s) : Append(s, stop)[j] = s[j]
            BY <6>1, SMT
          <6>3. net'[a][b][i] = stop \/ (i \in DOMAIN s /\ net'[a][b][i] = s[i])
            BY <6>1, <6>2, <4>2
          <6> QED BY <1>1, <2>5, <6>3 DEF Routed, RoutedMsg, s
        <5> QED BY <5>1, <5>2
      <4> QED BY <4>2 DEF Routed
    <3> QED BY <3>1, <3>2
  <2> QED BY <1>1, <2>1, <2>2, <2>3, <2>4, <2>7, <2>8
<1>7. CASE \E i \in DOMAIN held[d] : BoxCopy(d, i) \/ BoxDestroy(d, i) \/ BoxGetData(d, i)
  <2>0. PICK i \in DOMAIN held[d] : BoxCopy(d, i) \/ BoxDestroy(d, i) \/ BoxGetData(d, i)
    BY <1>7
  <2> DEFINE n == d.dst
             r == held[d][i]
  <2>1. r \in Ref /\ n \in Node
    BY <1>2, <1>3
  <2>2. Append(held[d], r) \in Seq(Ref) /\ Without(held[d], i) \in Seq(Ref)
    BY <1>3, <2>1, WithoutTypes
  <2>3. CASE BoxCopy(d, i)
    <3>1. /\ copied' = copied + 1 /\ refs' = SNetRefCopy(refs, n, r)
          /\ UNCHANGED net \/ Tell(n, r, "ref_update", 1)
          /\ held' = held \/ held' = [held EXCEPT ![d] = Append(held[d], r)]
          /\ UNCHANGED <<out, in, inCap, om, im, buf, cb, plan, begun, made, spare, ended, got>>
      BY <2>3 DEF BoxCopy, imVars
    <3>2. refs' \in RefsType
      BY <1>1, <2>1, <3>1, RefsTypes
    <3>3. net' \in NetType /\ Routed(net')
      <4>1. CASE UNCHANGED net
        BY <1>1, <4>1
      <4>2. CASE Tell(n, r, "ref_update", 1)
        BY <2>1, <4>2, TellTypes
      <4> QED BY <3>1, <4>1, <4>2
    <3>4. held' \in [Dest -> Seq(Ref)]
      <4> DEFINE s == Append(held[d], r)
      <4>1. s \in Seq(Ref) /\ (held' = held \/ held' = [held EXCEPT ![d] = s])
        BY <2>2, <3>1
      <4> HIDE DEF s
      <4> QED BY <1>1, <4>1
    <3>5. copied' \in Nat
      BY <1>1, <3>1
    <3> QED BY <1>1, <3>1, <3>2, <3>3, <3>4, <3>5
  <2>4. CASE BoxDestroy(d, i)
    <3>1. /\ refs' = SNetRefDestroy(refs, n, r)
          /\ UNCHANGED net \/ Tell(n, r, "ref_update", -1)
          /\ held' = [held EXCEPT ![d] = Without(held[d], i)]
          /\ UNCHANGED <<out, in, inCap, om, im, buf, cb, plan, begun, made, spare, ended, copied, got>>
      BY <2>4 DEF BoxDestroy, imVars
    <3>2. refs' \in RefsType
      BY <1>1, <2>1, <3>1, RefsTypes
    <3>3. net' \in NetType /\ Routed(net')
      <4>1. CASE UNCHANGED net
        BY <1>1, <4>1
      <4>2. CASE Tell(n, r, "ref_update", -1)
        BY <2>1, <4>2, TellTypes
      <4> QED BY <3>1, <4>1, <4>2
    <3> QED BY <1>1, <2>2, <3>1, <3>2, <3>3
  <2>5. CASE BoxGetData(d, i)
    <3>1. /\ refs' = GetCached(refs, n, r) \/ refs' = GetWait(refs, n, r)
          /\ UNCHANGED net \/ Tell(n, r, "ref_update", -1) \/ Tell(n, r, "ref_fetch", 0)
          /\ held' = [held EXCEPT ![d] = Without(held[d], i)]
          /\ UNCHANGED <<out, in, inCap, om, im, buf, cb, plan, begun, made, spare, ended, copied, got>>
      BY <2>5 DEF BoxGetData, imVars
    <3>2. refs' \in RefsType
      BY <1>1, <2>1, <3>1, RefsTypes
    <3>3. net' \in NetType /\ Routed(net')
      <4>1. CASE UNCHANGED net
        BY <1>1, <4>1
      <4>2. CASE Tell(n, r, "ref_update", -1)
        BY <2>1, <4>2, TellTypes
      <4>3. CASE Tell(n, r, "ref_fetch", 0)
        BY <2>1, <4>3, TellTypes
      <4> QED BY <3>1, <4>1, <4>2, <4>3
    <3> QED BY <1>1, <2>2, <3>1, <3>2, <3>3
  <2> QED BY <2>0, <2>3, <2>4, <2>5
<1> QED BY <1>4, <1>5, <1>6, <1>7 DEF BoxStep

(* The producer, and the dispatcher that unfolds the network.              *)
LEMMA ProducerTypes ==
  ASSUME LockInv, Producer
  PROVE  TypeOK' /\ RouteInv' /\ Dest' = Dest
<1> DEFINE OutType == [Dest -> [cur: Seq(Recs), next: Seq(Recs)]]
<1>1. /\ PlanOK /\ plan \in Network /\ NetOK /\ ManagersOK /\ BoxesOK /\ refs \in RefsType
      /\ out \in OutType /\ made \in Nat /\ spare \in Seq(Ref) /\ begun \in BOOLEAN /\ ended \in BOOLEAN
      /\ om \in [Node -> OMType] /\ im \in [Node -> IMType]
  BY DEF LockInv, TypeOK, ManagersOK, NetOK, PlanOK, BoxesOK
<1>2. FirstDest \in Dest
  BY <1>1, DestFacts
<1>s. ASSUME out' \in OutType, refs' \in RefsType, plan' \in Network, plan'.path = plan.path,
             made' \in Nat, spare' \in Seq(Ref), begun' \in BOOLEAN, ended' \in BOOLEAN,
             UNCHANGED <<net, in, inCap, buf, cb, held, copied, got>>,
             om' \in [Node -> OMType], \A m \in Node : OwnStreams(m, om'[m]),
             im' \in [Node -> IMType], \A m \in Node : InHand(m, im'[m])
      PROVE  TypeOK' /\ RouteInv' /\ Dest' = Dest
  <2>0. Dest' = Dest
    BY <1>s DEF Dest
  <2>1. PlanOK' /\ Message' = Message /\ OMType' = OMType /\ IMType' = IMType
    BY <1>1, <1>s, <2>0, TypeFrame
  <2>2. BoxesOK'
    BY <1>1, <1>s, <2>0 DEF BoxesOK
  <2>4. ManagersOK'
    BY <1>1, <1>s, <2>0, <2>1 DEF ManagersOK
  <2>5. NetOK'
    BY <1>1, <1>s, <2>0, <2>1 DEF NetOK
  <2>6. RouteInv'
    BY <1>s DEF LockInv, RouteInv, Routed, InHand, OwnStreams
  <2> QED BY <1>s, <2>0, <2>1, <2>2, <2>4, <2>5, <2>6 DEF TypeOK, RefsType
<1>m. /\ \A m \in Node : OwnStreams(m, om[m])
      /\ \A m \in Node : InHand(m, im[m])
  BY DEF LockInv, RouteInv
<1>3. CASE Unfold
  <2> DEFINE n == plan.path[1]
             outs == Routes(plan.path, n).outs
             ins == Routes(plan.path, n).ins
             Q == NewOut(om[n], outs)
             J == [im[n] EXCEPT !.newStreams = im[n].newStreams \cup ins]
  <2>1. /\ begun' = TRUE /\ om' = [om EXCEPT ![n] = Q] /\ im' = [im EXCEPT ![n] = J]
        /\ UNCHANGED <<net, out, in, inCap, refs, buf, cb, plan, made, spare, ended, held, copied, got>>
    BY <1>3 DEF Unfold, OMGoto, IMGoto, netVars
  <2>2. n \in Node
    <3>1. plan.path \in Seq(Node) /\ 1 \in 1..Len(plan.path)
      BY <1>1 DEF PlanOK, Network
    <3> QED BY <3>1, ElementOfSeq
  <2>3. outs \subseteq Dest /\ ins \subseteq Dest /\ \A e \in outs : e.src = n
    BY <1>1, <2>2, DestFacts
  <2> HIDE DEF n, outs, ins
  <2>4. Q \in OMType /\ OwnStreams(n, Q)
    BY <1>1, <1>m, <2>2, <2>3, ManagerState
  <2>5. J \in IMType /\ InHand(n, J)
    <3>1. im[n] \in IMType /\ InHand(n, im[n])
      BY <1>1, <1>m, <2>2
    <3>2. J \in IMType
      BY <2>3, <3>1 DEF IMType
    <3>3. J.pc = im[n].pc /\ J.hand = im[n].hand
      BY <3>1 DEF IMType
    <3> HIDE DEF J
    <3> QED BY <3>1, <3>2, <3>3 DEF InHand
  <2> HIDE DEF Q, J
  <2>6. /\ om' \in [Node -> OMType] /\ \A m \in Node : OwnStreams(m, om'[m])
        /\ im' \in [Node -> IMType] /\ \A m \in Node : InHand(m, im'[m])
    BY <1>1, <1>m, <2>1, <2>2, <2>4, <2>5
  <2> QED BY <1>1, <1>s, <2>1, <2>6
<1>4. CASE Produce
  <2> DEFINE k == CHOOSE k \in FreeKeys : TRUE
             r == [key |-> k, id |-> made']
             R == SNetRefCreate(refs, k, made')
             x == Data(r)
  <2>1. /\ FreeKeys # {} /\ made' = made + 1
        /\ refs' = (IF plan.twice THEN SNetRefCopy(R, Owner[k], r) ELSE R)
        /\ spare' = (IF plan.twice THEN <<r>> ELSE << >>)
        /\ out' = Written(FirstDest, x)
        /\ UNCHANGED <<net, in, inCap, om, im, buf, cb, plan, begun, ended, held, copied, got>>
    BY <1>4 DEF Produce, imVars
  <2>2. made' \in Nat \ {0} /\ k \in Key /\ Owner[k] \in Node
    <3>1. FreeKeys \subseteq Key
      BY <1>1 DEF FreeKeys, Network
    <3>2. k \in FreeKeys
      BY <2>1
    <3> QED BY <1>1, <2>1, <3>1, <3>2, DistribAssumption
  <2> HIDE DEF k
  <2>3. r \in Ref
    BY <2>2 DEF Ref
  <2>4. R \in RefsType
    BY <1>1, <2>2, RefsPieces
  <2> HIDE DEF R
  <2>5. refs' \in RefsType
    <3>1. SNetRefCopy(R, Owner[k], r) \in RefsType
      BY <2>2, <2>3, <2>4, RefsTypes
    <3> QED BY <2>1, <2>4, <3>1
  <2>6. x \in Recs
    BY <2>3 DEF Data, Recs, Carried
  <2>7. spare' \in Seq(Ref)
    BY <2>1, <2>3
  <2> HIDE DEF r, x
  <2>8. out' \in OutType
    BY <1>1, <1>2, <2>1, <2>6, WrittenTypes
  <2>9. made' \in Nat
    BY <2>2
  <2> QED BY <1>1, <1>m, <1>s, <2>1, <2>5, <2>7, <2>8, <2>9
<1>5. CASE ProduceCopy
  <2> DEFINE x == Data(Head(spare))
  <2>1. /\ spare # << >> /\ spare' = << >> /\ out' = Written(FirstDest, x)
        /\ UNCHANGED <<net, in, inCap, refs, om, im, buf, cb, plan, begun, made, ended, held, copied, got>>
    BY <1>5 DEF ProduceCopy, imVars
  <2>2. Head(spare) \in Ref /\ spare' \in Seq(Ref)
    BY <1>1, <2>1
  <2>3. x \in Recs
    BY <2>2 DEF Data, Recs, Carried
  <2> HIDE DEF x
  <2>4. out' \in OutType
    BY <1>1, <1>2, <2>1, <2>3, WrittenTypes
  <2> QED BY <1>1, <1>m, <1>s, <2>1, <2>2, <2>4
<1>6. CASE Leave
  <2>1. /\ plan' = [plan EXCEPT !.sync = 0] /\ out' = Written(FirstDest, Sync)
        /\ UNCHANGED <<net, in, inCap, refs, om, im, buf, cb, begun, made, spare, ended, held, copied, got>>
    BY <1>6 DEF Leave, imVars
  <2>2. plan' \in Network /\ plan'.path = plan.path
    BY <1>1, <2>1 DEF Network
  <2>3. Sync \in Recs
    BY DEF Sync, Recs
  <2>4. out' \in OutType
    BY <1>1, <1>2, <2>1, <2>3, WrittenTypes
  <2> QED BY <1>1, <1>m, <1>s, <2>1, <2>2, <2>4
<1>7. CASE ProduceEnd
  <2>1. /\ ended' = TRUE /\ out' = Written(FirstDest, Term)
        /\ UNCHANGED <<net, in, inCap, refs, om, im, buf, cb, plan, begun, made, spare, held, copied, got>>
    BY <1>7 DEF ProduceEnd, imVars
  <2>2. Term \in Recs
    BY DEF Term, Recs, Carried
  <2>3. out' \in OutType
    BY <1>1, <1>2, <2>1, <2>2, WrittenTypes
  <2> QED BY <1>1, <1>m, <1>s, <2>1, <2>3
<1> QED BY <1>3, <1>4, <1>5, <1>6, <1>7 DEF Producer

-----------------------------------------------------------------------------
(* The accounts of one buffer, and the place of a buffer on a list.        *)
Account(d) ==
  /\ buf[d].counter = Len(in[d]) + (IF cb[d] = "count" THEN 1 ELSE 0)
  /\ buf[d].lock = "reader" <=> cb[d] = "unblock"
  /\ cb[d] = "unblock" => buf[d].counter = 0 /\ buf[d].list # << >>
Parked(n, d) == d.dst = n /\ cb[d] = "none" /\ buf[d].counter = 0 /\ buf[d].list # << >>
Unique(s) == \A i, j \in DOMAIN s : s[i] = s[j] => i = j

(* The invariants of buffers and lists, one buffer and one list at a time. *)
LEMMA ListsOfBuffers ==
  /\ AccountInv <=> \A d \in Dest : Account(d)
  /\ UnblockedInv <=> \A n \in Node : /\ Unique(im[n].unblocked)
                                     /\ \A i \in DOMAIN im[n].unblocked : Parked(n, im[n].unblocked[i])
<1>1. AccountInv <=> \A d \in Dest : Account(d)
  BY DEF AccountInv, Account
<1>2. UnblockedInv <=> \A n \in Node : /\ Unique(im[n].unblocked)
                                     /\ \A i \in DOMAIN im[n].unblocked : Parked(n, im[n].unblocked[i])
  BY DEF UnblockedInv, Unique, Parked
<1> QED BY <1>1, <1>2

(* A step that leaves the accounts alone.                                  *)
LEMMA LockFrame ==
  ASSUME LockInv, Dest' = Dest, UNCHANGED <<in, buf, cb>>,
         \A n \in Node : im'[n].unblocked = im[n].unblocked
  PROVE  AccountInv' /\ UnblockedInv'
<1>1. AccountInv'
  BY DEF LockInv, AccountInv
<1>2. UnblockedInv'
  BY DEF LockInv, UnblockedInv
<1> QED BY <1>1, <1>2

(* A step on the buffer of d only.                                         *)
LEMMA OneBuffer ==
  ASSUME LockInv, NEW d \in Dest, Dest' = Dest, Account(d)',
         \A e \in Dest \ {d} : in'[e] = in[e] /\ buf'[e] = buf[e] /\ cb'[e] = cb[e]
  PROVE  /\ AccountInv'
         /\ \A n \in Node : \A e \in Dest \ {d} : Parked(n, e) => Parked(n, e)'
<1>1. \A e \in Dest : Account(e)
  BY ListsOfBuffers DEF LockInv
<1>2. \A e \in Dest : Account(e)'
  BY <1>1 DEF Account
<1>3. AccountInv'
  BY <1>2 DEF AccountInv, Account
<1>4. \A n \in Node : \A e \in Dest \ {d} : Parked(n, e) => Parked(n, e)'
  BY DEF Parked
<1> QED BY <1>3, <1>4

(* The lists after a step that leaves them alone and parks what is on them.*)
LEMMA SameLists ==
  ASSUME LockInv, NEW d \in Dest,
         \A n \in Node : im'[n].unblocked = im[n].unblocked,
         \A n \in Node : \A e \in Dest : Parked(n, e) => Parked(n, e)'
  PROVE  UnblockedInv'
<1>1. SUFFICES ASSUME NEW n \in Node, NEW i \in DOMAIN im'[n].unblocked, NEW e, e = im'[n].unblocked[i]
               PROVE  /\ Parked(n, e)'
                      /\ \A j \in DOMAIN im'[n].unblocked : im'[n].unblocked[j] = e => j = i
  BY DEF UnblockedInv, Parked
<1>2. i \in DOMAIN im[n].unblocked /\ e = im[n].unblocked[i]
  BY <1>1
<1>3. e \in Dest
  BY <1>2 DEF LockInv, TypeOK, ManagersOK, IMType
<1>4. Parked(n, e) /\ \A j \in DOMAIN im[n].unblocked : im[n].unblocked[j] = e => j = i
  BY <1>2 DEF LockInv, UnblockedInv, Parked
<1> QED BY <1>3, <1>4

(* An output manager keeps LockInv.                                        *)
LEMMA SendingLock ==
  ASSUME LockInv, NEW n \in Node, Sending(n)
  PROVE  LockInv'
<1>1. TypeOK' /\ RouteInv' /\ Dest' = Dest
  BY SendingTypes
<1>2. UNCHANGED <<im, buf, cb>>
  BY DEF Sending, imVars
<1>3. UNCHANGED in
  BY DEF Sending, SNetOutputManager, OMStart, OMWakeup, OMUpdateOutgoing, OMBlock, OMUnblock, OMExit,
         OMSync, OMTerm, OMSend, netVars
<1>4. AccountInv' /\ UnblockedInv'
  BY <1>1, <1>2, <1>3, LockFrame
<1> QED BY <1>1, <1>4 DEF LockInv

(* The producer touches no buffer.                                         *)
LEMMA ProducerLock ==
  ASSUME LockInv, Producer
  PROVE  LockInv'
<1>1. TypeOK' /\ RouteInv' /\ Dest' = Dest
  BY ProducerTypes
<1>2. UNCHANGED <<in, buf, cb>>
  BY DEF Producer, Unfold, Produce, ProduceCopy, Leave, ProduceEnd, netVars, imVars
<1>3. \A n \in Node : im'[n].unblocked = im[n].unblocked
  <2>1. im \in [Node -> IMType]
    BY DEF LockInv, TypeOK, ManagersOK
  <2>2. CASE Unfold
    <3> DEFINE m == plan.path[1]
               J == [im[m] EXCEPT !.newStreams = @ \cup Routes(plan.path, m).ins]
    <3>1. im' = [im EXCEPT ![m] = J]
      BY <2>2 DEF Unfold, IMGoto
    <3>2. m \in Node => J.unblocked = im[m].unblocked
      BY <2>1 DEF IMType
    <3> HIDE DEF m, J
    <3> QED BY <2>1, <3>1, <3>2
  <2>3. CASE ~Unfold
    BY <2>3 DEF Producer, Produce, ProduceCopy, Leave, ProduceEnd, imVars
  <2> QED BY <2>2, <2>3
<1>4. AccountInv' /\ UnblockedInv'
  BY <1>1, <1>2, <1>3, LockFrame
<1> QED BY <1>1, <1>4 DEF LockInv

(* A box that reads takes from a stream with records, so its buffer is on  *)
(* no list.                                                                *)
LEMMA BoxLock ==
  ASSUME LockInv, NEW d \in Dest, BoxStep(d)
  PROVE  LockInv'
<1>1. TypeOK' /\ RouteInv' /\ Dest' = Dest
  BY BoxTypes
<1>2. /\ in \in [Dest -> Seq(Carried)] /\ cb \in [Dest -> {"none", "count", "unblock"}]
      /\ Account(d)
  BY ListsOfBuffers DEF LockInv, TypeOK, NetOK, ManagersOK
<1>3. CASE BoxRead(d) \/ BoxEnd(d)
  <2>1. /\ in[d] # << >> /\ cb[d] = "none" /\ UNCHANGED <<im, buf>>
        /\ in' = [in EXCEPT ![d] = Tail(in[d])] /\ cb' = [cb EXCEPT ![d] = "count"]
    BY <1>3 DEF BoxRead, BoxEnd
  <2>2. in[d] \in Seq(Carried) /\ Len(Tail(in[d])) = Len(in[d]) - 1 /\ Len(in[d]) \in Nat \ {0}
    BY <1>2, <2>1
  <2>3. in'[d] = Tail(in[d]) /\ cb'[d] = "count"
    BY <1>2, <2>1
  <2>4. Account(d)'
    BY <1>2, <2>1, <2>2, <2>3 DEF Account
  <2>5. \A e \in Dest \ {d} : in'[e] = in[e] /\ buf'[e] = buf[e] /\ cb'[e] = cb[e]
    BY <1>2, <2>1
  <2>6. \A n \in Node : ~Parked(n, d)
    BY <1>2, <2>1, <2>2 DEF Account, Parked
  <2>7. AccountInv' /\ \A n \in Node : \A e \in Dest \ {d} : Parked(n, e) => Parked(n, e)'
    BY <1>1, <2>4, <2>5, OneBuffer
  <2>8. UnblockedInv'
    BY <2>1, <2>6, <2>7, SameLists
  <2> QED BY <1>1, <2>7, <2>8 DEF LockInv
<1>4. CASE ~BoxRead(d) /\ ~BoxEnd(d)
  <2>1. UNCHANGED <<in, im, buf, cb>>
    BY <1>4 DEF BoxStep, BoxSend, BoxCopy, BoxDestroy, BoxGetData, imVars
  <2>2. AccountInv' /\ UnblockedInv'
    BY <1>1, <2>1, LockFrame
  <2> QED BY <1>1, <2>2 DEF LockInv
<1> QED BY <1>3, <1>4

(* A read is accounted for; the buffer goes on the list when the stream    *)
(* has been found empty, and only then.                                    *)
LEMMA CallbackLock ==
  ASSUME LockInv, NEW d \in Dest, Callback(d)
  PROVE  LockInv'
<1> DEFINE n == d.dst
<1>1. TypeOK' /\ RouteInv' /\ Dest' = Dest /\ n \in Node
  BY CallbackTypes, DestFacts DEF LockInv, TypeOK
<1>2. /\ in \in [Dest -> Seq(Carried)] /\ cb \in [Dest -> {"none", "count", "unblock"}]
      /\ buf \in [Dest -> BufType] /\ im \in [Node -> IMType] /\ Account(d)
  BY ListsOfBuffers DEF LockInv, TypeOK, NetOK, ManagersOK
<1>3. CASE CallbackCount(n, d)
  <2> DEFINE c == buf[d].counter - 1
             wait == c = 0 /\ buf[d].list # << >>
             B == [buf[d] EXCEPT !.counter = c, !.lock = IF wait THEN "reader" ELSE "free",
                                 !.freed = c = 0 /\ ~wait /\ buf[d].done]
             w == IF wait THEN "unblock" ELSE "none"
  <2>1. /\ cb[d] = "count" /\ UNCHANGED <<in, im>>
        /\ buf' = [buf EXCEPT ![d] = B] /\ cb' = [cb EXCEPT ![d] = w]
    BY <1>3 DEF CallbackCount, netVars
  <2>2. B.counter = c /\ B.lock = (IF wait THEN "reader" ELSE "free") /\ B.list = buf[d].list
    BY <1>2 DEF BufType
  <2>3. buf'[d] = B /\ cb'[d] = w /\ in'[d] = in[d]
    BY <1>2, <2>1
  <2>4. Len(in[d]) \in Nat /\ buf[d].counter = Len(in[d]) + 1
    BY <1>2, <2>1 DEF Account
  <2>5. \A e \in Dest \ {d} : in'[e] = in[e] /\ buf'[e] = buf[e] /\ cb'[e] = cb[e]
    BY <1>2, <2>1
  <2> HIDE DEF B
  <2>6. Account(d)'
    BY <2>2, <2>3, <2>4 DEF Account
  <2>7. \A m \in Node : ~Parked(m, d)
    BY <2>1 DEF Parked
  <2>8. AccountInv' /\ \A m \in Node : \A e \in Dest \ {d} : Parked(m, e) => Parked(m, e)'
    BY <1>1, <2>5, <2>6, OneBuffer
  <2>9. UnblockedInv'
    BY <2>1, <2>7, <2>8, SameLists
  <2> QED BY <1>1, <2>8, <2>9 DEF LockInv
<1>4. CASE CallbackUnblock(n, d)
  <2> DEFINE s == im[n].unblocked
             J == [im[n] EXCEPT !.unblocked = Append(s, d)]
             B == [buf[d] EXCEPT !.lock = "free"]
  <2>1. /\ cb[d] = "unblock" /\ UNCHANGED in /\ im' = [im EXCEPT ![n] = J]
        /\ buf' = [buf EXCEPT ![d] = B] /\ cb' = [cb EXCEPT ![d] = "none"]
    BY <1>4 DEF CallbackUnblock, IMGoto
  <2>2. B.counter = buf[d].counter /\ B.lock = "free" /\ B.list = buf[d].list
    BY <1>2 DEF BufType
  <2>3. buf'[d] = B /\ cb'[d] = "none" /\ in'[d] = in[d]
    BY <1>2, <2>1
  <2>4. \A e \in Dest \ {d} : in'[e] = in[e] /\ buf'[e] = buf[e] /\ cb'[e] = cb[e]
    BY <1>2, <2>1
  <2> HIDE DEF B
  <2>5. Account(d)' /\ Parked(n, d)'
    BY <1>2, <2>1, <2>2, <2>3 DEF Account, Parked
  <2>6. \A m \in Node : ~Parked(m, d)
    BY <2>1 DEF Parked
  <2>7. AccountInv' /\ \A m \in Node : \A e \in Dest \ {d} : Parked(m, e) => Parked(m, e)'
    BY <1>1, <2>4, <2>5, OneBuffer
  <2>8. s \in Seq(Dest) /\ J.unblocked = Append(s, d)
    BY <1>1, <1>2 DEF IMType
  <2>9. \A m \in Node : im'[m].unblocked = IF m = n THEN Append(s, d) ELSE im[m].unblocked
    BY <1>1, <1>2, <2>1, <2>8
  <2>10. \A i \in DOMAIN s : s[i] # d
    BY <1>1, <2>6 DEF LockInv, UnblockedInv, Parked
  <2>11. UnblockedInv'
    <3>1. SUFFICES ASSUME NEW m \in Node, NEW i \in DOMAIN im'[m].unblocked, NEW e, e = im'[m].unblocked[i]
                   PROVE  /\ Parked(m, e)'
                          /\ \A j \in DOMAIN im'[m].unblocked : im'[m].unblocked[j] = e => j = i
      BY DEF UnblockedInv, Parked
    <3> DEFINE t == im[m].unblocked
    <3>2. /\ t \in Seq(Dest)
          /\ \A k \in DOMAIN t : Parked(m, t[k]) /\ \A j \in DOMAIN t : t[j] = t[k] => j = k
      BY <1>2 DEF LockInv, UnblockedInv, Parked, IMType
    <3>a. m = n => t = s
      OBVIOUS
    <3>b. im'[m].unblocked = IF m = n THEN Append(s, d) ELSE t
      BY <2>9
    <3>c. /\ DOMAIN s = 1..Len(s) /\ DOMAIN Append(s, d) = 1..(Len(s) + 1) /\ Len(s) \in Nat
          /\ Append(s, d)[Len(s) + 1] = d /\ \A j \in 1..Len(s) : Append(s, d)[j] = s[j]
      BY <2>8, AppendFacts
    <3> HIDE DEF s, t, n
    <3>3. CASE i \in DOMAIN t /\ t[i] = e
      <4>1. e \in Dest /\ Parked(m, e) /\ e # d
        BY <2>6, <3>2, <3>3
      <4>2. \A j \in DOMAIN im'[m].unblocked : (j \in DOMAIN t /\ t[j] = im'[m].unblocked[j]) \/ im'[m].unblocked[j] = d
        BY <3>a, <3>b, <3>c
      <4> QED BY <2>7, <3>2, <3>3, <4>1, <4>2
    <3>4. CASE m = n /\ i = Len(s) + 1 /\ e = d
      BY <2>5, <2>10, <3>a, <3>b, <3>c, <3>4
    <3>5. (i \in DOMAIN t /\ t[i] = e) \/ (m = n /\ i = Len(s) + 1 /\ e = d)
      <4>1. CASE m # n
        BY <3>1, <3>b, <4>1
      <4>2. CASE m = n
        <5>1. im'[m].unblocked = Append(s, d) /\ t = s
          BY <3>a, <3>b, <4>2
        <5>2. i \in 1..(Len(s) + 1) /\ e = Append(s, d)[i]
          BY <3>1, <3>c, <5>1
        <5>3. i \in 1..Len(s) \/ i = Len(s) + 1
          BY <3>c, <5>2
        <5> QED BY <3>c, <4>2, <5>1, <5>2, <5>3
      <4> QED BY <4>1, <4>2
    <3> QED BY <3>3, <3>4, <3>5
  <2> QED BY <1>1, <2>7, <2>11 DEF LockInv
<1> QED BY <1>3, <1>4 DEF Callback, ReadCallback

(* The input manager: a record goes into a stream only if none waits, a    *)
(* buffer is drained when it leaves the list, and nothing else touches     *)
(* streams, buffers or lists.                                              *)
LEMMA ReceivingLock ==
  ASSUME LockInv, NEW n \in Node, Receiving(n)
  PROVE  LockInv'
<1> DEFINE I == im[n]
<1>1. TypeOK' /\ RouteInv' /\ Dest' = Dest
  BY ReceivingTypes
<1>2. /\ in \in [Dest -> Seq(Carried)] /\ cb \in [Dest -> {"none", "count", "unblock"}]
      /\ buf \in [Dest -> BufType] /\ im \in [Node -> IMType] /\ I \in IMType /\ InHand(n, I)
      /\ inCap \in Nat \ {0}
  BY DEF LockInv, TypeOK, NetOK, ManagersOK, RouteInv
<1>3. \A e \in Dest : Account(e)
  BY ListsOfBuffers DEF LockInv
<1>4. ASSUME UNCHANGED <<in, buf, cb>>,
             \E J : im' = [im EXCEPT ![n] = J] /\ J.unblocked = I.unblocked
      PROVE  LockInv'
  <2>1. \A m \in Node : im'[m].unblocked = im[m].unblocked
    BY <1>2, <1>4
  <2>2. AccountInv' /\ UnblockedInv'
    BY <1>1, <1>4, <2>1, LockFrame
  <2> QED BY <1>1, <2>2 DEF LockInv
<1>5. CASE HandleRecord(n)
  <2>0. I.hand.dest \in Dest /\ I.hand.rec \in Carried
    BY <1>2, <1>5 DEF HandleRecord, InHand, IMType, Message, NoMsg, Signal
  <2>d. PICK d \in Dest : d = I.hand.dest
    BY <2>0
  <2> DEFINE x == I.hand.rec
             room == buf[d].list = << >> /\ Len(in[d]) < inCap
             B == [buf[d] EXCEPT !.done = @ \/ x.kind = "term",
                                 !.counter = IF room THEN @ + 1 ELSE @,
                                 !.list = IF room THEN @ ELSE Append(@, x)]
             J == [I EXCEPT !.pc = "recv", !.hand = NoMsg, !.failed = @ \/ d \notin I.map,
                            !.map = IF x.kind = "term" THEN @ \ {d} ELSE @]
  <2>1. /\ I.pc = "handle" /\ buf[d].lock = "free" /\ buf' = [buf EXCEPT ![d] = B]
        /\ in' = (IF room THEN [in EXCEPT ![d] = Append(in[d], x)] ELSE in)
        /\ im' = [im EXCEPT ![n] = J] /\ UNCHANGED cb
    BY <1>5, <2>d DEF HandleRecord, IMGoto
  <2>2. d \in Dest /\ x \in Carried
    BY <2>0
  <2>3. J.unblocked = I.unblocked
    BY <1>2 DEF IMType
  <2>4. in[d] \in Seq(Carried) /\ buf[d] \in BufType
    BY <1>2, <2>2
  <2>5. /\ B.counter = (IF room THEN buf[d].counter + 1 ELSE buf[d].counter) /\ B.lock = buf[d].lock
        /\ B.list = (IF room THEN buf[d].list ELSE Append(buf[d].list, x))
    BY <2>4 DEF BufType
  <2>6. buf'[d] = B /\ in'[d] = IF room THEN Append(in[d], x) ELSE in[d]
    BY <1>2, <2>1, <2>2
  <2>7. Len(Append(in[d], x)) = Len(in[d]) + 1 /\ Len(in[d]) \in Nat /\ buf[d].counter \in Int
    BY <2>2, <2>4 DEF BufType
  <2>8. Append(buf[d].list, x) # << >>
    BY <2>2, <2>4, AppendProperties DEF BufType
  <2>9. \A e \in Dest \ {d} : in'[e] = in[e] /\ buf'[e] = buf[e] /\ cb'[e] = cb[e]
    BY <1>2, <2>1
  <2>10. \A m \in Node : im'[m].unblocked = im[m].unblocked
    BY <1>2, <2>1, <2>3
  <2>11. Account(d) /\ cb'[d] = cb[d]
    BY <1>3, <2>1, <2>2
  <2> HIDE DEF B, J, x
  <2>12. cb[d] # "unblock" /\ buf'[d].lock = "free"
    BY <2>1, <2>5, <2>6, <2>11 DEF Account
  <2>13. Account(d)'
    <3> HIDE DEF room
    <3>1. CASE room
      <4>1. Len(in'[d]) = Len(in[d]) + 1 /\ buf'[d].counter = buf[d].counter + 1
        BY <2>5, <2>6, <2>7, <3>1
      <4>2. buf[d].counter = Len(in[d]) + (IF cb[d] = "count" THEN 1 ELSE 0)
        BY <2>11 DEF Account
      <4>3. buf'[d].counter = Len(in'[d]) + (IF cb'[d] = "count" THEN 1 ELSE 0)
        <5> DEFINE one == IF cb[d] = "count" THEN 1 ELSE 0
        <5>1. cb'[d] = cb[d] /\ Len(in[d]) \in Nat /\ one \in Nat
          BY <2>7, <2>11
        <5> HIDE DEF one
        <5>2. buf'[d].counter = (Len(in[d]) + one) + 1
          BY <4>1, <4>2 DEF one
        <5>3. buf'[d].counter = Len(in'[d]) + one
          BY <4>1, <5>1, <5>2
        <5> QED BY <5>1, <5>3 DEF one
      <4>4. cb'[d] # "unblock"
        BY <2>11, <2>12
      <4> QED BY <2>12, <4>3, <4>4 DEF Account
    <3>2. CASE ~room
      <4>1. in'[d] = in[d] /\ buf'[d].counter = buf[d].counter
        BY <2>5, <2>6, <3>2
      <4> QED BY <2>11, <2>12, <4>1 DEF Account
    <3> QED BY <3>1, <3>2
  <2>14. \A m \in Node : Parked(m, d) => Parked(m, d)'
    BY <2>5, <2>6, <2>8, <2>11 DEF Parked
  <2>15. AccountInv' /\ \A m \in Node : \A e \in Dest \ {d} : Parked(m, e) => Parked(m, e)'
    BY <1>1, <2>2, <2>9, <2>13, OneBuffer
  <2>16. UnblockedInv'
    BY <2>2, <2>10, <2>14, <2>15, SameLists
  <2> QED BY <1>1, <2>15, <2>16 DEF LockInv
<1>6. CASE Drain(n)
  <2> DEFINE s == I.unblocked
  <2>0. s # << >> /\ s \in Seq(Dest)
    BY <1>2, <1>6 DEF Drain, IMType
  <2>d. PICK d \in Dest : d = Head(s)
    BY <2>0, TailFacts
  <2> DEFINE q == buf[d].list
             k == Least(inCap - Len(in[d]), Len(q))
             first == SubSeq(q, 1, k)
             rest == SubSeq(q, k + 1, Len(q))
             B == [buf[d] EXCEPT !.list = rest, !.counter = @ + k]
             J == [I EXCEPT !.unblocked = Tail(s)]
  <2>1. /\ s # << >> /\ buf[d].lock = "free" /\ in' = [in EXCEPT ![d] = in[d] \o first]
        /\ buf' = [buf EXCEPT ![d] = B] /\ im' = [im EXCEPT ![n] = J] /\ UNCHANGED cb
    BY <1>6, <2>d DEF Drain, IMGoto
  <2>2. s \in Seq(Dest) /\ J.unblocked = Tail(s)
    BY <1>2 DEF IMType
  <2>3. /\ Tail(s) \in Seq(Dest) /\ d \in Dest /\ d = s[1] /\ Len(s) \in Nat \ {0}
        /\ DOMAIN s = 1..Len(s) /\ DOMAIN Tail(s) = 1..(Len(s) - 1)
        /\ \A j \in 1..(Len(s) - 1) : Tail(s)[j] = s[j + 1]
    BY <2>0, <2>d, TailFacts
  <2>4. /\ Parked(n, d) /\ Account(d)
        /\ \A j \in DOMAIN s : s[j] = d => j = 1
    BY <1>3, <2>3 DEF LockInv, UnblockedInv, Parked
  <2>5. q \in Seq(Carried) /\ in[d] \in Seq(Carried) /\ buf[d] \in BufType /\ Len(q) \in Nat
    BY <1>2, <2>3 DEF BufType
  <2>6. Len(in[d]) = 0 /\ buf[d].counter = 0 /\ cb[d] = "none"
    BY <2>4, <2>5 DEF Account, Parked
  <2>7. k \in 0..Len(q) /\ k \in Nat
    BY <1>2, <2>5, <2>6 DEF Least
  <2> HIDE DEF k
  <2>8. first \in Seq(Carried) /\ Len(first) = k
    BY <2>5, <2>7, SubSeqProperties
  <2> HIDE DEF first
  <2>9. Len(in[d] \o first) = k
    BY <2>5, <2>6, <2>7, <2>8
  <2>10. B.counter = k /\ B.lock = "free"
    BY <2>1, <2>5, <2>6, <2>7 DEF BufType
  <2>11. buf'[d] = B /\ in'[d] = in[d] \o first /\ cb'[d] = "none"
    BY <1>2, <2>1, <2>3, <2>6
  <2>12. \A e \in Dest \ {d} : in'[e] = in[e] /\ buf'[e] = buf[e] /\ cb'[e] = cb[e]
    BY <1>2, <2>1
  <2>13. \A m \in Node : im'[m].unblocked = IF m = n THEN Tail(s) ELSE im[m].unblocked
    BY <1>2, <2>1, <2>2
  <2> HIDE DEF B, J
  <2>14. Account(d)'
    BY <2>7, <2>9, <2>10, <2>11 DEF Account
  <2>15. AccountInv' /\ \A m \in Node : \A e \in Dest \ {d} : Parked(m, e) => Parked(m, e)'
    BY <1>1, <2>3, <2>12, <2>14, OneBuffer
  <2>16. UnblockedInv'
    <3>1. SUFFICES ASSUME NEW m \in Node, NEW i \in DOMAIN im'[m].unblocked, NEW e, e = im'[m].unblocked[i]
                   PROVE  /\ Parked(m, e)'
                          /\ \A j \in DOMAIN im'[m].unblocked : im'[m].unblocked[j] = e => j = i
      BY DEF UnblockedInv, Parked
    <3> DEFINE t == im[m].unblocked
    <3>2. /\ t \in Seq(Dest)
          /\ \A h \in DOMAIN t : Parked(m, t[h]) /\ \A j \in DOMAIN t : t[j] = t[h] => j = h
      BY <1>2 DEF LockInv, UnblockedInv, Parked, IMType
    <3>3. im'[m].unblocked = (IF m = n THEN Tail(s) ELSE t) /\ (m = n => t = s)
      BY <2>13
    <3>4. d.dst = n
      BY <2>4 DEF Parked
    <3> HIDE DEF s, t
    <3>5. CASE m = n
      <4>1. im'[m].unblocked = Tail(s) /\ t = s
        BY <3>3, <3>5
      <4>2. i \in 1..(Len(s) - 1) /\ i + 1 \in DOMAIN s /\ e = s[i + 1] /\ i + 1 # 1
        BY <2>3, <3>1, <4>1
      <4>3. Parked(m, e) /\ e \in Dest \ {d}
        BY <2>4, <3>2, <4>1, <4>2
      <4>4. \A j \in 1..(Len(s) - 1) : Tail(s)[j] = e => j = i
        <5> SUFFICES ASSUME NEW j \in 1..(Len(s) - 1), Tail(s)[j] = e PROVE j = i
          OBVIOUS
        <5>1. j + 1 \in DOMAIN s /\ s[j + 1] = e
          BY <2>3
        <5>2. j + 1 = i + 1
          BY <3>2, <4>1, <4>2, <5>1
        <5> QED BY <4>2, <5>2
      <4> QED BY <2>3, <2>15, <4>1, <4>3, <4>4
    <3>6. CASE m # n
      <4>1. im'[m].unblocked = t
        BY <3>3, <3>6
      <4>2. Parked(m, e) /\ e \in Dest /\ \A j \in DOMAIN t : t[j] = e => j = i
        BY <3>1, <3>2, <4>1
      <4>3. e # d
        BY <3>4, <3>6, <4>2 DEF Parked
      <4> QED BY <2>15, <4>1, <4>2, <4>3
    <3> QED BY <3>5, <3>6
  <2> QED BY <1>1, <2>15, <2>16 DEF LockInv
<1>7. CASE RecvUpdate(n) \/ LockUnblocked(n) \/ UnlockUnblocked(n)
  <2>1. /\ UNCHANGED <<in, buf, cb>>
        /\ \/ im' = [im EXCEPT ![n] = [I EXCEPT !.pc = "update"]]
           \/ im' = [im EXCEPT ![n] = [I EXCEPT !.pc = "drain", !.lock = "manager"]]
           \/ im' = [im EXCEPT ![n] = [I EXCEPT !.pc = "recv", !.lock = "free"]]
    BY <1>7 DEF RecvUpdate, LockUnblocked, UnlockUnblocked, IMGoto, netVars
  <2>2. /\ [I EXCEPT !.pc = "update"].unblocked = I.unblocked
        /\ [I EXCEPT !.pc = "drain", !.lock = "manager"].unblocked = I.unblocked
        /\ [I EXCEPT !.pc = "recv", !.lock = "free"].unblocked = I.unblocked
    BY <1>2 DEF IMType
  <2> QED BY <1>4, <2>1, <2>2
<1>8. CASE IMStop(n)
  <2> DEFINE J == [I EXCEPT !.pc = "done"]
  <2>1. UNCHANGED <<in, buf, cb>> /\ im' = [im EXCEPT ![n] = J]
    BY <1>8 DEF IMStop, IMGoto
  <2>2. J.unblocked = I.unblocked
    BY <1>2 DEF IMType
  <2> QED BY <1>4, <2>1, <2>2
<1>9. CASE \E m \in Node : RecvRecord(n, m, plan.path)
  <2>1. PICK m \in Node : RecvRecord(n, m, plan.path)
    BY <1>9
  <2> DEFINE x == Head(net[m][n])
             known == I.map \cup I.newStreams
             J == [I EXCEPT !.pc = "handle", !.hand = x, !.newStreams = {},
                            !.map = known \cup (IF x.dest \notin known THEN Routes(plan.path, n).ins ELSE {})]
  <2>2. UNCHANGED <<in, buf, cb>> /\ im' = [im EXCEPT ![n] = J]
    BY <2>1 DEF RecvRecord, IMGoto
  <2>3. J.unblocked = I.unblocked
    BY <1>2 DEF IMType
  <2> QED BY <1>4, <2>2, <2>3
<1>10. CASE \E m \in Node : RecvStop(n, m)
  <2>1. PICK m \in Node : RecvStop(n, m)
    BY <1>10
  <2> DEFINE J == [I EXCEPT !.pc = "stopping", !.failed = @ \/ I.map # {}]
  <2>2. UNCHANGED <<in, buf, cb>> /\ im' = [im EXCEPT ![n] = J]
    BY <2>1 DEF RecvStop, IMGoto
  <2>3. J.unblocked = I.unblocked
    BY <1>2 DEF IMType
  <2> QED BY <1>4, <2>2, <2>3
<1>11. CASE \E m \in Node : RecvBlock(n, m) \/ RecvRefSet(n, m) \/ RecvRefUpdate(n, m) \/ RecvRefFetch(n, m)
  <2>1. UNCHANGED <<in, im, buf, cb>>
    BY <1>11 DEF RecvBlock, RecvRefSet, RecvRefUpdate, RecvRefFetch, imVars
  <2>2. AccountInv' /\ UnblockedInv'
    BY <1>1, <2>1, LockFrame
  <2> QED BY <1>1, <2>2 DEF LockInv
<1> QED BY <1>5, <1>6, <1>7, <1>8, <1>9, <1>10, <1>11 DEF Receiving, SNetInputManager

-----------------------------------------------------------------------------
(* Every step keeps LockInv.                                               *)
LEMMA StepLockInv == LockInv /\ [Next]_vars => LockInv'
<1> SUFFICES ASSUME LockInv, [Next]_vars PROVE LockInv'
  OBVIOUS
<1>1. CASE Producer
  BY <1>1, ProducerLock
<1>2. CASE \E n \in Node : Sending(n) \/ Receiving(n)
  BY <1>2, SendingLock, ReceivingLock
<1>3. CASE \E d \in Dest : Callback(d) \/ BoxStep(d)
  BY <1>3, CallbackLock, BoxLock
<1>4. CASE UNCHANGED vars
  <2>1. UNCHANGED <<net, out, in, inCap, refs, om, im, buf, cb, plan, begun, made, spare, ended, held, copied, got>>
    BY <1>4 DEF vars, netVars, imVars, boxVars
  <2>2. Dest' = Dest
    BY <2>1 DEF Dest
  <2>3. PlanOK' /\ Message' = Message /\ OMType' = OMType /\ IMType' = IMType
    BY <2>1, <2>2, TypeFrame DEF LockInv, TypeOK, PlanOK
  <2>4. NetOK' /\ ManagersOK' /\ BoxesOK' /\ refs' \in RefsType
    BY <2>1, <2>2, <2>3 DEF LockInv, TypeOK, NetOK, ManagersOK, BoxesOK
  <2>5. TypeOK'
    BY <2>3, <2>4 DEF TypeOK, RefsType
  <2>6. RouteInv'
    BY <2>1 DEF LockInv, RouteInv, Routed, OwnStreams, InHand
  <2>7. AccountInv' /\ UnblockedInv'
    BY <2>1, <2>2, LockFrame
  <2> QED BY <2>5, <2>6, <2>7 DEF LockInv
<1> QED BY <1>1, <1>2, <1>3, <1>4 DEF Next, Stopped, BoxStep

(* The state of the nodes, their managers and the messages between them    *)
(* stays well typed: whatever records, references and requests arrive in   *)
(* whatever order, the owner's and the other nodes' counts are never       *)
(* negative, and only records of the network's own destinations travel     *)
(* (imanager.c, omanager.c, reference.c).                                  *)
THEOREM TypeCorrect == Spec => []TypeOK
<1>1. Init => LockInv
  BY InitLockInv
<1>2. LockInv /\ [Next]_vars => LockInv'
  BY StepLockInv
<1>3. LockInv => TypeOK
  BY DEF LockInv
<1> QED BY <1>1, <1>2, <1>3, PTL DEF Spec

(* The reader's and the manager's locks are never wanted for one buffer in *)
(* both orders: no deadlock between ReadCallback (imanager.c:90) and       *)
(* UpdateBlocked (imanager.c:117), for any number of nodes and streams.    *)
THEOREM LockOrder == Spec => []LockOrderSafe
<1>1. Init => LockInv
  BY InitLockInv
<1>2. LockInv /\ [Next]_vars => LockInv'
  BY StepLockInv
<1>3. LockInv => LockOrderSafe
  <2> SUFFICES ASSUME LockInv, NEW n \in Node, NEW i \in DOMAIN im[n].unblocked, NEW d, d = im[n].unblocked[i]
               PROVE  in[d] = << >> /\ buf[d].counter = 0 /\ cb[d] = "none" /\ buf[d].lock = "free"
    BY DEF LockOrderSafe
  <2>1. d \in Dest /\ buf[d] \in BufType /\ in[d] \in Seq(Carried)
    BY DEF LockInv, TypeOK, ManagersOK, NetOK, IMType
  <2>2. Parked(n, d) /\ Account(d)
    BY <2>1, ListsOfBuffers DEF LockInv
  <2>3. Len(in[d]) = 0 /\ buf[d].lock # "reader"
    BY <2>1, <2>2 DEF Parked, Account
  <2> QED BY <2>1, <2>2, <2>3 DEF Parked, BufType
<1> QED BY <1>1, <1>2, <1>3, PTL DEF Spec

=============================================================================
