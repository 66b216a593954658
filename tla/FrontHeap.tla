----------------------------- MODULE FrontHeap -----------------------------
(***************************************************************************)
(* The dynamic part of a network of the Front runtime: stream descriptors  *)
(* and landings that come and go by reference counts, writing to streams   *)
(* and the dissolving of landings, and the detrefs that keep order.        *)
(*                                                                         *)
(* A heap H holds descriptors (desc), landings (land), detrefs (det), what *)
(* has been printed (outs), and the failed checks and assertions (bad).    *)
(***************************************************************************)
EXTENDS FrontGraph, Integers, FiniteSetsExt

CONSTANT MaxPort    \* bound of the outputs of a landing

VARIABLE g          \* the graph

Ports == 0..MaxPort
NoDesc == [refs |-> 0, stream |-> 0, land |-> 0, fifo |-> <<>>, stale |-> 0]
NoDet == [live |-> FALSE, seqnr |-> 0, leave |-> 0, refcount |-> 0, recs |-> <<>>]
Idle == [pc |-> "idle", d |-> 0, rec |-> 0, pend |-> <<>>, seqnr |-> 0, leave |-> 0]

(* One shape for all landings: o[p] is the descriptor of output p, o[0]    *)
(* that of the collector stream.                                           *)
NoLand == [type |-> "free", node |-> 0, refs |-> 0, stack |-> <<>>, lock |-> FALSE,
           o |-> [p \in Ports |-> 0], coll |-> 0, instland |-> 0, leader |-> FALSE,
           counter |-> 0, seqnr |-> 0, init |-> FALSE, dead |-> {},
           store |-> <<>>, complete |-> FALSE, fifo |-> <<>>,
           link |-> <<0, 0, 0>>, term |-> "initial", queued |-> 0, busy |-> FALSE, recs |-> <<>>,
           act |-> [p \in Ports |-> Idle]]

Fresh(f, Free(_)) == Min({i \in DOMAIN f : Free(f[i])})
FreshDesc(H) == Fresh(H.desc, LAMBDA x : x.refs = 0)
FreshLand(H) == Fresh(H.land, LAMBDA x : x.type = "free")
FreshDet(H) == Fresh(H.det, LAMBDA x : ~x.live)

NodeOf(H, l) == g.node[H.land[l].node]
Check(H, ok, what) == IF ok THEN H ELSE [H EXCEPT !.bad = @ \cup {what}]

(* Records.                                                                *)
Data(v, from, det) == [k |-> "data", v |-> v, from |-> from, det |-> det]
Trigger == [k |-> "trigger", det |-> <<>>]
Detref(leave, x) == [k |-> "detref", leave |-> leave, det |-> x]
Sync == [k |-> "sync"]
Leader(L) == [k |-> "leader", counter |-> L.counter, seqnr |-> L.seqnr]

-----------------------------------------------------------------------------
(* Landings and descriptors *)

(* SNetNewLanding: the landing gets a copy of the stack of future landings.*)
SNetNewLanding(H, new, prev) ==
    LET l == FreshLand(H)
        st == H.land[prev].stack
        More(x) == Cardinality({i \in DOMAIN st : st[i] = x})
    IN  [H EXCEPT !.land = [x \in DOMAIN @ |->
            IF x = l THEN [new EXCEPT !.refs = 1, !.stack = st]
            ELSE [@[x] EXCEPT !.refs = @ + More(x)]]]

NewLand(type, n) == [NoLand EXCEPT !.type = type, !.node = n]

NewCollectorLanding(H, l, c, prev) ==
    SNetNewLanding([H EXCEPT !.land[l].coll = FreshLand(H)],
                   [NewLand("collector", c) EXCEPT !.counter = 1], prev)

SNetPushLanding(H, l, x) == [H EXCEPT !.land[l].stack = Append(@, x), !.land[x].refs = @ + 1]

TopLanding(H, l) == IF H.land[l].stack = <<>> THEN 0 ELSE Last(H.land[l].stack)
SNetPopLanding(H, l) == [H EXCEPT !.land[l].stack = Front(@)]

(* node->term: the descriptors and landings that a landing lets go when    *)
(* its last reference has gone.                                            *)
Outdescs(L) == SetToSeq({L.o[p] : p \in Ports} \ {0})
LetsGo(L, lands) == [descs |-> Outdescs(L), lands |-> SelectSeq(lands, LAMBDA x : x # 0)]

SNetTermFilter(L) == LetsGo(L, <<>>)
SNetTermNameShift(L) == LetsGo(L, <<>>)
SNetTermSync(L) == LetsGo(L, <<>>)
SNetTermIdentity(L) == LetsGo(L, <<>>)
SNetTermCollector(L) == LetsGo(L, <<>>)
SNetTermBox(L) == LetsGo(L, <<L.coll>>)
SNetTermParallel(L) == LetsGo(L, <<L.coll>>)
SNetTermStar(L) == LetsGo(L, <<L.instland, L.coll>>)

(* A split without instances forgets its stream to the collector.          *)
SNetTermSplit(L) ==
    IF \A p \in Ports \ {0} : L.o[p] = 0 THEN [descs |-> <<>>, lands |-> <<L.coll>>]
    ELSE LetsGo(L, <<L.coll>>)

(* The landing behind the one that dissolved was held meanwhile.           *)
SNetTermGarbage(H, L) == LetsGo(L, <<H.desc[L.o[1]].land>>)

SNetTermFeedback(L) ==
    LetsGo(L, CASE L.type = "feedback1" -> <<L.link[1], L.link[3], L.link[2]>>
                [] L.type = "feedback2" -> <<L.link[2]>>
                [] L.type = "feedback3" -> <<L.link[3]>>
                [] L.type = "feedback4" -> <<>>)

SNetTermDripBack(L) ==
    LetsGo(L, IF L.type = "dripback1" /\ L.o[1] = 0 THEN <<L.link[1]>> ELSE <<>>)

Term(H, l) ==
    LET L == H.land[l]
    IN  CASE L.type = "filter" -> SNetTermFilter(L)
          [] L.type = "nameshift" -> SNetTermNameShift(L)
          [] L.type = "sync" -> SNetTermSync(L)
          [] L.type = "identity" -> SNetTermIdentity(L)
          [] L.type = "collector" -> SNetTermCollector(L)
          [] L.type = "box" -> SNetTermBox(L)
          [] L.type = "parallel" -> SNetTermParallel(L)
          [] L.type = "star" -> SNetTermStar(L)
          [] L.type = "split" -> SNetTermSplit(L)
          [] L.type = "garbage" -> SNetTermGarbage(H, L)
          [] L.type \in {"dripback1", "dripback2"} -> SNetTermDripBack(L)
          [] L.type \in {"feedback1", "feedback2", "feedback3", "feedback4"} -> SNetTermFeedback(L)
          [] L.type \in {"input", "output"} -> LetsGo(L, <<>>)

(* SNetCleanupLanding: the landings on the stack.                          *)
SNetCleanupLanding(L) == L.stack

SNetTermOutput(H, l) == IF H.land[l].type = "output" THEN [H EXCEPT !.terminated = TRUE] ELSE H

SNetStreamWrite(H, d, rec) ==
    [H EXCEPT !.desc[d].refs = @ + 1, !.desc[d].fifo = Append(@, rec)]

(* The entrances of feedback and dripback say that they end.               *)
LastWords(H, l) ==
    LET L == H.land[l]
    IN  IF L.o[1] = 0 THEN H
        ELSE CASE L.type = "feedback1" -> SNetStreamWrite(H, L.o[1], Detref(L.link[2], 0))
               [] L.type = "dripback1" -> SNetStreamWrite(H, L.o[1], [k |-> "terminate"])
               [] OTHER -> H

RECURSIVE Release(_, _, _)

(* SNetDescDone for the descriptors ds, SNetLandingDone for the landings   *)
(* ls, and all that follows from it.                                       *)
Release(H, ds, ls) ==
    LET l == Head(ls)
        d == Head(ds)
        K == [H EXCEPT !.land[l].refs = @ - 1]
        E == [H EXCEPT !.desc[d].refs = @ - 1]
        Freed(T) == Release([SNetTermOutput(LastWords(K, l), l) EXCEPT !.land[l] = NoLand],
                            ds \o T.descs,
                            Tail(ls) \o T.lands \o SNetCleanupLanding(H.land[l]))
    IN  IF ls # <<>>
        THEN IF K.land[l].refs # 0
             THEN Release(Check(K, K.land[l].refs > 0, "landing refs"), ds, Tail(ls))
             ELSE Freed(Term(H, l))
        ELSE IF ds # <<>>
        THEN IF E.desc[d].refs # 0
             THEN Release(Check(E, E.desc[d].refs > 0, "desc refs"), Tail(ds), ls)
             ELSE Release([Check(E, H.desc[d].fifo = <<>>, "records lost") EXCEPT !.desc[d] = NoDesc],
                          Tail(ds), <<H.desc[d].land>>)
        ELSE H

SNetDescDone(H, d) == Release(H, <<d>>, <<>>)
SNetLandingDone(H, l) == Release(H, <<>>, <<l>>)

(* Variant of the next operator: the landings on the stack keep their      *)
(* reference from a landing that dissolves.                                *)
BecomeIdentityKeepsStack(H, l, out) ==
    [H EXCEPT !.land[l] = [NoLand EXCEPT !.type = "identity", !.refs = H.land[l].refs,
                                         !.lock = H.land[l].lock, !.o[1] = out]]

SNetBecomeIdentity(H, l, out) ==
    Release([H EXCEPT !.land[l] = [NoLand EXCEPT !.type = "identity", !.refs = H.land[l].refs,
                                     !.lock = H.land[l].lock, !.o[1] = out]],
            <<>>, H.land[l].stack)

(* SNetNewStarLanding: arrival at a star by its input creates the landing, *)
(* arrival from the operand takes the one prepared for this incarnation.   *)
(* Either way the landing of the next incarnation is prepared.             *)
NewStarLanding(H, n, s, prev) ==
    LET Prepared(A, l) ==
          LET c == A.land[l].coll
          IN  [SNetNewLanding(A, [NewLand("star", n) EXCEPT !.coll = c], prev) EXCEPT
                 !.land[c].refs = @ + 1, !.land[l].instland = FreshLand(A), !.new = l]
        Enters(l) ==
          NewCollectorLanding(
            SNetNewLanding(H, [NewLand("star", n) EXCEPT !.leader = TRUE], prev),
            l, g.dest[g.node[n].coll], prev)
        Returns(l) ==
          SNetLandingDone(Check(SNetPopLanding(H, prev), H.land[l].refs > 1, "star refs"), l)
    IN  IF s = g.node[n].in THEN Prepared(Enters(FreshLand(H)), FreshLand(H))
        ELSE Prepared(Returns(TopLanding(H, prev)), TopLanding(H, prev))

(* SNetNewFeedbackLanding and SNetNewDripBackLanding, arriving from        *)
(* outside: all landings of the node are created, and linked.              *)
NewFeedbackLanding(H, n, prev) ==
    LET free == {i \in DOMAIN H.land : H.land[i].type = "free"}
        l == Min(free)
        f4 == Min(free \ {l})
        f2 == Min(free \ {l, f4})
        f3 == Min(free \ {l, f4, f2})
        New(K, type) == SNetNewLanding(K, NewLand(type, n), prev)
    IN  [New(New(New(New(H, "feedback1"), "feedback4"), "feedback2"), "feedback3") EXCEPT
            !.new = l, !.land[l].link = <<f2, f3, f4>>, !.land[l].counter = 1,
            !.land[f2].link = <<0, f3, 0>>, !.land[f3].link = <<f2, 0, f4>>,
            !.land[f2].refs = 2, !.land[f3].refs = 2, !.land[f4].refs = 2]

NewDripBackLanding(H, n, prev) ==
    LET l == FreshLand(H)
        A == SNetNewLanding(H, NewLand("dripback1", n), prev)
        b == FreshLand(A)
    IN  [SNetNewLanding(A, NewLand("dripback2", n), prev) EXCEPT
            !.new = l, !.land[l].link = <<b, 0, 0>>]

(* The others: the landing l that SNetNewLanding gave, and the landing of  *)
(* the collector where the node has one.                                   *)
NewSyncLanding(H, l, x) == [H EXCEPT !.land[l].store = [i \in DOMAIN x.arg.pats |-> <<>>]]
NewBoxLanding(H, l, x, prev) ==
    IF x.arg.conc > 1 THEN NewCollectorLanding(H, l, g.dest[x.outs[1]], prev) ELSE H
NewParallelLanding(H, l, x, prev) == NewCollectorLanding(H, l, g.dest[x.coll], prev)
NewSplitLanding(H, l, x, prev) == NewCollectorLanding(H, l, g.dest[x.coll], prev)

(* The landing of a new descriptor of stream s; H.new is its number.       *)
NewLanding(H, s, prev) ==
    LET n == g.dest[s]
        x == g.node[n]
        l == FreshLand(H)
        A == [SNetNewLanding(H, NewLand(x.type, n), prev) EXCEPT !.new = l]
    IN  CASE x.type \in {"filter", "nameshift", "output"} -> A
          [] x.type = "sync" -> NewSyncLanding(A, l, x)
          [] x.type = "box" -> NewBoxLanding(A, l, x, prev)
          [] x.type = "parallel" -> NewParallelLanding(A, l, x, prev)
          [] x.type = "split" -> NewSplitLanding(A, l, x, prev)
          [] x.type = "star" -> NewStarLanding(H, n, s, prev)
          [] x.type = "feedback" /\ s = x.in -> NewFeedbackLanding(H, n, prev)
          [] x.type = "dripback" /\ s = x.in -> NewDripBackLanding(H, n, prev)
          [] x.type = "collector" \/ (x.type \in {"feedback", "dripback"} /\ s # x.in) ->
               [SNetPopLanding(H, prev) EXCEPT !.new = TopLanding(H, prev)]

(* The type of landing that a descriptor of stream s must have.            *)
LandType(s) ==
    LET x == g.node[g.dest[s]]
    IN  CASE x.type = "feedback" ->
               IF s = x.in THEN "feedback1" ELSE IF s = x.self[1] THEN "feedback2"
               ELSE IF s = x.internal THEN "feedback3" ELSE "feedback4"
          [] x.type = "dripback" -> IF s = x.in THEN "dripback1" ELSE "dripback2"
          [] OTHER -> x.type

OutStream(H, l, p) ==
    LET x == NodeOf(H, l)
        type == H.land[l].type
    IN  CASE p = 0 -> x.coll
          [] type = "split" /\ p # 0 -> x.outs[1]
          [] type \in {"feedback1", "feedback3", "dripback1"} -> x.self[p]
          [] type = "feedback2" \/ (type = "dripback2" /\ p = 1) -> x.inst
          [] type = "dripback2" /\ p = 2 -> x.outs[1]
          [] OTHER -> x.outs[p]

(* SNetStreamOpen of output p of landing l.                                *)
SNetStreamOpen(H, l, p) ==
    LET s == OutStream(H, l, p)
        d == FreshDesc(H)
        Opens(N) ==
          [Check(N, N.land[N.new].type = LandType(s), "landing type") EXCEPT
             !.desc[d].stream = s, !.desc[d].land = N.new, !.land[l].o[p] = d]
    IN  Opens(NewLanding([H EXCEPT !.desc[d].refs = 1], s, l))

Opened(H, l, p) == IF H.land[l].o[p] # 0 THEN H ELSE SNetStreamOpen(H, l, p)

(* Dispatchers first put the collector's landing on the stack.             *)
OpenedWith(H, l, p, future) ==
    IF H.land[l].o[p] # 0 THEN H
    ELSE SNetStreamOpen(IF TopLanding(H, l) = future THEN H ELSE SNetPushLanding(H, l, future), l, p)

-----------------------------------------------------------------------------
(* Writing *)

(* SNetMergeStreams: the records move on; the workers' licences for them   *)
(* (stale) and their references to the dissolved descriptor stay behind.   *)
SNetMergeStreams(H, l, p) ==
    LET d == H.land[l].o[p]
        i == H.desc[d].land
        next == H.land[i].o[1]
        n == Len(H.desc[d].fifo)
    IN  SNetDescDone(
          [H EXCEPT !.desc[next].fifo = @ \o H.desc[d].fifo, !.desc[next].refs = @ + n + 1,
                    !.desc[d].fifo = <<>>, !.desc[d].stale = @ + n,
                    !.land[H.desc[next].land].refs = @ + 1,
                    !.land[i].type = "garbage", !.land[l].o[p] = next], d)

SNetWrite(H, l, p, rec) ==
    LET i == H.land[H.desc[H.land[l].o[p]].land]
        Written(M) == SNetStreamWrite(M, M.land[l].o[p], rec)
    IN  Written(IF i.type = "identity" /\ ~i.lock THEN SNetMergeStreams(H, l, p) ELSE H)

RECURSIVE WriteAll(_, _, _, _)
WriteAll(H, l, p, recs) ==
    IF recs = <<>> THEN H ELSE WriteAll(SNetWrite(H, l, p, Head(recs)), l, p, Tail(recs))

-----------------------------------------------------------------------------
(* Detrefs *)

SNetRecDetrefCopy(H, rec) ==
    LET S == Range(rec.det)
    IN  [Check(H, \A x \in S : H.det[x].refcount >= 2, "copy of a dead detref") EXCEPT
            !.det = [x \in DOMAIN @ |-> IF x \in S THEN [@[x] EXCEPT !.refcount = @ + 1] ELSE @[x]]]

(* SNetDetEnter with SNetRecDetrefAdd: the record gets a detref on top of  *)
(* its stack, and the collector is told of it.  A network that only        *)
(* supports determinism counts one up when the outer number changes.       *)
SNetDetEnter(H, l, is_det, rec) ==
    LET L == H.land[l]
        x == FreshDet(H)
        outer == H.det[Last(rec.det)].seqnr
        step == is_det \/ outer # L.seqnr
        n == L.counter + (IF step THEN 1 ELSE 0)
        K == IF is_det THEN H
             ELSE Check(H, ~step \/ outer > L.seqnr, "outer order")
    IN  [heap |-> [K EXCEPT !.land[l].counter = n,
                            !.land[l].seqnr = IF is_det THEN @ ELSE outer,
                            !.det[x] = [live |-> TRUE, seqnr |-> n, leave |-> L.coll,
                                        refcount |-> 2, recs |-> <<>>],
                            !.land[L.coll].fifo = Append(@, x)],
         rec |-> [rec EXCEPT !.det = Append(@, x)]]

Entered(H, l, rec) ==
    LET n == NodeOf(H, l)
    IN  CASE n.det -> SNetDetEnter(H, l, TRUE, rec)
          [] ~n.det /\ n.sup /\ rec.det # <<>> -> SNetDetEnter(H, l, FALSE, rec)
          [] ~n.det /\ n.sup /\ rec.det = <<>> -> [heap |-> Check(H, FALSE, "no detref stack"), rec |-> rec]
          [] OTHER -> [heap |-> H, rec |-> rec]

RECURSIVE SNetDetLeaveDequeue(_, _), DequeueEqual(_, _, _), DequeueAny(_, _, _)

(* Variant of the next operator: records of later numbers may go too.      *)
DequeueAny(H, l, k) ==
    LET q == H.land[l].fifo
    IN  IF k > Len(q) THEN H
        ELSE DequeueAny(WriteAll([H EXCEPT !.det[q[k]].recs = <<>>], l, 1, H.det[q[k]].recs), l, k + 1)

(* Records of later detrefs with the same number may go as well.           *)
DequeueEqual(H, l, k) ==
    LET q == H.land[l].fifo
    IN  IF k > Len(q) \/ H.det[q[k]].seqnr # H.det[q[1]].seqnr THEN H
        ELSE DequeueEqual(WriteAll([H EXCEPT !.det[q[k]].recs = <<>>], l, 1, H.det[q[k]].recs), l, k + 1)

(* Variant of the next operator: a detref is dropped as soon as its        *)
(* records are out.                                                        *)
LeaveDequeueEager(H, l) ==
    LET q == H.land[l].fifo
        x == Head(q)
        B == WriteAll([H EXCEPT !.det[x].recs = <<>>, !.land[l].counter = H.det[x].seqnr], l, 1, H.det[x].recs)
    IN  IF q = <<>> \/ H.det[x].recs = <<>> THEN H
        ELSE [B EXCEPT !.det[x] = NoDet, !.land[l].fifo = Tail(@)]

SNetDetLeaveDequeue(H, l) ==
    LET q == H.land[l].fifo
        x == Head(q)
        X == H.det[x]
        A == Check(H, X.seqnr >= H.land[l].counter, "seqnr < leave counter")
        Written(B) ==
          IF X.refcount = 0
          THEN SNetDetLeaveDequeue([B EXCEPT !.det[x] = NoDet, !.land[l].fifo = Tail(@)], l)
          ELSE DequeueEqual(B, l, 2)
    IN  IF q = <<>> THEN H
        ELSE Written(WriteAll([A EXCEPT !.land[l].counter = Max({@, X.seqnr}),
                                        !.det[x].recs = <<>>], l, 1, X.recs))

SNetDetLeaveRec(H, l, rec) ==
    LET x == Last(rec.det)
        X == H.det[x]
        ok == X.leave = l /\ X.refcount >= 2 /\ X.seqnr >= H.land[l].counter
    IN  SNetDetLeaveDequeue(
          [Check(H, ok, "leave") EXCEPT
              !.det[x].recs = Append(@, [rec EXCEPT !.det = Front(@)]),
              !.det[x].refcount = IF @ = 2 THEN 0 ELSE @ - 1], l)
=============================================================================
