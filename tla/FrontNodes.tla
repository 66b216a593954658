----------------------------- MODULE FrontNodes -----------------------------
(***************************************************************************)
(* What the landings of the Front runtime do with a record: filters,       *)
(* boxes, synchrocells, collectors, the dispatchers, and feedback.         *)
(***************************************************************************)
EXTENDS FrontHeap

-----------------------------------------------------------------------------
(* Node functions.  Each gives the heap, and in "act" what remains to be   *)
(* done with the landing locked.                                           *)

Done(H) == [heap |-> H, act |-> Idle]

(* SNetRecDetrefDestroy, still to be done for the detrefs of rec.          *)
Destroying(H, rec) ==
    [heap |-> H, act |-> IF rec.det = <<>> THEN Idle
                         ELSE [Idle EXCEPT !.pc = "decr", !.pend = Reverse(rec.det)]]

RECURSIVE Outputs(_, _, _, _, _), OutputsUncounted(_, _, _, _, _)

(* Variant of the next operator: new records do not count as bearers of    *)
(* the detrefs they inherit.                                               *)
OutputsUncounted(H, l, p, rec, vs) ==
    IF vs = <<>> THEN H
    ELSE LET new == IF rec.k = "data" THEN Data(Head(vs), rec.from, rec.det)
                    ELSE Data(Head(vs), 0, <<>>)
         IN  OutputsUncounted(SNetWrite(H, l, p, new), l, p, rec, Tail(vs))

(* SNetOut and ApplyFilter: a new record with the detrefs of the old one.  *)
Outputs(H, l, p, rec, vs) ==
    IF vs = <<>> THEN H
    ELSE LET new == IF rec.k = "data" THEN Data(Head(vs), rec.from, rec.det)
                    ELSE Data(Head(vs), 0, <<>>)
             Written(K) == IF NodeOf(H, l).type = "box" THEN SNetStreamWrite(K, K.land[l].o[p], new)
                           ELSE SNetWrite(K, l, p, new)
         IN  Outputs(Written(IF rec.k = "data" THEN SNetRecDetrefCopy(H, rec) ELSE H),
                     l, p, rec, Tail(vs))

SNetNodeFilter(H, l, rec) ==
    LET Handled(A) ==
          CASE rec.k = "data" ->
                 Destroying(Outputs(A, l, 1, rec, NodeOf(H, l).arg.fun[rec.v]), rec)
            [] rec.k = "detref" -> Done(SNetWrite(A, l, 1, rec))
            [] rec.k = "sync" -> Done(A)
    IN  Handled(Opened(H, l, 1))

(* The record itself is renamed and goes on, with its detrefs.             *)
SNetNodeNameShift(H, l, rec) ==
    LET Handled(A) ==
          CASE rec.k = "data" -> Done(SNetWrite(A, l, 1, [rec EXCEPT !.v = NodeOf(H, l).arg.fun[@]]))
            [] rec.k = "detref" -> Done(SNetWrite(A, l, 1, rec))
            [] rec.k = "sync" -> Done(A)
    IN  Handled(Opened(H, l, 1))

(* SNetNodeBoxData: the box function, with its output in context p.  The   *)
(* detref of a trigger record goes neither to the output (out.c:71) nor is *)
(* it given up (xbox.c:77): its count stays (orphans).                     *)
SNetNodeBoxData(H, l, p, rec) ==
    LET fun == NodeOf(H, l).arg.fun
    IN  CASE rec.k = "data" -> Destroying(Outputs(H, l, p, rec, fun[rec.v]), rec)
          [] rec.k = "trigger" ->
               Done(Outputs([H EXCEPT !.orphans = @ \cup Range(rec.det)], l, p, rec,
                            <<NodeOf(H, l).arg.first>>))
          [] rec.k = "detref" -> Done(SNetWrite(H, l, p, rec))
          [] rec.k = "sync" -> Done(H)

MatchPatterns(L, pats, rec) == {i \in DOMAIN pats : L.store[i] = <<>> /\ rec.v \in pats[i]}

(* SNetNodeSync: store the record and let its detrefs go, or fire: the     *)
(* merged record takes over the detrefs of the record that came last.      *)
SyncStores(H, l, new, rec) ==
    [H EXCEPT !.land[l].store = [i \in DOMAIN @ |-> IF i \in new THEN <<rec.v>> ELSE @[i]]]

SyncFires(H, l, rec) ==
    LET x == NodeOf(H, l)
        Tells(M) == /\ x.merged_type_sync
                    /\ M.land[M.desc[M.land[l].o[1]].land].type \in {"parallel", "identity"}
        Told(M) == IF Tells(M) THEN SNetWrite(M, l, 1, Sync) ELSE M
        Dissolved(T) == SNetBecomeIdentity(T, l, T.land[l].o[1])
    IN  Dissolved(Told(SNetWrite([H EXCEPT !.land[l].complete = TRUE], l, 1,
                                 [rec EXCEPT !.v = x.arg.merged])))

SyncData(H, l, new, rec) ==
    LET L == H.land[l]
        Full(S) == \A i \in DOMAIN S.land[l].store : S.land[l].store[i] # <<>>
        Stored(S) == IF Full(S) THEN Done(SyncFires(S, l, rec)) ELSE Destroying(S, rec)
    IN  IF L.complete \/ new = {} THEN Done(SNetWrite(H, l, 1, rec))
        ELSE Stored(SyncStores(H, l, new, rec))

SNetNodeSync(H, l, rec) ==
    LET Handled(A) ==
          CASE rec.k = "data" ->
                 SyncData(A, l, MatchPatterns(A.land[l], NodeOf(A, l).arg.pats, rec), rec)
            [] rec.k = "detref" -> Done(SNetWrite(A, l, 1, rec))
            [] rec.k = "sync" -> Done(A)
    IN  Handled(Opened(H, l, 1))

CollectorData(H, l, rec) ==
    LET L == H.land[l]
        mine == rec.det # <<>> /\ H.det[Last(rec.det)].leave = l
        det == NodeOf(H, l).det \/ NodeOf(H, l).sup
        last == L.refs > 1 \/ L.fifo # <<>>
        Written(W) == IF last THEN W ELSE SNetBecomeIdentity(W, l, W.land[l].o[1])
    IN  CASE det /\ mine -> Done(SNetDetLeaveRec(H, l, rec))
          [] det /\ ~mine /\ L.fifo # <<>> ->
               [heap |-> H, act |-> [Idle EXCEPT !.pc = "queue", !.rec = rec,
                                                 !.seqnr = H.det[Last(L.fifo)].seqnr + 1]]
          [] ~det \/ (~mine /\ L.fifo = <<>>) -> Done(Written(SNetWrite(H, l, 1, rec)))

SNetNodeCollector(H, l, rec) ==
    LET Handled(A) ==
          CASE rec.k = "data" -> CollectorData(A, l, rec)
            [] rec.k = "detref" ->
                 Done(IF rec.leave = l THEN SNetDetLeaveDequeue(A, l) ELSE SNetWrite(A, l, 1, rec))
            [] rec.k = "sync" -> Done(A)
    IN  Handled(Opened(H, l, 1))

-----------------------------------------------------------------------------
(* Dispatchers *)

ToBranch(H, l, p, rec) == SNetWrite(OpenedWith(H, l, p, H.land[l].coll), l, p, rec)

(* ParallelBecomeIdentity: no dispatcher when only branch p is left.       *)
ParallelBecomeIdentity(H, l, p) ==
    LET Left(A) ==
          LET o == A.land[l].o[0]
          IN  SNetBecomeIdentity(SNetLandingDone(IF o # 0 THEN SNetDescDone(A, o) ELSE A,
                                                 A.land[l].coll), l, A.land[l].o[p])
    IN  Left(OpenedWith(H, l, p, H.land[l].coll))

RECURSIVE ParallelInit(_, _, _)

(* The initialiser branches i.. get a trigger record and are closed.       *)
ParallelInit(H, l, i) ==
    LET Triggered(A, d) ==
          [SNetDescDone(SNetStreamWrite(A, d, Trigger), d) EXCEPT
             !.land[l].o[i] = 0, !.land[l].dead = @ \cup {i}]
        Closed(A) == Triggered(A, A.land[l].o[i])
        arg == NodeOf(H, l).arg
    IN  IF i > Len(arg.subs) THEN [H EXCEPT !.land[l].init = TRUE]
        ELSE ParallelInit(IF i \in arg.init THEN Closed(OpenedWith(H, l, i, H.land[l].coll))
                          ELSE H, l, i + 1)

(* CheckMatch and BestMatch: the first branch with the highest count.      *)
BestMatch(L, arg, v) ==
    LET S == {i \in (DOMAIN arg.subs) \ L.dead : arg.match[i][v] >= 0}
        best == {i \in S : \A j \in S : arg.match[j][v] =< arg.match[i][v]}
    IN  IF S = {} THEN 0 ELSE Min(best)

(* ParallelReceiveSync: branches that cannot be reached any more are       *)
(* closed; arg.late is the set of branches that stay.                      *)
ParallelReceiveSync(H, l) ==
    LET arg == NodeOf(H, l).arg
        L == H.land[l]
        gone == (DOMAIN arg.subs) \ (arg.late \cup L.dead)
        stay == (DOMAIN arg.subs) \ (gone \cup L.dead)
        Left(A) == IF Cardinality(stay) = 1 THEN ParallelBecomeIdentity(A, l, Max(stay)) ELSE A
    IN  Left(Release([H EXCEPT !.land[l].o = [p \in Ports |-> IF p \in gone THEN 0 ELSE @[p]],
                               !.land[l].dead = @ \cup gone],
                     SetToSeq({L.o[p] : p \in gone} \ {0}), <<>>))

SNetNodeParallel(H, l, rec) ==
    LET arg == NodeOf(H, l).arg
        live == (DOMAIN arg.subs) \ arg.init
        Sent(E, b) == IF b = 0 THEN Check(E.heap, FALSE, "no matching branch")
                      ELSE ToBranch(E.heap, l, b, E.rec)
        Handled(A) ==
          CASE ~H.land[l].init /\ Cardinality(live) = 1 ->
                 ParallelBecomeIdentity(ToBranch(A, l, Max(live), rec), l, Max(live))
            [] rec.k = "data" /\ (H.land[l].init \/ Cardinality(live) > 1) ->
                 Sent(Entered(A, l, rec), BestMatch(A.land[l], arg, rec.v))
            [] rec.k = "detref" -> ToBranch(A, l, 0, rec)
            [] rec.k = "sync" -> ParallelReceiveSync(A, l)
    IN  Done(Handled(IF H.land[l].init THEN H ELSE ParallelInit(H, l, 1)))

RECURSIVE SplitWrite(_, _, _, _, _)

(* A copy of the record for every tag value but the last.                  *)
SplitWrite(H, l, rec, lo, hi) ==
    IF lo > hi THEN H
    ELSE SplitWrite(ToBranch(IF lo < hi THEN SNetRecDetrefCopy(H, rec) ELSE H, l, lo, rec),
                    l, rec, lo + 1, hi)

SNetNodeSplit(H, l, rec) ==
    LET t == NodeOf(H, l).arg.tags[rec.v]
        Sent(E) == SplitWrite(E.heap, l, E.rec, t[1], t[2])
    IN  CASE rec.k = "data" -> Done(Sent(Entered(H, l, rec)))
          [] rec.k = "detref" -> Done(ToBranch(H, l, 0, rec))
          [] rec.k = "sync" -> Done(H)

(* StarWrite to an instance that is not open yet.                          *)
StarOpens(H, l) ==
    LET i == H.land[l].instland
        Popped(A) == IF TopLanding(A, l) = i THEN SNetLandingDone(SNetPopLanding(A, l), i) ELSE A
    IN  [Popped(OpenedWith(H, l, 1, i)) EXCEPT !.land[l].instland = 0]

(* StarWrite of a star whose operand has dissolved: the star dissolves too *)
(* and may hand its leadership on.                                         *)
StarDissolves(H, l) ==
    LET L == H.land[l]
        x == NodeOf(H, l)
        A == IF L.o[0] # 0 THEN SNetDescDone(H, L.o[0]) ELSE H
        Dissolved(B) == IF L.leader /\ (x.det \/ x.sup) THEN SNetWrite(B, l, 1, Leader(L)) ELSE B
    IN  Dissolved(SNetBecomeIdentity(SNetLandingDone(A, L.coll), l, L.o[1]))

StarWrite(H, l, rec) ==
    LET L == H.land[l]
        superfluous == H.land[H.desc[L.o[1]].land].node = L.node
        Written(W) == IF superfluous THEN StarDissolves(W, l) ELSE W
    IN  IF L.o[1] = 0 THEN SNetWrite(StarOpens(H, l), l, 1, rec)
        ELSE Written(SNetWrite(H, l, 1, rec))

SNetNodeStar(H, l, rec) ==
    LET Sent(E) == IF rec.v \in NodeOf(H, l).arg.exit THEN ToBranch(E.heap, l, 0, E.rec)
                   ELSE StarWrite(E.heap, l, E.rec)
    IN  CASE rec.k = "data" ->
               Done(Sent(IF H.land[l].leader THEN Entered(H, l, rec) ELSE [heap |-> H, rec |-> rec]))
          [] rec.k = "detref" -> Done(ToBranch(H, l, 0, rec))
          [] rec.k = "sync" -> Done(H)
          [] rec.k = "leader" ->
               Done([H EXCEPT !.land[l].leader = TRUE, !.land[l].counter = rec.counter,
                              !.land[l].seqnr = rec.seqnr])

-----------------------------------------------------------------------------
(***************************************************************************)
(* Feedback in the Front runtime.  A feedback node has four landings:      *)
(* feedback1 takes records from outside, feedback2 leads into the loop,    *)
(* feedback3 takes them from the loop and feedback4 lets them out.  The    *)
(* loop ends when feedback1 has gone and no detref of feedback3 is left.   *)
(* The deterministic form, dripback, has two: dripback1 queues what comes, *)
(* and dripback2 lets one record at a time into the loop.                  *)
(*                                                                         *)
(* Landing fields: o[1] is instdesc and o[2] outdesc; link holds feedback2, *)
(* feedback3, feedback4 (0 where there is none), or dripback2.             *)
(***************************************************************************)

ToLoop(H, l, rec) == SNetWrite(OpenedWith(H, l, 1, H.land[l].link[1]), l, 1, rec)
ToExit(H, l, rec) == SNetWrite(OpenedWith(H, l, 2, H.land[l].link[3]), l, 2, rec)

(* Detrefs at the head of the queue that no record carries any more.       *)
RECURSIVE DropDone(_, _)
DropDone(H, l) ==
    LET q == H.land[l].fifo
    IN  IF q = <<>> \/ H.det[Head(q)].refcount > 0 THEN H
        ELSE DropDone([H EXCEPT !.det[Head(q)] = NoDet, !.land[l].fifo = Tail(@)], l)

(* SNetFeedbackLeave: the record without its detref of this landing.       *)
SNetFeedbackLeave(H, l, rec) ==
    LET x == Last(rec.det)
        ok == rec.det # <<>> /\ H.det[x].leave = l /\ H.det[x].refcount >= 2
    IN  [heap |-> DropDone([Check(H, ok, "feedback leave") EXCEPT
                              !.det[x].refcount = IF @ = 2 THEN 0 ELSE @ - 1], l),
         rec |-> [rec EXCEPT !.det = Front(@)]]

(* SNetRecDetrefAdd with number n for landing l.                           *)
SNetRecDetrefAdd(H, l, n, rec) ==
    LET x == FreshDet(H)
    IN  [heap |-> [H EXCEPT !.det[x] = [live |-> TRUE, seqnr |-> n, leave |-> l,
                                        refcount |-> 2, recs |-> <<>>],
                            !.land[l].fifo = Append(@, x)],
         rec |-> [rec EXCEPT !.det = Append(@, x)]]

Feedback1(H, l, rec) ==
    LET n == H.land[l].counter + 1
        Looped(A) == ToLoop(A.heap, l, A.rec)
    IN  CASE rec.k = "data" /\ rec.v \in NodeOf(H, l).arg.back ->
               Looped(SNetRecDetrefAdd([H EXCEPT !.land[l].counter = n], H.land[l].link[2], n, rec))
          [] rec.k = "data" /\ rec.v \notin NodeOf(H, l).arg.back -> ToExit(H, l, rec)
          [] rec.k = "detref" -> ToExit(H, l, rec)
          [] rec.k = "sync" -> H

(* FeedbackCheckBusy.                                                      *)
CheckBusy(H, l) ==
    LET Dropped(A) ==
          IF A.land[l].fifo = <<>> /\ A.land[l].term = "draining"
          THEN [A EXCEPT !.land[l].term = "terminating"] ELSE A
    IN  Dropped(DropDone(H, l))

Feedback3Rec(H, l, rec) ==
    LET L == H.land[l]
        Left(E) == ToExit(E.heap, l, E.rec)
        Busy(F) == IF L.term = "initial" THEN F ELSE CheckBusy(F, l)
        D == IF rec.det = 0
             THEN [Check(H, L.term = "initial", "draining twice") EXCEPT !.land[l].term = "draining"]
             ELSE H
    IN  CASE rec.k = "data" /\ rec.v \in NodeOf(H, l).arg.back -> ToLoop(H, l, rec)
          [] rec.k = "data" /\ rec.v \notin NodeOf(H, l).arg.back ->
               Busy(Left(SNetFeedbackLeave(H, l, rec)))
          [] rec.k = "detref" -> IF rec.leave = l THEN CheckBusy(D, l) ELSE H
          [] rec.k = "sync" -> H

Feedback3(H, l, rec) ==
    LET Terminated(A) ==
          LET M == A.land[l]
          IN  IF M.term # "terminating" THEN A
              ELSE Release([A EXCEPT !.land[l].o = [p \in Ports |-> 0],
                                     !.land[l].term = "terminated"],
                           SetToSeq({M.o[1], M.o[2]} \ {0}), <<M.link[1]>>)
    IN  IF H.land[l].term = "terminated" THEN Check(H, rec.k # "data", "record after the end")
        ELSE Terminated(Feedback3Rec(H, l, rec))

SNetNodeFeedback(H, l, rec) ==
    LET type == H.land[l].type
    IN  Done(CASE type = "feedback1" -> Feedback1(H, l, rec)
               [] type = "feedback2" -> SNetWrite(OpenedWith(H, l, 1, H.land[l].link[2]), l, 1, rec)
               [] type = "feedback3" -> Feedback3(H, l, rec)
               [] type = "feedback4" -> SNetWrite(Opened(H, l, 1), l, 1, rec))

-----------------------------------------------------------------------------
(* Dripback *)

(* One round of the loop of SNetNodeDripBack for dripback2.                *)
DripRec(H, l, rec, via_access) ==
    LET L == H.land[l]
        back == rec.v \in NodeOf(H, l).arg.back
        N == Check([H EXCEPT !.land[l].counter = @ + 1], L.fifo = <<>>, "loop in use")
        A == IF via_access THEN SNetRecDetrefAdd(N, l, N.land[l].counter, rec)
             ELSE [heap |-> Check(H, rec.det # <<>>, "no detref"), rec |-> rec]
        E == IF via_access THEN [heap |-> H, rec |-> rec] ELSE SNetFeedbackLeave(H, l, rec)
        Inst(K) == IF K.land[l].o[1] # 0 THEN K
                   ELSE LET O == OpenedWith(K, l, 1, l)
                        IN  IF TopLanding(O, l) = l
                            THEN [SNetPopLanding(O, l) EXCEPT !.land[l].refs = @ - 1] ELSE O
        Out(K, r) == SNetWrite(Opened(K, l, 2), l, 2, r)
        W == Check(H, ~via_access, "detref of the loop from outside")
    IN  CASE rec.k = "data" /\ back -> SNetWrite(Inst(A.heap), l, 1, A.rec)
          [] rec.k = "data" /\ ~back -> Out(E.heap, E.rec)
          [] rec.k = "wakeup" -> Check(H, via_access, "wakeup in the loop")
          [] rec.k = "terminate" ->
               [Check(H, via_access /\ L.term = "initial", "terminate") EXCEPT
                  !.land[l].term = "draining"]
          [] rec.k = "detref" /\ rec.leave = l ->
               IF L.fifo # <<>> /\ Head(L.fifo) = rec.det THEN DropDone(W, l) ELSE W
          [] rec.k = "detref" /\ rec.leave # l ->
               Out(Check(H, via_access, "detref of another landing in the loop"), rec)
          [] rec.k = "sync" -> H

(* After a record: the next one from the queue when the loop is empty.     *)
DripTake(H, l) ==
    [heap |-> [H EXCEPT !.land[l].recs = Tail(@), !.land[l].busy = TRUE], rec |-> <<Head(H.land[l].recs)>>]

DripNext(H, l) ==
    LET A == DropDone(H, l)
        L == A.land[l]
        q == L.queued - 1
        C == Check([A EXCEPT !.land[l].queued = q], q >= 0, "queued below zero")
        I == Check(H, H.land[l].fifo = <<>>, "idle with records in the loop")
    IN  CASE L.busy /\ L.fifo # <<>> -> [heap |-> A, rec |-> <<>>]
          [] L.busy /\ L.fifo = <<>> /\ q = 0 -> [heap |-> [C EXCEPT !.land[l].busy = FALSE], rec |-> <<>>]
          [] L.busy /\ L.fifo = <<>> /\ q # 0 -> DripTake(C, l)
          [] ~L.busy /\ H.land[l].queued > 0 -> DripTake(I, l)
          [] ~L.busy /\ H.land[l].queued = 0 -> [heap |-> I, rec |-> <<>>]

(* The end of SNetNodeDripBack for dripback2.                              *)
DripEnd(H, l) ==
    LET L == H.land[l]
        over == L.term = "terminated" \/ (L.term = "draining" /\ ~L.busy)
        A == Check([H EXCEPT !.land[l].term = IF over THEN "terminated" ELSE @],
                   L.term = "draining" /\ ~L.busy => L.queued = 0 /\ L.fifo = <<>>, "draining")
    IN  IF over /\ L.o[1] # 0
        THEN Release([A EXCEPT !.land[l].o[1] = 0], <<L.o[1]>>, <<l>>) ELSE A

SNetNodeDripBack(H, l, rec, via_access) ==
    IF H.land[l].type = "dripback1"
    THEN [heap |-> [H EXCEPT !.land[H.land[l].link[1]].recs = Append(@, rec)],
          act |-> [Idle EXCEPT !.pc = "queued"]]
    ELSE [heap |-> DripRec(H, l, rec, via_access), act |-> [Idle EXCEPT !.pc = "drip"]]

(* FAA(&db2->queued, 1): the first record wakes dripback2.                 *)
DripQueue(H, l) ==
    LET b == H.land[l].link[1]
        A == [H EXCEPT !.land[b].queued = @ + 1]
    IN  IF H.land[b].queued = 0 THEN SNetWrite(OpenedWith(A, l, 1, b), l, 1, [k |-> "wakeup"]) ELSE A
=============================================================================
