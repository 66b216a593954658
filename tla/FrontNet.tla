------------------------------ MODULE FrontNet ------------------------------
(***************************************************************************)
(* Networks of the Front runtime (runtime/front) at work.                  *)
(*                                                                         *)
(* A worker handles one record of a descriptor with the landing locked;    *)
(* that is one step here, except for what other workers can observe in     *)
(* between: the decrements of a detref, the contexts of a concurrent box,  *)
(* the collector's look at its queue, and the queue of a deterministic     *)
(* feedback.  Which worker takes which record is left open (FrontWorker    *)
(* has the scheduling).                                                    *)
(***************************************************************************)
EXTENDS FrontNodes

CONSTANTS Nets,      \* [net, in, first, out, ordered]: expression, input values, expected output
          MaxDesc, MaxLand, MaxDet   \* bounds of the heap

VARIABLES case,  \* the member of Nets that is running
          h,     \* the heap
          left   \* input values still to be read; <<"closed">> at the end

vars == <<case, g, h, left>>

SNetNodeOutput(H, rec) ==
    CASE rec.k = "data" -> Done([H EXCEPT !.outs = Append(@, <<rec.v, rec.from>>)])
      [] rec.k = "sync" -> Done(H)
      [] OTHER -> Done(Check(H, FALSE, "unknown record at the output"))

SNetNodeIdentity(H, l, rec) == Done(SNetWrite(H, l, 1, rec))

NodeWork(H, l, s, rec) ==
    LET type == H.land[l].type
    IN  CASE type = "filter" -> SNetNodeFilter(H, l, rec)
          [] type = "nameshift" -> SNetNodeNameShift(H, l, rec)
          [] type = "box" -> SNetNodeBoxData(Opened(H, l, 1), l, 1, rec)
          [] type = "sync" -> SNetNodeSync(H, l, rec)
          [] type = "collector" -> SNetNodeCollector(H, l, rec)
          [] type = "parallel" -> SNetNodeParallel(H, l, rec)
          [] type = "split" -> SNetNodeSplit(H, l, rec)
          [] type = "star" -> SNetNodeStar(H, l, rec)
          [] type = "identity" -> SNetNodeIdentity(H, l, rec)
          [] type \in {"feedback1", "feedback2", "feedback3", "feedback4"} -> SNetNodeFeedback(H, l, rec)
          [] type \in {"dripback1", "dripback2"} -> SNetNodeDripBack(H, l, rec, s \in Range(NodeOf(H, l).self))
          [] type = "output" -> SNetNodeOutput(H, rec)

-----------------------------------------------------------------------------
(* Steps *)

Concurrent(l) == h.land[l].type = "box" /\ NodeOf(h, l).arg.conc > 1

(* Contexts of a concurrent box that are busy.                             *)
Busy(L) == {p \in Ports : L.act[p].pc # "idle"}

(* Take the next record of d, whose landing is free.                       *)
Taken(d) == [h EXCEPT !.desc[d].fifo = Tail(@), !.land[h.desc[d].land].lock = TRUE]

(* SNetStreamWork for all landings but concurrent boxes.                   *)
Work(d) ==
    LET l == h.desc[d].land
        Worked(R) ==
          IF R.act.pc = "idle" THEN SNetDescDone([R.heap EXCEPT !.land[l].lock = FALSE], d)
          ELSE [R.heap EXCEPT !.land[l].act[1] = [R.act EXCEPT !.d = d]]
    IN  /\ h.desc[d].fifo # <<>> /\ ~h.land[l].lock /\ ~Concurrent(l)
        /\ h' = Worked(NodeWork(Taken(d), l, h.desc[d].stream, Head(h.desc[d].fifo)))
        /\ UNCHANGED <<case, g, left>>

(* SNetNodeBox, concurrency > 1: take a context, and unlock the landing    *)
(* unless this was the last one.  SNetRecCreate leaves the stack of        *)
(* detrefs of a trigger record uninitialized (record.c:129) and            *)
(* SNetRecDetrefAdd reads it: NULL gives the record a stack of its own,    *)
(* and pushing onto anything else ends the program (crashed).              *)
BoxEnter(d) ==
    LET l == h.desc[d].land
        H == Taken(d)
        L == H.land[l]
        conc == NodeOf(H, l).arg.conc
        p == Min((1..conc) \ Busy(L))
        rec == Head(h.desc[d].fifo)
        Starts(E) ==
          [E.heap EXCEPT !.land[l].lock = Cardinality(Busy(L)) + 1 = conc,
                         !.land[l].act[p] = [Idle EXCEPT !.pc = "fun", !.d = d, !.rec = E.rec]]
        counted == NodeOf(H, l).det /\ rec.k \in {"data", "trigger"}
        Enters(A) == IF counted THEN SNetDetEnter(A, l, TRUE, rec) ELSE [heap |-> A, rec |-> rec]
    IN  /\ h.desc[d].fifo # <<>> /\ ~h.land[l].lock /\ Concurrent(l)
        /\ \/ h' = Starts(Enters(OpenedWith(H, l, p, L.coll)))
           \/ counted /\ rec.k = "trigger" /\ h' = [H EXCEPT !.crashed = TRUE]
        /\ UNCHANGED <<case, g, left>>

(* The activity a in context p of l is over.                               *)
Left(H, l, p) ==
    LET full == Cardinality(Busy(H.land[l])) = NodeOf(H, l).arg.conc
    IN  SNetDescDone([H EXCEPT !.land[l].act[p] = Idle,
                               !.land[l].lock = IF Concurrent(l) /\ ~full THEN @ ELSE FALSE],
                     H.land[l].act[p].d)

BoxFunction(l, p) ==
    LET a == h.land[l].act[p]
        Returned(R) == IF R.act.pc = "idle" THEN Left(R.heap, l, p)
                       ELSE [R.heap EXCEPT !.land[l].act[p] = [R.act EXCEPT !.d = a.d]]
    IN  /\ a.pc = "fun"
        /\ h' = Returned(SNetNodeBoxData(h, l, p, a.rec))
        /\ UNCHANGED <<case, g, left>>

(* SNetRecDetrefDestroy: the first decrement; the second one if this was   *)
(* the last reference, after which the collector may delete the detref;    *)
(* then the notice to the collector.                                       *)
Popped(H, l, p) ==
    LET a == H.land[l].act[p]
    IN  IF Len(a.pend) = 1 THEN Left(H, l, p)
        ELSE [H EXCEPT !.land[l].act[p] = [a EXCEPT !.pc = "decr", !.pend = Tail(@)]]

DetrefDecr(l, p) ==
    LET a == h.land[l].act[p]
        x == Head(a.pend)
        X == h.det[x]
        H == [Check(h, X.refcount >= 2, "refcount") EXCEPT !.det[x].refcount = @ - 1]
    IN  /\ a.pc = "decr"
        /\ h' = IF X.refcount > 2 THEN Popped(H, l, p)
                ELSE [H EXCEPT !.land[l].act[p] = [a EXCEPT !.pc = "zero", !.leave = X.leave]]
        /\ UNCHANGED <<case, g, left>>

DetrefZero(l, p) ==
    LET a == h.land[l].act[p]
        H == Check(h, h.det[Head(a.pend)].refcount = 1, "refcount not 1")
    IN  /\ a.pc = "zero"
        /\ h' = [H EXCEPT !.det[Head(a.pend)].refcount = 0, !.land[l].act[p].pc = "notice"]
        /\ UNCHANGED <<case, g, left>>

DetrefNotice(l, p) ==
    LET a == h.land[l].act[p]
    IN  /\ a.pc = "notice"
        /\ h' = Popped(SNetWrite(h, l, p, Detref(a.leave, Head(a.pend))), l, p)
        /\ UNCHANGED <<case, g, left>>

(* SNetNodeCollector, for a record without a detref of this collector      *)
(* while others are awaited: a detref of its own behind the last one seen. *)
CollectorQueue(l) ==
    LET a == h.land[l].act[1]
        x == FreshDet(h)
        H == [h EXCEPT !.det[x] = [live |-> TRUE, seqnr |-> a.seqnr, leave |-> l,
                                   refcount |-> 0, recs |-> <<a.rec>>],
                       !.land[l].fifo = Append(@, x)]
    IN  /\ a.pc = "queue"
        /\ h' = Left(SNetDetLeaveDequeue(H, l), l, 1)
        /\ UNCHANGED <<case, g, left>>

(* SNetNodeDripBack: dripback1 counts the record it has queued; dripback2  *)
(* goes on with the next one.                                              *)
DripCount(l) ==
    /\ h.land[l].act[1].pc = "queued"
    /\ h' = Left(DripQueue(h, l), l, 1)
    /\ UNCHANGED <<case, g, left>>

DripLoop(l) ==
    LET Goes(N) == IF N.rec = <<>> THEN Left(DripEnd(N.heap, l), l, 1)
                   ELSE DripRec(N.heap, l, N.rec[1], TRUE)
    IN  /\ h.land[l].act[1].pc = "drip"
        /\ h' = Goes(DripNext(h, l))
        /\ UNCHANGED <<case, g, left>>

(* SNetWorkerWorkItem on a dissolved landing: the licences that stayed     *)
(* behind give up the descriptor.                                          *)
LicencesFollow(d) ==
    /\ h.desc[d].stale > 0
    /\ h' = Release([h EXCEPT !.desc[d].stale = 0], [i \in 1..h.desc[d].stale |-> d], <<>>)
    /\ UNCHANGED <<case, g, left>>

(* SNetWorkerInput: the next record of the input, or its end.              *)
SNetGetNextInputRecord ==
    /\ left # <<"closed">> /\ left # <<>>
    /\ h' = SNetWrite(h, 1, 1, Data(Head(left), 1 + Len(case.in) - Len(left), <<>>))
    /\ left' = Tail(left)
    /\ UNCHANGED <<case, g>>

SNetCloseInput ==
    /\ left = <<>>
    /\ h' = SNetDescDone([h EXCEPT !.land[1].o[1] = 0], h.land[1].o[1])
    /\ left' = <<"closed">>
    /\ UNCHANGED <<case, g>>

(* SNetThreadingStop: the workers have ended (FrontWorker: they end when   *)
(* none of them has work), and SNetNodeStop takes the network down.        *)
Quiet == /\ left = <<"closed">> /\ ~h.crashed
         /\ \A d \in DOMAIN h.desc : h.desc[d].fifo = <<>> /\ h.desc[d].stale = 0
         /\ \A l \in DOMAIN h.land : Busy(h.land[l]) = {}

Stop ==
    /\ Quiet /\ h.stopped = FALSE
    /\ h' = [Check(h, StopsEveryNodeOnce(g), "node stop") EXCEPT !.stopped = TRUE]
    /\ UNCHANGED <<case, g, left>>

Stopped == (h.stopped \/ h.crashed) /\ UNCHANGED vars

Init ==
    /\ case \in Nets
    /\ g = Network(case.net)
    /\ h = SNetStreamOpen(
             [desc |-> [d \in 1..MaxDesc |-> NoDesc],
              land |-> [l \in 1..MaxLand |->
                          IF l = 1 THEN [NewLand("input", 1) EXCEPT !.refs = 1] ELSE NoLand],
              det |-> [x \in 1..MaxDet |-> NoDet],
              outs |-> <<>>, bad |-> {}, terminated |-> FALSE, stopped |-> FALSE, new |-> 0,
              orphans |-> {}, crashed |-> FALSE], 1, 1)
    /\ left = case.in

Runs ==
    \/ \E d \in DOMAIN h.desc : Work(d) \/ BoxEnter(d) \/ LicencesFollow(d)
    \/ \E l \in DOMAIN h.land, p \in Ports :
          BoxFunction(l, p) \/ DetrefDecr(l, p) \/ DetrefZero(l, p) \/ DetrefNotice(l, p)
    \/ \E l \in DOMAIN h.land : CollectorQueue(l) \/ DripCount(l) \/ DripLoop(l)
    \/ SNetGetNextInputRecord \/ SNetCloseInput \/ Stop

Next == (~h.crashed /\ Runs) \/ Stopped

Spec == Init /\ [][Next]_vars

-----------------------------------------------------------------------------
(* Properties *)

(* None of the runtime's own checks fails: no assertion on the order of    *)
(* detrefs (xdet.c), no reference count below zero, no landing of the      *)
(* wrong type on the stack of futures (SNetPopLanding, xlanding.c), no     *)
(* record left in a descriptor that is freed (SNetDescRelease), no control *)
(* record at the output (SNetNodeOutput).                                  *)
NoCheckFails == h.bad = {}

(* What the initialisers and the input, taken one record at a time, give.  *)
Expected == [k \in DOMAIN case.first |-> <<case.first[k], 0>>]
            \o FlattenSeq([i \in DOMAIN case.in |->
                          [k \in DOMAIN case.out[i] |-> <<case.out[i][k], i>>]])

(* A deterministic network prints its results in the order of the input    *)
(* records they come from, however the branches are scheduled, and none    *)
(* twice.                                                                  *)
DetOrder == case.ordered => IsPrefix(h.outs, Expected)

(* A detref that is awaited counts, besides one for the dispatcher, every  *)
(* record that carries it and has not left the network: the records in     *)
(* descriptors and those of a landing at work (SNetRecDetrefCopy,          *)
(* SNetRecDetrefDestroy, SNetDetLeaveRec).  The one of a trigger record    *)
(* that a box has destroyed counts that record for ever (xbox.c:77): such  *)
(* a detref has the count 2 and is carried by nothing.                     *)
Carried(x) ==
    LET InFifo(d) == Quantify(DOMAIN h.desc[d].fifo,
                       LAMBDA i : h.desc[d].fifo[i].k = "data" /\ x \in Range(h.desc[d].fifo[i].det))
        InDet(y) == Quantify(DOMAIN h.det[y].recs, LAMBDA i : x \in Range(h.det[y].recs[i].det))
        Waits(l) == Quantify(DOMAIN h.land[l].recs, LAMBDA i :
                      h.land[l].recs[i].k = "data" /\ x \in Range(h.land[l].recs[i].det))
        Held(l) == Quantify(Ports, LAMBDA p :
                      LET a == h.land[l].act[p]
                      IN  IF a.pc \in {"idle", "drip", "queued"} THEN FALSE
                          ELSE IF a.pc \in {"fun", "queue"} THEN a.rec.k \in {"data", "trigger"} /\ x \in Range(a.rec.det)
                          ELSE x \in Range(IF a.pc = "decr" THEN a.pend ELSE Tail(a.pend)))
    IN  MapThenSumSet(InFifo, DOMAIN h.desc) + MapThenSumSet(InDet, DOMAIN h.det)
        + MapThenSumSet(Held, DOMAIN h.land) + MapThenSumSet(Waits, DOMAIN h.land)

DetrefsExact ==
    \A x \in DOMAIN h.det :
       /\ x \in h.orphans => h.det[x].refcount = 2 /\ Carried(x) = 0
       /\ h.det[x].live /\ h.det[x].refcount >= 2 /\ x \notin h.orphans
             => h.det[x].refcount = 1 + Carried(x)

Times(o, s) == Quantify(DOMAIN s, LAMBDA i : s[i] = o)

(* A dripback2 that no record entered the loop of: it gives up its own     *)
(* reference together with instdesc (xdripback.c:162), which it has not.   *)
NeverEntered(l) == h.land[l].type = "dripback2" /\ h.land[l].counter = 0 /\ h.land[l].o[1] = 0

(* Occurrences of o in detrefs that are not freed.                         *)
Waiting(o) == MapThenSumSet(LAMBDA x : Quantify(DOMAIN h.det[x].recs, LAMBDA i :
                              <<h.det[x].recs[i].v, h.det[x].recs[i].from>> = o), DOMAIN h.det)

(* When the input has ended and no record is left in a stream, what has    *)
(* been printed is what is expected, each as often; every descriptor,      *)
(* landing and detref has been freed, and the output has been told to end  *)
(* (SNetTermOutput).  Two things in the code keep it from this, and        *)
(* nothing else does.  A deterministic feedback whose loop no record       *)
(* entered keeps dripback2, and with it the stream behind and its landing: *)
(* the output is then not told to end.  And when a deterministic           *)
(* concurrent box has destroyed a trigger record, the record's detref is   *)
(* never freed, and the records that came behind it are not printed: they  *)
(* wait in it or in detrefs after it.                                      *)
AllCollected ==
    LET kept == {l \in DOMAIN h.land : NeverEntered(l)}
        outs == {h.land[l].o[2] : l \in kept} \ {0}
        live == {x \in DOMAIN h.det : h.det[x].live}
    IN  Quiet => /\ {d \in DOMAIN h.desc : h.desc[d].refs # 0} = outs
                 /\ {l \in DOMAIN h.land : h.land[l].type # "free"}
                       = {1} \cup kept \cup {h.desc[d].land : d \in outs}
                 /\ h.terminated <=> outs = {}
                 /\ live # {} => h.orphans # {}
                 /\ \A x \in live : x \in h.orphans \/ h.det[x].refcount = 0
                 /\ \A o \in Range(h.outs) \cup Range(Expected) :
                       Times(o, h.outs) + Waiting(o) = Times(o, Expected)
=============================================================================
