----------------------------- MODULE FrontGraph -----------------------------
(***************************************************************************)
(* The fixed network of the Front runtime (runtime/front): nodes connected *)
(* by streams, as the creation functions build it from a network           *)
(* expression, and its dismantling by SNetNodeStop.                        *)
(*                                                                         *)
(* A graph g has nodes 1..Len(g.node) and streams 1..Len(g.dest); g.level  *)
(* is snet_determinism_level and g.out the stream the last creation        *)
(* function returned.  Expressions are records with an "op" field:         *)
(*   box (fun, conc, det), filter (fun), nameshift (fun),                  *)
(*   sync (pats, merged), ser (subs), par (det, subs, match, init),        *)
(*   split (det, sub, tags),                                               *)
(*   star (det, sub, exit), feedback (det, sub, back).                     *)
(***************************************************************************)
EXTENDS Naturals, SequencesExt, FiniteSets

EmptyGraph == [node |-> <<>>, dest |-> <<>>, from |-> <<>>, level |-> 0, out |-> 0]

(* SNetStreamCreate, n times.                                              *)
Streams(g, n) ==
    [g EXCEPT !.dest = @ \o [i \in 1..n |-> 0], !.from = @ \o [i \in 1..n |-> 0],
              !.out = Len(g.dest) + n]

(* SNetNodeNew: the node becomes the destination of its input streams and  *)
(* the origin of its output streams.                                       *)
SNetNodeNew(g, node, ins, outs) ==
    LET n == Len(g.node) + 1
    IN  [g EXCEPT !.node = Append(@, node),
                  !.dest = [s \in DOMAIN @ |-> IF s \in ins THEN n ELSE @[s]],
                  !.from = [s \in DOMAIN @ |-> IF s \in outs THEN n ELSE @[s]]]

Created(type, in, outs, coll, e) ==
    [type |-> type, in |-> in, outs |-> outs, coll |-> coll, arg |-> e,
     det |-> FALSE, sup |-> FALSE, num |-> 1, internal |-> 0,
     inst |-> 0, self |-> <<>>, merged_type_sync |-> FALSE]

(* SNetCollectorStatic, and SNetCollectorDynamic for one stream.           *)
SNetCollector(g, ins, is_det) ==
    LET h == Streams(g, 1)
        node == [Created("collector", 0, <<h.out>>, 0, 0) EXCEPT
                   !.det = is_det, !.sup = g.level > 0, !.num = Cardinality(ins)]
    IN  SNetNodeNew(h, node, ins, {h.out})

SNetCollectorAddStream(g, n, s) == [g EXCEPT !.dest[s] = n, !.node[n].num = @ + 1]

(* SNetFilter (bypasses create nothing and are no expression), SNetSync.   *)
SNetFilter(g, e, s) ==
    LET h == Streams(g, 1)
    IN  SNetNodeNew(h, Created("filter", s, <<h.out>>, 0, e), {s}, {h.out})

SNetSync(g, e, s) ==
    LET h == Streams(g, 1)
        star == g.from[s] # 0 /\ g.node[g.from[s]].type = "star"
    IN  SNetNodeNew(h, [Created("sync", s, <<h.out>>, 0, e) EXCEPT !.merged_type_sync = star],
                    {s}, {h.out})

SNetNameShift(g, e, s) ==
    LET h == Streams(g, 1)
    IN  SNetNodeNew(h, Created("nameshift", s, <<h.out>>, 0, e), {s}, {h.out})

(* A box with concurrency gets one output stream per context, and a        *)
(* collector.                                                              *)
SNetBox(g, e, s) ==
    LET h == Streams(g, e.conc)
        outs == [i \in 1..e.conc |-> Len(g.dest) + i]
        b == SNetNodeNew(h, [Created("box", s, outs, 0, e) EXCEPT !.det = e.det], {s}, Range(outs))
    IN  IF e.conc > 1 THEN SNetCollector(b, Range(outs), e.det) ELSE b

-----------------------------------------------------------------------------
RECURSIVE Build(_, _, _), CreateBranches(_, _, _)

(* The branches i.. of a parallel composition: ins and outs collect their  *)
(* input and output streams.                                               *)
CreateBranches(g, e, ends) ==
    LET h == Streams(g, 1)
        b == Build(h, e.subs[Len(ends) + 1], h.out)
    IN  IF Len(ends) = Len(e.subs) THEN [graph |-> g, ends |-> ends]
        ELSE CreateBranches(b, e, Append(ends, <<h.out, b.out>>))

CreateParallel(g, e, s) ==
    LET B == CreateBranches(g, e, <<>>)
        ins == [i \in DOMAIN B.ends |-> B.ends[i][1]]
        h == Streams(B.graph, 1)
        n == [Created("parallel", s, ins, h.out, e) EXCEPT !.det = e.det, !.sup = g.level > 0]
    IN  SNetCollector(SNetNodeNew(h, n, {s}, Range(ins)),
                      {B.ends[i][2] : i \in DOMAIN B.ends} \cup {h.out}, e.det)

(* The stream to the collector, the collector, then the replica, whose     *)
(* output is added to the collector.                                       *)
CreateSplit(g, e, s) ==
    LET h == Streams(g, 1)
        node == [Created("split", s, <<h.out + 2>>, h.out, e) EXCEPT
                   !.det = e.det, !.sup = g.level > 0]
        c == SNetCollector(SNetNodeNew(h, node, {s}, {h.out}), {h.out}, e.det)
        i == [Streams(c, 1) EXCEPT !.from[c.out + 1] = Len(g.node) + 1]
        b == Build(i, e.sub, i.out)
    IN  [SNetCollectorAddStream(b, Len(g.node) + 2, b.out) EXCEPT !.out = c.out]

(* The star is the destination of its operand's output.                    *)
CreateStar(g, e, s) ==
    LET h == Streams(g, 1)
        n == Len(g.node) + 1
        node == [Created("star", s, <<h.out + 1>>, h.out, e) EXCEPT
                   !.det = e.det, !.sup = g.level > 0]
        a == [Streams(SNetNodeNew(h, node, {s}, {h.out}), 1) EXCEPT !.from[h.out + 1] = n]
        b == Build(a, e.sub, a.out)
        l == [b EXCEPT !.dest[b.out] = n, !.node[n].internal = b.out]
    IN  SNetCollector(l, {h.out}, e.det)

(* A loop: the operand between the node and itself, with n streams from    *)
(* the node to itself after it, and no determinism inside.                 *)
Loop(g, type, e, s, n) ==
    LET h == Streams(g, 1)
        x == Len(g.node) + 1
        a == [Streams(SNetNodeNew(h, Created(type, s, <<h.out>>, 0, e), {s}, {h.out}), 1)
                EXCEPT !.from[h.out + 1] = x, !.level = 0]
        b == Build(a, e.sub, a.out)
        c == Streams(b, n)
        self == [i \in 1..n |-> Len(b.dest) + i]
    IN  [c EXCEPT !.dest = [t \in DOMAIN @ |-> IF t \in Range(self) \cup {b.out} THEN x ELSE @[t]],
                  !.node[x].internal = b.out, !.node[x].inst = a.out, !.node[x].self = self,
                  !.level = g.level, !.out = h.out]

(* SNetFeedback, and SNetDripBack with the option for deterministic        *)
(* feedback.                                                               *)
CreateFeedback(g, e, s) == Loop(g, "feedback", e, s, 2)
CreateDripBack(g, e, s) == Loop(g, "dripback", e, s, 1)

(* The ...Det creation functions raise the determinism level meanwhile.    *)
AtLevel(g, e) == IF e.det THEN [g EXCEPT !.level = @ + 1] ELSE g

Build(g, e, s) ==
    CASE e.op = "box" -> SNetBox(g, e, s)
      [] e.op = "filter" -> SNetFilter(g, e, s)
      [] e.op = "nameshift" -> SNetNameShift(g, e, s)
      [] e.op = "sync" -> SNetSync(g, e, s)
      [] e.op = "ser" -> FoldLeft(LAMBDA h, x : Build(h, x, h.out), [g EXCEPT !.out = s], e.subs)
      [] e.op = "par" -> [CreateParallel(AtLevel(g, e), e, s) EXCEPT !.level = g.level]
      [] e.op = "split" -> [CreateSplit(AtLevel(g, e), e, s) EXCEPT !.level = g.level]
      [] e.op = "star" -> [CreateStar(AtLevel(g, e), e, s) EXCEPT !.level = g.level]
      [] e.op = "feedback" -> IF e.det THEN CreateDripBack(g, e, s) ELSE CreateFeedback(g, e, s)

(* SNetInInputInit and SNetInOutputInit around the network: node 1 is the  *)
(* input node, the last one the output node.                               *)
Network(e) ==
    LET i == Streams(EmptyGraph, 1)
        b == Build(SNetNodeNew(i, Created("input", 0, <<1>>, 0, 0), {}, {1}), e, 1)
    IN  SNetNodeNew(b, Created("output", b.out, <<>>, 0, 0), {b.out}, {})

-----------------------------------------------------------------------------
(* node->stop: the streams that the k-th visit of node x goes on to.  A    *)
(* node with several inputs is visited from each of them.                  *)
SNetStopFilter(x) == x.outs
SNetStopNameShift(x) == x.outs
SNetStopSync(x) == x.outs
SNetStopBox(x) == x.outs
SNetStopParallel(x) == Append(x.outs, x.coll)
SNetStopSplit(x) == Append(x.outs, x.coll)
SNetStopCollector(x, k) == IF k = x.num THEN x.outs ELSE <<>>
SNetStopStar(x, k) == IF k = 1 THEN x.outs ELSE IF k = 2 THEN <<x.coll>> ELSE <<>>
SNetStopFeedback(x, k) == IF k = 1 THEN <<x.inst>> ELSE IF k = 2 THEN x.outs ELSE <<>>
SNetStopDripBack(x, k) == IF k = 1 THEN <<x.inst>> ELSE IF k = 2 THEN x.outs ELSE <<>>

StopStreams(x, k) ==
    CASE x.type = "filter" -> SNetStopFilter(x)
      [] x.type = "nameshift" -> SNetStopNameShift(x)
      [] x.type = "sync" -> SNetStopSync(x)
      [] x.type = "box" -> SNetStopBox(x)
      [] x.type = "parallel" -> SNetStopParallel(x)
      [] x.type = "split" -> SNetStopSplit(x)
      [] x.type = "collector" -> SNetStopCollector(x, k)
      [] x.type = "star" -> SNetStopStar(x, k)
      [] x.type = "feedback" -> SNetStopFeedback(x, k)
      [] x.type = "dripback" -> SNetStopDripBack(x, k)
      [] x.type \in {"input", "output"} -> x.outs

RECURSIVE NodeStop(_, _, _)

NodeStop(g, fifo, v) ==
    IF fifo = <<>> THEN v
    ELSE LET n == Head(fifo)
             w == [v EXCEPT ![n] = @ + 1]
             next == StopStreams(g.node[n], w[n])
         IN  NodeStop(g, Tail(fifo) \o [i \in DOMAIN next |-> g.dest[next[i]]], w)

SNetNodeStop(g) == NodeStop(g, <<1>>, [n \in DOMAIN g.node |-> 0])

(* The visit in which a node is deleted.                                   *)
LastVisit(x) ==
    CASE x.type = "collector" -> x.num
      [] x.type \in {"star", "feedback", "dripback"} -> 2
      [] OTHER -> 1

(* Every node is deleted, with its last visit: no stop function runs on a  *)
(* node that is gone, and none is left over.                               *)
StopsEveryNodeOnce(g) ==
    LET v == SNetNodeStop(g) IN \A n \in DOMAIN g.node : v[n] = LastVisit(g.node[n])
=============================================================================
