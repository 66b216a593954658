------------------------------- MODULE Build -------------------------------
(***************************************************************************)
(* The construction of a network (the creation functions of the entities   *)
(* in runtime/stream/entity, SNetInRun in runtime/stream/netif/            *)
(* networkinterface.c, runtime/common/info.c) and its distribution over    *)
(* nodes (SNetRouteUpdate and the dynamic routes of distrib/common/        *)
(* distribcommon.c).                                                       *)
(*                                                                         *)
(* A network is a term: a leaf, or a combinator with its operands.  The    *)
(* creation functions run as one call tree; what they share through the    *)
(* info structure and the streams they return is the record b (Builder):   *)
(*   n, here   the node that builds, and the entities it has built          *)
(*   lv        the location vector                                         *)
(*   dest, ctr where the network is and the number of the next destination *)
(*   in        the stream the next component reads (NULL: not on this node)*)
(*   outs, ins the streams handed to the output and input manager          *)
(*   ok        no assertion failed and no NULL stream was opened           *)
(*   base,inst ghosts: the position the location vector starts from, and   *)
(*             the position of the innermost replica                       *)
(* A stream is named by its writer: kind, position and number.             *)
(***************************************************************************)
EXTENDS Integers, Sequences, SequencesExt, FiniteSets

CONSTANT NULL        \* the null pointer: a stream of another node

(***************************************************************************)
(* Location vectors (runtime/stream/utils/locvec.c): where in the network  *)
(* an entity is.  A vector is the sequence of the combinators around the   *)
(* entity, each with the number of the operand; -1 stands for the entities *)
(* of the combinator itself.  The functions that assert return the truth   *)
(* of the assertion beside the vector.                                     *)
(***************************************************************************)

SNetLocvecAppend(vec, type, num) == Append(vec, [type |-> type, num |-> num])
SNetLocvecPop(vec)     == Front(vec)
SNetLocvecToptype(vec) == IF vec = << >> THEN "undefined" ELSE Last(vec).type
SNetLocvecTopval(vec)  == Last(vec).num
SNetLocvecTopinc(vec)  == [vec EXCEPT ![Len(vec)].num = @ + 1]
SNetLocvecTopdec(vec)  == [vec EXCEPT ![Len(vec)].num = @ - 1]

(* Whether u and v name replicas of one star, and the assertion that u is  *)
(* the earlier one.  They are two vectors: the only caller (star.c:251)    *)
(* compares those of two stars, each of which has a copy of its own        *)
(* (star.c:403), so the test for one pointer (locvec.c:107) never holds.   *)
SNetLocvecEqualParent(u, v) ==
  LET same == Len(u) = Len(v) /\ Front(u) = Front(v) /\ Last(u).type = Last(v).type
  IN  [result |-> same, ok |-> same => Last(u).num < Last(v).num]

SNetLocvecSerialEnter(vec) ==
  IF SNetLocvecToptype(vec) # "serial" THEN SNetLocvecAppend(vec, "serial", 1) ELSE vec

AtNext(vec, type)  == [vec |-> SNetLocvecTopinc(vec), ok |-> SNetLocvecToptype(vec) = type]
AtLeave(vec, type) == [vec |-> SNetLocvecPop(vec), ok |-> SNetLocvecToptype(vec) = type]

SNetLocvecSerialNext(vec) == AtNext(vec, "serial")

\* enter: SNetLocvecSerialEnter appended
SNetLocvecSerialLeave(vec, enter) ==
  [AtLeave(vec, "serial") EXCEPT !.vec = IF enter THEN @ ELSE vec]

SNetLocvecParallelEnter(vec) == SNetLocvecAppend(vec, "parallel", -1)
SNetLocvecParallelNext(vec)  == AtNext(vec, "parallel")
SNetLocvecParallelLeave(vec) == AtLeave(vec, "parallel")
SNetLocvecParallelReset(vec) ==
  LET left == SNetLocvecParallelLeave(vec)
  IN  [left EXCEPT !.vec = SNetLocvecParallelEnter(@)]

SNetLocvecFeedbackEnter(vec) == SNetLocvecAppend(vec, "feedback", -1)
SNetLocvecFeedbackLeave(vec) == AtLeave(vec, "feedback")

SNetLocvecSplitEnter(vec) == SNetLocvecAppend(vec, "split", -1)
SNetLocvecSplitLeave(vec) == AtLeave(vec, "split")

SNetLocvecSplitSpawn(vec, i) ==
  [vec |-> SNetLocvecAppend(SNetLocvecPop(vec), "split", i),
   ok  |-> SNetLocvecToptype(vec) = "split"]

SNetLocvecStarWithin(vec) == SNetLocvecToptype(vec) = "star"

SNetLocvecStarEnter(vec) ==
  [vec |-> SNetLocvecAppend(vec, "star", -1), ok |-> ~SNetLocvecStarWithin(vec)]

SNetLocvecStarSpawn(vec)    == [vec |-> SNetLocvecTopinc(vec), ok |-> SNetLocvecStarWithin(vec)]
SNetLocvecStarSpawnRet(vec) == [vec |-> SNetLocvecTopdec(vec), ok |-> SNetLocvecStarWithin(vec)]

SNetLocvecStarLeave(vec) ==
  [vec |-> SNetLocvecPop(vec),
   ok  |-> SNetLocvecStarWithin(vec) /\ SNetLocvecTopval(vec) = -1]

-----------------------------------------------------------------------------
CONSTANTS Root,    \* the node that SNetInRun starts the network on
          AnyNode  \* stands for the only node of a build without distribution

Stream(kind, at, k) == [by |-> kind, at |-> at, k |-> k]
GlobalInput == Stream("input", << >>, 0)

NoDest == [node |-> Root, dest |-> 0, parent |-> 0, parentNode |-> Root,
           index |-> 0, loc |-> Root]

\* SNetInfoInit, SNetDistribInit, SNetLocvecCreate
Builder(n, base, dest, in) ==
  [n |-> n, here |-> {}, lv |-> << >>, dest |-> dest, ctr |-> 0, in |-> in,
   outs |-> {}, ins |-> << >>, ok |-> TRUE, base |-> base, inst |-> base]

SNetDistribIsNodeLocation(b, loc) == b.n \in {AnyNode, loc}

Position(b) == b.base \o b.lv
Checked(b, cond) == [b EXCEPT !.ok = @ /\ cond]
Moved(b, step) == [Checked(b, step.ok) EXCEPT !.lv = step.vec]

\* A component that worked on a copy of the info: the destination is the
\* caller's again, the vector and the counter are shared.
SNetInfoRestored(b, old) == [b EXCEPT !.dest = old.dest, !.inst = old.inst]

-----------------------------------------------------------------------------
(* Routing.  SNetDestCompare ignores the node and location of the parent.  *)
DestKey(d) == <<d.node, d.dest, d.parent, d.index>>

\* The stream that the input manager of node n writes for destination d.
FromManager(d, n) ==
  Stream("manager", [i \in 1..4 |-> [type |-> "dest", num |-> DestKey(d)[i]]], n)

\* dest is where the stream comes from, c.dest where it goes to.
NewOut(c) ==
  [Checked(c, c.in # NULL) EXCEPT
     !.outs = @ \cup {[dest |-> c.dest, s |-> c.in, inst |-> c.inst]}, !.in = NULL]
NewIn(c, dest) == [c EXCEPT !.ins = Append(@, [key |-> DestKey(dest), s |-> c.in])]
Routed(c, dest) ==
  IF dest.node = c.n THEN NewOut(c)
  ELSE IF c.dest.node # c.n THEN c
  ELSE NewIn([c EXCEPT !.in = IF @ = NULL THEN FromManager(dest, c.n) ELSE @], dest)

SNetRouteUpdate(b, loc) ==
  IF b.n = AnyNode \/ b.dest.node = loc THEN b
  ELSE Routed([Checked(b, b.ctr # NULL) EXCEPT
                 !.ctr = IF @ = NULL THEN NULL ELSE @ + 1,
                 !.dest = [@ EXCEPT !.dest = b.ctr, !.node = loc]],
              [b.dest EXCEPT !.dest = b.ctr])

\* Variant: the replica's index is left as it was.
DynamicEnterSameIndex(b, index, loc, id) ==
  LET e == [b EXCEPT !.ctr = 0, !.inst = Position(b)]
  IN  IF b.n = AnyNode THEN b
      ELSE IF id = NULL THEN [e EXCEPT !.inst = b.inst]
      ELSE [e EXCEPT !.dest.parent = id, !.dest.parentNode = b.n, !.dest.loc = loc]

\* id NULL: the caller does not name the operand
SNetRouteDynamicEnter(b, index, loc, id) ==
  LET e == [b EXCEPT !.dest.index = index, !.ctr = 0, !.inst = Position(b)]
  IN  IF b.n = AnyNode THEN b
      ELSE IF id = NULL THEN [e EXCEPT !.inst = b.inst]
      ELSE [e EXCEPT !.dest.parent = id, !.dest.parentNode = b.n, !.dest.loc = loc]

SNetRouteDynamicExit(b) == IF b.n = AnyNode THEN b ELSE [b EXCEPT !.ctr = NULL]

-----------------------------------------------------------------------------
(* Entities.  SNetEntityCreate copies the location vector; info is what a  *)
(* star or split keeps to create its operands.                             *)
SNetEntityCreate(b, kind, ins, net, loc, incarnate) ==
  [Checked(b, NULL \notin ins) EXCEPT !.here = @ \cup
    {[kind |-> kind, at |-> Position(b), lv |-> b.lv, ins |-> ins, net |-> net, loc |-> loc,
      incarnate |-> incarnate, dest |-> b.dest, base |-> b.base, inst |-> b.inst]}]

Spawned(b, kind, ins, k) ==
  [SNetEntityCreate(b, kind, ins, NULL, NULL, FALSE) EXCEPT !.in = Stream(kind, Position(b), k)]

\* A component that is one entity with one input and one output.
CreatedHere(r, kind, loc) ==
  IF SNetDistribIsNodeLocation(r, loc) THEN Spawned(r, kind, {r.in}, 0) ELSE r
Created(b, kind, loc) == CreatedHere(SNetRouteUpdate(b, loc), kind, loc)

SNetBox(b, loc)       == Created(b, "box", loc)
SNetSync(b, loc)      == Created(b, "sync", loc)
SNetNameShift(b, loc) == Created(b, "nameshift", loc)

\* A filter that changes nothing is not created.
CreateFilter(b, bypass, loc) ==
  IF bypass THEN SNetRouteUpdate(b, loc) ELSE Created(b, "filter", loc)

CollectorCreate(b, ins) == Spawned(b, "collect", ins, 0)

\* The dispatcher, and unless it is an incarnate a collector, after routing.
Dispatcher(r, kind, net, loc, incarnate) ==
  LET s == SNetEntityCreate(r, kind, {r.in}, net, loc, incarnate)
      out == Stream(kind, Position(r), 0)
  IN  IF ~SNetDistribIsNodeLocation(r, loc) THEN r
      ELSE IF incarnate THEN [s EXCEPT !.in = out] ELSE CollectorCreate(s, {out})

SplitEntered(b) == [b EXCEPT !.lv = SNetLocvecSplitEnter(@)]
SplitLeft(b) == Moved(b, SNetLocvecSplitLeave(b.lv))

CreateSplit(b, net, loc) ==
  SplitLeft(SNetInfoRestored(
      Dispatcher(SNetRouteUpdate(SplitEntered(b), loc), "split", net, loc, FALSE), b))

StarEntered(b) == Moved(b, SNetLocvecStarEnter(b.lv))
StarLeft(b) == Moved(b, SNetLocvecStarLeave(b.lv))

CreateStar(b, net, loc) ==
  StarLeft(Dispatcher(SNetRouteUpdate(StarEntered(b), loc), "star", net, loc, FALSE))
CreateIncarnate(b, net, loc) ==
  Dispatcher(SNetRouteUpdate(b, loc), "star", net, loc, TRUE)

RECURSIVE Construct(_, _, _), CreateParallel(_, _, _), SNetFeedback(_, _, _)

SerialEntered(b) == [b EXCEPT !.lv = SNetLocvecSerialEnter(@)]
SerialNext(b) == Moved(b, SNetLocvecSerialNext(b.lv))
SerialLeft(b, enter) == Moved(b, SNetLocvecSerialLeave(b.lv, enter))

SNetSerial(b, net, loc) ==
  SerialLeft(Construct(net.b, SerialNext(Construct(net.a, SerialEntered(b), loc)), loc),
             SerialEntered(b).lv # b.lv)

\* The branches are built one after the other, each on a copy of the info.
\* On other nodes the stream is passed from branch to branch.
ParallelEntered(b) == [b EXCEPT !.lv = SNetLocvecParallelEnter(@)]
ParallelNext(b) == Moved(b, SNetLocvecParallelNext(b.lv))
ParallelReset(b) == Moved(b, SNetLocvecParallelReset(b.lv))
ParallelLeft(b) == Moved(b, SNetLocvecParallelLeave(b.lv))

\* all: the builder after the branches, and the streams they return.
ParallelCreated(e, all, local) ==
  IF local
  THEN CollectorCreate(SNetEntityCreate(ParallelReset(all.b), "parallel", {e.in},
                                        NULL, NULL, FALSE), all.streams)
  ELSE all.b

ParallelOf(e, net, loc) ==
  LET local == SNetDistribIsNodeLocation(e, loc)
      Start(b, i) == IF local THEN [b EXCEPT !.in = Stream("parallel", Position(e), i)] ELSE b
      Collected(acc, done) ==
        [b |-> SNetInfoRestored(done, e), streams |-> acc.streams \cup {done.in}]
      Branch(acc, i) ==
        Collected(acc, SNetRouteUpdate(Construct(net.branches[i], Start(ParallelNext(acc.b), i),
                                                 loc), loc))
  IN  ParallelCreated(e, FoldLeft(Branch, [b |-> e, streams |-> {}],
                                  [i \in 1..Len(net.branches) |-> i]), local)

CreateParallel(b, net, loc) ==
  ParallelLeft(ParallelOf(SNetRouteUpdate(ParallelEntered(b), loc), net, loc))

FeedbackEntered(b) == [b EXCEPT !.lv = SNetLocvecFeedbackEnter(@)]
FeedbackLeft(b) == Moved(b, SNetLocvecFeedbackLeave(b.lv))

\* The buffer and the collector in front of the operand.
FeedbackBegin(e, loc) ==
  IF SNetDistribIsNodeLocation(e, loc)
  THEN Spawned(Spawned(e, "fbbuf", {Stream("fbdisp", Position(e), 1)}, 0),
               "fbcoll", {e.in, Stream("fbbuf", Position(e), 0)}, 0)
  ELSE e

SNetFeedback(b, net, loc) ==
  FeedbackLeft(CreatedHere(
      SNetRouteUpdate(Construct(net.a,
          FeedbackBegin(SNetRouteUpdate(FeedbackEntered(b), loc), loc), loc), loc),
      "fbdisp", loc))

\* The creation function of a network; an alias may name another location.
Construct(net, b, loc) ==
  CASE net.op = "box"       -> SNetBox(b, loc)
    [] net.op = "sync"      -> SNetSync(b, loc)
    [] net.op = "nameshift" -> SNetNameShift(b, loc)
    [] net.op = "filter"    -> CreateFilter(b, net.bypass, loc)
    [] net.op = "alias"    -> Construct(net.a, b, net.loc)
    [] net.op = "serial"   -> SNetSerial(b, net, loc)
    [] net.op = "parallel" -> CreateParallel(b, net, loc)
    [] net.op = "feedback" -> SNetFeedback(b, net, loc)
    [] net.op = "split"    -> CreateSplit(b, net, loc)
    [] net.op = "star"     -> CreateStar(b, net, loc)

\* The operands of the splits and stars of a network: generated code numbers
\* them for SNetNetToId and SNetIdToNet.
RECURSIVE Operands(_)
Operands(net) ==
  CASE net.op \in {"box", "sync", "nameshift", "filter"} -> {}
    [] net.op = "serial" -> Operands(net.a) \cup Operands(net.b)
    [] net.op = "parallel" -> UNION {Operands(net.branches[i]) : i \in DOMAIN net.branches}
    [] net.op \in {"alias", "feedback"} -> Operands(net.a)
    [] OTHER -> {net} \cup Operands(net.a)

-----------------------------------------------------------------------------
(* The steps that create parts of the network.  Each yields the part as a  *)
(* finished builder; reads adds streams that an existing collector reads.  *)
OutputInit(b) == Spawned(b, "output", {b.in}, 0)
SNetInRun(net, n) ==
  OutputInit(SNetRouteUpdate(Construct(net, Builder(n, << >>, NoDest, GlobalInput), Root), Root))

\* The info an entity keeps, on node n.
KeptInfo(e, n, in) ==
  [Builder(n, e.base, e.dest, in) EXCEPT !.lv = e.lv, !.inst = e.inst]

\* CreateOperandNetwork and SNetSerialStarchild: star e creates its operand
\* and its next incarnate.
StarReplica(b) == Moved(b, SNetLocvecStarSpawn(b.lv))
StarReplicaLeft(b) == Moved(b, SNetLocvecStarSpawnRet(b.lv))
StarReplicaEntered(b, e) ==
  SNetRouteDynamicEnter(b, SNetLocvecTopval(b.lv), e.loc, e.net.id)
StarReplicaBuilt(b) == Checked(SNetRouteDynamicExit(b), SNetLocvecStarWithin(b.lv))

\* star.c:251 on the incarnate's sync records: the parent is the star before.
ParentChecked(b, lv) ==
  LET parent == SNetLocvecEqualParent(lv, b.lv)
  IN  Checked(b, parent.ok /\ parent.result)

StarSpawn(e, n) ==
  StarReplicaLeft(ParentChecked(CreateIncarnate(
      StarReplicaBuilt(SNetRouteUpdate(Construct(e.net.a,
          StarReplicaEntered(StarReplica(KeptInfo(e, n, Stream("star", e.at, 1))), e),
          e.loc), e.loc)), e.net, e.loc), e.lv))

\* SplitBoxTask: split e creates the replica for tag value i.
SplitReplica(b, i) == Moved(b, SNetLocvecSplitSpawn(b.lv, i))

SplitSpawn(e, n, i) ==
  LET loc == IF e.net.byloc THEN i ELSE e.loc
  IN  SNetRouteDynamicExit(SNetRouteUpdate(Construct(e.net.a,
          SNetRouteDynamicEnter(SplitReplica(KeptInfo(e, n, Stream("split", e.at, i + 1)), i),
                                i, loc, e.net.id), loc), e.loc))

\* The first record for destination dest at node n: its replica is built
\* from the operand dest names.
SNetRouteNewDynamic(net, n, dest, inst) ==
  LET funs == {o \in Operands(net) : o.id = dest.parent}
      b == SNetRouteDynamicEnter(Builder(n, inst, dest, NULL), dest.index, dest.loc, NULL)
      fun == CHOOSE o \in funs : TRUE
  IN  IF funs = {} THEN Checked(b, FALSE)
      ELSE SNetRouteDynamicExit(SNetRouteUpdate(Construct(fun.a, b, dest.loc), dest.parentNode))

=============================================================================
