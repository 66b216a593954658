----------------------------- MODULE StreamNet -----------------------------
(***************************************************************************)
(* A running S-Net network of the stream runtime: any wiring of boxes,     *)
(* dispatchers, collectors, synchrocells, splits and stars between a       *)
(* source and a sink.  The constants of the component modules give the     *)
(* wiring.  Instances that a split or star creates on demand are part of   *)
(* the wiring from the start; an entity of an instance that does not exist *)
(* yet takes no step because nothing has been written to its streams.      *)
(***************************************************************************)
EXTENDS Box, Collector, Parallel, SyncCell, Split, Star, Feedback

CONSTANTS Nets,             \* the networks, one of which runs
          Links, Members,   \* Links[n] = its streams, Members[n] = its entities
          NetIn, NetOut,    \* the streams it was created between
          DetNets,          \* the networks that are deterministic throughout
          Inputs,           \* Inputs[n] = record sequences that may be fed in
          Expected(_, _, _) \* Expected(n, in, i) = number of results with
                            \* number i that input in asks for

(* The reading ends that a network starts with, and those of the streams   *)
(* that it may create later and announce in a record.                      *)
InitialEnds(n) ==
  LET here == Members[n]
      fbs  == {f \in Feedbacks : FbColl[f] \in here}
  IN  {<<"box", e, "in", BoxIn[e]>> : e \in Boxes \cap here}
        \cup {<<"par", e, "in", ParIn[e]>> : e \in Parallels \cap here}
        \cup {<<"sync", e, "in", SyncIn[e]>> : e \in Syncs \cap here}
        \cup {<<"split", e, "in", SplitIn[e]>> : e \in Splits \cap here}
        \cup {<<"star", e, "in", StarIn[e]>> : e \in Stars \cap here}
        \cup {<<"filter", e, "in", FilterIn[e]>> : e \in Filters \cap here}
        \cup (UNION {{<<"coll", c, d, d>> : d \in CollIns[c]} : c \in Collectors \cap here})
        \cup {<<"fbcoll", f, "in", FbIn[f]>> : f \in fbs} \cup {<<"fbdisp", f, "in", FromOp[f]>> : f \in fbs}
        \cup {<<"back", f, "in", BackOuts[f][1]>> : f \in fbs} \cup {<<"fbbuf", f, "in", BackIn[f]>> : f \in fbs}
        \cup {<<"sink", "output", "in", NetOut[n]>>}
        \cup (UNION {{<<"replica", x, k, RepOut[x][k]>> : k \in 1 .. Len(RepOut[x])} : x \in Splits \cap here})
        \cup {<<"instance", x, "in", StarChildOut[x]>> : x \in Stars \cap here}
        \cup (UNION {{<<"grown", f, k, BackOuts[f][k]>> : k \in 2 .. Len(BackOuts[f])} : f \in fbs})

(* The writing ends: <<kind, entity, place, stream>>.                      *)
OutEnd(kind, e, place, s) == <<kind, e, place, s>>
InitialOuts(n) ==
  LET here == Members[n]
      fbs  == {f \in Feedbacks : FbColl[f] \in here}
  IN  {OutEnd("box", e, "out", BoxOut[e]) : e \in Boxes \cap here}
        \cup {OutEnd("filter", e, "out", FilterOut[e]) : e \in Filters \cap here}
        \cup {OutEnd("sync", e, "out", SyncOut[e]) : e \in Syncs \cap here}
        \cup {OutEnd("coll", e, "out", CollOut[e]) : e \in Collectors \cap here}
        \cup (UNION {{OutEnd("par", e, i, ParOuts[e][i]) : i \in Branches(e)} : e \in Parallels \cap here})
        \cup {OutEnd("split", e, "out", SplitInitial[e]) : e \in Splits \cap here}
        \cup (UNION {{OutEnd("replica", e, k, RepIn[e][k]) : k \in 1 .. Len(RepOut[e])} : e \in Splits \cap here})
        \cup {OutEnd("star", e, "out", StarOut[e]) : e \in Stars \cap here}
        \cup {OutEnd("next", e, "out", StarNext[e]) : e \in Stars \cap here}
        \cup {OutEnd("fbcoll", FbColl[f], f, IntoOp[f]) : f \in fbs}
        \cup {OutEnd("fbdisp", FbDisp[f], f, FbOut[f]) : f \in fbs}
        \cup {OutEnd("fbback", FbDisp[f], f, BackIn[f]) : f \in fbs}
        \cup (UNION {{OutEnd("fbbuf", f, k, BackOuts[f][k]) : k \in 1 .. Len(BackOuts[f])} : f \in fbs})
        \cup {OutEnd("source", "input", "out", NetIn[n])}

(* The creation functions give every stream to one reader and one writer.  *)
ASSUME WiringAssumption ==
  \A n \in Nets :
    /\ NULL \notin Links[n]
    /\ \A a, b \in InitialEnds(n) : a[4] \in Links[n] /\ (a[4] = b[4] => a = b)
    /\ \A a, b \in InitialOuts(n) : a[4] \in Links[n] /\ (a[4] = b[4] => a = b)

(* Only entities of the network hand over streams, and the input ends with *)
(* its termination record.                                                 *)
ASSUME InputAssumption ==
  \A n \in Nets : \A in \in Inputs[n] :
    /\ in \in Seq(Range(in)) /\ \A r \in Range(in) : r.t \notin {"sync", "collect"}
    /\ \A i \in DOMAIN in : in[i].t = "term" => i = Len(in)

VARIABLES src,    \* the network, its input and how much of it is sent
          sink    \* the sink: the stream it reads, what it got, ended

vars == <<netVars, box, coll, par, sync, split, star, filter, fbVars, src, sink>>

output == "output"

Init ==
  \E n \in Nets :
    /\ LET ents == Members[n]
       IN  /\ NetInit(Links[n], ents)
           /\ BoxInit(ents) /\ CollInit(ents) /\ ParInit(ents) /\ SyncInit(ents)
           /\ SplitInit(ents) /\ StarInit(ents) /\ FilterInit(ents) /\ FeedbackInit(ents)
    /\ src \in [net : {n}, in : Inputs[n], pos : {0}]
    /\ sink = [in |-> NetOut[n], out |-> << >>, done |-> FALSE]

-----------------------------------------------------------------------------
(* An input: data records of the given types, numbered by their position,  *)
(* a sort record after the n-th for each n in bars, a termination record.  *)
(* With sort records the network is a branch of an enclosing combinator,   *)
(* without it is fed by the global input.                                  *)
Input(types, bars) ==
  FoldLeft(LAMBDA in, i : in \o <<Data(i, types[i])>>
                             \o (IF i \in bars THEN <<Sort(0, i)>> ELSE << >>),
           << >>, [i \in DOMAIN types |-> i]) \o <<Term>>

(* The type of the i-th data record of an input, if it has that many.      *)
InputTypes(in) == LET data == SelectSeq(in, LAMBDA r : r.t = "data")
                  IN  [i \in DOMAIN data |-> data[i].ty]

(* Feeds the next record of the input.                                     *)
GlobInputTask ==
  /\ src.pos < Len(src.in)
  /\ LET s == NetIn[src.net]
     IN  /\ Len(chan[s]) < Cap
         /\ chan' = [chan EXCEPT ![s] = Append(@, src.in[src.pos + 1])]
         /\ stat' = Touched(s)
  /\ src' = [src EXCEPT !.pos = @ + 1]
  /\ UNCHANGED todo

-----------------------------------------------------------------------------
(* GlobOutputTask *)
OutputReads(kinds) == ~sink.done /\ Reads(output, sink.in, kinds)

OutputRec == /\ OutputReads({"data", "sort", "collect", "trigger"})
             /\ Take(output, sink.in, << >>)
             /\ sink' = [sink EXCEPT !.out = Append(@, Top(sink.in))]

OutputSync == /\ OutputReads({"sync"})
              /\ Take(output, sink.in, <<Free(sink.in)>>)
              /\ sink' = [sink EXCEPT !.in = Top(sink.in).s]

OutputTerm == /\ OutputReads({"term"})
              /\ Take(output, sink.in, <<Free(sink.in)>>)
              /\ sink' = [sink EXCEPT !.done = TRUE]

GlobOutputTask == OutputRec \/ OutputSync \/ OutputTerm

-----------------------------------------------------------------------------
(* Everything has ended and every stream that was used is destroyed.       *)
Stopped == /\ sink.done
           /\ \A e \in Entity : todo[e] = << >>
           /\ \A s \in Stream : stat[s] # "used"

Idle == Stopped /\ UNCHANGED vars

(* The steps of each kind of entity.                                       *)
Flushes(e)  == Flush(e) /\ UNCHANGED <<box, coll, par, sync, split, star, filter, fbVars, src, sink>>
BoxStep(b) == /\ BoxTask(b)
              /\ UNCHANGED <<coll, par, sync, split, star, filter, fbVars, src, sink>>
CollStep(c) == /\ CollectorTask(c)
               /\ UNCHANGED <<box, par, sync, split, star, filter, fbVars, src, sink>>
ParStep(p) == /\ ParallelBoxTask(p)
              /\ UNCHANGED <<box, coll, sync, split, star, filter, fbVars, src, sink>>
SyncStep(x) == /\ SyncBoxTask(x)
               /\ UNCHANGED <<box, coll, par, split, star, filter, fbVars, src, sink>>
SplitStep(x) == /\ SplitBoxTask(x)
                /\ UNCHANGED <<box, coll, par, sync, star, filter, fbVars, src, sink>>
StarStep(x) == /\ StarBoxTask(x)
               /\ UNCHANGED <<box, coll, par, sync, split, filter, fbVars, src, sink>>
FilterStep(f) == /\ FilterTask(f)
                 /\ UNCHANGED <<box, coll, par, sync, split, star, fbVars, src, sink>>
FbCollStep(f) == /\ FeedbackCollTask(f)
                 /\ UNCHANGED <<box, coll, par, sync, split, star, filter, src, sink>>
FbDispStep(f) == /\ FeedbackDispTask(f)
                 /\ UNCHANGED <<box, coll, par, sync, split, star, filter, src, sink>>
FbBufStep(f) == /\ FeedbackBufTask(f)
                /\ UNCHANGED <<box, coll, par, sync, split, star, filter, src, sink>>
InputStep  == GlobInputTask /\ UNCHANGED <<box, coll, par, sync, split, star, filter, fbVars, sink>>
OutputStep == GlobOutputTask /\ UNCHANGED <<box, coll, par, sync, split, star, filter, fbVars, src>>

(* A step of any entity but a feedback buffer, and of any such buffer.     *)
Work == \/ \E e \in Entity : Flushes(e)
        \/ \E b \in DOMAIN box : BoxStep(b)
        \/ \E c \in DOMAIN coll : CollStep(c)
        \/ \E p \in DOMAIN par : ParStep(p)
        \/ \E x \in DOMAIN sync : SyncStep(x)
        \/ \E x \in DOMAIN split : SplitStep(x)
        \/ \E x \in DOMAIN star : StarStep(x)
        \/ \E f \in DOMAIN filter : FilterStep(f)
        \/ \E f \in DOMAIN fbcoll : FbCollStep(f) \/ FbDispStep(f)
        \/ InputStep
        \/ OutputStep

Buffering == \E f \in DOMAIN fbcoll : FbBufStep(f)

Next == Work \/ Buffering \/ Idle

Spec == Init /\ [][Next]_vars

(* Every entity is a thread that the operating system runs whenever it can *)
(* proceed.  What is needed of that is less: that some entity proceeds as  *)
(* long as one can.  A feedback buffer polls while its queue is not empty, *)
(* so the others must not starve on its account, nor it on theirs.         *)
Fairness == WF_vars(Work) /\ WF_vars(Buffering)

FairSpec == Spec /\ Fairness

-----------------------------------------------------------------------------
(* Properties *)

(* The capacity of a stream.                                               *)
Capacity(s) ==
  LET sizes == {BackCapacity(k) : k \in UNION {{j \in DOMAIN BackOuts[f] : BackOuts[f][j] = s} :
                                                  f \in DOMAIN fbbuf}}
  IN  Max(sizes \cup {Cap})

Kinds == {"data", "trigger", "sort", "sync", "collect", "term"}

(* Streams never hold more records than their capacity, entities only read *)
(* streams and keep well-formed local state: the types the C declarations  *)
(* give the variables of the tasks.                                        *)
TypeOK ==
  /\ \A s \in Stream : Len(chan[s]) <= Capacity(s) /\ \A i \in DOMAIN chan[s] : chan[s][i].t \in Kinds
  /\ stat \in [Stream -> {"fresh", "used", "freed"}]
  /\ \A e \in Entity : \A i \in DOMAIN todo[e] : todo[e][i].op \in {"write", "used", "freed"}
  /\ \A b \in DOMAIN box : box[b].in \in Stream /\ box[b].done \in BOOLEAN
  /\ \A c \in DOMAIN coll :
       /\ coll[c].ready \cup coll[c].waiting \subseteq Stream
       /\ coll[c].incount \in Nat
       /\ coll[c].cur \in Stream \cup {NULL}
  /\ \A p \in DOMAIN par : par[p].in \in Stream /\ par[p].live \subseteq Branches(p)
  /\ \A x \in DOMAIN sync : sync[x].in \in Stream
  /\ \A x \in DOMAIN split : split[x].in \in Stream /\ split[x].tab \in Seq(Int)
  /\ \A x \in DOMAIN star : star[x].in \in Stream
  /\ \A f \in DOMAIN filter : filter[f].in \in Stream
  /\ \A f \in DOMAIN fbcoll : /\ {fbcoll[f].in, fbcoll[f].back, fbdisp[f].in} \subseteq Stream
                             /\ fbbuf[f].out \in Range(BackOuts[f]) /\ fbbuf[f].made \in DOMAIN BackOuts[f]

(* The reading ends of streams: <<kind, holder, place, stream>>.           *)

(* Entities of a kind that read one stream until they end.                 *)
InEnds(kind, v) == {<<kind, e, "in", v[e].in>> : e \in {x \in DOMAIN v : ~v[x].done}}

CollEnds == UNION {{<<"coll", c, d, coll[c].at[d]>> : d \in coll[c].ready \cup coll[c].waiting} :
                     c \in {e \in DOMAIN coll : ~coll[e].done}}
OpeningEnds == {<<"opening", c, "in", coll[c].opening>> : c \in {e \in DOMAIN coll : coll[e].opening # NULL}}
BackEnds == {<<"back", f, "in", fbcoll[f].back>> : f \in {e \in DOMAIN fbcoll : ~fbcoll[e].done}}
BufEnds  == {<<"fbbuf", f, "in", BackIn[f]>> : f \in {e \in DOMAIN fbbuf : ~fbbuf[e].done}}
SinkEnds == {<<"sink", output, "in", sink.in>> : o \in {e \in {output} : ~sink.done}}

Reading == InEnds("box", box) \cup InEnds("par", par) \cup InEnds("sync", sync)
             \cup InEnds("split", split) \cup InEnds("star", star) \cup InEnds("filter", filter)
             \cup InEnds("fbcoll", fbcoll) \cup InEnds("fbdisp", fbdisp)
             \cup CollEnds \cup OpeningEnds \cup BackEnds \cup BufEnds \cup SinkEnds

IsHandover(r) == r.t \in {"sync", "collect"}

(* The sync and collect records, on their way or about to be written, each *)
(* with the stream that it passes on to another reader.                    *)
ChanEnds == UNION {{<<"chan", s, i, chan[s][i].s>> : i \in {k \in DOMAIN chan[s] : IsHandover(chan[s][k])}} :
                     s \in Stream}
QueueEnds == UNION {{<<"queue", f, i, fbbuf[f].q[i].s>> :
                       i \in {k \in DOMAIN fbbuf[f].q : IsHandover(fbbuf[f].q[k])}} : f \in DOMAIN fbbuf}
IsPass(o) == o.op = "write" /\ IsHandover(o.rec)
PassEnds == UNION {{<<"todo", e, i, todo[e][i].rec.s>> : i \in {k \in DOMAIN todo[e] : IsPass(todo[e][k])}} :
                     e \in Entity}

Handover == ChanEnds \cup QueueEnds \cup PassEnds

(* A stream has one consumer: s->consumer is a single descriptor and       *)
(* SNetStreamRead takes no account of a second.  The garbage collection    *)
(* (syncro.c, star.c, parallel.c, collector.c) passes instreams on in sync *)
(* records; at no time are there two readers of one stream, or a reader    *)
(* and a record that will make another one.                                *)
OneReader == \A a, b \in Reading \cup Handover : a[4] = b[4] => a = b

(* SNetStreamClose(sd, true) and SNetStreamReplace free the stream: nobody *)
(* reads it then or is handed it, and no entity has a second destruction   *)
(* of it still to do; it is empty, and nobody has a write to it to do.     *)
Destroyed == {s \in Stream : stat[s] = "freed"}
NoReadAfterFree ==
  /\ \A a \in Reading \cup Handover : a[4] \notin Destroyed
  /\ \A e \in Entity : \A i \in DOMAIN todo[e] : todo[e][i].op = "freed" => todo[e][i].s \notin Destroyed
NoWriteAfterFree ==
  /\ \A s \in Destroyed : chan[s] = << >>
  /\ \A e \in Entity : \A i \in DOMAIN todo[e] : todo[e][i].op # "freed" => todo[e][i].s \notin Destroyed
NoUseAfterFree == NoReadAfterFree /\ NoWriteAfterFree

(* GetRecord and the end conditions of CollectorTask rely on incount being *)
(* the number of open streams, and collector.c:109 asserts that a record   *)
(* is only waited for while the ready set is not empty.                    *)
CollectorAccounting ==
  \A c \in DOMAIN coll : ~coll[c].done =>
    /\ coll[c].incount = Cardinality(coll[c].ready) + Cardinality(coll[c].waiting)
    /\ coll[c].ready # {}
    /\ coll[c].waiting # {} => coll[c].sort # << >>

(* The sort records that a collector gathers in one round carry the same   *)
(* level and counter (the check of ProcessSortRecord, collector.c:142).    *)
SortRecordsMatch == \A c \in DOMAIN coll : ~coll[c].mismatch

(* A deterministic network delivers the results in the order of the        *)
(* records they were computed from.                                        *)
DetOrder ==
  src.net \in DetNets => \A i, j \in DOMAIN sink.out :
    (i < j /\ sink.out[i].t = "data" /\ sink.out[j].t = "data")
       => sink.out[i].id <= sink.out[j].id

(* A sort record of an enclosing combinator stays a barrier inside the     *)
(* network: every result comes out on the side of it on which its record   *)
(* went in, and the sort records come out once each, in order, and all of  *)
(* them by the time the network has ended.                                 *)
BarrierOrder ==
  /\ \A i, j \in DOMAIN sink.out :
    /\ (sink.out[i].t = "data" /\ sink.out[j].t = "sort")
          => (sink.out[i].id <= sink.out[j].num <=> i < j)
    /\ (i < j /\ sink.out[i].t = "sort" /\ sink.out[j].t = "sort")
          => sink.out[i].num < sink.out[j].num
  /\ sink.done => \A r \in Range(src.in) : r.t = "sort" => r \in Range(sink.out)

(* No record is lost, duplicated or invented on the way: when the sink has *)
(* got the termination record, it has for each input exactly the results   *)
(* that input asks for, whatever the routing, growth and garbage           *)
(* collection did meanwhile.                                               *)
Complete ==
  sink.done => \A i \in 0 .. Len(src.in) :
    Cardinality({k \in DOMAIN sink.out : sink.out[k].t = "data" /\ sink.out[k].id = i})
      = Expected(src.net, src.in, i)

(* A branch that has been removed (parallel.c:15, "the termination record  *)
(* removes the initialiser from the network") is not written to again.     *)
NoWriteToRemovedBranch == \A p \in DOMAIN par : ~par[p].bad

(* assert(!sync_cleanup), star.c:158: no record reaches the exit of a      *)
(* dispatcher whose operand network has dissolved.                         *)
NoExitAfterCleanup == \A x \in DOMAIN star : ~star[x].broken

(* The assertion feedback.c:427 and the comment of feedback.c:420 ("only   *)
(* in empty mode!"): a termination record reaches the feedback buffer only *)
(* when its queue is empty and it looks for one, because the collector     *)
(* forwards it only after the loop has run dry.                            *)
TerminateFindsEmptyBuffer == \A f \in DOMAIN fbbuf : ~fbbuf[f].late

(* After a termination record at the input, the whole network winds down:  *)
(* every entity ends, every stream is destroyed and nothing is left over.  *)
Termination == <>Stopped
=============================================================================
