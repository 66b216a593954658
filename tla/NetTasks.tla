----------------------------- MODULE NetTasks -------------------------------
(***************************************************************************)
(* Every step of a box, filter, synchrocell, split, star, parallel         *)
(* dispatcher and feedback keeps the invariant of module NetEnds.          *)
(***************************************************************************)
EXTENDS NetEnds

(* Boxes.                                                                  *)
LEMMA BoxHeld ==
  ASSUME UNCHANGED <<coll, par, sync, split, star, filter, fbVars, src, sink>>, NEW b \in DOMAIN box, Edited(box, box', b)
  PROVE  /\ Held' \subseteq (Held \ {In("box", b, box[b].in)}) \cup {In("box", b, box'[b].in)}
         /\ box'[b].done => Held' \subseteq Held \ {In("box", b, box[b].in)}
<1>1. InEnds("box", box)' = InEnds("box", box')
  BY DEF InEnds
<1>2. /\ InEnds("box", box') \subseteq (InEnds("box", box) \ {In("box", b, box[b].in)}) \cup {In("box", b, box'[b].in)}
      /\ box'[b].done => InEnds("box", box') \subseteq InEnds("box", box) \ {In("box", b, box[b].in)}
  BY InStep
<1>3. In("box", b, box[b].in)[1] = "box"
  BY InFacts
<1> QED BY <1>1, <1>2, <1>3, PartsSame, PartKinds DEF Held, Reading, fbVars

(* Every step of a box keeps the invariant.                                *)
LEMMA BoxInv ==
  ASSUME IInv, NEW b \in DOMAIN box, BoxStep(b)
  PROVE  IInv'
<1> DEFINE s == box[b].in
           own == In("box", b, s)
           rest == UNCHANGED <<coll, par, sync, split, star, filter, fbVars, src, sink>>
<1>1. NetShape /\ EndsInv /\ BoxShape /\ rest /\ own[4] = s /\ own[1] = "box"
  BY InFacts DEF IInv, Shape, BoxStep
<1>2. ASSUME Kept, BoxShape' PROVE IInv'
  <2>1. CollShape' /\ CollInv' /\ CollectorAccounting'
    BY <1>1, <1>2, CollSame DEF IInv, Shape
  <2>2. FilterShape' /\ SyncShape' /\ SplitShape' /\ StarShape' /\ ParShape' /\ FeedbackShape' /\ TaskShape'
    BY <1>1, ShapesSame DEF IInv, Shape
  <2> QED BY <1>2, <2>1, <2>2 DEF IInv, Shape, Kept
<1>3. ASSUME ~box[b].done PROVE own \in Held
  BY <1>3, InOwn DEF Held, Reading
<1>4. ASSUME UNCHANGED box PROVE BoxShape' /\ Held' \subseteq Held
  BY <1>1, <1>4, ShapesSame, HeldSame
<1>5. ASSUME Edited(box, box', b), IsRec(box'[b], {"in", "done"})
      PROVE  /\ BoxShape' /\ Held' \subseteq (Held \ {own}) \cup {In("box", b, box'[b].in)}
             /\ box'[b].done => Held' \subseteq Held \ {own}
  <2>1. BoxShape'
    BY <1>1, <1>5 DEF BoxShape, Edited
  <2> QED BY <1>1, <1>5, <2>1, BoxHeld
<1>6. IsFun(box) /\ IsRec(box[b], {"in", "done"})
  BY <1>1 DEF BoxShape
<1> HIDE DEF own
<1>7. CASE BoxData(b)
  <2> DEFINE r == Top(s)
             res == IF r.t = "data" THEN Data(r.id, BoxFun(b, r.ty)) ELSE Data(0, {})
             ops == [i \in 1 .. Emits(b, res.id) |-> Write(BoxOut[b], res)]
  <2>1. ~box[b].done /\ todo[b] = << >> /\ chan[s] # << >> /\ Emits(b, res.id) \in Nat /\ Take(b, s, ops) /\ UNCHANGED box
    BY <1>7 DEF BoxData, BoxReads, Reads
  <2>2. ~IsHandover(res)
    BY OpEnds
  <2>3. Carry(ops, {})
    <3> HIDE DEF res
    <3>1. IsSeq(ops)
      BY <2>1, ListSeq
    <3> QED BY <2>2, <3>1, OpEnds, CarryNone
  <2> HIDE DEF ops
  <2>4. Kept
    BY <1>1, <1>3, <1>4, <2>1, <2>3, InPass
  <2> QED BY <1>2, <1>4, <2>1, <2>4
<1>8. CASE BoxSync(b)
  <2>1. ~box[b].done /\ todo[b] = << >> /\ chan[s] # << >> /\ IsHandover(Top(s)) /\ Take(b, s, <<Free(s)>>) /\ box' = [box EXCEPT ![b].in = Top(s).s]
    BY <1>8 DEF BoxSync, BoxReads, Reads, IsHandover
  <2>2. Carry(<<Free(s)>>, {s})
    BY CarryOne, OpEnds
  <2>3. Edited(box, box', b) /\ IsRec(box'[b], {"in", "done"}) /\ box'[b].in = Top(s).s
    BY <1>6, <2>1 DEF Edited, IsRec, IsFun
  <2>4. Kept
    <3>1. In("box", b, Top(s).s)[1] = own[1] /\ In("box", b, Top(s).s)[4] = Top(s).s
      BY <1>1, InFacts
    <3>2. Held' \subseteq (Held \ {own}) \cup {In("box", b, Top(s).s)}
      BY <1>5, <2>3
    <3> QED BY <1>1, <1>3, <2>1, <2>2, <3>1, <3>2, InReplace
  <2> QED BY <1>2, <1>5, <2>3, <2>4
<1>9. CASE BoxSort(b)
  <2>1. ~box[b].done /\ todo[b] = << >> /\ chan[s] # << >> /\ ~IsHandover(Top(s)) /\ Take(b, s, <<Write(BoxOut[b], Top(s))>>) /\ UNCHANGED box
    BY <1>9 DEF BoxSort, BoxReads, Reads, IsHandover
  <2>2. Carry(<<Write(BoxOut[b], Top(s))>>, {})
    BY <2>1, CarryOne, OpEnds
  <2>3. Kept
    BY <1>1, <1>3, <1>4, <2>1, <2>2, InPass
  <2> QED BY <1>2, <1>4, <2>1, <2>3
<1>10. CASE BoxTerm(b)
  <2>1. ~box[b].done /\ todo[b] = << >> /\ chan[s] # << >> /\ Take(b, s, <<Write(BoxOut[b], Term), Free(s)>>) /\ box' = [box EXCEPT ![b].done = TRUE]
    BY <1>10 DEF BoxTerm, BoxReads, Reads
  <2>2. Carry(<<Write(BoxOut[b], Term), Free(s)>>, {s})
    BY OpEnds, CarryTwo
  <2>3. Edited(box, box', b) /\ IsRec(box'[b], {"in", "done"}) /\ box'[b].done
    BY <1>6, <2>1 DEF Edited, IsRec, IsFun
  <2>4. Kept
    BY <1>1, <1>3, <1>5, <2>1, <2>2, <2>3, InQuit
  <2> QED BY <1>2, <1>5, <2>3, <2>4
<1> QED BY <1>7, <1>8, <1>9, <1>10 DEF BoxStep, BoxTask

(* Filters and nameshifts.                                                 *)
LEMMA FilterHeld ==
  ASSUME UNCHANGED <<box, coll, par, sync, split, star, fbVars, src, sink>>, NEW f \in DOMAIN filter, Edited(filter, filter', f)
  PROVE  /\ Held' \subseteq (Held \ {In("filter", f, filter[f].in)}) \cup {In("filter", f, filter'[f].in)}
         /\ filter'[f].done => Held' \subseteq Held \ {In("filter", f, filter[f].in)}
<1>1. InEnds("filter", filter)' = InEnds("filter", filter')
  BY DEF InEnds
<1>2. /\ InEnds("filter", filter') \subseteq (InEnds("filter", filter) \ {In("filter", f, filter[f].in)}) \cup {In("filter", f, filter'[f].in)}
      /\ filter'[f].done => InEnds("filter", filter') \subseteq InEnds("filter", filter) \ {In("filter", f, filter[f].in)}
  BY InStep
<1>3. In("filter", f, filter[f].in)[1] = "filter"
  BY InFacts
<1> QED BY <1>1, <1>2, <1>3, PartsSame, PartKinds DEF Held, Reading, fbVars

(* Every step of a filter keeps the invariant.                             *)
LEMMA FilterInv ==
  ASSUME IInv, NEW f \in DOMAIN filter, FilterStep(f)
  PROVE  IInv'
<1> DEFINE s == filter[f].in
           own == In("filter", f, s)
           rest == UNCHANGED <<box, coll, par, sync, split, star, fbVars, src, sink>>
<1>1. NetShape /\ EndsInv /\ FilterShape /\ rest /\ own[4] = s /\ own[1] = "filter"
  BY InFacts DEF IInv, Shape, FilterStep
<1>2. ASSUME Kept, FilterShape' PROVE IInv'
  <2>1. CollShape' /\ CollInv' /\ CollectorAccounting'
    BY <1>1, <1>2, CollSame DEF IInv, Shape
  <2>2. BoxShape' /\ SyncShape' /\ SplitShape' /\ StarShape' /\ ParShape' /\ FeedbackShape' /\ TaskShape'
    BY <1>1, ShapesSame DEF IInv, Shape
  <2> QED BY <1>2, <2>1, <2>2 DEF IInv, Shape, Kept
<1>3. ASSUME ~filter[f].done PROVE own \in Held
  BY <1>3, InOwn DEF Held, Reading
<1>4. ASSUME UNCHANGED filter PROVE FilterShape' /\ Held' \subseteq Held
  BY <1>1, <1>4, ShapesSame, HeldSame
<1>5. ASSUME Edited(filter, filter', f), IsRec(filter'[f], {"in", "done"})
      PROVE  /\ FilterShape' /\ Held' \subseteq (Held \ {own}) \cup {In("filter", f, filter'[f].in)}
             /\ filter'[f].done => Held' \subseteq Held \ {own}
  <2>1. FilterShape'
    BY <1>1, <1>5 DEF FilterShape, Edited
  <2> QED BY <1>1, <1>5, <2>1, FilterHeld
<1>6. IsFun(filter) /\ IsRec(filter[f], {"in", "done"})
  BY <1>1 DEF FilterShape
<1> HIDE DEF own
<1>7. CASE FilterData(f)
  <2>1. ~filter[f].done /\ todo[f] = << >> /\ chan[s] # << >> /\ UNCHANGED filter
    BY <1>7 DEF FilterData, FilterReads, Reads
  <2>2. PICK i \in DOMAIN Guards[f] : Take(f, s, FilterOuts(f, i, Top(s)))
    BY <1>7 DEF FilterData
  <2> DEFINE ops == FilterOuts(f, i, Top(s))
  <2>3. IsSeq(Instrs[f][i])
    BY <1>1, FilterAssumption DEF FilterShape, IsSeq
  <2>4. Carry(ops, {})
    <3>1. DOMAIN Instrs[f][i] = 1..Len(Instrs[f][i]) /\ Len(Instrs[f][i]) \in Nat
      BY <2>3, SeqFacts
    <3>2. DOMAIN ops = DOMAIN Instrs[f][i] /\ ops = [k \in DOMAIN Instrs[f][i] |-> ops[k]]
      BY DEF FilterOuts
    <3>3. IsSeq(ops)
      BY <3>1, <3>2, ListSeq
    <3>4. \A k \in DOMAIN ops : ~Bears(ops[k])
      BY <3>2, OpEnds DEF FilterOuts
    <3> QED BY <3>3, <3>4, CarryNone
  <2> HIDE DEF ops
  <2>5. Kept
    BY <1>1, <1>3, <1>4, <2>1, <2>2, <2>4, InPass DEF ops
  <2> QED BY <1>2, <1>4, <2>1, <2>5
<1>8. CASE NameshiftData(f)
  <2> DEFINE o == Write(FilterOut[f], Data(Top(s).id, {IF l \in InVariant[f] THEN l ELSE Shift(l) : l \in Top(s).ty}))
  <2>1. ~filter[f].done /\ todo[f] = << >> /\ chan[s] # << >> /\ UNCHANGED filter /\ Take(f, s, <<o>>)
    BY <1>8 DEF NameshiftData, FilterReads, Reads
  <2>2. ~Bears(o)
    BY OpEnds
  <2> HIDE DEF o
  <2>3. Carry(<<o>>, {})
    BY <2>2, CarryOne
  <2>4. Kept
    BY <1>1, <1>3, <1>4, <2>1, <2>3, InPass
  <2> QED BY <1>2, <1>4, <2>1, <2>4
<1>9. CASE FilterSync(f)
  <2>1. ~filter[f].done /\ todo[f] = << >> /\ chan[s] # << >> /\ IsHandover(Top(s)) /\ Take(f, s, <<Free(s)>>) /\ filter' = [filter EXCEPT ![f].in = Top(s).s]
    BY <1>9 DEF FilterSync, FilterReads, Reads, IsHandover
  <2>2. Carry(<<Free(s)>>, {s})
    BY CarryOne, OpEnds
  <2>3. Edited(filter, filter', f) /\ IsRec(filter'[f], {"in", "done"}) /\ filter'[f].in = Top(s).s
    BY <1>6, <2>1 DEF Edited, IsRec, IsFun
  <2>4. Kept
    <3>1. In("filter", f, Top(s).s)[1] = own[1] /\ In("filter", f, Top(s).s)[4] = Top(s).s
      BY <1>1, InFacts
    <3>2. Held' \subseteq (Held \ {own}) \cup {In("filter", f, Top(s).s)}
      BY <1>5, <2>3
    <3> QED BY <1>1, <1>3, <2>1, <2>2, <3>1, <3>2, InReplace
  <2> QED BY <1>2, <1>5, <2>3, <2>4
<1>10. CASE FilterSort(f)
  <2>1. ~filter[f].done /\ todo[f] = << >> /\ chan[s] # << >> /\ ~IsHandover(Top(s)) /\ Take(f, s, <<Write(FilterOut[f], Top(s))>>) /\ UNCHANGED filter
    BY <1>10 DEF FilterSort, FilterReads, Reads, IsHandover
  <2>2. Carry(<<Write(FilterOut[f], Top(s))>>, {})
    BY <2>1, CarryOne, OpEnds
  <2>3. Kept
    BY <1>1, <1>3, <1>4, <2>1, <2>2, InPass
  <2> QED BY <1>2, <1>4, <2>1, <2>3
<1>11. CASE FilterTerm(f)
  <2>1. ~filter[f].done /\ todo[f] = << >> /\ chan[s] # << >> /\ Take(f, s, <<Write(FilterOut[f], Term), Free(s)>>) /\ filter' = [filter EXCEPT ![f].done = TRUE]
    BY <1>11 DEF FilterTerm, FilterReads, Reads
  <2>2. Carry(<<Write(FilterOut[f], Term), Free(s)>>, {s})
    BY OpEnds, CarryTwo
  <2>3. Edited(filter, filter', f) /\ IsRec(filter'[f], {"in", "done"}) /\ filter'[f].done
    BY <1>6, <2>1 DEF Edited, IsRec, IsFun
  <2>4. Kept
    BY <1>1, <1>3, <1>5, <2>1, <2>2, <2>3, InQuit
  <2> QED BY <1>2, <1>5, <2>3, <2>4
<1> QED BY <1>7, <1>8, <1>9, <1>10, <1>11 DEF FilterStep, FilterTask

(* Synchrocells.                                                           *)
LEMMA SyncHeld ==
  ASSUME UNCHANGED <<box, coll, par, split, star, filter, fbVars, src, sink>>, NEW x \in DOMAIN sync, Edited(sync, sync', x)
  PROVE  /\ Held' \subseteq (Held \ {In("sync", x, sync[x].in)}) \cup {In("sync", x, sync'[x].in)}
         /\ sync'[x].done => Held' \subseteq Held \ {In("sync", x, sync[x].in)}
<1>1. InEnds("sync", sync)' = InEnds("sync", sync')
  BY DEF InEnds
<1>2. /\ InEnds("sync", sync') \subseteq (InEnds("sync", sync) \ {In("sync", x, sync[x].in)}) \cup {In("sync", x, sync'[x].in)}
      /\ sync'[x].done => InEnds("sync", sync') \subseteq InEnds("sync", sync) \ {In("sync", x, sync[x].in)}
  BY InStep
<1>3. In("sync", x, sync[x].in)[1] = "sync"
  BY InFacts
<1> QED BY <1>1, <1>2, <1>3, PartsSame, PartKinds DEF Held, Reading, fbVars

(* Every step of a synchrocell keeps the invariant.                        *)
LEMMA SyncInv ==
  ASSUME IInv, NEW x \in DOMAIN sync, SyncStep(x)
  PROVE  IInv'
<1> DEFINE s == sync[x].in
           own == In("sync", x, s)
           rest == UNCHANGED <<box, coll, par, split, star, filter, fbVars, src, sink>>
<1>1. NetShape /\ EndsInv /\ SyncShape /\ rest /\ own[4] = s /\ own[1] = "sync"
  BY InFacts DEF IInv, Shape, SyncStep
<1>2. ASSUME Kept, SyncShape' PROVE IInv'
  <2>1. CollShape' /\ CollInv' /\ CollectorAccounting'
    BY <1>1, <1>2, CollSame DEF IInv, Shape
  <2>2. BoxShape' /\ FilterShape' /\ SplitShape' /\ StarShape' /\ ParShape' /\ FeedbackShape' /\ TaskShape'
    BY <1>1, ShapesSame DEF IInv, Shape
  <2> QED BY <1>2, <2>1, <2>2 DEF IInv, Shape, Kept
<1>3. ASSUME ~sync[x].done PROVE own \in Held
  BY <1>3, InOwn DEF Held, Reading
<1>4. ASSUME UNCHANGED sync PROVE SyncShape' /\ Held' \subseteq Held
  BY <1>1, <1>4, ShapesSame, HeldSame
<1>5. ASSUME Edited(sync, sync', x), IsRec(sync'[x], {"in", "storage", "done"})
      PROVE  /\ SyncShape' /\ Held' \subseteq (Held \ {own}) \cup {In("sync", x, sync'[x].in)}
             /\ sync'[x].done => Held' \subseteq Held \ {own}
  <2>1. SyncShape'
    BY <1>1, <1>5 DEF SyncShape, Edited
  <2> QED BY <1>1, <1>5, <2>1, SyncHeld
<1>6. IsFun(sync) /\ IsRec(sync[x], {"in", "storage", "done"})
  BY <1>1 DEF SyncShape
<1> HIDE DEF own
<1>7. CASE SyncPass(x)
  <2>1. ~sync[x].done /\ todo[x] = << >> /\ chan[s] # << >> /\ ~IsHandover(Top(s)) /\ Take(x, s, <<Write(SyncOut[x], Top(s))>>) /\ UNCHANGED sync
    BY <1>7 DEF SyncPass, SyncReads, Reads, IsHandover
  <2>2. Carry(<<Write(SyncOut[x], Top(s))>>, {})
    BY <2>1, CarryOne, OpEnds
  <2>3. Kept
    BY <1>1, <1>3, <1>4, <2>1, <2>2, InPass
  <2> QED BY <1>2, <1>4, <2>1, <2>3
<1>8. CASE SyncStore(x)
  <2>1. ~sync[x].done /\ todo[x] = << >> /\ chan[s] # << >> /\ Take(x, s, << >>) /\ \E a : sync' = [sync EXCEPT ![x].storage = a]
    BY <1>8 DEF SyncStore, SyncReads, Reads
  <2>2. Carry(<< >>, {})
    BY CarryOne
  <2>3. Edited(sync, sync', x) /\ IsRec(sync'[x], {"in", "storage", "done"}) /\ sync'[x].in = s
    BY <1>6, <2>1 DEF Edited, IsRec, IsFun
  <2>4. Held' \subseteq Held
    <3>1. own \in Held /\ Held' \subseteq (Held \ {own}) \cup {own}
      BY <1>3, <1>5, <2>1, <2>3 DEF own
    <3> QED BY <3>1
  <2>5. Kept
    BY <1>1, <1>3, <2>1, <2>2, <2>4, InPass
  <2> QED BY <1>2, <1>5, <2>3, <2>5
<1>9. CASE SyncFire(x)
  <2> DEFINE o == Write(SyncOut[x], Data(Top(s).id, Merged(x, Stored(x, Top(s).ty))))
             p == Write(SyncOut[x], Sync(s, IF s \in HasSource THEN UNION {Patterns[x][i] : i \in PatternSet(x)} ELSE NULL))
  <2>1. ~sync[x].done /\ todo[x] = << >> /\ chan[s] # << >> /\ Take(x, s, <<o, p>>)
    BY <1>9 DEF SyncFire, SyncReads, Reads
  <2>2. sync' = [sync EXCEPT ![x].storage = Stored(x, Top(s).ty), ![x].done = TRUE]
    BY <1>9 DEF SyncFire
  <2>3. ~Bears(o) /\ EndOf(p) = s
    BY OpEnds
  <2> HIDE DEF o, p
  <2>4. Carry(<<o, p>>, {s})
    BY <2>3, CarryTwo
  <2>5. Edited(sync, sync', x) /\ IsRec(sync'[x], {"in", "storage", "done"}) /\ sync'[x].done
    BY <1>6, <2>2 DEF Edited, IsRec, IsFun
  <2>6. Kept
    BY <1>1, <1>3, <1>5, <2>1, <2>4, <2>5, InQuit
  <2> QED BY <1>2, <1>5, <2>5, <2>6
<1>10. CASE SyncReplace(x)
  <2>1. ~sync[x].done /\ todo[x] = << >> /\ chan[s] # << >> /\ IsHandover(Top(s)) /\ Take(x, s, <<Free(s)>>) /\ sync' = [sync EXCEPT ![x].in = Top(s).s]
    BY <1>10 DEF SyncReplace, SyncReads, Reads, IsHandover
  <2>2. Carry(<<Free(s)>>, {s})
    BY CarryOne, OpEnds
  <2>3. Edited(sync, sync', x) /\ IsRec(sync'[x], {"in", "storage", "done"}) /\ sync'[x].in = Top(s).s
    BY <1>6, <2>1 DEF Edited, IsRec, IsFun
  <2>4. Kept
    <3>1. In("sync", x, Top(s).s)[1] = own[1] /\ In("sync", x, Top(s).s)[4] = Top(s).s
      BY <1>1, InFacts
    <3>2. Held' \subseteq (Held \ {own}) \cup {In("sync", x, Top(s).s)}
      BY <1>5, <2>3
    <3> QED BY <1>1, <1>3, <2>1, <2>2, <3>1, <3>2, InReplace
  <2> QED BY <1>2, <1>5, <2>3, <2>4
<1>11. CASE SyncSort(x)
  <2>1. ~sync[x].done /\ todo[x] = << >> /\ chan[s] # << >> /\ ~IsHandover(Top(s)) /\ Take(x, s, <<Write(SyncOut[x], Top(s))>>) /\ UNCHANGED sync
    BY <1>11 DEF SyncSort, SyncReads, Reads, IsHandover
  <2>2. Carry(<<Write(SyncOut[x], Top(s))>>, {})
    BY <2>1, CarryOne, OpEnds
  <2>3. Kept
    BY <1>1, <1>3, <1>4, <2>1, <2>2, InPass
  <2> QED BY <1>2, <1>4, <2>1, <2>3
<1>12. CASE SyncTerm(x)
  <2>1. ~sync[x].done /\ todo[x] = << >> /\ chan[s] # << >> /\ Take(x, s, <<Write(SyncOut[x], Term), Free(s)>>) /\ sync' = [sync EXCEPT ![x].done = TRUE]
    BY <1>12 DEF SyncTerm, SyncReads, Reads
  <2>2. Carry(<<Write(SyncOut[x], Term), Free(s)>>, {s})
    BY OpEnds, CarryTwo
  <2>3. Edited(sync, sync', x) /\ IsRec(sync'[x], {"in", "storage", "done"}) /\ sync'[x].done
    BY <1>6, <2>1 DEF Edited, IsRec, IsFun
  <2>4. Kept
    BY <1>1, <1>3, <1>5, <2>1, <2>2, <2>3, InQuit
  <2> QED BY <1>2, <1>5, <2>3, <2>4
<1> QED BY <1>7, <1>8, <1>9, <1>10, <1>11, <1>12 DEF SyncStep, SyncBoxTask

(* Splits.                                                                 *)
RepEnd(x, k) == <<"replica", x, k, RepOut[x][k]>>

(* A split creates the next replica, or none.                              *)
LEMMA ReplicaStep ==
  ASSUME SplitShape, NEW x \in DOMAIN split, Edited(split, split', x)
  PROVE  /\ split'[x].tab = split[x].tab => ReplicaEnds' \subseteq ReplicaEnds
         /\ \A v : split'[x].tab = Append(split[x].tab, v) /\ Len(split[x].tab) + 1 <= Len(RepOut[x]) =>
              /\ RepEnd(x, Len(split[x].tab) + 1) \in ReplicaEnds
              /\ ReplicaEnds' \subseteq ReplicaEnds \ {RepEnd(x, Len(split[x].tab) + 1)}
<1> DEFINE n == Len(split[x].tab)
           m == Len(RepOut[x])
<1>1. IsSeq(split[x].tab) /\ n \in Nat /\ m \in Nat
  <2>1. IsSeq(split[x].tab) /\ IsSeq(RepOut[x])
    BY SplitAssumption DEF SplitShape, IsSeq
  <2> QED BY <2>1, SeqFacts
<1>2. ASSUME NEW a \in ReplicaEnds'
      PROVE  \/ a \in ReplicaEnds /\ a[2] # x
             \/ \E k \in Len(split'[x].tab) + 1 .. m : a = RepEnd(x, k)
  <2>1. PICK y \in DOMAIN split' : \E k \in Len(split'[y].tab) + 1 .. Len(RepOut[y]) : a = <<"replica", y, k, RepOut[y][k]>>
    BY DEF ReplicaEnds
  <2>2. CASE y = x
    BY <2>1, <2>2 DEF RepEnd
  <2>3. CASE y # x
    <3>1. y \in DOMAIN split /\ split'[y] = split[y]
      BY <2>1, <2>3 DEF Edited
    <3> QED BY <2>1, <2>3, <3>1 DEF ReplicaEnds
  <2> QED BY <2>2, <2>3
<1>3. ASSUME NEW k \in n + 1 .. m PROVE RepEnd(x, k) \in ReplicaEnds
  BY DEF ReplicaEnds, RepEnd
<1>4. ASSUME split'[x].tab = split[x].tab PROVE ReplicaEnds' \subseteq ReplicaEnds
  BY <1>2, <1>3, <1>4
<1>5. ASSUME NEW v, split'[x].tab = Append(split[x].tab, v), n + 1 <= m
      PROVE  RepEnd(x, n + 1) \in ReplicaEnds /\ ReplicaEnds' \subseteq ReplicaEnds \ {RepEnd(x, n + 1)}
  <2>1. Len(split'[x].tab) = n + 1
    <3>1. IsSeq(split'[x].tab) /\ DOMAIN split'[x].tab = 1..(n + 1)
      BY <1>1, <1>5, AppendSeq
    <3>2. DOMAIN split'[x].tab = 1..Len(split'[x].tab) /\ Len(split'[x].tab) \in Nat
      BY <3>1, SeqFacts
    <3>3. \A i \in Nat, j \in Nat : 1..i = 1..j => i = j
      OBVIOUS
    <3> QED BY <1>1, <3>1, <3>2, <3>3
  <2> HIDE DEF n, m
  <2>2. n + 1 \in n + 1 .. m
    BY <1>1, <1>5
  <2>3. ASSUME NEW a \in ReplicaEnds' PROVE a \in ReplicaEnds \ {RepEnd(x, n + 1)}
    <3>1. CASE a \in ReplicaEnds /\ a[2] # x
      BY <3>1 DEF RepEnd
    <3>2. CASE \E k \in Len(split'[x].tab) + 1 .. m : a = RepEnd(x, k)
      <4>1. PICK k \in (n + 1) + 1 .. m : a = RepEnd(x, k)
        BY <2>1, <3>2
      <4>2. k \in n + 1 .. m /\ k # n + 1
        BY <1>1, <4>1
      <4> QED BY <1>3, <4>1, <4>2 DEF RepEnd
    <3> QED BY <1>2, <3>1, <3>2
  <2> QED BY <1>3, <2>2, <2>3
<1> QED BY <1>4, <1>5

(* What the entities hold after a step of a split.                         *)
LEMMA SplitHeld ==
  ASSUME UNCHANGED <<box, coll, par, sync, star, filter, fbVars, src, sink>>, NEW x \in DOMAIN split,
         Edited(split, split', x), NEW R, ReplicaEnds' \subseteq ReplicaEnds \ R, \A a \in R : a[1] = "replica"
  PROVE  /\ Held' \subseteq (Held \ ({In("split", x, split[x].in)} \cup R)) \cup {In("split", x, split'[x].in)}
         /\ split'[x].done => Held' \subseteq Held \ ({In("split", x, split[x].in)} \cup R)
<1>1. InEnds("split", split)' = InEnds("split", split')
  BY DEF InEnds
<1>2. /\ InEnds("split", split') \subseteq (InEnds("split", split) \ {In("split", x, split[x].in)}) \cup {In("split", x, split'[x].in)}
      /\ split'[x].done => InEnds("split", split') \subseteq InEnds("split", split) \ {In("split", x, split[x].in)}
  BY InStep
<1>3. In("split", x, split[x].in)[1] = "split"
  BY InFacts
<1> QED BY <1>1, <1>2, <1>3, PartsSame, PartKinds DEF Held, Reading, fbVars

(* Every step of a split keeps the invariant.                              *)
LEMMA SplitInv ==
  ASSUME IInv, NEW x \in DOMAIN split, SplitStep(x)
  PROVE  IInv'
<1> DEFINE s == split[x].in
           own == In("split", x, s)
           rest == UNCHANGED <<box, coll, par, sync, star, filter, fbVars, src, sink>>
<1>1. NetShape /\ EndsInv /\ SplitShape /\ rest /\ own[4] = s /\ own[1] = "split"
  BY InFacts DEF IInv, Shape, SplitStep
<1>2. ASSUME Kept, SplitShape' PROVE IInv'
  <2>1. CollShape' /\ CollInv' /\ CollectorAccounting'
    BY <1>1, <1>2, CollSame DEF IInv, Shape
  <2>2. BoxShape' /\ FilterShape' /\ SyncShape' /\ StarShape' /\ ParShape' /\ FeedbackShape' /\ TaskShape'
    BY <1>1, ShapesSame DEF IInv, Shape
  <2> QED BY <1>2, <2>1, <2>2 DEF IInv, Shape, Kept
<1>3. ASSUME ~split[x].done PROVE own \in Held
  BY <1>3, InOwn DEF Held, Reading
<1>4. ASSUME UNCHANGED split PROVE SplitShape' /\ Held' \subseteq Held
  BY <1>1, <1>4, ShapesSame, HeldSame
<1>5. ASSUME Edited(split, split', x), IsRec(split'[x], {"in", "tab", "rec", "i", "counter", "done"}), split'[x].tab = split[x].tab,
             split'[x].rec # << >> => Head(split'[x].rec).t = "data"
      PROVE  /\ SplitShape' /\ Held' \subseteq (Held \ {own}) \cup {In("split", x, split'[x].in)}
             /\ split'[x].done => Held' \subseteq Held \ {own}
  <2>1. SplitShape'
    BY <1>1, <1>5 DEF SplitShape, Edited
  <2> DEFINE R == {}
  <2>2. ReplicaEnds' \subseteq ReplicaEnds \ R
    BY <1>1, <1>5, ReplicaStep
  <2>3. (\A a \in R : a[1] = "replica") /\ {own} \cup R = {own}
    OBVIOUS
  <2> HIDE DEF R
  <2>4. /\ Held' \subseteq (Held \ ({own} \cup R)) \cup {In("split", x, split'[x].in)}
        /\ split'[x].done => Held' \subseteq Held \ ({own} \cup R)
    BY <1>1, <1>5, <2>2, <2>3, SplitHeld
  <2> QED BY <2>1, <2>3, <2>4
<1>6. /\ IsFun(split) /\ IsRec(split[x], {"in", "tab", "rec", "i", "counter", "done"})
      /\ IsSeq(split[x].tab) /\ (split[x].rec # << >> => Head(split[x].rec).t = "data")
  BY <1>1 DEF SplitShape
<1>7. ASSUME Edited(split, split', x), IsRec(split'[x], {"in", "tab", "rec", "i", "counter", "done"}), split'[x].tab = split[x].tab,
             split'[x].rec # << >> => Head(split'[x].rec).t = "data", split'[x].in = s, split'[x].done = split[x].done
      PROVE  SplitShape' /\ Held' \subseteq Held
  <2>1. CASE split[x].done
    BY <1>5, <1>7, <2>1
  <2>2. CASE ~split[x].done
    <3>1. own \in Held /\ SplitShape' /\ Held' \subseteq (Held \ {own}) \cup {own}
      BY <1>3, <1>5, <1>7, <2>2
    <3> QED BY <3>1
  <2> QED BY <2>1, <2>2
<1> HIDE DEF own
<1> DEFINE outs == Replicas(x, split[x].tab) \o <<SplitInitial[x]>>
<1>8. IsSeq(outs)
  <2>1. DOMAIN split[x].tab = 1..Len(split[x].tab) /\ Len(split[x].tab) \in Nat
    BY <1>6, SeqFacts
  <2>2. IsSeq(Replicas(x, split[x].tab))
    <3>1. Replicas(x, split[x].tab) = [k \in DOMAIN split[x].tab |-> Replicas(x, split[x].tab)[k]]
      BY DEF Replicas
    <3> QED BY <2>1, <3>1, ListSeq
  <2> QED BY <2>2, ConcatSeq, ShortSeq
<1> HIDE DEF outs
<1>9. CASE SplitData(x)
  <2>1. ~split[x].done /\ todo[x] = << >> /\ chan[s] # << >> /\ Top(s).t = "data" /\ Take(x, s, << >>)
    BY <1>9 DEF SplitData, SplitReads, Reads
  <2>2. split' = [split EXCEPT ![x].rec = <<Top(s)>>, ![x].i = LTag(x, Top(s).ty)]
    BY <1>9 DEF SplitData
  <2>3. /\ Edited(split, split', x) /\ IsRec(split'[x], {"in", "tab", "rec", "i", "counter", "done"}) /\ split'[x].tab = split[x].tab
        /\ split'[x].rec = <<Top(s)>> /\ split'[x].in = s /\ split'[x].done = split[x].done
    BY <1>6, <2>2 DEF Edited, IsRec, IsFun
  <2>4. Head(split'[x].rec).t = "data"
    BY <2>1, <2>3
  <2>5. SplitShape' /\ Held' \subseteq Held
    BY <1>7, <2>3, <2>4
  <2>6. Carry(<< >>, {})
    BY CarryOne
  <2>7. Kept
    BY <1>1, <1>3, <2>1, <2>5, <2>6, InPass
  <2> QED BY <1>2, <2>5, <2>7
<1>10. CASE SplitTag(x)
  <2> DEFINE tab == split[x].tab
             r   == Head(split[x].rec)
             k   == Len(tab) + 1
  <2>1. split[x].rec # << >> /\ todo[x] = << >> /\ UNCHANGED chan /\ ~IsHandover(r)
    BY <1>6, <1>10 DEF SplitTag, IsHandover
  <2>2. CASE Replica(tab, split[x].i) = {} /\ k <= Len(RepOut[x])
             /\ Proceed(x, <<Create(RepIn[x][k]), Write(SplitInitial[x], Collect(RepOut[x][k])), Write(RepIn[x][k], r)>>, stat)
             /\ split' = [split EXCEPT ![x].tab = Append(@, split[x].i), ![x].i = @ + 1]
    <3> DEFINE o == Create(RepIn[x][k])
               p == Write(SplitInitial[x], Collect(RepOut[x][k]))
               q == Write(RepIn[x][k], r)
               R == {RepEnd(x, k)}
    <3>1. Carry(<<o, p, q>>, {RepOut[x][k]})
      <4>1. ~Bears(o) /\ Bears(p) /\ EndOf(p) = RepOut[x][k] /\ ~Bears(q)
        BY <2>1, OpEnds
      <4> HIDE DEF o, p, q, k
      <4> QED BY <4>1, CarryThree
    <3>2. /\ Edited(split, split', x) /\ IsRec(split'[x], {"in", "tab", "rec", "i", "counter", "done"}) /\ split'[x].tab = Append(tab, split[x].i)
          /\ split'[x].rec = split[x].rec /\ split'[x].in = s /\ split'[x].done = split[x].done
      BY <1>6, <2>2 DEF Edited, IsRec, IsFun
    <3>3. SplitShape'
      <4>1. IsSeq(split'[x].tab)
        BY <1>6, <3>2, AppendSeq
      <4> QED BY <1>1, <1>6, <3>2, <4>1 DEF SplitShape, Edited
    <3>4. RepEnd(x, k) \in ReplicaEnds /\ ReplicaEnds' \subseteq ReplicaEnds \ R
      BY <1>1, <2>2, <3>2, ReplicaStep
    <3>5. RepEnd(x, k) \in Held /\ RepEnd(x, k)[4] = RepOut[x][k] /\ RepEnd(x, k)[1] = "replica"
      BY <3>4 DEF Held, RepEnd
    <3>6. Held' \subseteq Held \ {RepEnd(x, k)}
      <4>1. /\ Held' \subseteq (Held \ ({own} \cup R)) \cup {own}
            /\ split'[x].done => Held' \subseteq Held \ ({own} \cup R)
        <5>1. \A a \in R : a[1] = "replica"
          BY <3>5
        <5> HIDE DEF R, k
        <5> QED BY <1>1, <3>2, <3>4, <5>1, SplitHeld DEF own
      <4>2. own # RepEnd(x, k)
        BY <1>1, <3>5
      <4>3. CASE split[x].done
        BY <3>2, <4>1, <4>3
      <4>4. CASE ~split[x].done
        BY <1>3, <4>1, <4>2, <4>4
      <4> QED BY <4>3, <4>4
    <3> HIDE DEF o, p, q, k, R
    <3>7. Proceed(x, <<o, p, q>>, stat)
      BY <2>2 DEF o, p, q
    <3>8. Kept
      BY <1>1, <2>1, <3>1, <3>5, <3>6, <3>7, ActGive
    <3> QED BY <1>2, <3>3, <3>8
  <2>3. CASE \E v : /\ Proceed(x, <<Write(v, r)>>, stat)
                    /\ split' = [split EXCEPT ![x].i = @ + 1]
    <3>1. PICK v : Proceed(x, <<Write(v, r)>>, stat)
      BY <2>3
    <3>2. Carry(<<Write(v, r)>>, {})
      BY <2>1, CarryOne, OpEnds
    <3>3. /\ Edited(split, split', x) /\ IsRec(split'[x], {"in", "tab", "rec", "i", "counter", "done"}) /\ split'[x].tab = split[x].tab
          /\ split'[x].rec = split[x].rec /\ split'[x].in = s /\ split'[x].done = split[x].done
      BY <1>6, <2>3, ZenonT(60) DEF Edited, IsRec, IsFun
    <3>4. SplitShape' /\ Held' \subseteq Held
      BY <1>6, <1>7, <3>3
    <3>5. Kept
      BY <1>1, <2>1, <3>1, <3>2, <3>4, ActPass
    <3> QED BY <1>2, <3>4, <3>5
  <2> QED BY <1>10, <2>2, <2>3 DEF SplitTag
<1>11. CASE SplitSortEnd(x)
  <2> DEFINE ops == IF SplitDet[x] THEN WriteAll(outs, Sort(0, split[x].counter)) ELSE << >>
  <2>1. todo[x] = << >> /\ UNCHANGED chan /\ Proceed(x, ops, stat)
        /\ split' = [split EXCEPT ![x].rec = << >>, ![x].i = 0, ![x].counter = @ + 1]
    BY <1>11 DEF SplitSortEnd, outs
  <2>2. Carry(ops, {})
    BY <1>8, CarryAll, CarryOne, OpEnds
  <2>3. /\ Edited(split, split', x) /\ IsRec(split'[x], {"in", "tab", "rec", "i", "counter", "done"}) /\ split'[x].tab = split[x].tab
        /\ split'[x].rec = << >> /\ split'[x].in = s /\ split'[x].done = split[x].done
    BY <1>6, <2>1 DEF Edited, IsRec, IsFun
  <2>4. SplitShape' /\ Held' \subseteq Held
    BY <1>7, <2>3
  <2> HIDE DEF ops
  <2>5. Kept
    BY <1>1, <2>1, <2>2, <2>4, ActPass
  <2> QED BY <1>2, <2>4, <2>5
<1>12. CASE SplitSync(x)
  <2>1. ~split[x].done /\ split[x].rec = << >> /\ todo[x] = << >> /\ chan[s] # << >> /\ IsHandover(Top(s)) /\ Take(x, s, <<Free(s)>>) /\ split' = [split EXCEPT ![x].in = Top(s).s]
    BY <1>12 DEF SplitSync, SplitReads, Reads, IsHandover
  <2>2. Carry(<<Free(s)>>, {s})
    BY CarryOne, OpEnds
  <2>3. /\ Edited(split, split', x) /\ IsRec(split'[x], {"in", "tab", "rec", "i", "counter", "done"}) /\ split'[x].in = Top(s).s
        /\ split'[x].tab = split[x].tab /\ split'[x].rec = split[x].rec
    BY <1>6, <2>1 DEF Edited, IsRec, IsFun
  <2>4. SplitShape' /\ Held' \subseteq (Held \ {own}) \cup {In("split", x, Top(s).s)}
    BY <1>5, <1>6, <2>3
  <2>5. Kept
    <3>1. In("split", x, Top(s).s)[1] = own[1] /\ In("split", x, Top(s).s)[4] = Top(s).s
      BY <1>1, InFacts
    <3> QED BY <1>1, <1>3, <2>1, <2>2, <2>4, <3>1, InReplace
  <2> QED BY <1>2, <2>4, <2>5
<1>13. CASE SplitSort(x)
  <2>1. ~split[x].done /\ todo[x] = << >> /\ chan[s] # << >> /\ Take(x, s, WriteAll(outs, Raise(Top(s)))) /\ UNCHANGED split
    BY <1>13 DEF SplitSort, SplitReads, Reads, outs
  <2>2. Carry(WriteAll(outs, Raise(Top(s))), {})
    BY <1>8, CarryAll, OpEnds DEF Raise
  <2>3. Kept
    BY <1>1, <1>3, <1>4, <2>1, <2>2, InPass
  <2> QED BY <1>2, <1>4, <2>1, <2>3
<1>14. CASE SplitTerm(x)
  <2> DEFINE ops == Append(WriteAll(outs, Term), Free(s))
  <2>1. ~split[x].done /\ split[x].rec = << >> /\ todo[x] = << >> /\ chan[s] # << >> /\ Take(x, s, ops) /\ split' = [split EXCEPT ![x].done = TRUE]
    BY <1>14 DEF SplitTerm, SplitReads, Reads, outs
  <2>2. Carry(ops, {s})
    <3>1. Carry(WriteAll(outs, Term), {})
      BY <1>8, CarryAll, OpEnds
    <3> QED BY <3>1, CarryAppend, OpEnds
  <2>3. /\ Edited(split, split', x) /\ IsRec(split'[x], {"in", "tab", "rec", "i", "counter", "done"}) /\ split'[x].done
        /\ split'[x].tab = split[x].tab /\ split'[x].rec = split[x].rec
    BY <1>6, <2>1 DEF Edited, IsRec, IsFun
  <2>4. SplitShape' /\ Held' \subseteq Held \ {own}
    BY <1>5, <1>6, <2>3
  <2> HIDE DEF ops
  <2>5. Kept
    BY <1>1, <1>3, <2>1, <2>2, <2>4, InQuit
  <2> QED BY <1>2, <2>4, <2>5
<1> QED BY <1>9, <1>10, <1>11, <1>12, <1>13, <1>14 DEF SplitStep, SplitBoxTask

-----------------------------------------------------------------------------
(* Lists of operations of which one part bears nothing.                    *)
LEMMA CarryRight ==
  ASSUME NEW a, NEW b, NEW X, Carry(a, {}), Carry(b, X)
  PROVE  Carry(a \o b, X)
<1> DEFINE Z == {}
<1>1. Carry(a, Z) /\ Z \cap X = {} /\ Z \cup X = X
  OBVIOUS
<1> HIDE DEF Z
<1> QED BY <1>1, CarryConcat

(* See CarryRight.                                                         *)
LEMMA CarryLeft ==
  ASSUME NEW a, NEW b, NEW X, Carry(a, X), Carry(b, {})
  PROVE  Carry(a \o b, X)
<1> DEFINE Z == {}
<1>1. Carry(b, Z) /\ X \cap Z = {} /\ X \cup Z = X
  OBVIOUS
<1> HIDE DEF Z
<1> QED BY <1>1, CarryConcat

(* A reader announces a stream that it creates, and reads on.              *)
LEMMA InGive ==
  ASSUME NetShape, EndsInv, NEW own \in Held, NEW e, todo[e] = << >>, NEW s, own[4] = s, chan[s] # << >>,
         NEW other \in Held, NEW x, other[4] = x, NEW ops, Carry(ops, {x}), Take(e, s, ops), Held' \subseteq Held \ {other}
  PROVE  Kept
<1> DEFINE K == Held \ {other}
           N == {}
           X == {x}
<1>1. s \in Stream /\ K \subseteq Held
  BY ReadsStream
<1>2. Foreign(N) /\ Once(N) /\ GivenBy(N, (Held \ K) \cup TopEnds(s))
  BY DEF Foreign, Once, GivenBy
<1>3. Held' \subseteq K \cup N
  OBVIOUS
<1>4. X \subseteq {b[4] : b \in (Held \ K) \cup TopEnds(s)}
  OBVIOUS
<1>5. Carry(ops, X) /\ \A a \in N : a[4] \notin X
  OBVIOUS
<1> HIDE DEF K, N, X
<1> QED BY <1>1, <1>2, <1>3, <1>4, <1>5, TakeOnce

(* A reader announces a stream that it creates, passes on its own and ends.*)
LEMMA InGiveQuit ==
  ASSUME NetShape, EndsInv, NEW own \in Held, NEW e, todo[e] = << >>, NEW s, own[4] = s, chan[s] # << >>,
         NEW other \in Held, NEW x, other[4] = x, NEW ops, Carry(ops, {x, s}), Take(e, s, ops),
         Held' \subseteq Held \ {own, other}
  PROVE  Kept
<1> DEFINE K == Held \ {own, other}
           N == {}
           X == {x, s}
<1>1. s \in Stream /\ K \subseteq Held
  BY ReadsStream
<1>2. Foreign(N) /\ Once(N) /\ GivenBy(N, (Held \ K) \cup TopEnds(s))
  BY DEF Foreign, Once, GivenBy
<1>3. Held' \subseteq K \cup N
  OBVIOUS
<1>4. X \subseteq {b[4] : b \in (Held \ K) \cup TopEnds(s)}
  <2>1. own \in (Held \ K) \cup TopEnds(s) /\ other \in (Held \ K) \cup TopEnds(s)
    OBVIOUS
  <2> HIDE DEF K
  <2> QED BY <2>1
<1>5. Carry(ops, X) /\ \A a \in N : a[4] \notin X
  OBVIOUS
<1> HIDE DEF K, N, X
<1> QED BY <1>1, <1>2, <1>3, <1>4, <1>5, TakeOnce

-----------------------------------------------------------------------------
(* Stars: the stream of the next instance, while it is not created.        *)
InstEnd(x) == <<"instance", x, "in", StarChildOut[x]>>

(* It is promised until the dispatcher creates the instance.               *)
LEMMA InstanceStep ==
  ASSUME NEW x \in DOMAIN star, Edited(star, star', x)
  PROVE  /\ star'[x].next = star[x].next => InstanceEnds' \subseteq InstanceEnds
         /\ star'[x].next => InstanceEnds' \subseteq InstanceEnds \ {InstEnd(x)}
         /\ ~star[x].next => InstEnd(x) \in InstanceEnds
<1>1. ASSUME NEW a \in InstanceEnds'
      PROVE  \/ a \in InstanceEnds /\ a[2] # x
             \/ a = InstEnd(x) /\ ~star'[x].next
  <2>1. PICK y \in DOMAIN star' : ~star'[y].next /\ a = <<"instance", y, "in", StarChildOut[y]>>
    BY DEF InstanceEnds
  <2>2. CASE y = x
    BY <2>1, <2>2 DEF InstEnd
  <2>3. CASE y # x
    <3>1. y \in DOMAIN star /\ star'[y] = star[y]
      BY <2>1, <2>3 DEF Edited
    <3> QED BY <2>1, <2>3, <3>1 DEF InstanceEnds
  <2> QED BY <2>2, <2>3
<1>2. ~star[x].next => InstEnd(x) \in InstanceEnds
  BY DEF InstanceEnds, InstEnd
<1>3. InstEnd(x)[2] = x
  BY DEF InstEnd
<1> QED BY <1>1, <1>2, <1>3

(* What a dispatcher does to what the entities hold.                       *)
LEMMA StarHeld ==
  ASSUME UNCHANGED <<box, coll, par, sync, split, filter, fbVars, src, sink>>, NEW x \in DOMAIN star,
         Edited(star, star', x), NEW R, InstanceEnds' \subseteq InstanceEnds \ R, \A a \in R : a[1] = "instance"
  PROVE  /\ Held' \subseteq (Held \ ({In("star", x, star[x].in)} \cup R)) \cup {In("star", x, star'[x].in)}
         /\ star'[x].done => Held' \subseteq Held \ ({In("star", x, star[x].in)} \cup R)
<1>1. InEnds("star", star)' = InEnds("star", star')
  BY DEF InEnds
<1>2. /\ InEnds("star", star') \subseteq (InEnds("star", star) \ {In("star", x, star[x].in)}) \cup {In("star", x, star'[x].in)}
      /\ star'[x].done => InEnds("star", star') \subseteq InEnds("star", star) \ {In("star", x, star[x].in)}
  BY InStep
<1>3. In("star", x, star[x].in)[1] = "star"
  BY InFacts
<1> QED BY <1>1, <1>2, <1>3, PartsSame, PartKinds DEF Held, Reading, fbVars

(* Every step of a dispatcher keeps the invariant.                         *)
LEMMA StarInv ==
  ASSUME IInv, NEW x \in DOMAIN star, StarStep(x)
  PROVE  IInv'
<1> DEFINE s == star[x].in
           own == In("star", x, s)
           rest == UNCHANGED <<box, coll, par, sync, split, filter, fbVars, src, sink>>
<1>1. NetShape /\ EndsInv /\ StarShape /\ rest /\ own[4] = s /\ own[1] = "star"
  BY InFacts DEF IInv, Shape, StarStep
<1>2. ASSUME Kept, StarShape' PROVE IInv'
  <2>1. CollShape' /\ CollInv' /\ CollectorAccounting'
    BY <1>1, <1>2, CollSame DEF IInv, Shape
  <2>2. BoxShape' /\ FilterShape' /\ SyncShape' /\ SplitShape' /\ ParShape' /\ FeedbackShape' /\ TaskShape'
    BY <1>1, ShapesSame DEF IInv, Shape
  <2> QED BY <1>2, <2>1, <2>2 DEF IInv, Shape, Kept
<1>3. ASSUME ~star[x].done PROVE own \in Held
  BY <1>3, InOwn DEF Held, Reading
<1>4. ASSUME UNCHANGED star PROVE StarShape' /\ Held' \subseteq Held
  BY <1>1, <1>4, ShapesSame, HeldSame
<1>5. ASSUME Edited(star, star', x), IsRec(star'[x], {"in", "next", "cleanup", "counter", "broken", "done"}), star'[x].next = star[x].next
      PROVE  /\ StarShape' /\ Held' \subseteq (Held \ {own}) \cup {In("star", x, star'[x].in)}
             /\ star'[x].done => Held' \subseteq Held \ {own}
  <2>1. StarShape'
    BY <1>1, <1>5 DEF StarShape, Edited
  <2> DEFINE R == {}
  <2>2. InstanceEnds' \subseteq InstanceEnds \ R
    BY <1>1, <1>5, InstanceStep
  <2>3. (\A a \in R : a[1] = "instance") /\ {own} \cup R = {own}
    OBVIOUS
  <2> HIDE DEF R
  <2>4. /\ Held' \subseteq (Held \ ({own} \cup R)) \cup {In("star", x, star'[x].in)}
        /\ star'[x].done => Held' \subseteq Held \ ({own} \cup R)
    BY <1>1, <1>5, <2>2, <2>3, StarHeld
  <2> QED BY <2>1, <2>3, <2>4
<1> DEFINE inst == InstEnd(x)
<1>6. IsFun(star) /\ IsRec(star[x], {"in", "next", "cleanup", "counter", "broken", "done"}) /\ inst[4] = StarChildOut[x] /\ inst[1] = "instance"
  BY <1>1 DEF StarShape, InstEnd
<1>7. ASSUME Edited(star, star', x), IsRec(star'[x], {"in", "next", "cleanup", "counter", "broken", "done"}), star'[x].next
      PROVE  /\ StarShape' /\ Held' \subseteq (Held \ {own, inst}) \cup {In("star", x, star'[x].in)}
             /\ star'[x].done => Held' \subseteq Held \ {own, inst}
  <2>1. StarShape'
    BY <1>1, <1>7 DEF StarShape, Edited
  <2> DEFINE R == {inst}
  <2>2. InstanceEnds' \subseteq InstanceEnds \ R
    BY <1>1, <1>7, InstanceStep
  <2>3. (\A a \in R : a[1] = "instance") /\ {own} \cup R = {own, inst}
    BY <1>6
  <2> HIDE DEF R
  <2>4. /\ Held' \subseteq (Held \ ({own} \cup R)) \cup {In("star", x, star'[x].in)}
        /\ star'[x].done => Held' \subseteq Held \ ({own} \cup R)
    BY <1>1, <1>7, <2>2, <2>3, StarHeld
  <2> QED BY <2>1, <2>3, <2>4
<1>8. ASSUME ~star[x].next PROVE inst \in Held
  BY <1>8, InstanceStep DEF Held, InstanceEnds, InstEnd
<1>9. own # inst
  BY <1>1, <1>6
<1> HIDE DEF own, inst
<1>10. ASSUME NEW n, NEW r, ~IsHandover(r) PROVE Carry(ToNext(x, n, r), {})
  BY <1>10, CarryOne, OpEnds DEF ToNext
<1>11. ASSUME NEW n PROVE Carry(StarBracket(x, n), {})
  <2> DEFINE a == <<Write(StarOut[x], Sort(0, star[x].counter))>>
             b == ToNext(x, n, Sort(0, star[x].counter))
  <2>1. Carry(a, {}) /\ Carry(b, {})
    BY <1>10, CarryOne, OpEnds
  <2>2. Carry(a \o b, {})
    <3> HIDE DEF a, b
    <3> QED BY <2>1, CarryLeft
  <2> QED BY <2>2, CarryOne DEF StarBracket
<1> DEFINE cr == CreateOperandNetwork(x)
<1>12. /\ star[x].next => Carry(cr, {})
       /\ ~star[x].next => Carry(cr, {StarChildOut[x]})
  <2> DEFINE o == Create(StarNext[x])
             p == Write(StarOut[x], Collect(StarChildOut[x]))
  <2>1. ~Bears(o) /\ EndOf(p) = StarChildOut[x]
    BY OpEnds
  <2>2. Carry(<<o, p>>, {StarChildOut[x]})
    <3> HIDE DEF o, p
    <3> QED BY <2>1, CarryTwo
  <2> QED BY <2>2, CarryOne DEF CreateOperandNetwork
<1> HIDE DEF cr
<1>13. CASE StarExit(x)
  <2> DEFINE a == <<Write(StarOut[x], Top(s))>>
             b == StarBracket(x, star[x].next)
  <2>1. ~star[x].done /\ todo[x] = << >> /\ chan[s] # << >> /\ ~IsHandover(Top(s)) /\ Take(x, s, a \o b)
    BY <1>13 DEF StarExit, StarReads, Reads, IsHandover
  <2>2. star' = [star EXCEPT ![x].counter = @ + StarCounted(x), ![x].broken  = @ \/ star[x].cleanup]
    BY <1>13 DEF StarExit
  <2>3. /\ Edited(star, star', x) /\ IsRec(star'[x], {"in", "next", "cleanup", "counter", "broken", "done"}) /\ star'[x].next = star[x].next
        /\ star'[x].in = s
    BY <1>6, <2>2 DEF Edited, IsRec, IsFun
  <2>4. Carry(a, {}) /\ Carry(b, {})
    BY <1>11, <2>1, CarryOne, OpEnds, ZenonT(60)
  <2>5. StarShape' /\ Held' \subseteq (Held \ {own}) \cup {own} /\ own \in Held
    BY <1>3, <1>5, <2>1, <2>3 DEF own
  <2> HIDE DEF a, b
  <2>6. Carry(a \o b, {}) /\ Held' \subseteq Held
    BY <2>4, <2>5, CarryLeft
  <2>7. Kept
    BY <1>1, <2>1, <2>5, <2>6, InPass
  <2> QED BY <1>2, <2>5, <2>7
<1>14. CASE StarForward(x)
  <2> DEFINE w == <<Write(StarNext[x], Top(s))>>
             b == StarBracket(x, TRUE)
             ops == cr \o w \o b
  <2>1. ~star[x].done /\ todo[x] = << >> /\ chan[s] # << >> /\ ~IsHandover(Top(s)) /\ Take(x, s, ops)
    BY <1>14 DEF StarForward, StarReads, Reads, IsHandover, cr
  <2>2. star' = [star EXCEPT ![x].counter = @ + StarCounted(x), ![x].next = TRUE]
    BY <1>14 DEF StarForward
  <2>3. /\ Edited(star, star', x) /\ IsRec(star'[x], {"in", "next", "cleanup", "counter", "broken", "done"}) /\ star'[x].next
        /\ star'[x].in = s
    BY <1>6, <2>2 DEF Edited, IsRec, IsFun
  <2>4. Carry(w, {}) /\ Carry(b, {})
    BY <1>11, <2>1, CarryOne, OpEnds
  <2>5. StarShape' /\ Held' \subseteq (Held \ {own, inst}) \cup {own} /\ own \in Held
    BY <1>3, <1>7, <2>1, <2>3 DEF own
  <2>6. ASSUME NEW X, Carry(cr, X) PROVE Carry(ops, X)
    <3> HIDE DEF w, b
    <3>1. Carry(cr \o w, X)
      BY <2>4, <2>6, CarryLeft
    <3> QED BY <2>4, <3>1, CarryLeft
  <2>7. (star[x].next => Carry(ops, {})) /\ (~star[x].next => Carry(ops, {StarChildOut[x]}))
    BY <1>12, <2>6
  <2> HIDE DEF ops
  <2>8. Kept
    <3>1. CASE star[x].next
      <4>1. Held' \subseteq Held
        BY <2>5
      <4> QED BY <1>1, <2>1, <2>5, <2>7, <3>1, <4>1, InPass
    <3>2. CASE ~star[x].next
      <4>1. Held' \subseteq Held \ {inst} /\ inst \in Held
        BY <1>8, <1>9, <2>5, <3>2
      <4> QED BY <1>1, <1>6, <2>1, <2>5, <2>7, <3>2, <4>1, InGive
    <3> QED BY <3>1, <3>2
  <2> QED BY <1>2, <2>5, <2>8
<1>15. CASE StarLeaveLate(x)
  <2> DEFINE o == Write(StarNext[x], Top(s))
             p == Write(StarNext[x], Sync(s, NULL))
             q == Write(StarOut[x], Term)
             w == <<o, p, q>>
             ops == cr \o w
  <2>1. ~star[x].done /\ todo[x] = << >> /\ chan[s] # << >> /\ ~IsHandover(Top(s)) /\ Take(x, s, ops)
    BY <1>15 DEF StarLeaveLate, StarReads, Reads, IsHandover, cr
  <2>2. star' = [star EXCEPT ![x].next = TRUE, ![x].done = TRUE]
    BY <1>15 DEF StarLeaveLate
  <2>3. /\ Edited(star, star', x) /\ IsRec(star'[x], {"in", "next", "cleanup", "counter", "broken", "done"}) /\ star'[x].next /\ star'[x].done
    BY <1>6, <2>2 DEF Edited, IsRec, IsFun
  <2>4. Carry(w, {s})
    <3>1. ~Bears(o) /\ ~Bears(q) /\ EndOf(p) = s
      BY <2>1, OpEnds
    <3> HIDE DEF o, p, q
    <3> QED BY <3>1, CarryThree
  <2>5. StarShape' /\ Held' \subseteq Held \ {own, inst} /\ own \in Held
    BY <1>3, <1>7, <2>1, <2>3
  <2> HIDE DEF w
  <2>6. Kept
    <3>1. CASE star[x].next
      <4>1. Carry(ops, {s}) /\ Held' \subseteq Held \ {own}
        BY <1>12, <2>4, <2>5, <3>1, CarryRight
      <4> QED BY <1>1, <2>1, <2>5, <4>1, InQuit
    <3>2. CASE ~star[x].next
      <4> DEFINE c == StarChildOut[x]
      <4>1. inst \in Held /\ inst[4] = c
        BY <1>6, <1>8, <3>2
      <4>2. c # s
        BY <1>1, <1>9, <2>5, <4>1 DEF EndsInv, Once, Ends
      <4>3. Carry(ops, {c, s})
        <5> DEFINE X == {c}
                   Y == {s}
        <5>1. Carry(cr, X) /\ Carry(w, Y) /\ X \cap Y = {} /\ X \cup Y = {c, s}
          BY <1>12, <2>4, <3>2, <4>2
        <5> HIDE DEF X, Y
        <5> QED BY <5>1, CarryConcat
      <4> HIDE DEF ops, c
      <4> QED BY <1>1, <2>1, <2>5, <4>1, <4>3, InGiveQuit
    <3> QED BY <3>1, <3>2
  <2> QED BY <1>2, <2>5, <2>6
<1>16. CASE StarLeave(x)
  <2> DEFINE o == Write(StarNext[x], Top(s))
             p == Write(StarOut[x], Term)
             q == Free(s)
             w == <<o, p, q>>
  <2>1. ~star[x].done /\ todo[x] = << >> /\ chan[s] # << >> /\ IsHandover(Top(s)) /\ Take(x, s, w)
    BY <1>16 DEF StarLeave, StarReads, Reads, IsHandover
  <2>2. star' = [star EXCEPT ![x].done = TRUE]
    BY <1>16 DEF StarLeave
  <2>3. /\ Edited(star, star', x) /\ IsRec(star'[x], {"in", "next", "cleanup", "counter", "broken", "done"}) /\ star'[x].next = star[x].next /\ star'[x].done
    BY <1>6, <2>2 DEF Edited, IsRec, IsFun
  <2>4. StarShape' /\ Held' \subseteq Held \ {own} /\ own \in Held
    BY <1>3, <1>5, <2>1, <2>3
  <2>5. Carry(w, {s, Top(s).s})
    <3>1. s # Top(s).s
      BY <1>1, <2>1, <2>4, ReadsStream, TopOther
    <3>2. ~Bears(p) /\ EndOf(o) = Top(s).s /\ EndOf(q) = s
      BY <2>1, OpEnds
    <3>3. {Top(s).s, s} = {s, Top(s).s}
      OBVIOUS
    <3> HIDE DEF o, p, q
    <3> QED BY <3>1, <3>2, <3>3, CarryThree, ZenonT(60)
  <2> HIDE DEF w
  <2>6. Kept
    BY <1>1, <2>1, <2>4, <2>5, InLeave
  <2> QED BY <1>2, <2>4, <2>6
<1>17. CASE StarReplace(x)
  <2>1. ~star[x].done /\ todo[x] = << >> /\ chan[s] # << >> /\ IsHandover(Top(s)) /\ Take(x, s, <<Free(s)>>)
    BY <1>17 DEF StarReplace, StarReads, Reads, IsHandover
  <2>2. star' = [star EXCEPT ![x].in = Top(s).s, ![x].cleanup = @ \/ Eligible(x)]
    BY <1>17 DEF StarReplace
  <2>3. /\ Edited(star, star', x) /\ IsRec(star'[x], {"in", "next", "cleanup", "counter", "broken", "done"}) /\ star'[x].next = star[x].next /\ star'[x].in = Top(s).s
    BY <1>6, <2>2 DEF Edited, IsRec, IsFun
  <2>4. StarShape' /\ Held' \subseteq (Held \ {own}) \cup {In("star", x, Top(s).s)}
    BY <1>5, <2>3
  <2>5. Carry(<<Free(s)>>, {s})
    BY CarryOne, OpEnds
  <2>6. Kept
    <3>1. In("star", x, Top(s).s)[1] = own[1] /\ In("star", x, Top(s).s)[4] = Top(s).s
      BY <1>1, InFacts
    <3> QED BY <1>1, <1>3, <2>1, <2>4, <2>5, <3>1, InReplace
  <2> QED BY <1>2, <2>4, <2>6
<1>18. CASE StarSort(x)
  <2> DEFINE r == IF IsIncarnate[x] THEN Top(s) ELSE Raise(Top(s))
             a == ToNext(x, star[x].next, r)
             b == <<Write(StarOut[x], r)>>
  <2>1. ~star[x].done /\ todo[x] = << >> /\ chan[s] # << >> /\ ~IsHandover(Top(s)) /\ Take(x, s, a \o b) /\ UNCHANGED star
    BY <1>18 DEF StarSort, StarReads, Reads, IsHandover
  <2>2. ~IsHandover(r)
    BY <2>1, OpEnds DEF Raise
  <2> HIDE DEF r
  <2>3. Carry(a, {}) /\ Carry(b, {})
    BY <1>10, <2>2, CarryOne, OpEnds
  <2> HIDE DEF a, b
  <2>4. Carry(a \o b, {})
    BY <2>3, CarryLeft
  <2>5. Kept
    BY <1>1, <1>3, <1>4, <2>1, <2>4, InPass
  <2> QED BY <1>2, <1>4, <2>1, <2>5
<1>19. CASE StarTerm(x)
  <2> DEFINE a == ToNext(x, star[x].next, Term)
             b == <<Write(StarOut[x], Term), Free(s)>>
  <2>1. ~star[x].done /\ todo[x] = << >> /\ chan[s] # << >> /\ Take(x, s, a \o b)
    BY <1>19 DEF StarTerm, StarReads, Reads
  <2>2. star' = [star EXCEPT ![x].done = TRUE]
    BY <1>19 DEF StarTerm
  <2>3. /\ Edited(star, star', x) /\ IsRec(star'[x], {"in", "next", "cleanup", "counter", "broken", "done"}) /\ star'[x].next = star[x].next /\ star'[x].done
    BY <1>6, <2>2 DEF Edited, IsRec, IsFun
  <2>4. StarShape' /\ Held' \subseteq Held \ {own} /\ own \in Held
    BY <1>3, <1>5, <2>1, <2>3
  <2>5. Carry(a, {}) /\ Carry(b, {s})
    BY <1>10, CarryTwo, OpEnds
  <2> HIDE DEF a, b
  <2>6. Carry(a \o b, {s})
    BY <2>5, CarryRight
  <2>7. Kept
    BY <1>1, <2>1, <2>4, <2>6, InQuit
  <2> QED BY <1>2, <2>4, <2>7
<1> QED BY <1>13, <1>14, <1>15, <1>16, <1>17, <1>18, <1>19 DEF StarStep, StarBoxTask

-----------------------------------------------------------------------------
(* The same record to a single stream.                                     *)
LEMMA CarryAllOne ==
  ASSUME NEW ss, IsSeq(ss), Len(ss) = 1, NEW r, IsHandover(r)
  PROVE  Carry(WriteAll(ss, r), {r.s})
<1> DEFINE w == WriteAll(ss, r)
<1>1. DOMAIN ss = 1..1 /\ w = [i \in 1..1 |-> Write(ss[i], r)]
  BY SeqFacts DEF WriteAll
<1>2. IsSeq(w) /\ DOMAIN w = {1}
  <2>1. w = [i \in 1..1 |-> w[i]] /\ 1 \in Nat /\ DOMAIN w = 1..1
    BY <1>1
  <2>2. 1..1 = {1}
    OBVIOUS
  <2> HIDE DEF w
  <2> QED BY <2>1, <2>2, ListSeq
<1>3. w[1] = Write(ss[1], r)
  BY <1>1
<1> HIDE DEF w
<1>4. EndOf(w[1]) = r.s
  BY <1>3, OpEnds
<1> QED BY <1>2, <1>4 DEF Carry, w

(* The open branches of a dispatcher can be listed.                        *)
LEMMA OpenSeq ==
  ASSUME NEW p \in Parallels, NEW live, live \subseteq Branches(p)
  PROVE  IsSeq(OpenOuts(p, live)) /\ Len(OpenOuts(p, live)) = Cardinality(live)
<1>1. Len(ParOuts[p]) \in Nat
  <2>1. IsSeq(ParOuts[p])
    BY ParallelAssumption DEF IsSeq
  <2> QED BY <2>1, SeqFacts
<1>2. IsFiniteSet(Branches(p))
  BY <1>1, FS_Interval DEF Branches
<1>3. Cardinality(live) \in Nat
  BY <1>2, FS_Subset, FS_CardinalityType
<1>4. OpenOuts(p, live) = [j \in 1..Cardinality(live) |-> OpenOuts(p, live)[j]]
  BY DEF OpenOuts
<1> QED BY <1>3, <1>4, ListSeq

(* What a dispatcher sends to its branches hands nothing over.             *)
LEMMA CarryBranches ==
  ASSUME NEW p \in Parallels, NEW live, live \subseteq Branches(p), NEW i, NEW r, ~IsHandover(r), NEW det, NEW counter
  PROVE  Carry(PutToBuffers(p, live, i, r, det, counter), {})
<1> DEFINE a == IF i \in live THEN <<Write(ParOuts[p][i], r)>> ELSE << >>
           b == IF det THEN WriteAll(OpenOuts(p, live), Sort(0, counter)) ELSE << >>
<1>1. Carry(a, {})
  BY CarryOne, OpEnds
<1>2. Carry(b, {})
  BY OpenSeq, CarryAll, CarryOne, OpEnds
<1> HIDE DEF a, b
<1>3. Carry(a \o b, {})
  BY <1>1, <1>2, CarryLeft
<1> QED BY <1>3 DEF PutToBuffers, a, b

-----------------------------------------------------------------------------
(* Parallel dispatchers: what they do to what the entities hold.           *)
LEMMA ParHeld ==
  ASSUME UNCHANGED <<box, coll, sync, split, star, filter, fbVars, src, sink>>, NEW p \in DOMAIN par, Edited(par, par', p)
  PROVE  /\ Held' \subseteq (Held \ {In("par", p, par[p].in)}) \cup {In("par", p, par'[p].in)}
         /\ par'[p].done => Held' \subseteq Held \ {In("par", p, par[p].in)}
<1>1. InEnds("par", par)' = InEnds("par", par')
  BY DEF InEnds
<1>2. /\ InEnds("par", par') \subseteq (InEnds("par", par) \ {In("par", p, par[p].in)}) \cup {In("par", p, par'[p].in)}
      /\ par'[p].done => InEnds("par", par') \subseteq InEnds("par", par) \ {In("par", p, par[p].in)}
  BY InStep
<1>3. In("par", p, par[p].in)[1] = "par"
  BY InFacts
<1> QED BY <1>1, <1>2, <1>3, PartsSame, PartKinds DEF Held, Reading, fbVars

(* Every step of a parallel dispatcher keeps the invariant.                *)
LEMMA ParInv ==
  ASSUME IInv, NEW p \in DOMAIN par, ParStep(p)
  PROVE  IInv'
<1> DEFINE s == par[p].in
           own == In("par", p, s)
           rest == UNCHANGED <<box, coll, sync, split, star, filter, fbVars, src, sink>>
<1>1. NetShape /\ EndsInv /\ ParShape /\ rest /\ own[4] = s /\ own[1] = "par"
  BY InFacts DEF IInv, Shape, ParStep
<1>2. ASSUME Kept, ParShape' PROVE IInv'
  <2>1. CollShape' /\ CollInv' /\ CollectorAccounting'
    BY <1>1, <1>2, CollSame DEF IInv, Shape
  <2>2. BoxShape' /\ FilterShape' /\ SyncShape' /\ SplitShape' /\ StarShape' /\ FeedbackShape' /\ TaskShape'
    BY <1>1, ShapesSame DEF IInv, Shape
  <2> QED BY <1>2, <2>1, <2>2 DEF IInv, Shape, Kept
<1>3. ASSUME ~par[p].done PROVE own \in Held
  BY <1>3, InOwn DEF Held, Reading
<1>4. ASSUME UNCHANGED par PROVE ParShape' /\ Held' \subseteq Held
  BY <1>1, <1>4, ShapesSame, HeldSame
<1>5. ASSUME Edited(par, par', p), IsRec(par'[p], {"in", "live", "counter", "junk", "bad", "start", "running", "done"}), par'[p].live \subseteq Branches(p), par'[p].done => par'[p].running
      PROVE  /\ ParShape' /\ Held' \subseteq (Held \ {own}) \cup {In("par", p, par'[p].in)}
             /\ par'[p].done => Held' \subseteq Held \ {own}
  <2>1. ParShape'
    BY <1>1, <1>5 DEF ParShape, Edited, Branches
  <2> QED BY <1>1, <1>5, <2>1, ParHeld
<1>6. /\ IsFun(par) /\ IsRec(par[p], {"in", "live", "counter", "junk", "bad", "start", "running", "done"})
      /\ par[p].live \subseteq Branches(p) /\ (par[p].done => par[p].running) /\ p \in Parallels
  BY <1>1 DEF ParShape
<1> HIDE DEF own
<1>7. CASE StartBranch(p)
  <2> DEFINE i == par[p].start
             a == PutToBuffers(p, par[p].live, i, Trigger, IsDet[p], par[p].counter)
             b == <<Write(ParOuts[p][i], Term)>>
             c == <<Write(ParOuts[p][i], Sort(0, par[p].counter))>>
  <2>1. ~par[p].running /\ todo[p] = << >> /\ UNCHANGED chan
    BY <1>7 DEF StartBranch
  <2>2. own \in Held
    BY <1>3, <1>6, <2>1
  <2>3. ASSUME NEW ops, Carry(ops, {}), Proceed(p, ops, stat), Edited(par, par', p), IsRec(par'[p], {"in", "live", "counter", "junk", "bad", "start", "running", "done"}),
               par'[p].live \subseteq Branches(p), par'[p].done = par[p].done, par'[p].in = s
        PROVE  IInv'
    <3>1. ParShape' /\ Held' \subseteq (Held \ {own}) \cup {own}
      BY <1>5, <1>6, <2>1, <2>3 DEF own
    <3>2. Held' \subseteq Held
      BY <2>2, <3>1
    <3>3. Kept
      BY <1>1, <2>1, <2>3, <3>2, ActPass
    <3> QED BY <1>2, <3>1, <3>3
  <2>4. CASE /\ Proceed(p, a \o b, stat)
             /\ par' = [par EXCEPT ![p].start = i + 1, ![p].live = @ \ {i},
                                   ![p].counter = IF IsDet[p] THEN @ + 1 ELSE @]
    <3>1. Carry(a, {}) /\ Carry(b, {})
      BY <1>6, CarryBranches, CarryOne, OpEnds
    <3>2. /\ Edited(par, par', p) /\ IsRec(par'[p], {"in", "live", "counter", "junk", "bad", "start", "running", "done"}) /\ par'[p].done = par[p].done /\ par'[p].in = s
          /\ par'[p].live = par[p].live \ {i}
      BY <1>6, <2>4 DEF Edited, IsRec, IsFun
    <3>3. par'[p].live \subseteq Branches(p)
      BY <1>6, <3>2
    <3> HIDE DEF a, b
    <3>4. Carry(a \o b, {})
      BY <3>1, CarryLeft
    <3> QED BY <2>3, <2>4, <3>2, <3>3, <3>4
  <2>5. CASE Proceed(p, c, stat) /\ par' = [par EXCEPT ![p].start = i + 1]
    <3>1. Carry(c, {})
      <4> DEFINE o == Write(ParOuts[p][i], Sort(0, par[p].counter))
      <4>1. ~Bears(o)
        BY OpEnds
      <4> HIDE DEF o
      <4>2. Carry(<<o>>, {})
        BY <4>1, CarryOne
      <4> QED BY <4>2 DEF o
    <3>2. /\ Edited(par, par', p) /\ IsRec(par'[p], {"in", "live", "counter", "junk", "bad", "start", "running", "done"}) /\ par'[p].done = par[p].done /\ par'[p].in = s
          /\ par'[p].live = par[p].live
      BY <1>6, <2>5 DEF Edited, IsRec, IsFun
    <3> HIDE DEF c
    <3> QED BY <1>6, <2>3, <2>5, <3>1, <3>2
  <2> QED BY <1>7, <2>4, <2>5 DEF StartBranch
<1>8. CASE Started(p)
  <2> DEFINE left == Cardinality(par[p].live)
             w   == WriteAll(OpenOuts(p, par[p].live), Sync(s, NULL))
             ops == IF left = 1 THEN w ELSE << >>
  <2>1. ~par[p].running /\ todo[p] = << >> /\ UNCHANGED chan /\ Proceed(p, ops, stat)
    BY <1>8 DEF Started
  <2>2. PICK junk : par' = [par EXCEPT ![p].counter = @ + 1, ![p].junk = junk, ![p].running = TRUE, ![p].done = left <= 1]
    BY <1>8 DEF Started
  <2>3. own \in Held
    BY <1>3, <1>6, <2>1
  <2> HIDE DEF left
  <2>4. /\ Edited(par, par', p) /\ IsRec(par'[p], {"in", "live", "counter", "junk", "bad", "start", "running", "done"}) /\ par'[p].in = s
        /\ par'[p].live = par[p].live /\ par'[p].running /\ par'[p].done = (left <= 1)
    BY <1>6, <2>2 DEF Edited, IsRec, IsFun
  <2>5. /\ ParShape' /\ Held' \subseteq (Held \ {own}) \cup {own}
        /\ left <= 1 => Held' \subseteq Held \ {own}
    BY <1>5, <1>6, <2>4 DEF own
  <2>6. Kept
    <3>1. CASE left = 1
      <4>1. Carry(w, {s})
        <5> DEFINE outs == OpenOuts(p, par[p].live)
                   rec  == Sync(s, NULL)
        <5>1. IsSeq(outs) /\ Len(outs) = 1 /\ IsHandover(rec) /\ rec.s = s
          BY <1>6, <3>1, OpenSeq, OpEnds DEF left
        <5> HIDE DEF outs, rec
        <5>2. Carry(WriteAll(outs, rec), {rec.s})
          BY <5>1, CarryAllOne
        <5> QED BY <5>1, <5>2 DEF outs, rec
      <4>2. Held' \subseteq Held \ {own} /\ ops = w
        BY <2>5, <3>1
      <4> HIDE DEF w, ops
      <4> QED BY <1>1, <2>1, <2>3, <4>1, <4>2, ActGive
    <3>2. CASE left # 1
      <4>1. Carry(ops, {}) /\ Held' \subseteq Held
        BY <2>3, <2>5, <3>2, CarryOne
      <4> HIDE DEF ops
      <4> QED BY <1>1, <2>1, <4>1, ActPass
    <3> QED BY <3>1, <3>2
  <2> QED BY <1>2, <2>5, <2>6
<1>9. CASE ParData(p)
  <2>1. ~par[p].done /\ todo[p] = << >> /\ chan[s] # << >> /\ ~IsHandover(Top(s))
        /\ par' = [par EXCEPT ![p].counter = IF IsDet[p] THEN @ + 1 ELSE @]
    BY <1>9 DEF ParData, ParReads, Reads, IsHandover
  <2>2. PICK i : Take(p, s, PutToBuffers(p, par[p].live, i, Top(s), IsDet[p], par[p].counter))
    BY <1>9 DEF ParData
  <2> DEFINE ops == PutToBuffers(p, par[p].live, i, Top(s), IsDet[p], par[p].counter)
  <2>3. Carry(ops, {})
    BY <1>6, <2>1, CarryBranches
  <2>4. /\ Edited(par, par', p) /\ IsRec(par'[p], {"in", "live", "counter", "junk", "bad", "start", "running", "done"}) /\ par'[p].in = s
        /\ par'[p].live = par[p].live /\ par'[p].running = par[p].running /\ par'[p].done = par[p].done
    BY <1>6, <2>1 DEF Edited, IsRec, IsFun
  <2>5. ParShape' /\ Held' \subseteq (Held \ {own}) \cup {own} /\ own \in Held
    BY <1>3, <1>5, <1>6, <2>1, <2>4 DEF own
  <2>6. Held' \subseteq Held
    BY <2>5
  <2> HIDE DEF ops
  <2>7. Kept
    BY <1>1, <2>1, <2>2, <2>3, <2>5, <2>6, InPass DEF ops
  <2> QED BY <1>2, <2>5, <2>7
<1>10. CASE ParSort(p)
  <2> DEFINE ops == WriteAll(OpenOuts(p, par[p].live), Raise(Top(s)))
  <2>1. ~par[p].done /\ todo[p] = << >> /\ chan[s] # << >> /\ Take(p, s, ops) /\ UNCHANGED par
    BY <1>10 DEF ParSort, ParReads, Reads
  <2>2. Carry(ops, {})
    BY <1>6, OpenSeq, CarryAll, OpEnds DEF Raise
  <2> HIDE DEF ops
  <2>3. Kept
    BY <1>1, <1>3, <1>4, <2>1, <2>2, InPass
  <2> QED BY <1>2, <1>4, <2>1, <2>3
<1>11. CASE ParTerm(p)
  <2> DEFINE w == WriteAll(OpenOuts(p, par[p].live), Term)
             ops == Append(w, Free(s))
  <2>1. ~par[p].done /\ par[p].running /\ todo[p] = << >> /\ chan[s] # << >> /\ Take(p, s, ops) /\ par' = [par EXCEPT ![p].done = TRUE]
    BY <1>11 DEF ParTerm, ParReads, Reads
  <2>2. Carry(w, {})
    BY <1>6, OpenSeq, CarryAll, OpEnds
  <2>3. Carry(ops, {s})
    <3> HIDE DEF w
    <3> QED BY <2>2, CarryAppend, OpEnds
  <2>4. /\ Edited(par, par', p) /\ IsRec(par'[p], {"in", "live", "counter", "junk", "bad", "start", "running", "done"}) /\ par'[p].done
        /\ par'[p].live = par[p].live /\ par'[p].running = par[p].running
    BY <1>6, <2>1 DEF Edited, IsRec, IsFun
  <2>5. ParShape' /\ Held' \subseteq Held \ {own} /\ own \in Held
    BY <1>3, <1>5, <1>6, <2>1, <2>4
  <2> HIDE DEF ops
  <2>6. Kept
    BY <1>1, <2>1, <2>3, <2>5, InQuit
  <2> QED BY <1>2, <2>5, <2>6
<1>12. CASE ParSync(p)
  <2>1. ~par[p].done /\ todo[p] = << >> /\ chan[s] # << >> /\ IsHandover(Top(s)) /\ Take(p, s, <<Free(s)>>) /\ par' = [par EXCEPT ![p].in = Top(s).s]
    BY <1>12 DEF ParSync, ParReads, Reads, IsHandover
  <2>2. Carry(<<Free(s)>>, {s})
    BY CarryOne, OpEnds
  <2>3. /\ Edited(par, par', p) /\ IsRec(par'[p], {"in", "live", "counter", "junk", "bad", "start", "running", "done"}) /\ par'[p].in = Top(s).s
        /\ par'[p].live = par[p].live /\ par'[p].running = par[p].running /\ par'[p].done = par[p].done
    BY <1>6, <2>1 DEF Edited, IsRec, IsFun
  <2>4. ParShape' /\ Held' \subseteq (Held \ {own}) \cup {In("par", p, Top(s).s)}
    BY <1>5, <1>6, <2>3
  <2>5. Kept
    <3>1. In("par", p, Top(s).s)[1] = own[1] /\ In("par", p, Top(s).s)[4] = Top(s).s
      BY <1>1, InFacts
    <3> QED BY <1>1, <1>3, <2>1, <2>2, <2>4, <3>1, InReplace
  <2> QED BY <1>2, <2>4, <2>5
<1>13. CASE ParSyncTyped(p)
  <2> DEFINE r    == Top(s)
             dead == Affected(p, r.ty)
             live == par[p].live \ dead
             term == WriteAll(OpenOuts(p, par[p].live \cap dead), Term)
             last == Cardinality(live) = 1
             a    == WriteAll(OpenOuts(p, live), Sort(0, -1))
             b    == WriteAll(OpenOuts(p, live), Sync(r.s, NULL))
             mid  == IF last THEN a \o b ELSE << >>
             ops  == term \o mid \o <<Free(s)>>
  <2>1. ~par[p].done /\ par[p].running /\ todo[p] = << >> /\ chan[s] # << >> /\ IsHandover(r) /\ Take(p, s, ops)
    BY <1>13 DEF ParSyncTyped, ParReads, Reads, IsHandover
  <2>2. par' = [par EXCEPT ![p].live = live, ![p].counter = @ + 1, ![p].done = last,
                           ![p].in = IF last THEN @ ELSE r.s,
                           ![p].bad = @ \/ ~(dead \subseteq par[p].live)]
    BY <1>13 DEF ParSyncTyped
  <2>3. own \in Held /\ live \subseteq Branches(p) /\ par[p].live \cap dead \subseteq Branches(p)
    BY <1>3, <1>6, <2>1
  <2>4. Carry(term, {}) /\ Carry(a, {}) /\ (last => Carry(b, {r.s})) /\ Carry(<<Free(s)>>, {s})
    <3>1. Carry(term, {}) /\ Carry(a, {})
      BY <1>6, <2>3, OpenSeq, CarryAll, OpEnds
    <3>2. ASSUME last PROVE Carry(b, {r.s})
      <4> DEFINE outs == OpenOuts(p, live)
                 rec  == Sync(r.s, NULL)
      <4>1. IsSeq(outs) /\ Len(outs) = 1 /\ IsHandover(rec) /\ rec.s = r.s
        BY <1>6, <2>3, <3>2, OpenSeq, OpEnds
      <4> HIDE DEF outs, rec
      <4>2. Carry(WriteAll(outs, rec), {rec.s})
        BY <4>1, CarryAllOne
      <4> QED BY <4>1, <4>2 DEF outs, rec
    <3> QED BY <3>1, <3>2, CarryOne, OpEnds
  <2> HIDE DEF last, dead, live
  <2>5. /\ Edited(par, par', p) /\ IsRec(par'[p], {"in", "live", "counter", "junk", "bad", "start", "running", "done"}) /\ par'[p].live = live
        /\ par'[p].running = par[p].running /\ par'[p].done = last /\ par'[p].in = (IF last THEN s ELSE r.s)
    BY <1>6, <2>2, ZenonT(60) DEF Edited, IsRec, IsFun
  <2>6. /\ ParShape' /\ Held' \subseteq (Held \ {own}) \cup {In("par", p, par'[p].in)}
        /\ last => Held' \subseteq Held \ {own}
    BY <1>5, <2>1, <2>3, <2>5
  <2>7. Kept
    <3>1. CASE last
      <4> HIDE DEF term, a, b
      <4>1. Carry(mid, {r.s})
        BY <2>4, <3>1, CarryRight
      <4> HIDE DEF mid
      <4>2. Carry(term \o mid, {r.s})
        BY <2>4, <4>1, CarryRight
      <4>3. Carry(ops, {s, r.s})
        <5> DEFINE m == term \o mid
                   f == <<Free(s)>>
                   X == {r.s}
                   Y == {s}
        <5>1. s # r.s
          BY <1>1, <2>1, <2>3, ReadsStream, TopOther
        <5>2. Carry(m, X) /\ Carry(f, Y) /\ X \cap Y = {} /\ X \cup Y = {s, r.s}
          BY <2>4, <4>2, <5>1
        <5> HIDE DEF X, Y, m, f
        <5>3. Carry(m \o f, X \cup Y)
          BY <5>2, CarryConcat
        <5> QED BY <5>2, <5>3 DEF m, f
      <4> HIDE DEF ops
      <4> QED BY <1>1, <2>1, <2>3, <2>6, <3>1, <4>3, InLeave
    <3>2. CASE ~last
      <4>1. Carry(mid, {})
        BY <3>2, CarryOne
      <4> HIDE DEF term, mid
      <4>2. Carry(term \o mid, {})
        BY <2>4, <4>1, CarryRight
      <4> DEFINE m == term \o mid
                 f == <<Free(s)>>
      <4>3. Carry(m, {}) /\ Carry(f, {s}) /\ ops = m \o f
        BY <2>4, <4>2
      <4> HIDE DEF m, f, ops
      <4>4. Carry(ops, {s})
        BY <4>3, CarryRight
      <4>5. In("par", p, r.s)[1] = own[1] /\ In("par", p, r.s)[4] = r.s
        BY <1>1, InFacts
      <4>6. Held' \subseteq (Held \ {own}) \cup {In("par", p, r.s)}
        BY <2>5, <2>6, <3>2
      <4> QED BY <1>1, <2>1, <2>3, <4>4, <4>5, <4>6, InReplace
    <3> QED BY <3>1, <3>2
  <2> QED BY <1>2, <2>6, <2>7
<1> QED BY <1>7, <1>8, <1>9, <1>10, <1>11, <1>12, <1>13 DEF ParStep, ParallelBoxTask

-----------------------------------------------------------------------------
(* Feedback collectors read two streams.                                   *)
LEMMA BackStep ==
  ASSUME NEW f \in DOMAIN fbcoll, Edited(fbcoll, fbcoll', f)
  PROVE  /\ BackEnds' \subseteq (BackEnds \ {In("back", f, fbcoll[f].back)}) \cup {In("back", f, fbcoll'[f].back)}
         /\ fbcoll'[f].done => BackEnds' \subseteq BackEnds \ {In("back", f, fbcoll[f].back)}
         /\ ~fbcoll[f].done => In("back", f, fbcoll[f].back) \in BackEnds
<1>1. ASSUME NEW a \in BackEnds'
      PROVE  \/ a \in BackEnds /\ a[2] # f
             \/ a = In("back", f, fbcoll'[f].back) /\ ~fbcoll'[f].done
  <2>1. PICK y \in DOMAIN fbcoll' : ~fbcoll'[y].done /\ a = <<"back", y, "in", fbcoll'[y].back>>
    BY DEF BackEnds
  <2>2. CASE y = f
    BY <2>1, <2>2 DEF In
  <2>3. CASE y # f
    <3>1. y \in DOMAIN fbcoll /\ fbcoll'[y] = fbcoll[y]
      BY <2>1, <2>3 DEF Edited
    <3> QED BY <2>1, <2>3, <3>1 DEF BackEnds
  <2> QED BY <2>2, <2>3
<1>2. In("back", f, fbcoll[f].back)[2] = f
  BY InFacts
<1>3. ~fbcoll[f].done => In("back", f, fbcoll[f].back) \in BackEnds
  BY DEF BackEnds, In
<1> QED BY <1>1, <1>2, <1>3

(* What a feedback collector does to what the entities hold.               *)
LEMMA FbCollHeld ==
  ASSUME UNCHANGED <<box, coll, par, sync, split, star, filter, fbdisp, fbbuf, src, sink>>, NEW f \in DOMAIN fbcoll,
         Edited(fbcoll, fbcoll', f)
  PROVE  /\ Held' \subseteq (Held \ {In("fbcoll", f, fbcoll[f].in), In("back", f, fbcoll[f].back)})
                       \cup {In("fbcoll", f, fbcoll'[f].in), In("back", f, fbcoll'[f].back)}
         /\ fbcoll'[f].done => Held' \subseteq Held \ {In("fbcoll", f, fbcoll[f].in), In("back", f, fbcoll[f].back)}
<1>1. InEnds("fbcoll", fbcoll)' = InEnds("fbcoll", fbcoll')
  BY DEF InEnds
<1>2. /\ InEnds("fbcoll", fbcoll') \subseteq (InEnds("fbcoll", fbcoll) \ {In("fbcoll", f, fbcoll[f].in)}) \cup {In("fbcoll", f, fbcoll'[f].in)}
      /\ fbcoll'[f].done => InEnds("fbcoll", fbcoll') \subseteq InEnds("fbcoll", fbcoll) \ {In("fbcoll", f, fbcoll[f].in)}
  BY InStep
<1>3. In("fbcoll", f, fbcoll[f].in)[1] = "fbcoll" /\ In("back", f, fbcoll[f].back)[1] = "back"
  BY InFacts
<1> QED BY <1>1, <1>2, <1>3, BackStep, PartsSame, PartKinds DEF Held, Reading

(* Every step of a feedback collector keeps the invariant.                 *)
LEMMA FbCollInv ==
  ASSUME IInv, NEW f \in DOMAIN fbcoll, FbCollStep(f)
  PROVE  IInv'
<1> DEFINE e == FbColl[f]
           s == fbcoll[f].in
           b == fbcoll[f].back
           own == In("fbcoll", f, s)
           bk  == In("back", f, b)
<1>1. NetShape /\ EndsInv /\ FeedbackShape /\ UNCHANGED <<box, coll, par, sync, split, star, filter, src, sink>>
  BY DEF IInv, Shape, FbCollStep
<1>2. ASSUME Kept, FeedbackShape' PROVE IInv'
  <2>1. CollShape' /\ CollInv' /\ CollectorAccounting'
    BY <1>1, <1>2, CollSame DEF IInv, Shape
  <2>2. BoxShape' /\ FilterShape' /\ SyncShape' /\ SplitShape' /\ StarShape' /\ ParShape' /\ TaskShape'
    BY <1>1, ShapesSame DEF IInv, Shape
  <2> QED BY <1>2, <2>1, <2>2 DEF IInv, Shape, Kept
<1>3. UNCHANGED <<fbdisp, fbbuf>> /\ own[4] = s /\ own[1] = "fbcoll" /\ bk[4] = b /\ bk[1] = "back"
  BY InFacts DEF FbCollStep, FeedbackCollTask
<1>4. ASSUME ~fbcoll[f].done PROVE own \in Held /\ bk \in Held
  BY <1>4, InOwn DEF Held, Reading, BackEnds, In
<1>5. ASSUME Edited(fbcoll, fbcoll', f), IsRec(fbcoll'[f], {"in", "back", "mode", "done"})
      PROVE  /\ FeedbackShape' /\ Held' \subseteq (Held \ {own, bk}) \cup {In("fbcoll", f, fbcoll'[f].in), In("back", f, fbcoll'[f].back)}
             /\ fbcoll'[f].done => Held' \subseteq Held \ {own, bk}
  <2>1. FeedbackShape'
    BY <1>1, <1>3, <1>5 DEF FeedbackShape, Edited
  <2> QED BY <1>1, <1>3, <1>5, <2>1, FbCollHeld
<1>6. IsFun(fbcoll) /\ IsRec(fbcoll[f], {"in", "back", "mode", "done"})
  BY <1>1 DEF FeedbackShape
<1>7. ASSUME UNCHANGED fbcoll PROVE FeedbackShape' /\ Held' \subseteq Held
  BY <1>1, <1>3, <1>7, ShapesSame, HeldSame DEF fbVars
<1> HIDE DEF own, bk, e
<1>8. ASSUME NEW m, fbcoll' = [fbcoll EXCEPT ![f].mode = m], ~fbcoll[f].done
      PROVE  FeedbackShape' /\ Held' \subseteq Held
  <2>1. Edited(fbcoll, fbcoll', f) /\ IsRec(fbcoll'[f], {"in", "back", "mode", "done"}) /\ fbcoll'[f].in = s /\ fbcoll'[f].back = b
    BY <1>6, <1>8 DEF Edited, IsRec, IsFun
  <2>2. FeedbackShape' /\ Held' \subseteq (Held \ {own, bk}) \cup {own, bk}
    BY <1>5, <2>1 DEF own, bk
  <2> QED BY <1>4, <1>8, <2>2
<1>9. CASE FbInData(f)
  <2> DEFINE o == Write(IntoOp[f], Top(s))
             p == Write(IntoOp[f], Sort(0, 1))
  <2>1. ~fbcoll[f].done /\ todo[e] = << >> /\ chan[s] # << >> /\ ~IsHandover(Top(s)) /\ Take(e, s, <<o, p>>)
        /\ fbcoll' = [fbcoll EXCEPT ![f].mode = "fb1"]
    BY <1>9 DEF FbInData, FbReadsIn, Reads, IsHandover, e
  <2>2. ~Bears(o) /\ ~Bears(p)
    BY <2>1, OpEnds
  <2> HIDE DEF o, p
  <2>3. Carry(<<o, p>>, {})
    BY <2>2, CarryTwo
  <2>4. Kept
    BY <1>1, <1>3, <1>4, <1>8, <2>1, <2>3, InPass
  <2> QED BY <1>2, <1>8, <2>1, <2>4
<1>10. CASE FbInSort(f)
  <2> DEFINE ops == <<Write(IntoOp[f], Raise(Top(s)))>>
  <2>1. ~fbcoll[f].done /\ todo[e] = << >> /\ chan[s] # << >> /\ Take(e, s, ops) /\ UNCHANGED fbcoll
    BY <1>10 DEF FbInSort, FbReadsIn, Reads, e
  <2>2. Carry(ops, {})
    <3> DEFINE o == Write(IntoOp[f], Raise(Top(s)))
    <3>1. ~Bears(o)
      BY OpEnds DEF Raise
    <3> HIDE DEF o
    <3>2. Carry(<<o>>, {})
      BY <3>1, CarryOne
    <3> QED BY <3>2 DEF o
  <2> HIDE DEF ops
  <2>3. Kept
    BY <1>1, <1>3, <1>4, <1>7, <2>1, <2>2, InPass
  <2> QED BY <1>2, <1>7, <2>1, <2>3
<1>11. CASE FbInTerm(f)
  <2> DEFINE o == Write(IntoOp[f], Term)
             p == Free(s)
             q == Free(b)
             ops == <<o, p, q>>
  <2>1. ~fbcoll[f].done /\ todo[e] = << >> /\ chan[s] # << >> /\ Take(e, s, ops) /\ fbcoll' = [fbcoll EXCEPT ![f].done = TRUE]
    BY <1>11 DEF FbInTerm, FbReadsIn, Reads, e
  <2>2. own \in Held /\ bk \in Held /\ s # b
    <3>1. own # bk
      BY <1>3
    <3> QED BY <1>1, <1>3, <1>4, <2>1, <3>1 DEF EndsInv, Once, Ends
  <2>3. Carry(ops, {b, s})
    <3>1. ~Bears(o) /\ EndOf(p) = s /\ EndOf(q) = b
      BY OpEnds
    <3> HIDE DEF o, p, q
    <3>2. Carry(<<o, p, q>>, {EndOf(p), EndOf(q)})
      BY <2>2, <3>1, CarryThree
    <3>3. {EndOf(p), EndOf(q)} = {b, s}
      BY <3>1
    <3> QED BY <3>2, <3>3
  <2>4. Edited(fbcoll, fbcoll', f) /\ IsRec(fbcoll'[f], {"in", "back", "mode", "done"}) /\ fbcoll'[f].done
    BY <1>6, <2>1 DEF Edited, IsRec, IsFun
  <2> HIDE DEF ops
  <2>5. Kept
    BY <1>1, <1>3, <1>5, <2>1, <2>2, <2>3, <2>4, InGiveQuit
  <2> QED BY <1>2, <1>5, <2>4, <2>5
<1>12. CASE FbInSync(f)
  <2>1. ~fbcoll[f].done /\ todo[e] = << >> /\ chan[s] # << >> /\ IsHandover(Top(s)) /\ Take(e, s, <<Free(s)>>)
        /\ fbcoll' = [fbcoll EXCEPT ![f].in = Top(s).s]
    BY <1>12 DEF FbInSync, FbReadsIn, Reads, IsHandover, e
  <2>2. Carry(<<Free(s)>>, {s})
    BY CarryOne, OpEnds
  <2>3. Edited(fbcoll, fbcoll', f) /\ IsRec(fbcoll'[f], {"in", "back", "mode", "done"}) /\ fbcoll'[f].in = Top(s).s /\ fbcoll'[f].back = b
    BY <1>6, <2>1 DEF Edited, IsRec, IsFun
  <2> DEFINE new == In("fbcoll", f, Top(s).s)
  <2>4. new[1] = own[1] /\ new[4] = Top(s).s
    BY <1>3, InFacts
  <2>5. FeedbackShape' /\ Held' \subseteq (Held \ {own, bk}) \cup {new, bk}
    BY <1>5, <2>3 DEF bk
  <2>6. Held' \subseteq (Held \ {own}) \cup {new} /\ own \in Held
    BY <1>3, <1>4, <2>1, <2>5
  <2> HIDE DEF new
  <2>7. Kept
    BY <1>1, <1>3, <2>1, <2>2, <2>4, <2>6, InReplace
  <2> QED BY <1>2, <2>5, <2>7
<1>13. CASE FbBackData(f)
  <2> DEFINE ops == <<Write(IntoOp[f], Top(b))>>
  <2>1. ~fbcoll[f].done /\ todo[e] = << >> /\ chan[b] # << >> /\ ~IsHandover(Top(b)) /\ Take(e, b, ops)
        /\ fbcoll' = [fbcoll EXCEPT ![f].mode = "fb0"]
    BY <1>13 DEF FbBackData, FbReadsBack, Reads, IsHandover, e
  <2>2. Carry(ops, {})
    BY <2>1, CarryOne, OpEnds
  <2> HIDE DEF ops
  <2>3. Kept
    BY <1>1, <1>3, <1>4, <1>8, <2>1, <2>2, InPass
  <2> QED BY <1>2, <1>8, <2>1, <2>3
<1>14. CASE FbBackSort(f)
  <2> DEFINE again == fbcoll[f].mode = "fb0"
             w   == <<Write(IntoOp[f], Sort(Top(b).lvl, Top(b).num + 1))>>
             ops == IF again THEN w ELSE << >>
  <2>1. ~fbcoll[f].done /\ todo[e] = << >> /\ chan[b] # << >> /\ Take(e, b, ops)
        /\ fbcoll' = [fbcoll EXCEPT ![f].mode = IF again THEN "fb1" ELSE "in"]
    BY <1>14 DEF FbBackSort, FbReadsBack, Reads, e
  <2>2. Carry(w, {}) /\ Carry(<< >>, {})
    <3> DEFINE o == Write(IntoOp[f], Sort(Top(b).lvl, Top(b).num + 1))
    <3>1. ~Bears(o)
      BY OpEnds
    <3> HIDE DEF o
    <3>2. Carry(<<o>>, {}) /\ Carry(<< >>, {})
      BY <3>1, CarryOne
    <3> QED BY <3>2 DEF o
  <2>3. Carry(ops, {})
    BY <2>2
  <2> HIDE DEF ops, again
  <2>4. Kept
    BY <1>1, <1>3, <1>4, <1>8, <2>1, <2>3, InPass
  <2> QED BY <1>2, <1>8, <2>1, <2>4
<1>15. CASE FbBackSync(f)
  <2>1. ~fbcoll[f].done /\ todo[e] = << >> /\ chan[b] # << >> /\ IsHandover(Top(b)) /\ Take(e, b, <<Free(b)>>)
        /\ fbcoll' = [fbcoll EXCEPT ![f].back = Top(b).s]
    BY <1>15 DEF FbBackSync, FbReadsBack, Reads, IsHandover, e
  <2>2. Carry(<<Free(b)>>, {b})
    BY CarryOne, OpEnds
  <2>3. Edited(fbcoll, fbcoll', f) /\ IsRec(fbcoll'[f], {"in", "back", "mode", "done"}) /\ fbcoll'[f].in = s /\ fbcoll'[f].back = Top(b).s
    BY <1>6, <2>1 DEF Edited, IsRec, IsFun
  <2> DEFINE new == In("back", f, Top(b).s)
  <2>4. new[1] = bk[1] /\ new[4] = Top(b).s
    BY <1>3, InFacts
  <2>5. FeedbackShape' /\ Held' \subseteq (Held \ {own, bk}) \cup {own, new}
    BY <1>5, <2>3 DEF own
  <2>6. Held' \subseteq (Held \ {bk}) \cup {new} /\ bk \in Held
    BY <1>3, <1>4, <2>1, <2>5
  <2> HIDE DEF new
  <2>7. Kept
    BY <1>1, <1>3, <2>1, <2>2, <2>4, <2>6, InReplace
  <2> QED BY <1>2, <2>5, <2>7
<1> QED BY <1>9, <1>10, <1>11, <1>12, <1>13, <1>14, <1>15 DEF FbCollStep, FeedbackCollTask

-----------------------------------------------------------------------------
(* Feedback dispatchers: what they do to what the entities hold.           *)
LEMMA FbDispHeld ==
  ASSUME UNCHANGED <<box, coll, par, sync, split, star, filter, fbcoll, fbbuf, src, sink>>, NEW f \in DOMAIN fbdisp,
         Edited(fbdisp, fbdisp', f)
  PROVE  /\ Held' \subseteq (Held \ {In("fbdisp", f, fbdisp[f].in)}) \cup {In("fbdisp", f, fbdisp'[f].in)}
         /\ fbdisp'[f].done => Held' \subseteq Held \ {In("fbdisp", f, fbdisp[f].in)}
<1>1. InEnds("fbdisp", fbdisp)' = InEnds("fbdisp", fbdisp')
  BY DEF InEnds
<1>2. /\ InEnds("fbdisp", fbdisp') \subseteq (InEnds("fbdisp", fbdisp) \ {In("fbdisp", f, fbdisp[f].in)}) \cup {In("fbdisp", f, fbdisp'[f].in)}
      /\ fbdisp'[f].done => InEnds("fbdisp", fbdisp') \subseteq InEnds("fbdisp", fbdisp) \ {In("fbdisp", f, fbdisp[f].in)}
  BY InStep
<1>3. In("fbdisp", f, fbdisp[f].in)[1] = "fbdisp"
  BY InFacts
<1> QED BY <1>1, <1>2, <1>3, PartsSame, PartKinds DEF Held, Reading

(* Every step of a feedback dispatcher keeps the invariant.                *)
LEMMA FbDispInv ==
  ASSUME IInv, NEW f \in DOMAIN fbcoll, FbDispStep(f)
  PROVE  IInv'
<1> DEFINE e == FbDisp[f]
           s == fbdisp[f].in
           own == In("fbdisp", f, s)
<1>1. NetShape /\ EndsInv /\ FeedbackShape /\ UNCHANGED <<box, coll, par, sync, split, star, filter, src, sink>>
  BY DEF IInv, Shape, FbDispStep
<1>2. ASSUME Kept, FeedbackShape' PROVE IInv'
  <2>1. CollShape' /\ CollInv' /\ CollectorAccounting'
    BY <1>1, <1>2, CollSame DEF IInv, Shape
  <2>2. BoxShape' /\ FilterShape' /\ SyncShape' /\ SplitShape' /\ StarShape' /\ ParShape' /\ TaskShape'
    BY <1>1, ShapesSame DEF IInv, Shape
  <2> QED BY <1>2, <2>1, <2>2 DEF IInv, Shape, Kept
<1>3. UNCHANGED <<fbcoll, fbbuf>> /\ own[4] = s /\ own[1] = "fbdisp" /\ f \in DOMAIN fbdisp
  BY <1>1, InFacts DEF FbDispStep, FeedbackDispTask, FeedbackShape
<1>4. ASSUME ~fbdisp[f].done PROVE own \in Held
  BY <1>3, <1>4, InOwn DEF Held, Reading
<1>5. ASSUME Edited(fbdisp, fbdisp', f), IsRec(fbdisp'[f], {"in", "done"})
      PROVE  /\ FeedbackShape' /\ Held' \subseteq (Held \ {own}) \cup {In("fbdisp", f, fbdisp'[f].in)}
             /\ fbdisp'[f].done => Held' \subseteq Held \ {own}
  <2>1. FeedbackShape'
    BY <1>1, <1>3, <1>5 DEF FeedbackShape, Edited
  <2> QED BY <1>1, <1>3, <1>5, <2>1, FbDispHeld
<1>6. IsFun(fbdisp) /\ IsRec(fbdisp[f], {"in", "done"})
  BY <1>1, <1>3 DEF FeedbackShape
<1>7. ASSUME UNCHANGED fbdisp PROVE FeedbackShape' /\ Held' \subseteq Held
  BY <1>1, <1>3, <1>7, ShapesSame, HeldSame DEF fbVars
<1> HIDE DEF own, e
<1>8. CASE DispData(f)
  <2> DEFINE t == IF GoesBack(f, Top(s).ty) THEN BackIn[f] ELSE FbOut[f]
  <2>1. ~fbdisp[f].done /\ todo[e] = << >> /\ chan[s] # << >> /\ ~IsHandover(Top(s)) /\ Take(e, s, <<Write(t, Top(s))>>) /\ UNCHANGED fbdisp
    BY <1>8 DEF DispData, DispReads, Reads, IsHandover, e
  <2> HIDE DEF t
  <2>2. Carry(<<Write(t, Top(s))>>, {})
    BY <2>1, CarryOne, OpEnds
  <2>3. Kept
    BY <1>1, <1>3, <1>4, <1>7, <2>1, <2>2, InPass
  <2> QED BY <1>2, <1>7, <2>1, <2>3
<1>9. CASE DispSort(f)
  <2> DEFINE o == IF Top(s).lvl = 0 THEN Write(BackIn[f], Top(s)) ELSE Write(FbOut[f], Lower(Top(s)))
  <2>1. ~fbdisp[f].done /\ todo[e] = << >> /\ chan[s] # << >> /\ ~IsHandover(Top(s)) /\ Take(e, s, <<o>>) /\ UNCHANGED fbdisp
    BY <1>9 DEF DispSort, DispReads, Reads, IsHandover, e
  <2>2. ~Bears(o)
    BY <2>1, OpEnds DEF Lower
  <2> HIDE DEF o
  <2>3. Carry(<<o>>, {})
    BY <2>2, CarryOne
  <2>4. Kept
    BY <1>1, <1>3, <1>4, <1>7, <2>1, <2>3, InPass
  <2> QED BY <1>2, <1>7, <2>1, <2>4
<1>10. CASE DispTerm(f)
  <2> DEFINE o == Write(BackIn[f], Term)
             p == Write(FbOut[f], Term)
             q == Free(s)
             ops == <<o, p, q>>
  <2>1. ~fbdisp[f].done /\ todo[e] = << >> /\ chan[s] # << >> /\ Take(e, s, ops) /\ fbdisp' = [fbdisp EXCEPT ![f].done = TRUE]
    BY <1>10 DEF DispTerm, DispReads, Reads, e
  <2>2. Carry(ops, {s})
    <3>1. ~Bears(o) /\ ~Bears(p) /\ EndOf(q) = s
      BY OpEnds
    <3> HIDE DEF o, p, q
    <3> QED BY <3>1, CarryThree
  <2>3. Edited(fbdisp, fbdisp', f) /\ IsRec(fbdisp'[f], {"in", "done"}) /\ fbdisp'[f].done
    BY <1>3, <1>6, <2>1 DEF Edited, IsRec, IsFun
  <2> HIDE DEF ops
  <2>4. Kept
    BY <1>1, <1>3, <1>4, <1>5, <2>1, <2>2, <2>3, InQuit
  <2> QED BY <1>2, <1>5, <2>3, <2>4
<1>11. CASE DispSync(f)
  <2>1. ~fbdisp[f].done /\ todo[e] = << >> /\ chan[s] # << >> /\ IsHandover(Top(s)) /\ Take(e, s, <<Free(s)>>)
        /\ fbdisp' = [fbdisp EXCEPT ![f].in = Top(s).s]
    BY <1>11 DEF DispSync, DispReads, Reads, IsHandover, e
  <2>2. Carry(<<Free(s)>>, {s})
    BY CarryOne, OpEnds
  <2>3. Edited(fbdisp, fbdisp', f) /\ IsRec(fbdisp'[f], {"in", "done"}) /\ fbdisp'[f].in = Top(s).s
    BY <1>3, <1>6, <2>1 DEF Edited, IsRec, IsFun
  <2> DEFINE new == In("fbdisp", f, Top(s).s)
  <2>4. new[1] = own[1] /\ new[4] = Top(s).s
    BY <1>3, InFacts
  <2>5. FeedbackShape' /\ Held' \subseteq (Held \ {own}) \cup {new}
    BY <1>5, <2>3
  <2> HIDE DEF new
  <2>6. Kept
    BY <1>1, <1>3, <1>4, <2>1, <2>2, <2>4, <2>5, InReplace
  <2> QED BY <1>2, <2>5, <2>6
<1> QED BY <1>8, <1>9, <1>10, <1>11 DEF FbDispStep, FeedbackDispTask

-----------------------------------------------------------------------------
(* Feedback buffers: the ends in a queue, those that records would add to  *)
(* it, and that of the k-th stream to the collector.                       *)
QOf(f, q) == {<<"queue", f, i, q[i].s>> : i \in {k \in DOMAIN q : IsHandover(q[k])}}
NewQ(f, q, recs) == {<<"queue", f, Len(q) + i, recs[i].s>> : i \in {k \in DOMAIN recs : IsHandover(recs[k])}}
GrownEnd(f, k) == <<"grown", f, k, BackOuts[f][k]>>

(* The queue of one buffer changes.                                        *)
LEMMA QueueStep ==
  ASSUME NEW f \in DOMAIN fbbuf, Edited(fbbuf, fbbuf', f)
  PROVE  /\ QueueEnds' \subseteq (QueueEnds \ QOf(f, fbbuf[f].q)) \cup QOf(f, fbbuf'[f].q)
         /\ QOf(f, fbbuf[f].q) \subseteq QueueEnds
         /\ \A q : \A a \in QOf(f, q) : a[1] = "queue" /\ a[2] = f
<1>1. \A q : \A a \in QOf(f, q) : a[1] = "queue" /\ a[2] = f
  BY DEF QOf
<1>2. QOf(f, fbbuf[f].q) \subseteq QueueEnds
  BY DEF QOf, QueueEnds
<1>3. ASSUME NEW a \in QueueEnds' PROVE (a \in QueueEnds /\ a[2] # f) \/ a \in QOf(f, fbbuf'[f].q)
  <2>1. PICK y \in DOMAIN fbbuf' : \E i \in DOMAIN fbbuf'[y].q : IsHandover(fbbuf'[y].q[i]) /\ a = <<"queue", y, i, fbbuf'[y].q[i].s>>
    BY DEF QueueEnds, IsHandover
  <2>2. CASE y = f
    BY <2>1, <2>2 DEF QOf
  <2>3. CASE y # f
    <3>1. y \in DOMAIN fbbuf /\ fbbuf'[y] = fbbuf[y]
      BY <2>1, <2>3 DEF Edited
    <3> QED BY <2>1, <2>3, <3>1 DEF QueueEnds
  <2> QED BY <2>2, <2>3
<1> QED BY <1>1, <1>2, <1>3

(* The end of the buffer's own instream stays until it ends.               *)
LEMMA BufStep ==
  ASSUME NEW f \in DOMAIN fbbuf, Edited(fbbuf, fbbuf', f)
  PROVE  /\ ~fbbuf[f].done => In("fbbuf", f, BackIn[f]) \in BufEnds /\ BufEnds' \subseteq BufEnds
         /\ fbbuf'[f].done => BufEnds' \subseteq BufEnds \ {In("fbbuf", f, BackIn[f])}
<1>1. ASSUME NEW a \in BufEnds'
      PROVE  \/ a \in BufEnds /\ a[2] # f
             \/ a = In("fbbuf", f, BackIn[f]) /\ ~fbbuf'[f].done
  <2>1. PICK y \in DOMAIN fbbuf' : ~fbbuf'[y].done /\ a = <<"fbbuf", y, "in", BackIn[y]>>
    BY DEF BufEnds
  <2>2. CASE y = f
    BY <2>1, <2>2 DEF In
  <2>3. CASE y # f
    <3>1. y \in DOMAIN fbbuf /\ fbbuf'[y] = fbbuf[y]
      BY <2>1, <2>3 DEF Edited
    <3> QED BY <2>1, <2>3, <3>1 DEF BufEnds
  <2> QED BY <2>2, <2>3
<1>2. In("fbbuf", f, BackIn[f])[2] = f
  BY InFacts
<1>3. ~fbbuf[f].done => In("fbbuf", f, BackIn[f]) \in BufEnds
  BY DEF BufEnds, In
<1> QED BY <1>1, <1>2, <1>3

(* The end of a larger stream is promised until the buffer announces it.   *)
LEMMA GrownStep ==
  ASSUME FeedbackShape, NEW f \in DOMAIN fbbuf, Edited(fbbuf, fbbuf', f)
  PROVE  /\ fbbuf'[f].made = fbbuf[f].made => GrownEnds' \subseteq GrownEnds
         /\ fbbuf'[f].made = fbbuf[f].made + 1 /\ fbbuf[f].made < Len(BackOuts[f]) =>
              /\ GrownEnd(f, fbbuf[f].made + 1) \in GrownEnds
              /\ GrownEnds' \subseteq GrownEnds \ {GrownEnd(f, fbbuf[f].made + 1)}
<1> DEFINE n == fbbuf[f].made
           m == Len(BackOuts[f])
<1>1. n \in Nat /\ m \in Nat
  <2>1. IsSeq(BackOuts[f])
    BY FeedbackAssumption DEF FeedbackShape, IsSeq
  <2> QED BY <2>1, SeqFacts DEF FeedbackShape
<1>2. ASSUME NEW a \in GrownEnds'
      PROVE  \/ a \in GrownEnds /\ a[2] # f
             \/ \E k \in fbbuf'[f].made + 1 .. m : a = GrownEnd(f, k)
  <2>1. PICK y \in DOMAIN fbbuf' : \E k \in fbbuf'[y].made + 1 .. Len(BackOuts[y]) : a = <<"grown", y, k, BackOuts[y][k]>>
    BY DEF GrownEnds
  <2>2. CASE y = f
    BY <2>1, <2>2 DEF GrownEnd
  <2>3. CASE y # f
    <3>1. y \in DOMAIN fbbuf /\ fbbuf'[y] = fbbuf[y]
      BY <2>1, <2>3 DEF Edited
    <3> QED BY <2>1, <2>3, <3>1 DEF GrownEnds
  <2> QED BY <2>2, <2>3
<1>3. ASSUME NEW k \in n + 1 .. m PROVE GrownEnd(f, k) \in GrownEnds
  BY DEF GrownEnds, GrownEnd
<1>4. ASSUME fbbuf'[f].made = fbbuf[f].made PROVE GrownEnds' \subseteq GrownEnds
  BY <1>2, <1>3, <1>4
<1>5. ASSUME fbbuf'[f].made = n + 1, n < m
      PROVE  GrownEnd(f, n + 1) \in GrownEnds /\ GrownEnds' \subseteq GrownEnds \ {GrownEnd(f, n + 1)}
  <2> HIDE DEF n, m
  <2>1. n + 1 \in n + 1 .. m
    BY <1>1, <1>5
  <2>2. ASSUME NEW a \in GrownEnds' PROVE a \in GrownEnds \ {GrownEnd(f, n + 1)}
    <3>1. CASE a \in GrownEnds /\ a[2] # f
      BY <3>1 DEF GrownEnd
    <3>2. CASE \E k \in fbbuf'[f].made + 1 .. m : a = GrownEnd(f, k)
      <4>1. PICK k \in (n + 1) + 1 .. m : a = GrownEnd(f, k)
        BY <1>5, <3>2
      <4>2. k \in n + 1 .. m /\ k # n + 1
        BY <1>1, <4>1
      <4> QED BY <1>3, <4>1, <4>2 DEF GrownEnd
    <3> QED BY <1>2, <3>1, <3>2
  <2> QED BY <1>3, <2>1, <2>2
<1> QED BY <1>4, <1>5

(* What a buffer does to what the entities hold: its queue changes, and it *)
(* gives up the ends in R.                                                 *)
LEMMA FbBufHeld ==
  ASSUME UNCHANGED <<box, coll, par, sync, split, star, filter, fbcoll, fbdisp, src, sink>>, NEW f \in DOMAIN fbbuf,
         Edited(fbbuf, fbbuf', f), NEW R, BufEnds' \subseteq BufEnds \ R, GrownEnds' \subseteq GrownEnds \ R,
         \A a \in R : a[1] = "fbbuf" \/ a[1] = "grown"
  PROVE  /\ Held' \subseteq (Held \ (QOf(f, fbbuf[f].q) \cup R)) \cup QOf(f, fbbuf'[f].q)
         /\ QOf(f, fbbuf[f].q) \subseteq Held
<1>1. QOf(f, fbbuf[f].q) \subseteq QueueEnds
  BY QueueStep
<1> QED BY <1>1, QueueStep, PartsSame, PartKinds DEF Held, Reading

(* Records added to a queue.                                               *)
LEMMA QueueConcat ==
  ASSUME NEW f, NEW q, IsSeq(q), NEW recs, IsSeq(recs)
  PROVE  QOf(f, q \o recs) \subseteq QOf(f, q) \cup NewQ(f, q, recs)
<1> DEFINE c == q \o recs
           m == Len(q)
           n == Len(recs)
<1>1. /\ m \in Nat /\ n \in Nat /\ DOMAIN q = 1..m /\ DOMAIN recs = 1..n /\ DOMAIN c = 1..(m + n)
      /\ \A i \in 1..(m + n) : c[i] = IF i <= m THEN q[i] ELSE recs[i - m]
  BY SeqFacts, ConcatSeq
<1> HIDE DEF c, m, n
<1>2. ASSUME NEW a \in QOf(f, c) PROVE a \in QOf(f, q) \cup {<<"queue", f, m + i, recs[i].s>> : i \in {k \in DOMAIN recs : IsHandover(recs[k])}}
  <2>1. PICK i \in DOMAIN c : IsHandover(c[i]) /\ a = <<"queue", f, i, c[i].s>>
    BY DEF QOf
  <2>2. CASE i <= m
    <3>1. i \in DOMAIN q /\ c[i] = q[i]
      BY <1>1, <2>1, <2>2
    <3> QED BY <2>1, <3>1 DEF QOf
  <2>3. CASE ~(i <= m)
    <3>1. i - m \in DOMAIN recs /\ c[i] = recs[i - m] /\ m + (i - m) = i
      BY <1>1, <2>1, <2>3
    <3> DEFINE j == i - m
    <3>2. j \in DOMAIN recs /\ IsHandover(recs[j]) /\ a = <<"queue", f, m + j, recs[j].s>>
      BY <2>1, <3>1
    <3> HIDE DEF j
    <3> QED BY <3>2
  <2> QED BY <2>2, <2>3
<1> QED BY <1>2 DEF NewQ, c, m

(* The records behind the first.                                           *)
LEMMA QueueTail ==
  ASSUME NEW f, NEW q, IsSeq(q), q # << >>, NEW a \in QOf(f, Tail(q))
  PROVE  \E i \in Nat \ {0} : i + 1 \in DOMAIN q /\ IsHandover(q[i + 1]) /\ a = <<"queue", f, i, q[i + 1].s>>
<1>1. /\ DOMAIN q = 1..Len(q) /\ Len(q) \in Nat
      /\ DOMAIN Tail(q) = 1..(Len(q) - 1) /\ \A i \in DOMAIN Tail(q) : Tail(q)[i] = q[i + 1]
  BY SeqFacts, TailSeq
<1>2. PICK i \in DOMAIN Tail(q) : IsHandover(Tail(q)[i]) /\ a = <<"queue", f, i, Tail(q)[i].s>>
  BY DEF QOf
<1> HIDE DEF QOf
<1>3. i \in Nat \ {0} /\ i + 1 \in DOMAIN q /\ Tail(q)[i] = q[i + 1]
  BY <1>1, <1>2
<1> QED BY <1>2, <1>3

(* A record is taken from the dispatcher and put into the queue, possibly  *)
(* with the announcement of a stream, whose end is in R.                   *)
LEMMA BufPutKept ==
  ASSUME NetShape, EndsInv, FeedbackShape, UNCHANGED <<box, coll, par, sync, split, star, filter, fbcoll, fbdisp, src, sink>>,
         NEW f \in DOMAIN fbbuf, ~fbbuf[f].done, todo[FbBuf[f]] = << >>, chan[BackIn[f]] # << >>,
         NEW recs, IsSeq(recs), NEW n, NEW made \in Nat \ {0}, BufPut(f, recs, n, made),
         NEW R, R \subseteq GrownEnds, Edited(fbbuf, fbbuf', f) /\ fbbuf'[f].made = made => GrownEnds' \subseteq GrownEnds \ R,
         Once(NewQ(f, fbbuf[f].q, recs)), GivenBy(NewQ(f, fbbuf[f].q, recs), R \cup TopEnds(BackIn[f]))
  PROVE  Kept /\ FeedbackShape'
<1> DEFINE e == FbBuf[f]
           s == BackIn[f]
           q == fbbuf[f].q
           N == NewQ(f, q, recs)
           K == Held \ R
           ops == << >>
           X == {}
<1>1. IsFun(fbbuf) /\ IsBuf(fbbuf[f]) /\ IsSeq(q)
  BY DEF FeedbackShape
<1>2. Take(e, s, ops) /\ fbbuf' = [fbbuf EXCEPT ![f].q = @ \o recs, ![f].n = n, ![f].pc = "more", ![f].made = made,
                                               ![f].late = @ \/ Term \in Range(recs)]
  BY DEF BufPut
<1>3. Edited(fbbuf, fbbuf', f) /\ IsBuf(fbbuf'[f]) /\ fbbuf'[f].q = q \o recs /\ fbbuf'[f].made = made
  BY <1>1, <1>2, ZenonT(60) DEF Edited, IsRec, IsBuf, IsFun
<1>4. FeedbackShape'
  <2>1. IsSeq(fbbuf'[f].q)
    BY <1>1, <1>3, ConcatSeq
  <2> QED BY <1>3, <2>1 DEF FeedbackShape, Edited
<1>5. s \in Stream
  <2>1. In("fbbuf", f, s) \in Held /\ In("fbbuf", f, s)[4] = s
    BY <1>3, BufStep, InFacts DEF Held, Reading
  <2> QED BY <2>1, ReadsStream
<1>6. Held' \subseteq K \cup N
  <2>1. /\ BufEnds' \subseteq BufEnds \ R /\ GrownEnds' \subseteq GrownEnds \ R
        /\ \A a \in R : a[1] = "fbbuf" \/ a[1] = "grown"
    BY <1>3, BufStep, PartKinds
  <2>2. Held' \subseteq (Held \ (QOf(f, q) \cup R)) \cup QOf(f, q \o recs) /\ QOf(f, q) \subseteq Held
    BY <1>3, <2>1, FbBufHeld
  <2>3. QOf(f, q \o recs) \subseteq QOf(f, q) \cup N
    BY <1>1, QueueConcat
  <2>4. \A a \in QOf(f, q) : a \notin R
    BY <1>3, <2>1, QueueStep
  <2> QED BY <2>2, <2>3, <2>4
<1>7. K \subseteq Held /\ R \subseteq Held \ K
  BY DEF Held
<1>8. Foreign(N) /\ Once(N)
  BY DEF Foreign, NewQ
<1>9. GivenBy(N, (Held \ K) \cup TopEnds(s))
  BY <1>7 DEF GivenBy
<1>10. Carry(ops, X) /\ X \subseteq {b[4] : b \in (Held \ K) \cup TopEnds(s)} /\ \A a \in N : a[4] \notin X
  BY CarryOne
<1> HIDE DEF e, s, N, K, ops, X
<1>11. todo[e] = << >> /\ chan[s] # << >>
  BY DEF e, s
<1>12. Kept
  BY <1>2, <1>5, <1>6, <1>7, <1>8, <1>9, <1>10, <1>11, TakeOnce
<1> QED BY <1>4, <1>12

(* The head of the queue is written to the stream to the collector.        *)
LEMMA BufWriteKept ==
  ASSUME NetShape, EndsInv, UNCHANGED <<box, coll, par, sync, split, star, filter, fbcoll, fbdisp, src, sink>>,
         NEW f \in DOMAIN fbbuf, Edited(fbbuf, fbbuf', f), BufEnds' \subseteq BufEnds, GrownEnds' \subseteq GrownEnds,
         IsSeq(fbbuf[f].q), fbbuf[f].q # << >>, fbbuf'[f].q = Tail(fbbuf[f].q),
         NEW s, chan' = [chan EXCEPT ![s] = Append(@, Head(fbbuf[f].q))], stat' = Touched(s), todo' = todo
  PROVE  Kept
<1> DEFINE q == fbbuf[f].q
           r == Head(q)
           O == QOf(f, q)
           N == QOf(f, Tail(q))
           K == Held \ O
           P == PutEnds(s, r)
           R == {}
<1>1. Held' \subseteq K \cup N /\ O \subseteq Held /\ K \subseteq Held
  <2>1. /\ BufEnds' \subseteq BufEnds \ R /\ GrownEnds' \subseteq GrownEnds \ R /\ O \cup R = O
        /\ \A a \in R : a[1] = "fbbuf" \/ a[1] = "grown"
    OBVIOUS
  <2> HIDE DEF R
  <2>2. Held' \subseteq (Held \ (O \cup R)) \cup N /\ O \subseteq Held
    BY <2>1, FbBufHeld
  <2> QED BY <2>1, <2>2
<1>2. 1 \in DOMAIN q /\ r = q[1]
  BY SeqFacts
<1>3. ASSUME NEW a \in N
      PROVE  \E i \in Nat \ {0} : i + 1 \in DOMAIN q /\ IsHandover(q[i + 1]) /\ a = <<"queue", f, i, q[i + 1].s>>
  BY QueueTail
<1>4. ASSUME NEW a \in P PROVE IsHandover(q[1]) /\ a[4] = q[1].s /\ P = {a}
  BY <1>2, <1>4 DEF PutEnds
<1> HIDE DEF q, r
<1>5. ASSUME NEW i \in DOMAIN q, NEW j \in DOMAIN q, IsHandover(q[i]), IsHandover(q[j]), q[i].s = q[j].s
      PROVE  i = j
  <2> DEFINE a == <<"queue", f, i, q[i].s>>
             b == <<"queue", f, j, q[j].s>>
  <2>1. a \in O /\ b \in O
    BY <1>5 DEF QOf
  <2>2. a[4] = b[4]
    BY <1>5
  <2>3. a = b
    <3> HIDE DEF a, b
    <3> QED BY <1>1, <2>1, <2>2 DEF EndsInv, Once, Ends
  <2> QED BY <2>3
<1>6. Once(N \cup P)
  <2>1. ASSUME NEW a \in N, NEW b \in N, a[4] = b[4] PROVE a = b
    <3>1. PICK i \in Nat \ {0} : i + 1 \in DOMAIN q /\ IsHandover(q[i + 1]) /\ a = <<"queue", f, i, q[i + 1].s>>
      BY <1>3
    <3>2. PICK j \in Nat \ {0} : j + 1 \in DOMAIN q /\ IsHandover(q[j + 1]) /\ b = <<"queue", f, j, q[j + 1].s>>
      BY <1>3
    <3>3. q[i + 1].s = q[j + 1].s
      BY <2>1, <3>1, <3>2
    <3>4. i + 1 = j + 1
      BY <1>5, <3>1, <3>2, <3>3
    <3>5. i = j
      BY <3>4
    <3> QED BY <3>1, <3>2, <3>5
  <2>2. ASSUME NEW a \in N, NEW b \in P PROVE a[4] # b[4]
    <3>1. PICK i \in Nat \ {0} : i + 1 \in DOMAIN q /\ IsHandover(q[i + 1]) /\ a = <<"queue", f, i, q[i + 1].s>>
      BY <1>3
    <3>2. IsHandover(q[1]) /\ b[4] = q[1].s
      BY <1>4
    <3>3. i + 1 # 1 /\ a[4] = q[i + 1].s
      BY <3>1
    <3> QED BY <1>2, <1>5, <3>1, <3>2, <3>3
  <2>3. ASSUME NEW a \in P, NEW b \in P PROVE a = b
    BY <1>4
  <2> HIDE DEF N, P
  <2> QED BY <2>1, <2>2, <2>3 DEF Once
<1>7. GivenBy(N \cup P, Held \ K)
  <2>1. ASSUME NEW a \in N PROVE \E b \in O : b[4] = a[4]
    <3>1. PICK i \in Nat \ {0} : i + 1 \in DOMAIN q /\ IsHandover(q[i + 1]) /\ a = <<"queue", f, i, q[i + 1].s>>
      BY <1>3
    <3> DEFINE j == i + 1
               b == <<"queue", f, j, q[j].s>>
    <3>2. a[4] = q[j].s
      BY <3>1
    <3>3. j \in DOMAIN q /\ IsHandover(q[j])
      BY <3>1
    <3> HIDE DEF j
    <3>4. b \in O /\ b[4] = q[j].s
      BY <3>3 DEF QOf
    <3> QED BY <3>2, <3>4
  <2>2. ASSUME NEW a \in P PROVE \E b \in O : b[4] = a[4]
    <3> DEFINE b == <<"queue", f, 1, q[1].s>>
    <3>1. b \in O /\ b[4] = q[1].s
      BY <1>2, <1>4 DEF QOf
    <3> QED BY <1>4, <3>1
  <2> HIDE DEF N, P, O
  <2>3. O \subseteq Held \ K
    BY <1>1
  <2> QED BY <2>1, <2>2, <2>3 DEF GivenBy
<1> HIDE DEF N, K
<1>8. chan' = [chan EXCEPT ![s] = Append(@, r)]
  BY DEF r, q
<1> QED BY <1>1, <1>6, <1>7, <1>8, PutOnce

(* Every step of a feedback buffer keeps the invariant.                    *)
LEMMA FbBufInv ==
  ASSUME IInv, NEW f \in DOMAIN fbcoll, FbBufStep(f)
  PROVE  IInv'
<1> DEFINE e == FbBuf[f]
           s == BackIn[f]
           q == fbbuf[f].q
           made == fbbuf[f].made
           bf == In("fbbuf", f, s)
           rest == UNCHANGED <<box, coll, par, sync, split, star, filter, fbcoll, fbdisp, src, sink>>
<1>1. NetShape /\ EndsInv /\ FeedbackShape /\ UNCHANGED <<box, coll, par, sync, split, star, filter, src, sink>>
  BY DEF IInv, Shape, FbBufStep
<1>2. ASSUME Kept, FeedbackShape' PROVE IInv'
  <2>1. CollShape' /\ CollInv' /\ CollectorAccounting'
    BY <1>1, <1>2, CollSame DEF IInv, Shape
  <2>2. BoxShape' /\ FilterShape' /\ SyncShape' /\ SplitShape' /\ StarShape' /\ ParShape' /\ TaskShape'
    BY <1>1, ShapesSame DEF IInv, Shape
  <2> QED BY <1>2, <2>1, <2>2 DEF IInv, Shape, Kept
<1>3. rest /\ bf[4] = s /\ bf[1] = "fbbuf" /\ f \in DOMAIN fbbuf
  BY <1>1, InFacts DEF FbBufStep, FeedbackBufTask, FeedbackShape
<1>4. IsFun(fbbuf) /\ IsBuf(fbbuf[f]) /\ IsSeq(q) /\ made \in Nat \ {0}
  BY <1>1, <1>3 DEF FeedbackShape
<1>5. ASSUME ~fbbuf[f].done PROVE bf \in Held
  BY <1>3, <1>5 DEF Held, Reading, BufEnds, In
<1>6. ASSUME Edited(fbbuf, fbbuf', f), IsBuf(fbbuf'[f]), IsSeq(fbbuf'[f].q), fbbuf'[f].made \in Nat \ {0}
      PROVE  FeedbackShape'
  BY <1>1, <1>3, <1>6 DEF FeedbackShape, Edited
<1>7. ASSUME Edited(fbbuf, fbbuf', f), IsBuf(fbbuf'[f]), fbbuf'[f].q = q, fbbuf'[f].made = made, ~fbbuf[f].done,
             UNCHANGED netVars
      PROVE  IInv'
  <2> DEFINE R == {}
             O == QOf(f, q)
  <2>1. /\ BufEnds' \subseteq BufEnds \ R /\ GrownEnds' \subseteq GrownEnds \ R /\ O \cup R = O
        /\ \A a \in R : a[1] = "fbbuf" \/ a[1] = "grown"
    BY <1>1, <1>3, <1>7, BufStep, GrownStep
  <2> HIDE DEF R
  <2>2. Held' \subseteq (Held \ (O \cup R)) \cup O /\ O \subseteq Held
    BY <1>3, <1>7, <2>1, FbBufHeld
  <2> DEFINE N == {}
             K == Held
  <2>3. Held' \subseteq K \cup N /\ K \subseteq Held
    BY <2>1, <2>2
  <2>4. Once(N) /\ GivenBy(N, Held \ K)
    BY DEF Once, GivenBy
  <2> HIDE DEF N, K
  <2>5. Kept
    BY <1>1, <1>7, <2>3, <2>4, StayOnce
  <2>6. FeedbackShape'
    BY <1>4, <1>6, <1>7
  <2> QED BY <1>2, <2>5, <2>6
<1>8. ASSUME ~fbbuf[f].done, todo[e] = << >>, chan[s] # << >>, NEW n, BufPut(f, <<Top(s)>>, n, made)
      PROVE  IInv'
  <2> DEFINE R == {}
             recs == <<Top(s)>>
             N == NewQ(f, q, recs)
  <2>1. IsSeq(recs) /\ DOMAIN recs = {1} /\ recs[1] = Top(s)
    BY ShortSeq
  <2>2. R \subseteq GrownEnds /\ (Edited(fbbuf, fbbuf', f) /\ fbbuf'[f].made = made => GrownEnds' \subseteq GrownEnds \ R)
    BY <1>1, <1>3, GrownStep
  <2>3. Once(N) /\ GivenBy(N, R \cup TopEnds(s))
    <3> HIDE DEF recs
    <3>1. ASSUME NEW a \in N PROVE IsHandover(Top(s)) /\ a = <<"queue", f, Len(q) + 1, Top(s).s>>
      BY <2>1 DEF NewQ
    <3> HIDE DEF N
    <3>2. ASSUME NEW a \in N PROVE \E b \in TopEnds(s) : b[4] = a[4]
      <4> DEFINE b == <<"chan", s, 1, Top(s).s>>
      <4>1. b \in TopEnds(s) /\ b[4] = Top(s).s /\ a[4] = Top(s).s
        BY <3>1 DEF TopEnds
      <4> QED BY <4>1
    <3> QED BY <3>1, <3>2 DEF Once, GivenBy
  <2> HIDE DEF R, recs
  <2>4. BufPut(f, recs, n, made)
    BY <1>8 DEF recs
  <2>5. Kept /\ FeedbackShape'
    BY <1>1, <1>3, <1>4, <1>8, <2>1, <2>2, <2>3, <2>4, BufPutKept
  <2> QED BY <1>2, <2>5
<1>9. CASE BufRead(f)
  BY <1>8, <1>9 DEF BufRead, BufAt, BufHas
<1>10. CASE BufTerm(f)
  <2>1. ~fbbuf[f].done /\ todo[e] = << >> /\ chan[s] # << >> /\ Take(e, s, <<Free(s)>>) /\ fbbuf' = [fbbuf EXCEPT ![f].done = TRUE]
    BY <1>10 DEF BufTerm, BufAt, BufHas
  <2>2. /\ Edited(fbbuf, fbbuf', f) /\ IsBuf(fbbuf'[f]) /\ fbbuf'[f].q = q /\ fbbuf'[f].made = made
        /\ fbbuf'[f].done
    BY <1>3, <1>4, <2>1 DEF Edited, IsRec, IsBuf, IsFun
  <2>3. FeedbackShape'
    BY <1>4, <1>6, <2>2
  <2> DEFINE R == {bf}
             O == QOf(f, q)
  <2>4. /\ BufEnds' \subseteq BufEnds \ R /\ GrownEnds' \subseteq GrownEnds \ R
        /\ \A a \in R : a[1] = "fbbuf" \/ a[1] = "grown"
    BY <1>1, <1>3, <2>2, BufStep, GrownStep, PartKinds
  <2>5. bf \notin O
    BY <1>3, <2>2, QueueStep
  <2>6. Held' \subseteq Held \ {bf}
    <3> HIDE DEF R
    <3>1. Held' \subseteq (Held \ (O \cup R)) \cup O /\ O \subseteq Held
      BY <1>3, <2>2, <2>4, FbBufHeld
    <3> QED BY <2>5, <3>1 DEF R
  <2>7. Carry(<<Free(s)>>, {s})
    BY CarryOne, OpEnds
  <2> HIDE DEF e, bf
  <2>8. Kept
    BY <1>1, <1>3, <1>5, <2>1, <2>6, <2>7, InQuit
  <2> QED BY <1>2, <2>3, <2>8
<1>11. CASE BufPeek(f)
  <2>1. ~fbbuf[f].done /\ todo[e] = << >>
    BY <1>11 DEF BufPeek, BufAt
  <2>2. CASE BufHas(f) /\ BufPut(f, <<Top(s)>>, 1, made)
    BY <1>8, <2>1, <2>2 DEF BufHas
  <2>3. CASE fbbuf' = [fbbuf EXCEPT ![f].n = 0, ![f].pc = "more"] /\ UNCHANGED netVars
    <3>1. /\ Edited(fbbuf, fbbuf', f) /\ IsBuf(fbbuf'[f]) /\ fbbuf'[f].q = q /\ fbbuf'[f].made = made
      BY <1>3, <1>4, <2>3 DEF Edited, IsRec, IsBuf, IsFun
    <3> QED BY <1>7, <2>1, <2>3, <3>1
  <2> QED BY <1>11, <2>2, <2>3 DEF BufPeek
<1>12. CASE BufMore(f)
  <2> DEFINE r == Top(s)
  <2>1. ~fbbuf[f].done /\ todo[e] = << >> /\ chan[s] # << >>
    BY <1>12 DEF BufMore, BufAt, BufHas
  <2>2. CASE BufPut(f, <<r>>, fbbuf[f].n + 1, made)
    BY <1>8, <2>1, <2>2
  <2>3. CASE made < Len(BackOuts[f]) /\ BufPut(f, Grown(f, r), fbbuf[f].n + 1, made + 1)
    <3> DEFINE k == made + 1
               g == GrownEnd(f, k)
               R == {g}
               recs == Grown(f, r)
               y == Sync(BackOuts[f][k], NULL)
               N == NewQ(f, q, recs)
               l == Len(q)
    <3>1. IsSeq(recs) /\ DOMAIN recs = {1, 2} /\ recs[1] = y /\ recs[2] = r
      <4>1. <<y, r>> \in Seq({y, r}) /\ DOMAIN <<y, r>> = {1, 2} /\ <<y, r>>[1] = y /\ <<y, r>>[2] = r
        OBVIOUS
      <4> QED BY <4>1, SeqIsSeq DEF Grown
    <3>2. k \in Nat \ {0} /\ g[4] = BackOuts[f][k] /\ g[1] = "grown" /\ IsHandover(y) /\ y.s = BackOuts[f][k]
      BY <1>4, OpEnds DEF GrownEnd
    <3>3. ASSUME Edited(fbbuf, fbbuf', f), fbbuf'[f].made = k PROVE GrownEnds' \subseteq GrownEnds \ R
      BY <1>1, <1>3, <2>3, <3>3, GrownStep
    <3>4. g \in GrownEnds
      <4>1. Len(BackOuts[f]) \in Nat
        <5>1. IsSeq(BackOuts[f])
          BY <1>1, <1>3, FeedbackAssumption DEF FeedbackShape, IsSeq
        <5> QED BY <5>1, SeqFacts
      <4>2. k \in made + 1 .. Len(BackOuts[f])
        BY <1>4, <2>3, <4>1
      <4> QED BY <1>3, <4>2 DEF GrownEnds, GrownEnd
    <3> HIDE DEF recs, y, k, g
    <3>5. ASSUME NEW a \in N
          PROVE  a = <<"queue", f, l + 1, g[4]>> \/ (IsHandover(r) /\ a = <<"queue", f, l + 2, r.s>>)
      <4>1. PICK i \in DOMAIN recs : IsHandover(recs[i]) /\ a = <<"queue", f, l + i, recs[i].s>>
        BY DEF NewQ
      <4>2. CASE i = 1
        <5>1. recs[i].s = g[4]
          BY <3>1, <3>2, <4>2
        <5>2. a = <<"queue", f, l + 1, recs[i].s>>
          BY <4>1, <4>2
        <5> QED BY <5>1, <5>2
      <4>3. CASE i = 2
        BY <3>1, <4>1, <4>3
      <4> QED BY <3>1, <4>1, <4>2, <4>3
    <3>6. ASSUME IsHandover(r) PROVE <<"chan", s, 1, r.s>> \in TopEnds(s) /\ g[4] # r.s
      <4>1. s \in Stream /\ g \in Held
        BY <1>3, <1>1, <1>5, <2>1, <3>4, ReadsStream DEF Held
      <4>2. g[4] # r.s /\ TopEnds(s) = {<<"chan", s, 1, r.s>>}
        BY <1>1, <2>1, <3>6, <4>1, TopOther
      <4> QED BY <4>2
    <3> HIDE DEF N, l
    <3>7. Once(N)
      BY <3>5, <3>6 DEF Once
    <3>8. GivenBy(N, R \cup TopEnds(s))
      <4>1. ASSUME NEW a \in N PROVE \E b \in R \cup TopEnds(s) : b[4] = a[4]
        <5>1. CASE a = <<"queue", f, l + 1, g[4]>>
          BY <5>1
        <5>2. CASE IsHandover(r) /\ a = <<"queue", f, l + 2, r.s>>
          <6> DEFINE b == <<"chan", s, 1, r.s>>
          <6>1. b \in TopEnds(s) /\ b[4] = r.s /\ a[4] = r.s
            BY <3>6, <5>2
          <6> HIDE DEF b, R
          <6> QED BY <6>1
        <5> QED BY <3>5, <5>1, <5>2
      <4> HIDE DEF R
      <4> QED BY <4>1 DEF GivenBy
    <3>9. R \subseteq GrownEnds
      BY <3>4
    <3> HIDE DEF R
    <3>10. BufPut(f, recs, fbbuf[f].n + 1, k)
      BY <2>3 DEF recs, k
    <3>11. Kept /\ FeedbackShape'
      BY <1>1, <1>3, <2>1, <3>1, <3>2, <3>3, <3>7, <3>8, <3>9, <3>10, BufPutKept DEF N
    <3> QED BY <1>2, <3>11
  <2> QED BY <1>12, <2>2, <2>3 DEF BufMore
<1>13. CASE BufEnough(f)
  <2>1. ~fbbuf[f].done /\ fbbuf' = [fbbuf EXCEPT ![f].pc = "empty"] /\ UNCHANGED netVars
    BY <1>13 DEF BufEnough, BufAt
  <2>2. /\ Edited(fbbuf, fbbuf', f) /\ IsBuf(fbbuf'[f]) /\ fbbuf'[f].q = q /\ fbbuf'[f].made = made
    BY <1>3, <1>4, <2>1 DEF Edited, IsRec, IsBuf, IsFun
  <2> QED BY <1>7, <2>1, <2>2
<1>14. CASE BufTryWrite(f)
  <2> DEFINE out == fbbuf[f].out
  <2>1. ~fbbuf[f].done
    BY <1>14 DEF BufTryWrite, BufAt
  <2>2. CASE fbbuf' = [fbbuf EXCEPT ![f].pc = "first"] /\ UNCHANGED netVars
    <3>1. /\ Edited(fbbuf, fbbuf', f) /\ IsBuf(fbbuf'[f]) /\ fbbuf'[f].q = q /\ fbbuf'[f].made = made
      BY <1>3, <1>4, <2>2 DEF Edited, IsRec, IsBuf, IsFun
    <3> QED BY <1>7, <2>1, <2>2, <3>1
  <2>3. CASE /\ q # << >> /\ chan' = [chan EXCEPT ![out] = Append(@, Head(q))] /\ stat' = Touched(out) /\ todo' = todo
             /\ fbbuf' = [fbbuf EXCEPT ![f].q = Tail(@), ![f].out = IF Head(q).t = "sync" THEN Head(q).s ELSE @]
    <3>1. /\ Edited(fbbuf, fbbuf', f) /\ IsBuf(fbbuf'[f]) /\ fbbuf'[f].q = Tail(q) /\ fbbuf'[f].made = made
      BY <1>3, <1>4, <2>3 DEF Edited, IsRec, IsBuf, IsFun
    <3>2. BufEnds' \subseteq BufEnds /\ GrownEnds' \subseteq GrownEnds
      BY <1>1, <1>3, <2>1, <3>1, BufStep, GrownStep
    <3>3. FeedbackShape'
      <4>1. IsSeq(Tail(q))
        BY <1>4, <2>3, TailSeq
      <4> QED BY <1>4, <1>6, <3>1, <4>1
    <3> HIDE DEF out
    <3>4. Kept
      BY <1>1, <1>3, <1>4, <2>3, <3>1, <3>2, BufWriteKept
    <3> QED BY <1>2, <3>3, <3>4
  <2> QED BY <1>14, <2>2, <2>3 DEF BufTryWrite
<1> QED BY <1>9, <1>10, <1>11, <1>12, <1>13, <1>14 DEF FbBufStep, FeedbackBufTask
=============================================================================
