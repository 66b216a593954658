-------------------------------- MODULE Box --------------------------------
(* The box entity: a function of one record that writes any number of      *)
(* records; control records pass through it.                               *)
EXTENDS Network

CONSTANTS Boxes, BoxIn, BoxOut,  \* the boxes and their streams
          Emits(_, _),             \* how many records the box function writes
          BoxFun(_, _)             \* what it makes of a record's type

VARIABLE box                     \* box[b] = its instream, and whether it ended

BoxInit(ents) == box = [b \in Boxes \cap ents |-> [in |-> BoxIn[b], done |-> FALSE]]

BoxReads(b, kinds) == ~box[b].done /\ Reads(b, box[b].in, kinds)

(* Data, or the trigger of an initialiser box, runs the box function; its  *)
(* results carry the number of the record they were computed from.         *)
BoxData(b) ==
  /\ BoxReads(b, {"data", "trigger"})
  /\ LET r   == Top(box[b].in)
         res == IF r.t = "data" THEN Data(r.id, BoxFun(b, r.ty)) ELSE Data(0, {})
     IN  /\ Emits(b, res.id) \in Nat   \* the box function returns
         /\ Take(b, box[b].in, [i \in 1 .. Emits(b, res.id) |-> Write(BoxOut[b], res)])
  /\ UNCHANGED box

BoxSync(b) ==
  /\ BoxReads(b, {"sync"})
  /\ Take(b, box[b].in, <<Free(box[b].in)>>)
  /\ box' = [box EXCEPT ![b].in = Top(box[b].in).s]

BoxSort(b) ==
  /\ BoxReads(b, {"sort"})
  /\ Take(b, box[b].in, <<Write(BoxOut[b], Top(box[b].in))>>)
  /\ UNCHANGED box

BoxTerm(b) ==
  /\ BoxReads(b, {"term"})
  /\ Take(b, box[b].in, <<Write(BoxOut[b], Term), Free(box[b].in)>>)
  /\ box' = [box EXCEPT ![b].done = TRUE]

BoxTask(b) == BoxData(b) \/ BoxSync(b) \/ BoxSort(b) \/ BoxTerm(b)

-----------------------------------------------------------------------------
(* The filter entity: the first guard that holds selects the lists of      *)
(* instructions, and each list makes one record.  And the nameshift        *)
(* entity, which renames labels.                                           *)

CONSTANTS Filters, FilterIn, FilterOut,
          InVariant,   \* InVariant[f]: the labels that are not inherited, for a
                       \* nameshift those left untouched
          Guards,      \* Guards[f][i] = the types for which guard i holds;
                       \* none for a nameshift
          Instrs,      \* Instrs[f][i] = a sequence of the label sets that the
                       \* instruction lists of guard i create
          Shift(_)     \* a label as a nameshift renames it

ASSUME FilterAssumption ==
  \A f \in Filters : \A i \in DOMAIN Guards[f] : Instrs[f][i] \in Seq(Range(Instrs[f][i]))

VARIABLE filter        \* filter[f] = its instream, and whether it ended

FilterInit(ents) ==
  filter = [f \in Filters \cap ents |-> [in |-> FilterIn[f], done |-> FALSE]]

FilterReads(f, kinds) == ~filter[f].done /\ Reads(f, filter[f].in, kinds)

IsNameshift(f) == Guards[f] = << >>

(* Guard i is the first that holds for a record with these labels.         *)
IsChosen(f, i, labels) == /\ labels \in Guards[f][i]
                          /\ \A j \in 1 .. i - 1 : labels \notin Guards[f][j]

(* What the instruction lists of guard i make of a record: its new labels  *)
(* and, by SNetRecFlowInherit, those the input variant does not name.      *)
FilterOuts(f, i, r) ==
  [k \in DOMAIN Instrs[f][i] |->
     Write(FilterOut[f], Data(r.id, Instrs[f][i][k] \cup (r.ty \ InVariant[f])))]

(* If no guard holds, assert(done) ends the program: there is no step.     *)
FilterData(f) ==
  /\ FilterReads(f, {"data"})
  /\ \E i \in DOMAIN Guards[f] :
       /\ IsChosen(f, i, Top(filter[f].in).ty)
       /\ Take(f, filter[f].in, FilterOuts(f, i, Top(filter[f].in)))
  /\ UNCHANGED filter

NameshiftData(f) ==
  /\ FilterReads(f, {"data"})
  /\ IsNameshift(f)
  /\ LET r == Top(filter[f].in)
     IN  Take(f, filter[f].in,
              <<Write(FilterOut[f], Data(r.id, {IF l \in InVariant[f] THEN l ELSE Shift(l) :
                                                  l \in r.ty}))>>)
  /\ UNCHANGED filter

FilterSync(f) ==
  /\ FilterReads(f, {"sync"})
  /\ Take(f, filter[f].in, <<Free(filter[f].in)>>)
  /\ filter' = [filter EXCEPT ![f].in = Top(filter[f].in).s]

FilterSort(f) ==
  /\ FilterReads(f, {"sort"})
  /\ Take(f, filter[f].in, <<Write(FilterOut[f], Top(filter[f].in))>>)
  /\ UNCHANGED filter

FilterTerm(f) ==
  /\ FilterReads(f, {"term"})
  /\ Take(f, filter[f].in, <<Write(FilterOut[f], Term), Free(filter[f].in)>>)
  /\ filter' = [filter EXCEPT ![f].done = TRUE]

FilterTask(f) == \/ FilterData(f) \/ NameshiftData(f)
                 \/ FilterSync(f) \/ FilterSort(f) \/ FilterTerm(f)

=============================================================================
