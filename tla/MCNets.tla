------------------------------- MODULE MCNets -------------------------------
(***************************************************************************)
(* Small networks for TLC.  A network is a record of tables, one per kind  *)
(* of entity; a row is an entity's name and what the constants of its      *)
(* module say of it.  Every name carries the name of its network.          *)
(***************************************************************************)
EXTENDS StreamNet

Empty(n) ==
  [boxes |-> {}, colls |-> {}, pars |-> {}, syncs |-> {}, splits |-> {}, stars |-> {},
   filters |-> {}, fbs |-> {}, sourced |-> {}, det |-> FALSE,
   in |-> n \o "in", out |-> n \o "out"]

Digit(k) == <<"0", "1", "2", "3", "4">>[k + 1]

-----------------------------------------------------------------------------
(* source -> [synchrocell ->] dispatcher -> branches -> collector -> sink  *)
Accepts(k)  == CASE k = "A" -> {{"a"}} [] k = "B" -> {{"b"}, {"a", "b"}} [] k = "I" -> {}

ParNet(n, layout, isDet, cell) ==
  LET I(k)   == n \o "i" \o Digit(k)
      O(k)   == n \o "o" \o Digit(k)
      branch == DOMAIN layout
      entry  == IF cell THEN n \o "mid" ELSE n \o "in"
  IN  [Empty(n) EXCEPT
         !.det   = isDet,
         !.boxes = {<<n \o "b" \o Digit(k), I(k), O(k), "by number">> : k \in branch},
         !.colls = {<<n \o "coll", {O(k) : k \in branch}, n \o "out", TRUE>>},
         !.pars  = {<<n \o "par", entry, [k \in branch |-> I(k)],
                      [k \in branch |-> Accepts(layout[k])], isDet, {}>>},
         !.syncs = IF cell THEN {<<n \o "sync", n \o "in", n \o "mid", <<{"a"}, {"b"}>> >>}
                   ELSE {}]

(* source -> synchrocell -> split -> up to three replicas of a box ->      *)
(* dynamic collector -> sink                                               *)
SplitNet(n) ==
  LET I(k) == n \o "i" \o Digit(k)
      O(k) == n \o "o" \o Digit(k)
  IN  [Empty(n) EXCEPT
         !.det    = TRUE,
         !.boxes  = {<<n \o "b" \o Digit(k), I(k), O(k), "one">> : k \in 1 .. 3},
         !.colls  = {<<n \o "coll", {n \o "initial"}, n \o "out", FALSE>>},
         !.syncs  = {<<n \o "sync", n \o "in", n \o "mid", <<{"a"}, {"b"}>> >>},
         !.splits = {<<n \o "split", n \o "mid", n \o "initial",
                       [k \in 1 .. 3 |-> I(k)], [k \in 1 .. 3 |-> O(k)], TRUE>>}]

(* source -> star of a box -> sink, with up to two instances of the box.   *)
(* A record's label says how many times it has to pass through the box.    *)
StarNet(n) ==
  LET Nx(k) == n \o "n" \o Digit(k)
      M(k)  == n \o "m" \o Digit(k)
      C(k)  == n \o "c" \o Digit(k)
  IN  [Empty(n) EXCEPT
         !.det     = TRUE,
         !.boxes   = {<<n \o "b" \o Digit(k), Nx(k), M(k), "one">> : k \in 1 .. 2},
         !.colls   = {<<n \o "coll", {C(0)}, n \o "out", FALSE>>},
         !.stars   = {<<n \o "s" \o Digit(k), IF k = 0 THEN n \o "in" ELSE M(k), C(k),
                        Nx(k + 1), C(k + 1), k # 0, TRUE>> : k \in 0 .. 2},
         !.sourced = {Nx(k) : k \in 1 .. 3}]

(* The state-modelling network for which the garbage collection was made:  *)
(*   source -> star -> [ sync -> par ( branch | branch ) -> coll -> star ] *)
(* with several instances.  Both branches are identity filters, which      *)
(* create no entity (FilterIsBypass).  Optionally a third branch is an     *)
(* initialiser box.                                                        *)
StateNet(n, instances, withInit) ==
  LET Nx(k) == n \o "n" \o Digit(k)
      P(k)  == n \o "p" \o Digit(k)
      A(k)  == n \o "a" \o Digit(k)
      B(k)  == n \o "b" \o Digit(k)
      Z(k)  == n \o "z" \o Digit(k)
      Y(k)  == n \o "y" \o Digit(k)
      M(k)  == n \o "m" \o Digit(k)
      C(k)  == n \o "c" \o Digit(k)
      inst  == 1 .. instances
  IN  [Empty(n) EXCEPT
         !.boxes = IF withInit
                   THEN {<<n \o "init" \o Digit(k), Z(k), Y(k), "one">> : k \in inst} ELSE {},
         !.colls = {<<n \o "coll0", {C(0)}, n \o "out", FALSE>>} \cup
                   {<<n \o "coll" \o Digit(k),
                      {A(k), B(k)} \cup (IF withInit THEN {Y(k)} ELSE {}), M(k), TRUE>> :
                      k \in inst},
         !.pars  = {<<n \o "par" \o Digit(k), P(k),
                      <<A(k), B(k)>> \o (IF withInit THEN <<Z(k)>> ELSE << >>),
                      <<{{"a", "b"}}, {{"a"}, {"b"}}>> \o (IF withInit THEN <<{}>> ELSE << >>),
                      FALSE, {Nx(k)}>> : k \in inst},
         !.syncs = {<<n \o "sync" \o Digit(k), Nx(k), P(k), <<{"a"}, {"b"}>> >> : k \in inst},
         !.stars = {<<n \o "star" \o Digit(k), IF k = 0 THEN n \o "in" ELSE M(k), C(k),
                      Nx(k + 1), C(k + 1), k # 0, FALSE>> : k \in 0 .. instances},
         !.sourced = {Nx(k) : k \in 1 .. instances + 1}]

(* source -> nameshift -> feedback of a filter -> sink.  The filter makes  *)
(* two records of one, and the results of the first round go back.         *)
LoopNet(n) ==
  [Empty(n) EXCEPT
     !.det     = TRUE,
     !.filters = {<<n \o "shift", n \o "in", n \o "mid", {"one", "c"}, << >>, << >> >>,
                  <<n \o "filter", n \o "into", n \o "from", {"two", "one"},
                    <<{{"two"}}, {{"two"}, {"one"}, {"one", "c"}}>>,
                    << <<{"one"}, {"one"}>>, <<{}, {}>> >> >>},
     !.fbs     = {<<n \o "fb", n \o "coll", n \o "disp", n \o "buf", n \o "mid", n \o "out",
                    n \o "into", n \o "from", n \o "back",
                    [k \in 1 .. 4 |-> n \o "back" \o Digit(k)]>>}]

-----------------------------------------------------------------------------
AB  == <<"A", "B">>
IA  == <<"I", "A">>
IAB == <<"I", "A", "B">>

Net == [par   |-> ParNet("par_", AB, TRUE, FALSE),   sync  |-> ParNet("sync_", AB, FALSE, TRUE),
        init  |-> ParNet("init_", IA, TRUE, FALSE),  junk  |-> ParNet("junk_", IAB, TRUE, FALSE),
        split |-> SplitNet("split_"),                star  |-> StarNet("star_"),
        loop  |-> LoopNet("loop_"),                  state |-> StateNet("state_", 3, FALSE),
        long  |-> StateNet("long_", 2, FALSE),       short |-> StateNet("short_", 1, TRUE)]

AllNets == DOMAIN Net

(* The constants of StreamNet, from the tables of all networks.            *)
Column(rows, j) == [x \in {r[1] : r \in rows} |-> (CHOOSE r \in rows : r[1] = x)[j]]
Keys(rows)   == {r[1] : r \in rows}

BoxRows    == UNION {Net[n].boxes : n \in Nets}
CollRows   == UNION {Net[n].colls : n \in Nets}
ParRows    == UNION {Net[n].pars : n \in Nets}
SyncRows   == UNION {Net[n].syncs : n \in Nets}
SplitRows  == UNION {Net[n].splits : n \in Nets}
StarRows   == UNION {Net[n].stars : n \in Nets}
FilterRows == UNION {Net[n].filters : n \in Nets}
FbRows     == UNION {Net[n].fbs : n \in Nets}

MCBoxes      == Keys(BoxRows)
MCBoxIn      == Column(BoxRows, 2)
MCBoxOut     == Column(BoxRows, 3)
MCCollectors == Keys(CollRows)
MCCollIns    == Column(CollRows, 2)
MCCollOut    == Column(CollRows, 3)
MCIsStatic   == Column(CollRows, 4)
MCParallels  == Keys(ParRows)
MCParIn      == Column(ParRows, 2)
MCParOuts    == Column(ParRows, 3)
MCVariants   == Column(ParRows, 4)
MCIsDet      == Column(ParRows, 5)
MCPartOf     == Column(ParRows, 6)
MCSyncs      == Keys(SyncRows)
MCSyncIn     == Column(SyncRows, 2)
MCSyncOut    == Column(SyncRows, 3)
MCPatterns   == Column(SyncRows, 4)
MCSplits     == Keys(SplitRows)
MCSplitIn    == Column(SplitRows, 2)
MCSplitInitial == Column(SplitRows, 3)
MCRepIn      == Column(SplitRows, 4)
MCRepOut     == Column(SplitRows, 5)
MCSplitDet   == Column(SplitRows, 6)
MCStars      == Keys(StarRows)
MCStarIn     == Column(StarRows, 2)
MCStarOut    == Column(StarRows, 3)
MCStarNext   == Column(StarRows, 4)
MCStarChildOut == Column(StarRows, 5)
MCIsIncarnate  == Column(StarRows, 6)
MCStarDet    == Column(StarRows, 7)
MCFilters    == Keys(FilterRows)
MCFilterIn   == Column(FilterRows, 2)
MCFilterOut  == Column(FilterRows, 3)
MCInVariant  == Column(FilterRows, 4)
MCGuards     == Column(FilterRows, 5)
MCInstrs     == Column(FilterRows, 6)
MCFeedbacks  == Keys(FbRows)
MCFbColl     == Column(FbRows, 2)
MCFbDisp     == Column(FbRows, 3)
MCFbBuf      == Column(FbRows, 4)
MCFbIn       == Column(FbRows, 5)
MCFbOut      == Column(FbRows, 6)
MCIntoOp     == Column(FbRows, 7)
MCFromOp     == Column(FbRows, 8)
MCBackIn     == Column(FbRows, 9)
MCBackOuts   == Column(FbRows, 10)
MCHasSource  == UNION {Net[n].sourced : n \in AllNets}

MembersOf(w) == {"output"} \cup Keys(w.boxes) \cup Keys(w.colls) \cup Keys(w.pars)
                 \cup Keys(w.syncs) \cup Keys(w.splits) \cup Keys(w.stars) \cup Keys(w.filters)
                 \cup UNION {{r[2], r[3], r[4]} : r \in w.fbs}
LinksOf(w) ==
  {w.in, w.out} \cup w.sourced
    \cup UNION {{r[2], r[3]} : r \in w.boxes \cup w.syncs \cup w.filters}
    \cup UNION {r[2] \cup {r[3]} : r \in w.colls}
    \cup UNION {{r[2]} \cup Range(r[3]) : r \in w.pars}
    \cup UNION {{r[2], r[3]} \cup Range(r[4]) \cup Range(r[5]) : r \in w.splits}
    \cup UNION {{r[j] : j \in 2 .. 5} : r \in w.stars}
    \cup UNION {{r[j] : j \in 5 .. 9} \cup Range(r[10]) : r \in w.fbs}

MCMembers == [n \in AllNets |-> MembersOf(Net[n])]
MCLinks   == [n \in AllNets |-> LinksOf(Net[n])]
MCNetIn   == [n \in AllNets |-> Net[n].in]
MCNetOut  == [n \in AllNets |-> Net[n].out]
MCDetNets == {n \in AllNets : Net[n].det}

\* of the boxes "by number" the second record yields no result, the third two
ByNumber == {r[1] : r \in {b \in BoxRows : b[4] = "by number"}}
Results(i) == CASE i = 2 -> 0 [] i = 3 -> 2 [] OTHER -> 1
MCEmits(b, i) == IF b \in ByNumber THEN Results(i) ELSE 1
MCBoxFun(b, ty) == CASE ty = {"twice"} -> {"once"} [] ty = {"once"} -> {"never"} [] OTHER -> ty
MCExits(x, ty)  == ty = {"never"} \/ {"a", "b"} \subseteq ty
\* a: 0..0, b: 1..1, merged ab: 0..1, {}: the empty interval 1..0
MCLTag(x, ty) == IF "a" \in ty THEN 0 ELSE 1
MCUTag(x, ty) == IF "b" \in ty THEN 1 ELSE 0
MCShift(l)    == IF l = "x" THEN "two" ELSE l
MCGoesBack(f, ty) == "one" \in ty

\* an uninitialised match counter that happens to say "no match", or any
NoMatch == {-1}
AnyJunk == -1 .. 2

-----------------------------------------------------------------------------
MCInputs ==
  [par   |-> {Input(ty, {1, 3}) : ty \in [1 .. 3 -> {{"a"}, {"b"}}]}
             \cup {Input(<<{"b"}, {"a"}, {"b"}>>, {}), Input(<<{"a"}>>, {1})},
   sync  |-> {Input(ty, bars) : ty \in [1 .. 3 -> {{"a"}, {"b"}}], bars \in {{}, {1}, {2, 3}}},
   init  |-> {Input(<<{"a"}, {"a"}, {"a"}>>, bars) : bars \in SUBSET {1, 2, 3}},
   junk  |-> {Input(<<ty>>, {}) : ty \in {{"a"}, {"b"}}},
   split |-> {Input(<<{"a"}, {"b"}, ty>>, {}) : ty \in {{"a"}, {"b"}}}
             \cup {Input(<<{"a"}, {"b"}, {}>>, {2, 3}), Input(<<{"a"}, {"a"}, {"b"}>>, {2})},
   star  |-> {Input(<<{"twice"}, ty, {"once"}>>, {1, 3}) : ty \in {{"never"}, {"once"}}},
   loop  |-> {Input(<<{"x"}, {"one", "c"}>>, {}), Input(<<{"one", "c"}, {"x"}>>, {1})},
   state |-> {Input(<<{"a"}, {"b"}, {"a"}>>, {2}), Input(<<{"a"}, {"b"}, {"a", "b"}>>, {2}),
              Input(<<{"b"}, {"a"}>>, {1})},
   \* a record for the second instance before the first dissolves, or four
   \* records and a sort record, then the input pauses
   long  |-> {Front(Input(<<{"a"}, {"a"}, {"b"}>>, {})), Front(Input(<<{"a"}, {"b"}, {"a"}, {"a"}>>, {4}))},
   short |-> {Input(<<{"a"}, {"b"}>>, {})}]

\* a synchrocell keeps the first record of each type, and the later one of
\* the two stands for both
FirstOf(types, ty) == {i \in DOMAIN types : types[i] = ty /\ \A j \in 1 .. i - 1 : types[j] # ty}
Kept(types) == FirstOf(types, {"a"}) \cup FirstOf(types, {"b"})
Merges(types, i) == Cardinality(Kept(types)) = 2 /\ i = Max(Kept(types))

\* in the state network the k-th a and the k-th b meet in instance k and the
\* later one counts; a record with both labels leaves at once
Rank(types, i) == Cardinality({j \in 1 .. i : types[j] = types[i]})
Meets(types, i) == \/ types[i] = {"a", "b"}
                   \/ \E j \in 1 .. i - 1 : /\ {types[i], types[j]} = {{"a"}, {"b"}}
                                            /\ Rank(types, j) = Rank(types, i)

MCExpected(n, in, i) ==
  LET types == InputTypes(in)
  IN  CASE i = 0 -> IF n \in {"init", "junk", "short"} THEN 1 ELSE 0
        [] i > Len(types) -> 0
        [] i \in DOMAIN types /\ n \in {"par", "init", "junk"} -> Results(i)
        [] i \in DOMAIN types /\ n = "sync" ->
             IF i \in Kept(types) => Merges(types, i) THEN Results(i) ELSE 0
        [] i \in DOMAIN types /\ n = "split" ->
             CASE i \in Kept(types) -> IF Merges(types, i) THEN 2 ELSE 0
               [] OTHER -> IF types[i] = {} THEN 0 ELSE 1
        [] i \in DOMAIN types /\ n = "star" -> 1
        [] i \in DOMAIN types /\ n = "loop" -> IF types[i] = {"x"} THEN 4 ELSE 2
        [] i \in DOMAIN types /\ n \in {"state", "long", "short"} ->
             IF Meets(types, i) THEN 1 ELSE 0
=============================================================================
