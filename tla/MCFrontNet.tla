----------------------------- MODULE MCFrontNet -----------------------------
(* Small networks for the Front runtime: deterministic and                 *)
(* nondeterministic compositions of boxes that multiply or swallow         *)
(* records, concurrent boxes, synchrocells in stars, initialisers.         *)
EXTENDS FrontNet

Vals == {"a", "b", "c"}
Fun(a, b, c) == [v \in Vals |-> CASE v = "a" -> a [] v = "b" -> b [] v = "c" -> c]
Id == Fun(<<"a">>, <<"b">>, <<"c">>)

Box(f) == [op |-> "box", fun |-> f, conc |-> 1, det |-> FALSE, first |-> "c"]
ConcBox(f, n, d) == [Box(f) EXCEPT !.conc = n, !.det = d]
Rename(f) == [op |-> "nameshift", fun |-> f]
Filter(f) == [op |-> "filter", fun |-> f]
SyncCell(pats, m) == [op |-> "sync", pats |-> pats, merged |-> m]
Ser(subs) == [op |-> "ser", subs |-> subs]
Par(d, subs, m, i, late) ==
    [op |-> "par", det |-> d, subs |-> subs, match |-> m, init |-> i, late |-> late]
Split(d, sub, tags) == [op |-> "split", det |-> d, sub |-> sub, tags |-> tags]
Star(d, sub, exit) == [op |-> "star", det |-> d, sub |-> sub, exit |-> exit]
Feedback(d, sub, back) == [op |-> "feedback", det |-> d, sub |-> sub, back |-> back]
Case(net, in, out, ordered) ==
    [net |-> net, in |-> in, first |-> <<>>, out |-> out, ordered |-> ordered]
InitCase(c) == [c EXCEPT !.first = <<"c">>]

Dup == Fun(<<"a", "a">>, <<"b">>, <<"c">>)
Drop == Fun(<<"a">>, <<>>, <<"c">>)
Swap == [v \in Vals |-> IF v = "a" THEN "b" ELSE v]
ByValue == <<Fun(1, 0, 0), Fun(0, 1, -1)>>

Tags == Fun(<<1, 1>>, <<2, 2>>, <<1, 2>>)
Pair == SyncCell(<<{"a"}, {"b"}>>, "c")

ParDet == Case(Par(TRUE, <<Ser(<<Box(Dup), Rename(Swap)>>), Box(Drop)>>, ByValue, {}, {1, 2}),
               <<"a", "b", "a">>, <<<<"b", "b">>, <<>>, <<"b", "b">>>>, TRUE)
\* A nondeterministic split inside a deterministic parallel composition.
Nested == Case(Par(TRUE, <<Split(FALSE, Filter(Drop), Tags), Filter(Id)>>,
                   <<Fun(1, 1, 1), Fun(0, 0, 0)>>, {}, {1, 2}),
               <<"b", "a">>, <<<<>>, <<"a">>>>, TRUE)
SplitNon == Case(Split(FALSE, Box(Dup), Tags), <<"a", "c", "b">>,
                 <<<<"a", "a">>, <<"c", "c">>, <<"b">>>>, FALSE)
SplitDet == Case(Split(TRUE, Filter(Drop), Tags), <<"c", "b">>, <<<<"c", "c">>, <<>>>>, TRUE)
\* Stars of synchrocells: incarnations dissolve and hand on their role.
StarOf(d) == Case(Star(d, Pair, {"c"}), <<"a", "b", "a", "b">>,
                  <<<<>>, <<"c">>, <<>>, <<"c">>>>, d)
StarBox == Case(Star(TRUE, Box(Fun(<<"b">>, <<"c", "c">>, <<"c">>)), {"c"}),
                <<"a", "c">>, <<<<"c", "c">>, <<"c">>>>, TRUE)
\* The synchrocell tells the dispatcher behind it that only branch 1 stays.
SyncPar == Case(Star(FALSE, Ser(<<Pair, Par(FALSE, <<Box(Id), Filter(Id)>>, ByValue, {}, {1})>>), {"c"}),
                <<"a", "b">>, <<<<>>, <<"c">>>>, FALSE)
Conc(d) == Case(ConcBox(Dup, 2, d), <<"a", "b", "c">>, <<<<"a", "a">>, <<"b">>, <<"c">>>>, d)
ParInit == InitCase(Case(Par(FALSE, <<Box(Id), Box(Id), Filter(Id)>>,
                             <<Fun(0, 0, 0), Fun(1, 0, 1), Fun(0, 1, 0)>>, {1}, {2, 3}),
                         <<"a", "b">>, <<<<"a">>, <<"b">>>>, FALSE))
ParInit1 == InitCase(Case(Par(FALSE, <<Box(Id), Box(Id)>>, <<Fun(0, 0, 0), Fun(1, 0, 1)>>, {1}, {2}),
                          <<"a", "b">>, <<<<"a">>, <<"b">>>>, FALSE))
ParInitDet == InitCase(Case(Par(TRUE, <<Box(Id), Box(Id), Filter(Id)>>,
                                <<Fun(0, 0, 0), Fun(1, 0, 1), Fun(0, 1, 0)>>, {1}, {2, 3}),
                            <<"b">>, <<<<"b">>>>, FALSE))
\* The initialiser is a deterministic concurrent box.
InitConc == InitCase(Case(Par(FALSE, <<ConcBox(Id, 2, TRUE), Box(Id), Filter(Id)>>,
                              <<Fun(0, 0, 0), Fun(1, 0, 1), Fun(0, 1, 0)>>, {1}, {2, 3}),
                          <<"a", "b">>, <<<<"a">>, <<"b">>>>, FALSE))

\* Feedback, and its deterministic form, of boxes that multiply or swallow.
Fb == Case(Feedback(FALSE, Box(Fun(<<"b">>, <<"c", "c">>, <<"c">>)), {"a", "b"}),
           <<"a", "b">>, <<<<"c", "c">>, <<"c", "c">>>>, FALSE)
FbDrop == Case(Feedback(FALSE, Box(Fun(<<"b", "c">>, <<>>, <<"c">>)), {"a", "b"}),
               <<"a", "c">>, <<<<"c">>, <<"c">>>>, FALSE)
Drip == Case(Feedback(TRUE, Box(Fun(<<"b">>, <<"c", "c">>, <<"c">>)), {"a", "b"}),
             <<"a", "b", "c">>, <<<<"c", "c">>, <<"c", "c">>, <<"c">>>>, TRUE)
DripDrop == Case(Feedback(TRUE, Box(Fun(<<"b", "c">>, <<>>, <<"c">>)), {"a", "b"}),
                 <<"a", "c", "a">>, <<<<"c">>, <<"c">>, <<"c">>>>, TRUE)
\* The loop is never entered.
DripPast == Case(Feedback(TRUE, Box(Id), {"b"}), <<"a", "c">>, <<<<"a">>, <<"c">>>>, TRUE)

MCNets == {ParDet, Nested, SplitNon, SplitDet, StarOf(TRUE), StarOf(FALSE), StarBox, SyncPar,
           Conc(TRUE), Conc(FALSE), ParInit, ParInit1, ParInitDet, InitConc,
           Fb, FbDrop, Drip, DripDrop, DripPast}

\* A concurrent box reorders the records of a deterministic network.
ConcInDet == Case(Par(TRUE, <<Ser(<<ConcBox(Id, 2, FALSE),
                                    Par(FALSE, <<Filter(Id), Filter(Id)>>, ByValue, {}, {1, 2})>>),
                              Box(Id)>>, <<Fun(1, 1, 0), Fun(0, 0, 1)>>, {}, {1, 2}),
                  <<"a", "b">>, <<<<"a">>, <<"b">>>>, TRUE)
MCConcInDet == {ConcInDet}
=============================================================================
