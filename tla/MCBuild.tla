------------------------------ MODULE MCBuild -------------------------------
(***************************************************************************)
(* Networks for the construction.  BuildNets are placed on two nodes; every *)
(* combinator occurs inside and around every other one that the code       *)
(* supports there.  NestedStars is a star whose operand is a star.         *)
(***************************************************************************)
EXTENDS BuildNet

Box == [op |-> "box"]
Sync == [op |-> "sync"]
NameShift == [op |-> "nameshift"]
Filter(bypass) == [op |-> "filter", bypass |-> bypass]
On(n, a) == [op |-> "alias", a |-> a, loc |-> n]
Serial(a, b) == [op |-> "serial", a |-> a, b |-> b]
Par(a, b) == [op |-> "parallel", branches |-> <<a, b>>]
Star(id, a) == [op |-> "star", id |-> id, a |-> a]
Split(id, a) == [op |-> "split", id |-> id, a |-> a, byloc |-> FALSE]
LocSplit(id, a) == [op |-> "split", id |-> id, a |-> a, byloc |-> TRUE]
Loop(a) == [op |-> "feedback", a |-> a]

There == On(1, Box)

BuildNets == {
  Serial(Serial(Box, Filter(TRUE)), Star(1, Serial(Serial(There, Filter(FALSE)), Sync))),
  Serial(Star(1, Par(There, Serial(Box, There))), Split(2, Loop(Serial(There, Box)))),
  Par(Split(1, Par(There, On(1, Par(Box, Serial(Box, Box))))), Loop(Serial(Box, LocSplit(2, Box)))),
  Split(1, Serial(Split(2, NameShift), Star(3, Par(Box, Box)))),
  LocSplit(1, Serial(Sync, On(1, Par(Box, Loop(Box))))),
  Star(1, Serial(On(1, Star(2, Par(Box, Box))), Serial(Box, Serial(There, Box)))) }

NestedStars == {Serial(Box, Star(1, Star(2, Box)))}
=============================================================================
