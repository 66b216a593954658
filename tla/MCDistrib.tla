----------------------------- MODULE MCDistrib -----------------------------
(***************************************************************************)
(* Instances of Distrib: node 0 is the root.                               *)
(***************************************************************************)
EXTENDS Distrib

Use == {"copy", "destroy", "get"}

(* A network that is there from the start, with streams of capacity 1 and  *)
(* a synchrocell that leaves; one that is unfolded while the managers run; *)
(* boxes that use the data of one record and its copy that go on to the    *)
(* owner, and of two records with data at one address; and two readers who *)
(* may share a fetch.                                                      *)
PassPlans ==
  {[path |-> <<0, 1, 0>>, static |-> {0, 1}, cap |-> 1, records |-> 2, keys |-> {"k", "l"}, sync |-> 1, ops |-> {}, twice |-> FALSE, readers |-> 1],
   [path |-> <<0, 1, 0>>, static |-> {}, cap |-> 1, records |-> 1, keys |-> {"k"}, sync |-> 0, ops |-> {}, twice |-> FALSE, readers |-> 1],
   [path |-> <<0, 1, 0>>, static |-> {0, 1}, cap |-> 3, records |-> 1, keys |-> {"k"}, sync |-> 0, ops |-> Use, twice |-> TRUE, readers |-> 1],
   [path |-> <<0, 1>>, static |-> {0, 1}, cap |-> 3, records |-> 2, keys |-> {"k"}, sync |-> 0, ops |-> Use, twice |-> FALSE, readers |-> 1],
   [path |-> <<0, 1>>, static |-> {0, 1}, cap |-> 3, records |-> 1, keys |-> {"k"}, sync |-> 0, ops |-> Use, twice |-> TRUE, readers |-> 2]}

(* A network unfolded while the managers run, with two records.            *)
BlockPlans ==
  {[path |-> <<0, 1, 0>>, static |-> {}, cap |-> 1, records |-> 2, keys |-> {"k", "l"}, sync |-> 0, ops |-> {}, twice |-> FALSE, readers |-> 1]}

Nodes == {0, 1}
OwnerOf == [k \in {"k", "l"} |-> 0]
=============================================================================
