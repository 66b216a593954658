------------------------------ MODULE BuildNet ------------------------------
(***************************************************************************)
(* A network that grows while it runs, on several nodes: the root builds   *)
(* it, stars and splits create replicas, and a record that arrives for an  *)
(* unknown destination makes its node build the replica it belongs to.     *)
(* ref is the same network grown alike on one node without distribution.   *)
(***************************************************************************)
EXTENDS Build

CONSTANTS Node,      \* the nodes; a node is its number, as a location is
          Nets,      \* the networks
          Tags,      \* the index values that reach a split
          MaxDepth   \* bound: the replicas of a star

VARIABLES net, site, ref, grown, arrived

vars == <<net, site, ref, grown, arrived>>

-----------------------------------------------------------------------------
(* What stands on a node: entities, the streams its collectors were told   *)
(* of, the destinations of its managers.  A destination that is registered *)
(* again replaces the stream (SNetDestStreamMapSet in UpdateIncoming).     *)
EmptySite == [here |-> {}, told |-> {}, outs |-> {}, ins |-> << >>, ok |-> TRUE]

UpdateIncoming(map, tuples) ==
  FoldLeft(LAMBDA m, t : [k \in DOMAIN m \cup {t.key} |-> IF k = t.key THEN t.s ELSE m[k]],
           map, tuples)

With(s, b) ==
  [s EXCEPT !.here = @ \cup b.here, !.outs = @ \cup b.outs, !.ok = @ /\ b.ok,
            !.ins = UpdateIncoming(@, b.ins)]

\* A REC_collect names the stream b.in to the collector at position at.
Told(s, b, at) == [With(s, b) EXCEPT !.told = @ \cup {[s |-> b.in, at |-> at]}]

Init ==
  /\ net \in Nets
  /\ site = [n \in Node |-> IF n = Root THEN With(EmptySite, SNetInRun(net, Root)) ELSE EmptySite]
  /\ ref = With(EmptySite, SNetInRun(net, AnyNode))
  /\ grown = {}
  /\ arrived = {}

-----------------------------------------------------------------------------
(* Growth.  The entity of ref at the same position does the same.          *)
Twins(e) == {r \in ref.here : r.kind = e.kind /\ r.at = e.at}

CollectorOf(e) == IF e.kind = "star" THEN [e.at EXCEPT ![Len(e.at)].num = -1] ELSE e.at

GrowStar(n, e) ==
  /\ e.kind = "star"
  /\ SNetLocvecTopval(e.lv) + 1 < MaxDepth
  /\ site' = [site EXCEPT ![n] = Told(@, StarSpawn(e, n), CollectorOf(e))]
  /\ \E r \in Twins(e) : ref' = Told(ref, StarSpawn(r, AnyNode), CollectorOf(r))
  /\ grown' = grown \cup {<<e.at, 0>>}

GrowSplit(n, e, i) ==
  /\ e.kind = "split"
  /\ site' = [site EXCEPT ![n] =
                LET b == SplitSpawn(e, n, i)
                IN  IF b.in # NULL THEN Told(@, b, CollectorOf(e)) ELSE With(@, b)]
  /\ \E r \in Twins(e) : ref' = Told(ref, SplitSpawn(r, AnyNode, i), CollectorOf(r))
  /\ grown' = grown \cup {<<e.at, i>>}

Grow ==
  /\ \E n \in Node : \E e \in site[n].here :
       \/ <<e.at, 0>> \notin grown /\ GrowStar(n, e)
       \/ \E i \in Tags : <<e.at, i>> \notin grown /\ GrowSplit(n, e, i)
  /\ UNCHANGED <<net, arrived>>

(* The first record on the stream of destination o from node n: HandleRecord *)
(* of the input manager at the other end.                                  *)
HandleRecord(n, o) ==
  LET m == o.dest.node
      dest == [o.dest EXCEPT !.node = n]
      key == DestKey(dest)
      s == IF key \in DOMAIN site[m].ins THEN site[m]
           ELSE With(site[m], SNetRouteNewDynamic(net, m, dest, o.inst))
  IN  site' = [site EXCEPT ![m] = [s EXCEPT !.ok = @ /\ key \in DOMAIN s.ins]]

Arrive ==
  /\ \E n \in Node : \E o \in site[n].outs :
       /\ <<n, o>> \notin arrived
       /\ HandleRecord(n, o)
       /\ arrived' = arrived \cup {<<n, o>>}
  /\ UNCHANGED <<net, ref, grown>>

Next == Grow \/ Arrive

Spec == Init /\ [][Next]_vars

-----------------------------------------------------------------------------
(* The network as its edges: a stream and the entity that reads it, where  *)
(* a stream from an input manager is the one the sender handed over.       *)
Readers(s) ==
  UNION {{<<x, e.kind, e.at>> : x \in e.ins} : e \in s.here}
    \cup {<<t.s, "collect", t.at>> : t \in s.told}

Sources(n, x) ==
  IF x.by # "manager" THEN {x}
  ELSE {o.s : o \in UNION {{q \in site[src].outs :
                 /\ q.dest.node = n
                 /\ LET key == DestKey([q.dest EXCEPT !.node = src])
                    IN  key \in DOMAIN site[n].ins /\ site[n].ins[key] = x} : src \in Node}}

Edges == UNION {UNION {{<<s, w[2], w[3]>> : s \in Sources(n, w[1])} : w \in Readers(site[n])} : n \in Node}

AllArrived == \A n \in Node : \A o \in site[n].outs : <<n, o>> \in arrived

(* No assertion of the creation functions fails, no entity or manager is   *)
(* given a NULL stream, and the destination of a record that arrives is    *)
(* known or can be built (locvec.c, star.c:82 and :251, map-template.c).   *)
NoCheckFails == ref.ok /\ \A n \in Node : site[n].ok

(* Placement changes nothing: every stream of the distributed network,     *)
(* followed through the managers, connects the entities it connects when   *)
(* one node builds everything; once every destination has been used no     *)
(* connection is missing; and no two entities of a kind share a location   *)
(* vector (SNetRouteUpdate, SNetRouteNewDynamic, locvec.c).                *)
SameNetwork ==
  /\ NoCheckFails
  /\ Edges \subseteq Readers(ref)
  /\ AllArrived => Edges = Readers(ref)
  /\ \A e \in ref.here : Twins(e) = {e}
=============================================================================
