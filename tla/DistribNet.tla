---------------------------- MODULE DistribNet ----------------------------
(***************************************************************************)
(* What the parts of the distribution layer share: references to data, the *)
(* messages between nodes and the routing of streams to managers.          *)
(***************************************************************************)
EXTENDS Integers, Sequences, FiniteSets

(***************************************************************************)
(* Reference counts for data that stays on the node that made it           *)
(* (distrib/common/reference.c).  A record that travels carries a          *)
(* reference [key, id]: the address of the datum on its owner, and, only   *)
(* in the model, which datum it was when the record was made, because an   *)
(* address is used again after a free.  The owner's localRefMap counts the *)
(* references abroad; a remoteRefMap has per address the references on     *)
(* that node, the fetched datum once there is one and the readers that     *)
(* wait for it.                                                            *)
(***************************************************************************)

CONSTANTS Node, Key, Owner

(* An entry of a remoteRefMap; count 0 stands for no entry, data 0 for a   *)
(* datum that has not been fetched.                                        *)
NoEntry == [count |-> 0, data |-> 0, list |-> << >>]

(* Both maps, the box language's own count of users of each datum, the     *)
(* datum now at each address, which checks failed or lookups found         *)
(* nothing, and the history of references that were given up without word  *)
(* to the owner.                                                           *)
SNetReferenceInit ==
  [local |-> [k \in Key |-> 0], remote |-> [n \in Node |-> [k \in Key |-> NoEntry]],
   users |-> [k \in Key |-> 0], id |-> [k \in Key |-> 0], wrong |-> {},
   untold |-> [k \in Key |-> 0]]

(* The owner's datum gains or loses a user (COPYFUN, FREEFUN).             *)
Users(R, k, by) == [R EXCEPT !.users[k] = @ + by]
Missing(R, what) == [R EXCEPT !.wrong = @ \cup {what}]

IsLocal(n, r) == Owner[r.key] = n

(* A new datum at a free address.                                          *)
SNetRefCreate(R, k, id) == [R EXCEPT !.users[k] = 1, !.id[k] = id]

Entry(R, n, r) == R.remote[n][r.key]

(* One remote reference less; the entry and a cached datum go with the     *)
(* last one.                                                               *)
OneLess(R, n, r) ==
  LET e == Entry(R, n, r) IN
  IF e.count = 0 THEN Missing(R, "remote")
  ELSE [R EXCEPT !.remote[n][r.key] = IF e.count = 1 THEN NoEntry ELSE [@ EXCEPT !.count = e.count - 1]]

(* A copy of a remote reference; with a cached datum the copy is local and *)
(* leaves the counts alone.                                                *)
SNetRefCopy(R, n, r) ==
  IF IsLocal(n, r) THEN Users(R, r.key, 1)
  ELSE IF Entry(R, n, r).count = 0 THEN Missing(R, "remote")
  ELSE IF Entry(R, n, r).data # 0 THEN R
  ELSE [R EXCEPT !.remote[n][r.key].count = @ + 1]

SNetRefDestroy(R, n, r) == IF IsLocal(n, r) THEN Users(R, r.key, -1) ELSE OneLess(R, n, r)

(* The datum is there: the reference becomes a local one.                  *)
GetCached(R, n, r) == OneLess(R, n, r)

(* The datum is not there: the reader joins the list.                      *)
GetWait(R, n, r) == [R EXCEPT !.remote[n][r.key].list = Append(@, r)]

(* A record arrives: at the owner the reference comes home.                *)
SNetRefIncoming(R, n, r) ==
  IF ~IsLocal(n, r) THEN [R EXCEPT !.remote[n][r.key].count = @ + 1]
  ELSE IF R.local[r.key] = 0 THEN Missing(R, "local")
  ELSE LET D == [R EXCEPT !.local[r.key] = @ - 1]
       IN  IF D.local[r.key] = 0 THEN D ELSE Users(D, r.key, 1)

(* Variant of the next operator: every reference that leaves keeps its     *)
(* user.                                                                   *)
OutgoingKeeps(R, n, r) ==
  IF ~IsLocal(n, r) THEN OneLess(R, n, r)
  ELSE [R EXCEPT !.local[r.key] = @ + 1]

(* A record leaves: the map becomes the user of the datum, once.           *)
SNetRefOutgoing(R, n, r) ==
  IF ~IsLocal(n, r) THEN OneLess(R, n, r)
  ELSE LET D == [R EXCEPT !.local[r.key] = @ + 1]
       IN  IF R.local[r.key] > 0 THEN Users(D, r.key, -1) ELSE D

(* A message about the owner's count; the last reference abroad takes the  *)
(* map's use of the datum with it.                                         *)
SNetRefUpdate(R, r, value) ==
  IF R.local[r.key] = 0 THEN Missing(R, "local")
  ELSE LET D == [R EXCEPT !.local[r.key] = @ + value]
       IN  IF D.local[r.key] = 0 THEN Users(D, r.key, -1) ELSE D

(* The fetched datum arrives: every waiting reader gets a copy and gives   *)
(* up its reference.  The owner counted the fetch as one, whatever the     *)
(* number of readers.                                                      *)
SNetRefSet(R, n, r, id) ==
  LET e == Entry(R, n, r)
      left == e.count - Len(e.list)
      W == IF \E i \in DOMAIN e.list : e.list[i].id # id THEN Missing(R, "datum") ELSE R
  IN  IF e.count = 0 THEN Missing(R, "remote")
      ELSE [W EXCEPT !.remote[n][r.key] =
              IF left > 0 THEN [count |-> left, data |-> id, list |-> << >>] ELSE NoEntry,
                     !.untold[r.key] = @ + Len(e.list) - 1]

-----------------------------------------------------------------------------
(***************************************************************************)
(* What the parts of the distribution layer share: the messages between    *)
(* nodes, the streams that end at a manager, and the routing of streams to *)
(* managers while a network is built (distrib/common/distribcommon.c,      *)
(* distrib/mpi/transmit.c).  Every node builds the same network and        *)
(* numbers the destinations alike.  The transport is external: a queue per *)
(* pair of nodes that takes any number of messages, as MPI gives it for    *)
(* two nodes.                                                              *)
(***************************************************************************)

CONSTANT OutCap   \* capacity of the streams to a manager

VARIABLES
  net,      \* per sender and receiver, the messages under way
  out,      \* per destination, the stream read by an output manager and
            \* the stream a sync record on it hands over
  in,       \* per destination, the stream written by an input manager
  inCap,    \* the capacity of those streams
  refs      \* the reference counts of all nodes

netVars == <<net, out, in, inCap, refs>>

ASSUME DistribAssumption ==
  /\ OutCap \in Nat \ {0}
  /\ Owner \in [Key -> Node]

-----------------------------------------------------------------------------
(* The i-th call of SNetRouteUpdate while the network of path p is built:  *)
(* where the location changes, the node at either end tells its manager.   *)
(* The destinations are numbered in the order of the changes.              *)
SNetRouteUpdate(p, i, n) ==
  LET changes == {j \in 2..i : p[j] # p[j-1]}
      d == [dest |-> Cardinality(changes) - 1, src |-> p[i-1], dst |-> p[i]]
  IN  [outs |-> IF i \in changes /\ p[i-1] = n THEN {d} ELSE {},
       ins  |-> IF i \in changes /\ p[i-1] # n /\ p[i] = n THEN {d} ELSE {}]

(* The routes node n sets up for the network of path p.                    *)
Routes(p, n) ==
  [outs |-> UNION {SNetRouteUpdate(p, i, n).outs : i \in 2..Len(p)},
   ins  |-> UNION {SNetRouteUpdate(p, i, n).ins : i \in 2..Len(p)}]

Dest == DOMAIN out

-----------------------------------------------------------------------------
(* Messages.                                                               *)
RecMsg(d, r)    == [type |-> "rec", dest |-> d, rec |-> r]
DestMsg(t, d)   == [type |-> t, dest |-> d]
RefMsg(t, r, v) == [type |-> t, ref |-> r, val |-> v]
Signal(t)       == [type |-> t]

(* Records: data with its one reference, or a control record.              *)
Data(r) == [kind |-> "data", ref |-> r]
Sync    == [kind |-> "sync"]
Term    == [kind |-> "term"]

(* The transport: node n sends messages ms to node m.                      *)
Sent(N, n, m, ms) == [N EXCEPT ![n][m] = @ \o ms]

(* SNetDistribSendRecord: the references leave with the record.            *)
SNetDistribSendRecord(n, d, rec) ==
  /\ net' = Sent(net, n, d.dst, <<RecMsg(d, rec)>>)
  /\ refs' = IF rec.kind = "data" THEN SNetRefOutgoing(refs, n, rec.ref) ELSE refs

NetInit(p, cap) ==
  /\ net = [n \in Node |-> [m \in Node |-> << >>]]
  /\ out = [d \in UNION {Routes(p, n).outs : n \in Node} |-> [cur |-> << >>, next |-> << >>]]
  /\ inCap = cap
  /\ in = [d \in Dest |-> << >>]
  /\ refs = SNetReferenceInit

=============================================================================
