------------------------------ MODULE Network ------------------------------
(***************************************************************************)
(* What every entity of a running S-Net network has in common: it reads    *)
(* one record from a stream, handles it, and performs writes that may      *)
(* block one after the other before it reads again.                        *)
(*                                                                         *)
(* A stream is the bounded FIFO channel that module Stream is proved to    *)
(* implement.  A handler is one action: it takes the record, updates the   *)
(* entity's local state and leaves in `todo' the stream operations of the  *)
(* handler in program order; Flush performs the first of them.  An entity  *)
(* with pending operations reads nothing, so a write that blocks on a full *)
(* stream blocks the entity, as in the code.                               *)
(***************************************************************************)
EXTENDS Integers, Sequences, FiniteSets, SequencesExt

CONSTANTS Cap,      \* capacity of a stream
          HasSource,  \* streams with a source (SNetStreamGetSource): those
                      \* from a star dispatcher to the next instance
          NULL

ASSUME NetworkAssumption == Cap \in Nat \ {0}

VARIABLES chan,     \* chan[s] = records in stream s
          stat,     \* stat[s] = "fresh" (not yet in use), "used" or "freed"
          todo      \* todo[e] = stream operations entity e has yet to do

netVars == <<chan, stat, todo>>

Stream == DOMAIN chan   \* the streams of the network
Entity == DOMAIN todo   \* the entities of the network

-----------------------------------------------------------------------------
(* Records.  A data record is the set ty of its labels and a number id     *)
(* that orders the records by their entry into the network.                *)
Data(i, labels) == [t |-> "data", id |-> i, ty |-> labels]
Trigger         == [t |-> "trigger"]
Sort(l, n)      == [t |-> "sort", lvl |-> l, num |-> n]
Sync(s, labels) == [t |-> "sync", s |-> s, ty |-> labels]
Collect(s)      == [t |-> "collect", s |-> s]
Term            == [t |-> "term"]

(* A sort record one level further in, or out.                             *)
Raise(r) == Sort(r.lvl + 1, r.num)
Lower(r) == Sort(r.lvl - 1, r.num)

(* Stream operations of a handler.                                         *)
Write(s, r) == [op |-> "write", s |-> s, rec |-> r]
Free(s)     == [op |-> "freed", s |-> s]
Create(s)   == [op |-> "used", s |-> s]

(* The same record to several streams, in order.                           *)
WriteAll(ss, r) == [i \in DOMAIN ss |-> Write(ss[i], r)]

-----------------------------------------------------------------------------
NetInit(streams, entities) == /\ chan = [s \in streams |-> << >>]
                              /\ stat = [s \in streams |-> "fresh"]
                              /\ todo = [e \in entities |-> << >>]

(* Stream s has been written to.  A destroyed stream stays destroyed,      *)
(* whatever is done to it.                                                 *)
Touched(s) == [stat EXCEPT ![s] = IF @ = "freed" THEN "freed" ELSE "used"]

(* How many operations come before the first write: creating and           *)
(* destroying a stream is local to the entity that does it.                *)
Local(ops) == Min({k \in 0 .. Len(ops) : k = Len(ops) \/ ops[k + 1].op = "write"})

(* The streams after local operations.                                     *)
Performed(ops, st) ==
  [s \in DOMAIN st |-> IF st[s] = "freed" \/ Free(s) \in Range(ops) THEN "freed"
                       ELSE IF Create(s) \in Range(ops) THEN "used" ELSE st[s]]

(* Entity e has the operations ops to do, of which the first local ones    *)
(* take effect at once.                                                    *)
Proceed(e, ops, st) ==
  /\ todo' = [todo EXCEPT ![e] = SubSeq(ops, Local(ops) + 1, Len(ops))]
  /\ stat' = Performed(SubSeq(ops, 1, Local(ops)), st)

(* The first of its pending operations, a write, once there is room.       *)
Flush(e) ==
  /\ todo[e] # << >>
  /\ LET w == Head(todo[e])
     IN  /\ Len(chan[w.s]) < Cap
         /\ chan' = [chan EXCEPT ![w.s] = Append(@, w.rec)]
         /\ Proceed(e, Tail(todo[e]), Touched(w.s))

(* The record a read of stream s returns.                                  *)
Top(s) == Head(chan[s])

(* Entity e is at a read of stream s that returns a record of a kind.      *)
Reads(e, s, kinds) == todo[e] = << >> /\ chan[s] # << >> /\ Top(s).t \in kinds

(* It takes that record and goes on to ops.                                *)
Take(e, s, ops) == /\ chan' = [chan EXCEPT ![s] = Tail(@)]
                   /\ Proceed(e, ops, stat)
=============================================================================
