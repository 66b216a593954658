------------------------------ MODULE OManager ------------------------------
(***************************************************************************)
(* The output manager of a node (distrib/common/omanager.c): polls the     *)
(* streams that leave the node and a wakeup stream, sends what it reads,   *)
(* and on a wakeup takes in new streams and moves streams between the      *)
(* waiting and the blocked set as the far ends ask.  Requests come from    *)
(* other threads; each list is taken in one critical section.              *)
(***************************************************************************)
EXTENDS DistribNet, Functions

VARIABLE om    \* per node: pc, running, wakeup, streamMap, the two sets, the
               \* lists of requests, and whether a check of the code failed

OManagerInit(p, static) ==
  om = [n \in Node |->
         [pc |-> "start", running |-> TRUE, wakeup |-> FALSE, map |-> {},
          waiting |-> {}, blocked |-> {}, newStreams |-> IF n \in static THEN Routes(p, n).outs ELSE {},
          newBlocked |-> << >>, newUnblocked |-> << >>, failed |-> FALSE]]

(* SNetOutputManagerNewOut for streams ds.                                 *)
NewOut(O, ds) == [O EXCEPT !.newStreams = @ \cup ds, !.wakeup = @ \/ ds # {}]

(* Requests of other threads; the wakeup stream has room for one record    *)
(* and is written with SNetStreamTryWrite.                                 *)
UpdateState(O, d, block) ==
  [O EXCEPT !.newBlocked   = IF block THEN Append(@, d) ELSE @,
            !.newUnblocked = IF block THEN @ ELSE Append(@, d),
            !.wakeup = TRUE]

(* SNetOutputManagerStop, its two steps.                                   *)
StopRunning(O) == [O EXCEPT !.running = FALSE]
StopWakeup(O)  == [O EXCEPT !.wakeup = TRUE]

OMGoto(n, O) == om' = [om EXCEPT ![n] = O]

(* UpdateOutgoing: the new streams are opened.                             *)
UpdateOutgoing(O) ==
  [O EXCEPT !.map = @ \cup O.newStreams, !.waiting = @ \cup O.newStreams, !.newStreams = {}]

(* UpdateBlocked for the requests of one list, in order; a destination     *)
(* that is gone from the map is skipped.  SNetStreamsetRemove demands a    *)
(* set that is not empty, and leaves a set without the descriptor alone.   *)
(* The waiting set always has the wakeup stream; the blocked set may have  *)
(* been emptied by the requests before.                                    *)
Block(O) ==
  LET ds == Range(O.newBlocked) \cap O.map
  IN  [O EXCEPT !.waiting = @ \ ds, !.blocked = @ \cup ds, !.newBlocked = << >>]

Unblock(O) ==
  LET q == O.newUnblocked
      first(i) == {q[j] : j \in 1..i} \cap O.map
  IN  [O EXCEPT !.failed = @ \/ \E i \in DOMAIN q : q[i] \in O.map /\ O.blocked \ first(i - 1) = {},
                !.blocked = @ \ first(Len(q)), !.waiting = @ \cup first(Len(q)), !.newUnblocked = << >>]

OMStart(n) ==
  /\ om[n].pc = "start"
  /\ OMGoto(n, [UpdateOutgoing(om[n]) EXCEPT !.pc = "poll"])
  /\ UNCHANGED netVars

(* The wakeup stream is read; the three lists follow one at a time.        *)
OMWakeup(n) ==
  /\ om[n].pc = "poll" /\ om[n].running
  /\ om[n].wakeup
  /\ OMGoto(n, [om[n] EXCEPT !.pc = "outgoing", !.wakeup = FALSE])
  /\ UNCHANGED netVars

OMUpdateOutgoing(n) ==
  /\ om[n].pc = "outgoing"
  /\ OMGoto(n, [UpdateOutgoing(om[n]) EXCEPT !.pc = "block"])
  /\ UNCHANGED netVars

OMBlock(n) ==
  /\ om[n].pc = "block"
  /\ OMGoto(n, [Block(om[n]) EXCEPT !.pc = "unblock"])
  /\ UNCHANGED netVars

OMUnblock(n) ==
  /\ om[n].pc = "unblock"
  /\ OMGoto(n, [Unblock(om[n]) EXCEPT !.pc = "poll"])
  /\ UNCHANGED netVars

(* A waiting stream has a record.                                          *)
OMReads(n, d, kinds) ==
  /\ om[n].pc = "poll" /\ om[n].running
  /\ d \in om[n].waiting
  /\ out[d].cur # << >> /\ Head(out[d].cur).kind \in kinds

OMSync(n, d) ==
  /\ OMReads(n, d, {"sync"})
  /\ out' = [out EXCEPT ![d] = [cur |-> @.next, next |-> << >>]]
  /\ UNCHANGED <<net, in, inCap, refs, om>>

(* Variant of the next operator: the descriptor stays in the set.          *)
OMTermStays(n, d) ==
  /\ OMReads(n, d, {"term"})
  /\ out' = [out EXCEPT ![d].cur = Tail(@)]
  /\ SNetDistribSendRecord(n, d, Head(out[d].cur))
  /\ OMGoto(n, [om[n] EXCEPT !.map = @ \ {d}])
  /\ UNCHANGED <<in, inCap>>

OMTerm(n, d) ==
  /\ OMReads(n, d, {"term"})
  /\ out' = [out EXCEPT ![d].cur = Tail(@)]
  /\ SNetDistribSendRecord(n, d, Head(out[d].cur))
  /\ OMGoto(n, [om[n] EXCEPT !.map = @ \ {d}, !.waiting = @ \ {d}])
  /\ UNCHANGED <<in, inCap>>

OMSend(n, d) ==
  /\ OMReads(n, d, {"data"})
  /\ out' = [out EXCEPT ![d].cur = Tail(@)]
  /\ SNetDistribSendRecord(n, d, Head(out[d].cur))
  /\ UNCHANGED <<in, inCap, om>>

(* The loop ends when running is found false; the checks after the loop.   *)
OMExit(n) ==
  /\ om[n].pc = "poll" /\ ~om[n].running
  /\ OMGoto(n, [om[n] EXCEPT !.pc = "done",
                             !.failed = @ \/ om[n].map # {} \/ om[n].waiting # {} \/ om[n].blocked # {}])
  /\ UNCHANGED netVars

SNetOutputManager(n) ==
  \/ OMStart(n) \/ OMWakeup(n) \/ OMUpdateOutgoing(n) \/ OMBlock(n) \/ OMUnblock(n)
  \/ OMExit(n)
  \/ \E d \in om[n].waiting : OMSync(n, d) \/ OMTerm(n, d) \/ OMSend(n, d)
=============================================================================
