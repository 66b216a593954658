------------------------------ MODULE IManager ------------------------------
(***************************************************************************)
(* The input manager of a node (distrib/common/imanager.c): the one thread *)
(* that receives messages.  A record goes to the stream of its destination *)
(* or, if that is full, to a list; the first record of a list asks the     *)
(* sender to block.  Every read of such a stream calls ReadCallback in the *)
(* reader's thread: the read that empties the stream puts the buffer on    *)
(* the unblocked list, and the first buffer there sends the manager a      *)
(* message.  ReadCallback takes buf->mutex and then unblockedMutex, the    *)
(* manager takes them the other way round.                                 *)
(***************************************************************************)
EXTENDS OManager

VARIABLES
  im,     \* per node: pc, destMap, the message in hand, the unblocked list,
          \* who holds unblockedMutex, and whether a check failed
  buf,    \* per destination: counter, list, done, who holds the mutex, freed
  cb      \* per destination: where its reader is in ReadCallback

imVars == <<im, buf, cb>>

NoMsg == Signal("none")

IManagerInit(p, static) ==
  /\ im = [n \in Node |-> [pc |-> "recv", map |-> {}, newStreams |-> IF n \in static THEN Routes(p, n).ins ELSE {}, hand |-> NoMsg,
                           unblocked |-> << >>, lock |-> "free", failed |-> FALSE]]
  /\ buf = [d \in Dest |-> [counter |-> 0, list |-> << >>, done |-> FALSE, lock |-> "free", freed |-> FALSE]]
  /\ cb = [d \in Dest |-> "none"]

IMGoto(n, I) == im' = [im EXCEPT ![n] = I]

(* A message from m of one of the types.                                   *)
Receives(n, m, types) ==
  /\ im[n].pc = "recv"
  /\ net[m][n] # << >> /\ Head(net[m][n]).type \in types

Received(m, n) == [net EXCEPT ![m][n] = Tail(@)]

-----------------------------------------------------------------------------
(* A record: its references arrive as it is unpacked, new streams are      *)
(* opened; for a destination that is still unknown the node builds its     *)
(* part of the network first (SNetRouteNewDynamic), which is p's route.    *)
(* Then HandleRecord needs buf->mutex.                                     *)
RecvRecord(n, m, p) ==
  /\ Receives(n, m, {"rec"})
  /\ LET msg == Head(net[m][n])
         known == im[n].map \cup im[n].newStreams
         new == msg.dest \notin known
     IN  /\ refs' = IF msg.rec.kind = "data" THEN SNetRefIncoming(refs, n, msg.rec.ref) ELSE refs
         /\ IMGoto(n, [im[n] EXCEPT !.pc = "handle", !.hand = msg, !.newStreams = {},
                                    !.map = known \cup (IF new THEN Routes(p, n).ins ELSE {})])
         /\ OMGoto(n, IF new THEN NewOut(om[n], Routes(p, n).outs) ELSE om[n])
  /\ net' = Received(m, n)
  /\ UNCHANGED <<out, in, inCap, buf, cb>>

(* Variant of the next operator: the list is not looked at before the      *)
(* stream is tried.                                                        *)
HandleRecordOvertakes(n) ==
  LET msg == im[n].hand
      d == msg.dest
      room == Len(in[d]) < inCap
  IN  /\ im[n].pc = "handle"
      /\ buf[d].lock = "free"
      /\ buf' = [buf EXCEPT ![d] = [buf[d] EXCEPT !.done = @ \/ msg.rec.kind = "term",
                                                  !.counter = IF room THEN @ + 1 ELSE @,
                                                  !.list = IF room THEN @ ELSE Append(@, msg.rec)]]
      /\ in' = IF room THEN [in EXCEPT ![d] = Append(@, msg.rec)] ELSE in
      /\ net' = IF ~room /\ buf[d].list = << >> THEN Sent(net, n, d.src, <<DestMsg("block", d)>>) ELSE net
      /\ IMGoto(n, [im[n] EXCEPT !.pc = "recv", !.hand = NoMsg,
                                 !.failed = @ \/ d \notin im[n].map,
                                 !.map = IF msg.rec.kind = "term" THEN @ \ {d} ELSE @])
      /\ UNCHANGED <<out, inCap, refs, om, cb>>

(* Variant of the next operator: a record that has to wait goes in front   *)
(* of the list.                                                            *)
HandleRecordInFront(n) ==
  LET msg == im[n].hand
      d == msg.dest
      room == buf[d].list = << >> /\ Len(in[d]) < inCap
  IN  /\ im[n].pc = "handle"
      /\ buf[d].lock = "free"
      /\ buf' = [buf EXCEPT ![d] = [buf[d] EXCEPT !.done = @ \/ msg.rec.kind = "term",
                                                  !.counter = IF room THEN @ + 1 ELSE @,
                                                  !.list = IF room THEN @ ELSE <<msg.rec>> \o @]]
      /\ in' = IF room THEN [in EXCEPT ![d] = Append(@, msg.rec)] ELSE in
      /\ net' = IF ~room /\ buf[d].list = << >> THEN Sent(net, n, d.src, <<DestMsg("block", d)>>) ELSE net
      /\ IMGoto(n, [im[n] EXCEPT !.pc = "recv", !.hand = NoMsg,
                                 !.failed = @ \/ d \notin im[n].map,
                                 !.map = IF msg.rec.kind = "term" THEN @ \ {d} ELSE @])
      /\ UNCHANGED <<out, inCap, refs, om, cb>>

HandleRecord(n) ==
  LET msg == im[n].hand
      d == msg.dest
      room == buf[d].list = << >> /\ Len(in[d]) < inCap
  IN  /\ im[n].pc = "handle"
      /\ buf[d].lock = "free"
      /\ buf' = [buf EXCEPT ![d] = [buf[d] EXCEPT !.done = @ \/ msg.rec.kind = "term",
                                                  !.counter = IF room THEN @ + 1 ELSE @,
                                                  !.list = IF room THEN @ ELSE Append(@, msg.rec)]]
      /\ in' = IF room THEN [in EXCEPT ![d] = Append(@, msg.rec)] ELSE in
      /\ net' = IF ~room /\ buf[d].list = << >> THEN Sent(net, n, d.src, <<DestMsg("block", d)>>) ELSE net
      /\ IMGoto(n, [im[n] EXCEPT !.pc = "recv", !.hand = NoMsg,
                                 !.failed = @ \/ d \notin im[n].map,
                                 !.map = IF msg.rec.kind = "term" THEN @ \ {d} ELSE @])
      /\ UNCHANGED <<out, inCap, refs, om, cb>>

-----------------------------------------------------------------------------
(* UpdateBlocked: under unblockedMutex, one buffer after the other.        *)
RecvUpdate(n) ==
  /\ Receives(n, n, {"update"})
  /\ net' = Received(n, n)
  /\ IMGoto(n, [im[n] EXCEPT !.pc = "update"])
  /\ UNCHANGED <<out, in, inCap, refs, om, buf, cb>>

LockUnblocked(n) ==
  /\ im[n].pc = "update"
  /\ im[n].lock = "free"
  /\ IMGoto(n, [im[n] EXCEPT !.pc = "drain", !.lock = "manager"])
  /\ UNCHANGED <<netVars, om, buf, cb>>

Least(a, b) == IF a < b THEN a ELSE b

(* One buffer: as many records as the stream takes.                        *)
Drain(n) ==
  /\ im[n].pc = "drain" /\ im[n].unblocked # << >>
  /\ LET d == Head(im[n].unblocked)
         k == Least(inCap - Len(in[d]), Len(buf[d].list))
         rest == SubSeq(buf[d].list, k + 1, Len(buf[d].list))
     IN  /\ buf[d].lock = "free"
         /\ in' = [in EXCEPT ![d] = @ \o SubSeq(buf[d].list, 1, k)]
         /\ buf' = [buf EXCEPT ![d] = [buf[d] EXCEPT !.list = rest, !.counter = @ + k]]
         /\ net' = IF rest = << >> /\ ~buf[d].done THEN Sent(net, n, d.src, <<DestMsg("unblock", d)>>) ELSE net
  /\ IMGoto(n, [im[n] EXCEPT !.unblocked = Tail(@)])
  /\ UNCHANGED <<out, inCap, refs, om, cb>>

UnlockUnblocked(n) ==
  /\ im[n].pc = "drain" /\ im[n].unblocked = << >>
  /\ IMGoto(n, [im[n] EXCEPT !.pc = "recv", !.lock = "free"])
  /\ UNCHANGED <<netVars, om, buf, cb>>

-----------------------------------------------------------------------------
(* The other messages.                                                     *)
RecvBlock(n, m) ==
  /\ Receives(n, m, {"block", "unblock"})
  /\ LET msg == Head(net[m][n]) IN OMGoto(n, UpdateState(om[n], msg.dest, msg.type = "block"))
  /\ net' = Received(m, n)
  /\ UNCHANGED <<out, in, inCap, refs, imVars>>

RecvRefSet(n, m) ==
  /\ Receives(n, m, {"ref_set"})
  /\ LET msg == Head(net[m][n]) IN refs' = SNetRefSet(refs, n, msg.ref, msg.val)
  /\ net' = Received(m, n)
  /\ UNCHANGED <<out, in, inCap, om, imVars>>

RecvRefUpdate(n, m) ==
  /\ Receives(n, m, {"ref_update"})
  /\ LET msg == Head(net[m][n]) IN refs' = SNetRefUpdate(refs, msg.ref, msg.val)
  /\ net' = Received(m, n)
  /\ UNCHANGED <<out, in, inCap, om, imVars>>

(* A fetch is answered with the datum at the address and takes one         *)
(* reference off the count.                                                *)
RecvRefFetch(n, m) ==
  /\ Receives(n, m, {"ref_fetch"})
  /\ LET r == Head(net[m][n]).ref
         used == IF refs.users[r.key] = 0 THEN Missing(refs, "freed") ELSE refs
     IN  /\ net' = Sent(Received(m, n), n, m, <<RefMsg("ref_set", r, refs.id[r.key])>>)
         /\ refs' = SNetRefUpdate(used, r, -1)
  /\ UNCHANGED <<out, in, inCap, om, imVars>>

(* snet_stop: the checks, then the output manager is stopped, in two       *)
(* steps: it looks at running without the lock.                            *)
RecvStop(n, m) ==
  /\ Receives(n, m, {"stop"})
  /\ net' = Received(m, n)
  /\ OMGoto(n, StopRunning(om[n]))
  /\ IMGoto(n, [im[n] EXCEPT !.pc = "stopping", !.failed = @ \/ im[n].map # {}])
  /\ UNCHANGED <<out, in, inCap, refs, buf, cb>>

(* SNetReferenceDestroy finds both maps empty.                             *)
Abroad(n) == {k \in Key : Owner[k] = n /\ refs.local[k] # 0}
Foreign(n) == {k \in Key : refs.remote[n][k] # NoEntry}

IMStop(n) ==
  /\ im[n].pc = "stopping"
  /\ OMGoto(n, StopWakeup(om[n]))
  /\ IMGoto(n, [im[n] EXCEPT !.pc = "done"])
  /\ refs' = IF Abroad(n) \cup Foreign(n) = {} THEN refs ELSE Missing(refs, "left")
  /\ UNCHANGED <<net, out, in, inCap, buf, cb>>

SNetInputManager(n, p) ==
  \/ HandleRecord(n) \/ RecvUpdate(n) \/ LockUnblocked(n) \/ Drain(n) \/ UnlockUnblocked(n) \/ IMStop(n)
  \/ \E m \in Node : \/ RecvRecord(n, m, p) \/ RecvBlock(n, m) \/ RecvRefSet(n, m)
                     \/ RecvRefUpdate(n, m) \/ RecvRefFetch(n, m) \/ RecvStop(n, m)

-----------------------------------------------------------------------------
(* ReadCallback, in the thread that has just read from the stream of d on  *)
(* node n: the count, and if the stream is empty and records wait, the     *)
(* unblocked list, with both locks held.                                   *)
CallbackCount(n, d) ==
  /\ cb[d] = "count"
  /\ buf[d].lock = "free"
  /\ LET c == buf[d].counter - 1
         wait == c = 0 /\ buf[d].list # << >>
     IN  /\ buf' = [buf EXCEPT ![d] = [buf[d] EXCEPT !.counter = c,
                                                     !.lock = IF wait THEN "reader" ELSE "free",
                                                     !.freed = c = 0 /\ ~wait /\ buf[d].done]]
         /\ cb' = [cb EXCEPT ![d] = IF wait THEN "unblock" ELSE "none"]
  /\ UNCHANGED <<netVars, om, im>>

(* Variant of the next operator: the manager is told only of a list that   *)
(* has become longer than one.                                             *)
CallbackUnblockSilent(n, d) ==
  /\ cb[d] = "unblock"
  /\ im[n].lock = "free"
  /\ IMGoto(n, [im[n] EXCEPT !.unblocked = Append(@, d)])
  /\ net' = IF im[n].unblocked # << >> THEN Sent(net, n, n, <<Signal("update")>>) ELSE net
  /\ buf' = [buf EXCEPT ![d].lock = "free"]
  /\ cb' = [cb EXCEPT ![d] = "none"]
  /\ UNCHANGED <<out, in, inCap, refs, om>>

CallbackUnblock(n, d) ==
  /\ cb[d] = "unblock"
  /\ im[n].lock = "free"
  /\ IMGoto(n, [im[n] EXCEPT !.unblocked = Append(@, d)])
  /\ net' = IF im[n].unblocked = << >> THEN Sent(net, n, n, <<Signal("update")>>) ELSE net
  /\ buf' = [buf EXCEPT ![d].lock = "free"]
  /\ cb' = [cb EXCEPT ![d] = "none"]
  /\ UNCHANGED <<out, in, inCap, refs, om>>

ReadCallback(n, d) == CallbackCount(n, d) \/ CallbackUnblock(n, d)
=============================================================================
