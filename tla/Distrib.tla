------------------------------- MODULE Distrib -------------------------------
(***************************************************************************)
(* A network that passes through several nodes: a producer, at every       *)
(* change of node an output and an input manager, a box behind each input  *)
(* manager, and the output, which stops all nodes.  The boxes use the data *)
(* of the records they read: copy, discard or fetch it, and send the rest  *)
(* on.  A datum a box has fetched is its own from then on; sending that is *)
(* the making of a new datum.                                              *)
(***************************************************************************)
EXTENDS IManager, FiniteSetsExt

CONSTANTS Plans,      \* networks: locations, records, use of data, readers
          MaxCopies   \* copies of references in one run, a bound

(* What a network is: the locations it passes, at least two different ones *)
(* in a row; the nodes that build it before their managers start; the      *)
(* capacity of the streams behind the input managers; how many records the *)
(* producer writes and for which addresses; the record after which a       *)
(* synchrocell in front leaves, if any; what the boxes do with their data; *)
(* whether each record is written twice; and the readers that may wait on  *)
(* a node.                                                                 *)
Network ==
  [path: Seq(Node), static: SUBSET Node, cap: Nat \ {0}, records: Nat, keys: SUBSET Key, sync: Nat,
   ops: SUBSET {"copy", "destroy", "get"}, twice: BOOLEAN, readers: Nat]

ASSUME PlansAssumption ==
  \A p \in Plans : p \in Network /\ \E i \in 2..Len(p.path) : p.path[i] # p.path[i-1]

VARIABLES
  plan,     \* the network
  begun,    \* the producer's node has built its part of the network
  made,     \* records the producer has written
  spare,    \* a copy of the last record, still to be written
  ended,    \* the producer has written its termination record
  held,     \* per destination, the data of the box behind it
  copied,   \* copies so far
  got       \* per destination, the records read behind it, in order

boxVars == <<plan, begun, made, spare, ended, held, copied, got>>
vars == <<netVars, om, imVars, boxVars>>

Init ==
  /\ plan \in Plans
  /\ NetInit(plan.path, plan.cap) /\ OManagerInit(plan.path, plan.static) /\ IManagerInit(plan.path, plan.static)
  /\ begun = (plan.path[1] \in plan.static)
  /\ made = 0 /\ spare = << >> /\ ended = FALSE /\ copied = 0
  /\ held = [d \in Dest |-> << >>]
  /\ got = [d \in Dest |-> << >>]

FirstDest == CHOOSE d \in Dest : d.dest = 0
HasNext(d) == \E e \in Dest : e.dest = d.dest + 1
NextDest(d) == CHOOSE e \in Dest : e.dest = d.dest + 1

(* Writing to the stream of d; behind a sync record the writer has moved   *)
(* on to the stream that the record names.                                 *)
Moved(d) == Sync \in {out[d].cur[i] : i \in DOMAIN out[d].cur}
HasRoom(d) == IF Moved(d) THEN Len(out[d].next) < OutCap ELSE Len(out[d].cur) < OutCap
Written(d, rec) ==
  IF Moved(d) THEN [out EXCEPT ![d].next = Append(@, rec)] ELSE [out EXCEPT ![d].cur = Append(@, rec)]

-----------------------------------------------------------------------------
(* A dispatcher on the producer's node unfolds a network that leaves the   *)
(* node: routes to both managers, which already run.                       *)
Unfold ==
  LET n == plan.path[1] IN
  /\ ~begun /\ begun' = TRUE
  /\ OMGoto(n, NewOut(om[n], Routes(plan.path, n).outs))
  /\ IMGoto(n, [im[n] EXCEPT !.newStreams = @ \cup Routes(plan.path, n).ins])
  /\ UNCHANGED <<netVars, buf, cb, plan, made, spare, ended, held, copied, got>>

Leaving == plan.sync = made /\ made > 0

(* Which of the free addresses the allocator takes does not matter.        *)
FreeKeys == {k \in plan.keys : refs.users[k] = 0}

Produce ==
  /\ begun /\ made < plan.records /\ HasRoom(FirstDest) /\ ~Leaving /\ spare = << >>
  /\ FreeKeys # {}
  /\ made' = made + 1
  /\ LET k == CHOOSE k \in FreeKeys : TRUE
         r == [key |-> k, id |-> made']
         R == SNetRefCreate(refs, k, made')
     IN  /\ refs' = IF plan.twice THEN SNetRefCopy(R, Owner[k], r) ELSE R
         /\ spare' = IF plan.twice THEN <<r>> ELSE << >>
         /\ out' = Written(FirstDest, Data(r))
  /\ UNCHANGED <<net, in, inCap, om, imVars, plan, begun, ended, held, copied, got>>

ProduceCopy ==
  /\ spare # << >> /\ HasRoom(FirstDest)
  /\ spare' = << >>
  /\ out' = Written(FirstDest, Data(Head(spare)))
  /\ UNCHANGED <<net, in, inCap, refs, om, imVars, plan, begun, made, ended, held, copied, got>>

(* A synchrocell in front of the manager leaves.                           *)
Leave ==
  /\ Leaving
  /\ ~Moved(FirstDest) /\ HasRoom(FirstDest)
  /\ plan' = [plan EXCEPT !.sync = 0]
  /\ out' = Written(FirstDest, Sync)
  /\ UNCHANGED <<net, in, inCap, refs, om, imVars, begun, made, spare, ended, held, copied, got>>

ProduceEnd ==
  /\ begun /\ made = plan.records /\ ~ended /\ HasRoom(FirstDest) /\ ~Leaving /\ spare = << >>
  /\ ended' = TRUE
  /\ out' = Written(FirstDest, Term)
  /\ UNCHANGED <<net, in, inCap, refs, om, imVars, plan, begun, made, spare, held, copied, got>>

(* The box behind d reads; the callback follows in its thread.             *)
BoxRead(d) ==
  /\ in[d] # << >> /\ cb[d] = "none" /\ held[d] = << >>
  /\ Head(in[d]).kind = "data"
  /\ in' = [in EXCEPT ![d] = Tail(@)]
  /\ cb' = [cb EXCEPT ![d] = "count"]
  /\ held' = [held EXCEPT ![d] = <<Head(in[d]).ref>>]
  /\ got' = [got EXCEPT ![d] = Append(@, Head(in[d]).ref.id)]
  /\ UNCHANGED <<net, out, inCap, refs, om, im, buf, plan, begun, made, spare, ended, copied>>

Without(s, i) == SubSeq(s, 1, i - 1) \o SubSeq(s, i + 1, Len(s))
Tell(n, r, t, v) == net' = Sent(net, n, Owner[r.key], <<RefMsg(t, r, v)>>)

(* What a box does with the data it holds.                                 *)
BoxCopy(d, i) ==
  LET n == d.dst
      r == held[d][i]
      remote == ~IsLocal(n, r) /\ Entry(refs, n, r).data = 0
  IN  /\ "copy" \in plan.ops /\ copied < MaxCopies /\ cb[d] = "none"
      /\ copied' = copied + 1
      /\ refs' = SNetRefCopy(refs, n, r)
      /\ IF remote THEN Tell(n, r, "ref_update", 1) ELSE UNCHANGED net
      /\ held' = IF remote \/ IsLocal(n, r) THEN [held EXCEPT ![d] = Append(@, r)] ELSE held
      /\ UNCHANGED <<out, in, inCap, om, imVars, plan, begun, made, spare, ended, got>>

BoxDestroy(d, i) ==
  LET n == d.dst
      r == held[d][i]
  IN  /\ "destroy" \in plan.ops \/ ~HasNext(d)
      /\ cb[d] = "none"
      /\ refs' = SNetRefDestroy(refs, n, r)
      /\ IF IsLocal(n, r) THEN UNCHANGED net ELSE Tell(n, r, "ref_update", -1)
      /\ held' = [held EXCEPT ![d] = Without(@, i)]
      /\ UNCHANGED <<out, in, inCap, om, imVars, plan, begun, made, spare, ended, copied, got>>

Waiting(n) == LET lens == [k \in Key |-> Len(refs.remote[n][k].list)]
              IN  FoldSet(LAMBDA k, x : x + lens[k], 0, Key)

BoxGetData(d, i) ==
  LET n == d.dst
      r == held[d][i]
      e == Entry(refs, n, r)
  IN  /\ "get" \in plan.ops /\ ~IsLocal(n, r)
      /\ cb[d] = "none" /\ Waiting(n) < plan.readers
      /\ refs' = IF e.data # 0 THEN GetCached(refs, n, r) ELSE GetWait(refs, n, r)
      /\ IF e.data # 0 THEN Tell(n, r, "ref_update", -1)
         ELSE IF e.list = << >> THEN Tell(n, r, "ref_fetch", 0) ELSE UNCHANGED net
      /\ held' = [held EXCEPT ![d] = Without(@, i)]
      /\ UNCHANGED <<out, in, inCap, om, imVars, plan, begun, made, spare, ended, copied, got>>

BoxSend(d) ==
  /\ held[d] # << >> /\ HasNext(d) /\ cb[d] = "none" /\ HasRoom(NextDest(d))
  /\ out' = Written(NextDest(d), Data(Head(held[d])))
  /\ held' = [held EXCEPT ![d] = Tail(@)]
  /\ UNCHANGED <<net, in, inCap, refs, om, imVars, plan, begun, made, spare, ended, copied, got>>

(* The end of the stream goes on when the box is idle.                     *)
BoxEnd(d) ==
  /\ in[d] # << >> /\ cb[d] = "none" /\ held[d] = << >>
  /\ Head(in[d]) = Term /\ Waiting(d.dst) = 0
  /\ HasNext(d) => HasRoom(NextDest(d))
  /\ in' = [in EXCEPT ![d] = Tail(@)]
  /\ cb' = [cb EXCEPT ![d] = "count"]
  /\ out' = IF HasNext(d) THEN Written(NextDest(d), Term) ELSE out
  /\ got' = [got EXCEPT ![d] = Append(@, plan.records + 1)]
  (* SNetDistribGlobalStop *)
  /\ net' = IF HasNext(d) THEN net
            ELSE [net EXCEPT ![d.dst] = [m \in Node |-> Append(@[m], Signal("stop"))]]
  /\ UNCHANGED <<inCap, refs, om, im, buf, plan, begun, made, spare, ended, held, copied>>

Producer == Unfold \/ ProduceCopy \/ Leave \/ ProduceEnd \/ Produce

Ended == \A n \in Node : im[n].pc = "done" /\ om[n].pc = "done"
Stopped == Ended /\ UNCHANGED vars

Sending(n) == SNetOutputManager(n) /\ UNCHANGED <<imVars, boxVars>>
Receiving(n) == SNetInputManager(n, plan.path) /\ UNCHANGED boxVars
Callback(d) == ReadCallback(d.dst, d) /\ UNCHANGED boxVars
Next ==
  \/ Producer
  \/ \E n \in Node : Sending(n) \/ Receiving(n)
  \/ \E d \in Dest : \/ Callback(d) \/ BoxRead(d) \/ BoxSend(d) \/ BoxEnd(d)
                     \/ \E i \in DOMAIN held[d] : BoxCopy(d, i) \/ BoxDestroy(d, i) \/ BoxGetData(d, i)
  \/ Stopped

(* Some thread that can go on does.                                        *)
Spec == Init /\ [][Next]_vars /\ WF_vars(Next)

-----------------------------------------------------------------------------
(* No check of the code fails and no lookup of a reference misses: the     *)
(* stream sets and maps of the managers (omanager.c:192-195, imanager.c:261,*)
(* streamset.c:66), the reference maps at the end (reference.c:83-84) and  *)
(* every SNetRefRefcountMapGet before, and no reader is given another      *)
(* datum than its reference meant, also when an address is used again.     *)
(* One check does fail in the code, and only then: when readers have       *)
(* shared a fetch, the owner's map is not empty at the end                 *)
(* (reference.c:83, marked "left").                                        *)
NoCheckFails ==
  /\ \A n \in Node : ~om[n].failed /\ ~im[n].failed
  /\ refs.wrong \subseteq {"left"}
  /\ "left" \in refs.wrong => \E k \in Key : refs.untold[k] > 0

Msgs == UNION {{<<n, m, i>> : i \in DOMAIN net[n][m]} : n \in Node, m \in Node}
Msg(x) == net[x[1]][x[2]][x[3]]
Total(f, S) == FoldSet(LAMBDA x, t : f[x] + t, 0, S)

(* What the messages under way will do to the owner's count of k, and the  *)
(* references to k that are on the way or on other nodes, without those    *)
(* whose readers will give them up when the datum arrives.                 *)
Underway(k) ==
  LET v == [x \in Msgs |-> CASE Msg(x).type = "ref_update" /\ Msg(x).ref.key = k -> Msg(x).val
                             [] OTHER -> 0]
  IN  Total(v, Msgs)
Outstanding(k) ==
  LET v == [x \in Msgs |-> CASE Msg(x).type = "rec" /\ Msg(x).rec.kind = "data" /\ Msg(x).rec.ref.key = k -> 1
                             [] Msg(x).type = "ref_set" /\ Msg(x).ref.key = k -> -1
                             [] OTHER -> 0]
      c == [n \in Node |-> refs.remote[n][k].count]
  IN  Total(v, Msgs) + Total(c, Node)

(* The references to k in the hands of its owner.                          *)
AtHome(k) ==
  LET here(s) == Cardinality({i \in DOMAIN s : s[i].key = k})
      data(s) == Cardinality({i \in DOMAIN s : s[i].kind = "data" /\ s[i].ref.key = k})
      v == [d \in Dest |->
              (IF d.src = Owner[k] THEN data(out[d].cur) + data(out[d].next) ELSE 0)
              + (IF d.dst = Owner[k] THEN here(held[d]) + data(in[d]) + data(buf[d].list) ELSE 0)]
      w == [n \in Node |-> IF n = Owner[k] /\ im[n].pc = "handle" THEN data(<<im[n].hand.rec>>) ELSE 0]
  IN  Total(v, Dest) + Total(w, Node) + here(spare)

(* The owner's count is the number of references abroad once all messages  *)
(* have arrived, and its datum has exactly the users it needs: none is     *)
(* freed under a reference, and one is kept without only when readers have *)
(* shared a fetch (reference.c:165): the count is then too high by the     *)
(* readers that gave up their reference beyond the first, never too low.   *)
CountsAgree ==
  \A k \in Key :
    /\ refs.local[k] + Underway(k) = Outstanding(k) + refs.untold[k]
    /\ refs.untold[k] >= 0
    /\ refs.users[k] = AtHome(k) + (IF refs.local[k] > 0 THEN 1 ELSE 0)

(* The two locks are taken in both orders, but never for one buffer: a     *)
(* buffer on the unblocked list has no record in its stream and no read to *)
(* account for, so no reader holds or wants its lock while the manager     *)
(* does (imanager.c:90, 117).                                              *)
LockOrderSafe ==
  \A n \in Node : \A i \in DOMAIN im[n].unblocked :
    LET d == im[n].unblocked[i]
    IN  in[d] = << >> /\ buf[d].counter = 0 /\ cb[d] = "none" /\ buf[d].lock = "free"

(* Records come out of the input manager in the order they went into the   *)
(* output manager, through lists and streams (imanager.c:178, 119).        *)
InOrder ==
  \A d \in Dest : \A i \in 1..Len(got[d])-1 : got[d][i] <= got[d][i+1]

(* Every node stops, with all records delivered and every buffer freed:    *)
(* nobody waits for a lock, a list or an unblock message for ever.         *)
AllStop ==
  <>(Ended /\ \A d \in Dest : /\ buf[d].freed /\ in[d] = << >>
                              /\ plan.ops = {} => Len(got[d]) = plan.records + 1)
=============================================================================
