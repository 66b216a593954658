----------------------------- MODULE FrontWorker -----------------------------
(***************************************************************************)
(* The scheduler of the Front runtime (runtime/front): worker threads read *)
(* input, process records, and steal work from each other.                 *)
(*                                                                         *)
(* A work item is a number of read licences for one stream descriptor;     *)
(* whoever holds a licence may take one record from that descriptor once   *)
(* it has locked the descriptor's landing.  Landings that have become the  *)
(* identity are dissolved by their writer: their records move on to the    *)
(* next descriptor while the licences, spread over all workers, stay       *)
(* behind and must follow.                                                 *)
(*                                                                         *)
(* The network is a pipeline: descriptor d leads to landing d, which       *)
(* writes to descriptor d + 1; landing 0 is the input node and landing     *)
(* Depth the output node.  A worker's hash table is the relation between    *)
(* its items and their descriptors (Lookup).                               *)
(***************************************************************************)
EXTENDS Naturals, FiniteSets, SequencesExt, FiniteSetsExt

CONSTANTS NumWorkers,  \* snet_worker_count
          Items,       \* the work items that are ever allocated (a bound)
          Depth,       \* number of descriptors
          Pipelines,   \* [kind, num, throttle]: what landing d does with a
                       \* record, the number of records the parser delivers,
                       \* SNetInputOffset (0: no throttle; the factor is 1)
          MaxSeq       \* bound of idle_seqnr

Workers == 1..NumWorkers
Descs == 1..Depth
Lands == 0..Depth

ASSUME FrontWorkerAssumption ==
    /\ NumWorkers \in Nat \ {0} /\ Depth \in Nat \ {0}
    /\ MaxSeq \in Nat
    /\ Items \subseteq Nat \ {0}
    /\ Pipelines \subseteq [kind : [Descs -> {"dup", "cell", "output"}], num : Nat, throttle : Nat]
    /\ \A p \in Pipelines, d \in Descs : p.kind[d] = "output" <=> d = Depth

VARIABLES net,   \* descriptors and landings
          wl,    \* the workers' work lists
          ws,    \* per worker: control state and thief state
          inp    \* the input node: records read, state, pipeline

vars == <<net, wl, ws, inp>>

NoLoot == [desc |-> 0, item |-> 0, count |-> 0]
NoHand == [desc |-> 0, rec |-> 0]
NoItem == [desc |-> 0, count |-> 0, lock |-> 0]

(* SNetInInputInit opens the first descriptor; the others are opened by    *)
(* the landing before them when it meets its first record.                 *)
Init ==
    /\ inp \in {[read |-> 0, state |-> "reading", pipe |-> p] : p \in Pipelines}
    /\ net = [fifo |-> [d \in Descs |-> <<>>],
              refs |-> [d \in Descs |-> IF d = 1 THEN 1 ELSE 0],
              lrefs |-> [d \in Descs |-> IF d = 1 THEN 1 ELSE 0],
              type |-> [d \in Descs |-> IF d = 1 THEN inp.pipe.kind[1] ELSE "none"],
              lock |-> [l \in Lands |-> 0],
              source |-> [d \in Descs |-> d - 1],
              out |-> [l \in Lands |-> IF l = 0 THEN 1 ELSE 0],
              outs |-> <<>>, terminated |-> FALSE]
    /\ wl = [item |-> [i \in Items |-> NoItem],
             todo |-> [w \in Workers |-> <<>>],
             free |-> [w \in Workers |-> {}],
             pos |-> [w \in Workers |-> 1],
             steal |-> [w \in Workers |-> 0],
             cur |-> [w \in Workers |-> 0],
             has_work |-> [w \in Workers |-> TRUE]]
    /\ ws = [w \in Workers |->
               [pc |-> "input", has_input |-> TRUE, is_idle |-> 0, idle_seqnr |-> 0,
                victim |-> w, tries |-> 0, at |-> 0, freed |-> FALSE,
                loot |-> NoLoot, ctx |-> "busy", hand |-> NoHand]]

-----------------------------------------------------------------------------
(* Work items.  L is the value of wl that an operation starts from.        *)

OfWorker(L, w) == Range(L.todo[w]) \cup ({L.cur[w]} \ {0})

(* SNetHashPtrLookup: 0 when the worker has no item for this descriptor.   *)
Lookup(L, w, d, except) ==
    LET S == {i \in OfWorker(L, w) \ {except} : L.item[i].desc = d}
    IN  IF S = {} THEN 0 ELSE Min(S)

(* Variant of the next operator: a freed item is reused although a thief   *)
(* may still stand on it.                                                  *)
ReusableAtOnce(L, w, i) == TRUE

(* free[w] holds the items freed in the current turn: item->turn equals    *)
(* steal_turn, so they are reused only while no thief is inside.  Items of *)
(* an older turn may always be reused and count as unallocated.            *)
Reusable(L, w, i) == i \notin L.free[w] \/ L.steal[w] = 0

GetFreeWorkItem(L, w) ==
    Min({i \in Items : /\ Reusable(L, w, i)
                       /\ \A v \in Workers : i \notin OfWorker(L, v)
                       /\ \A v \in Workers \ {w} : i \notin L.free[v]})

NewItem(L, w, d, n, owner) ==
    LET i == GetFreeWorkItem(L, w)
    IN  [L EXCEPT !.item[i] = [desc |-> d, count |-> n, lock |-> owner],
                  !.free[w] = @ \ {i}]

(* The item stays locked and gets the current turn.                        *)
PutFreeWorkItem(L, w, i) ==
    [L EXCEPT !.item[i].desc = 0, !.item[i].lock = w, !.free[w] = @ \cup {i}]

(* The turn goes up when a thief enters and when it leaves.                *)
NextTurn(L, v) ==
    [L EXCEPT !.free[v] = {},
              !.item = [i \in Items |-> IF i \in L.free[v] THEN NoItem ELSE L.item[i]]]

(* Variant of the next operator: the hash table is not consulted.          *)
TodoAlwaysNew(L, w, d) ==
    LET n == GetFreeWorkItem(L, w)
    IN  [NewItem(L, w, d, 1, 0) EXCEPT !.todo[w] = InsertAt(@, L.pos[w], n),
                                       !.pos[w] = @ + 1, !.has_work[w] = TRUE]

(* A new item goes between the iterator's previous and current position.   *)
SNetWorkerTodo(L, w, d) ==
    LET i == Lookup(L, w, d, 0)
        n == GetFreeWorkItem(L, w)
    IN  IF i # 0 THEN [L EXCEPT !.item[i].count = @ + 1]
        ELSE [NewItem(L, w, d, 1, 0) EXCEPT !.todo[w] = InsertAt(@, L.pos[w], n),
                                            !.pos[w] = @ + 1, !.has_work[w] = TRUE]

-----------------------------------------------------------------------------
(* Reference counts.  N is the value of net an operation starts from.      *)

RECURSIVE SNetDescRelease(_, _, _), SNetLandingDone(_, _)

(* DESC_DECR_MULTI; at zero the descriptor is closed and its landing let go *)
SNetDescRelease(N, d, count) ==
    LET M == [N EXCEPT !.refs[d] = @ - count]
    IN  IF M.refs[d] = 0 THEN SNetLandingDone(M, d) ELSE M

(* LAND_DECR; at zero node->term: SNetTermGarbage also lets go of the next *)
(* landing, SNetTermOutput marks the end of the output.                    *)
SNetLandingDone(N, l) ==
    LET M == [N EXCEPT !.lrefs[l] = @ - 1]
        T == [M EXCEPT !.type[l] = "freed",
                       !.terminated = @ \/ l = Depth]
        G == IF N.type[l] = "garbage" THEN SNetLandingDone(T, N.out[l]) ELSE T
    IN  CASE M.lrefs[l] # 0 -> M
          [] OTHER -> IF N.out[l] = 0 THEN T ELSE SNetDescRelease(G, N.out[l], 1)

(* Variant of the next operator: the records that move to the next stream  *)
(* are not added to its reference count.                                   *)
MergeStreamsUncounted(N, l) ==
    LET d == N.out[l]
        next == N.out[d]
    IN  SNetDescRelease(
          [N EXCEPT !.fifo[next] = @ \o N.fifo[d], !.fifo[d] = <<>>,
                    !.source[next] = N.source[d],
                    !.refs[next] = @ + 1, !.lrefs[next] = @ + 1,
                    !.type[d] = "garbage", !.out[l] = next], d, 1)

(* SNetMergeStreams with SNetBecomeGarbage.                                *)
SNetMergeStreams(N, l) ==
    LET d == N.out[l]
        next == N.out[d]
    IN  SNetDescRelease(
          [N EXCEPT !.fifo[next] = @ \o N.fifo[d], !.fifo[d] = <<>>,
                    !.source[next] = N.source[d],
                    !.refs[next] = @ + Len(N.fifo[d]) + 1,
                    !.lrefs[next] = @ + 1,
                    !.type[d] = "garbage", !.out[l] = next], d, 1)

(* Variant of the next operator: the worker goes on with the record it has *)
(* just written, past those that wait in the stream.                       *)
WriteContinuesNew(P, l, rec, last) ==
    LET d == P.n.out[l]
        w == P.n.lock[P.n.source[d]]
        R == [P.n EXCEPT !.refs[d] = @ + 1]
    IN  IF last /\ P.n.lock[d] = 0
        THEN [P EXCEPT !.n = [R EXCEPT !.lock[d] = w], !.hand = [desc |-> d, rec |-> rec]]
        ELSE [P EXCEPT !.n = [R EXCEPT !.fifo[d] = Append(@, rec)],
                       !.l = SNetWorkerTodo(P.l, w, d)]

(* SNetWrite of landing l to its output descriptor.  P bundles what a      *)
(* processing step changes: net, wl and the continuation of the worker.    *)
SNetWrite(P, l, rec, last) ==
    LET ident == P.n.type[P.n.out[l]] = "identity" /\ P.n.lock[P.n.out[l]] = 0
        w == P.n.lock[P.n.source[P.n.out[l]]]
        N == IF ident THEN SNetMergeStreams(P.n, l) ELSE P.n
        d == N.out[l]
        q == Append(N.fifo[d], rec)
        R == [N EXCEPT !.refs[d] = @ + 1]
    IN  IF last /\ N.lock[d] = 0
        THEN [P EXCEPT !.n = [R EXCEPT !.fifo[d] = Tail(q), !.lock[d] = w],
                       !.hand = [desc |-> d, rec |-> Head(q)]]
        ELSE [P EXCEPT !.n = [R EXCEPT !.fifo[d] = q], !.l = SNetWorkerTodo(P.l, w, d)]

(* SNetStreamOpen by landing l, at its first record.                       *)
Opened(N, l) ==
    IF N.out[l] # 0 \/ l = Depth THEN N
    ELSE [N EXCEPT !.out[l] = l + 1, !.refs[l + 1] = 1, !.lrefs[l + 1] = 1,
                   !.type[l + 1] = inp.pipe.kind[l + 1]]

(* node->work: a filter with two outputs, a synchrocell that fires  *)
(* and becomes the identity, an identity, the output node.                 *)
NodeWork(P, l, rec) ==
    LET Q == [P EXCEPT !.n = Opened(P.n, l)]
    IN  CASE P.n.type[l] = "output" -> [P EXCEPT !.n.outs = Append(@, rec)]
          [] P.n.type[l] = "identity" -> SNetWrite(Q, l, rec, TRUE)
          [] P.n.type[l] = "dup" ->
               SNetWrite(SNetWrite(Q, l, 2 * rec, FALSE), l, 2 * rec + 1, TRUE)
          [] P.n.type[l] = "cell" ->
               [SNetWrite(Q, l, rec, FALSE) EXCEPT !.n.type[l] = "identity"]

-----------------------------------------------------------------------------
Step(w, from) == ws[w].pc = from
Become(w, W) == ws' = [ws EXCEPT ![w] = W]
Goto(w, to) == Become(w, [ws[w] EXCEPT !.pc = to])

(* Head of the loop of SNetWorkerRun: read input, or look for work to      *)
(* steal, with work of its own ("busy") or without ("idle").               *)
Run(W, has_work) ==
    [W EXCEPT !.pc = IF W.has_input THEN "input" ELSE "steal", !.tries = 0,
              !.ctx = IF has_work \/ W.has_input THEN "busy" ELSE "idle"]

(* Back from input or from a vain search: work on the list, if any.        *)
Proceed(w) ==
    /\ wl' = [wl EXCEPT !.pos[w] = 1]
    /\ Become(w, IF wl.has_work[w] THEN [ws[w] EXCEPT !.pc = "work", !.tries = 0, !.ctx = "work"]
                 ELSE Run(ws[w], FALSE))

InputAllowed ==
    inp.pipe.throttle = 0 \/ inp.read < inp.pipe.throttle + Len(net.outs)

(* SNetWorkerInput: go on without input while another worker is at the     *)
(* input landing or the throttle is closed; else SNetGetNextInputRecord    *)
(* with the landing locked, and SNetCloseInput at the end of the file.     *)
Input(w) ==
    LET N == [net EXCEPT !.lock[0] = w]
        Q == SNetWrite([n |-> N, l |-> wl, hand |-> NoHand], 0, inp.read + 1, FALSE)
        Unlocked(M) == [M EXCEPT !.lock[0] = 0]
        reads == inp.state = "reading" /\ inp.read < inp.pipe.num
    IN  /\ Step(w, "input")
        /\ \/ /\ ~InputAllowed \/ \E v \in Workers \ {w} : Step(v, "input")
              /\ Proceed(w) /\ UNCHANGED <<net, inp>>
           \/ /\ InputAllowed /\ reads
              /\ net' = Unlocked(Q.n)
              /\ wl' = [Q.l EXCEPT !.pos[w] = 1]
              /\ inp' = [inp EXCEPT !.read = @ + 1]
              /\ Become(w, [ws[w] EXCEPT !.pc = "work", !.ctx = "work"])
           \/ /\ InputAllowed /\ ~reads
              /\ net' = Unlocked(IF inp.state = "reading"
                                 THEN SNetDescRelease([N EXCEPT !.out[0] = 0], N.out[0], 1)
                                 ELSE N)
              /\ inp' = [inp EXCEPT !.state = "terminated"]
              /\ Become(w, [ws[w] EXCEPT !.has_input = FALSE, !.pc = "steal"])
              /\ UNCHANGED wl

-----------------------------------------------------------------------------
(* Stealing *)

(* SNetWorkerSteal: the next victim, unless another thief is with it.      *)
StealEnter(w) ==
    LET v == 1 + (ws[w].victim % NumWorkers)
        enter == v # w /\ wl.steal[v] = 0
    IN  /\ Step(w, "steal") /\ ws[w].tries < NumWorkers /\ ws[w].loot = NoLoot
        /\ wl' = IF enter THEN NextTurn([wl EXCEPT !.steal[v] = w], v) ELSE wl
        /\ Become(w, [ws[w] EXCEPT !.victim = v, !.tries = @ + 1,
                        !.pc = IF enter THEN "visit" ELSE "steal",
                        !.at = IF enter /\ wl.todo[v] # <<>> THEN Head(wl.todo[v]) ELSE 0])
        /\ UNCHANGED <<net, inp>>

(* item->next_item: none for an item the victim has freed meanwhile.       *)
NextOf(w) ==
    LET q == wl.todo[ws[w].victim]
        S == {k \in 1..(Len(q) - 1) : q[k] = ws[w].at}
    IN  IF S = {} \/ ws[w].freed THEN 0 ELSE q[Min(S) + 1]

Advance(w) == Become(w, [ws[w] EXCEPT !.pc = "visit", !.at = NextOf(w), !.freed = FALSE])

(* SNetWorkerStealVictim, the traversal: an unlocked item with licences.   *)
Visit(w) ==
    LET i == ws[w].at
        v == ws[w].victim
    IN  /\ Step(w, "visit")
        /\ IF i = 0 \/ ws[w].loot # NoLoot
           THEN /\ wl' = [NextTurn(wl, v) EXCEPT !.steal[v] = 0]
                /\ Become(w, [ws[w] EXCEPT !.pc = "steal", !.at = 0, !.freed = FALSE])
           ELSE IF wl.item[i].count > 0 /\ wl.item[i].lock = 0
           THEN wl' = [wl EXCEPT !.item[i].lock = w] /\ Goto(w, "grab")
           ELSE Advance(w) /\ UNCHANGED wl
        /\ UNCHANGED <<net, inp>>

(* How many licences the thief takes: all of a dissolved stream, half of   *)
(* the difference, or half but at least one.  int division truncates.      *)
Amount(n, own, garbage) ==
    CASE garbage -> n
      [] ~garbage /\ own = 0 -> (n + 1) \div 2
      [] ~garbage /\ own # 0 ->
           IF n > wl.item[own].count THEN (n - wl.item[own].count) \div 2 ELSE 0

(* SNetWorkerStealVictim with the item locked.                             *)
Grab(w) ==
    LET i == ws[w].at
        it == wl.item[i]
        own == Lookup(wl, w, it.desc, 0)
        n == Amount(it.count, own, net.type[it.desc] = "garbage")
        takes == it.count > 0 /\ it.desc # 0 /\ net.lock[it.desc] = 0
    IN  /\ Step(w, "grab")
        /\ IF takes
           THEN /\ wl' = [wl EXCEPT !.item[i].count = @ - n, !.item[i].lock = 0,
                                    !.has_work[w] = TRUE]
                /\ Become(w, [ws[w] EXCEPT !.pc = "visit",
                                !.loot = [desc |-> it.desc, item |-> own, count |-> n]])
           ELSE wl' = [wl EXCEPT !.item[i].lock = 0] /\ Advance(w)
        /\ UNCHANGED <<net, inp>>

(* SNetWorkerOthersBusy: the new idle level and sequence number.           *)
OthersBusy(w) ==
    LET W == ws[w]
        seq == W.idle_seqnr + (IF W.is_idle < 1 THEN 1 ELSE 0)
        lvl == IF W.is_idle < 1 THEN 1 ELSE W.is_idle
        others == {ws[v] : v \in Workers \ {w}}
        active == \E o \in others : o.is_idle = 0
        top == Max({seq} \cup {o.idle_seqnr : o \in others})
        differ == \E o \in others : o.idle_seqnr # seq
        behind == \E o \in others : o.is_idle < lvl
        idle == CASE active \/ differ -> 1
                  [] ~active /\ ~differ /\ behind -> lvl
                  [] OTHER -> lvl + 1
    IN  IF net.terminated THEN [idle |-> W.is_idle, seq |-> W.idle_seqnr, busy |-> FALSE]
        ELSE [idle |-> idle, seq |-> IF active THEN seq ELSE top, busy |-> idle < 3]

(* The round over all victims is over.                                     *)
StealDone(w) ==
    LET W == ws[w]
        o == OthersBusy(w)
    IN  /\ Step(w, "steal") /\ (W.tries = NumWorkers \/ W.loot # NoLoot)
        /\ \/ /\ W.loot # NoLoot
              /\ Become(w, [W EXCEPT !.pc = "loot", !.tries = 0,
                                     !.is_idle = IF W.ctx = "idle" THEN 0 ELSE @])
              /\ UNCHANGED wl
           \/ /\ W.loot = NoLoot /\ W.ctx = "busy" /\ Proceed(w)
           \/ /\ W.loot = NoLoot /\ W.ctx = "idle" /\ o.seq =< MaxSeq
              /\ Become(w, [W EXCEPT !.is_idle = o.idle, !.idle_seqnr = o.seq, !.tries = 0,
                                     !.pc = IF o.busy THEN "steal" ELSE "done"])
              /\ UNCHANGED wl
        /\ UNCHANGED <<net, inp>>

-----------------------------------------------------------------------------
(* Working on an item *)

RECURSIVE SkipGarbage(_, _, _)

(* The loop of SNetWorkerWorkItem over dissolved landings: the licences    *)
(* are released on each one and follow to its output descriptor; those of  *)
(* another item of this worker for a passed descriptor are taken along.    *)
SkipGarbage(P, w, i) ==
    LET d == P.l.item[i].desc
        next == P.n.out[d]
        o == Lookup(P.l, w, next, i)
        also == P.n.type[next] = "garbage" /\ o # 0 /\ P.l.item[o].lock = 0
        extra == IF also THEN P.l.item[o].count ELSE 0
        Q == [P EXCEPT !.n = SNetDescRelease(@, d, P.l.item[i].count),
                       !.l.item[i].desc = next,
                       !.l.item[i].count = @ + extra,
                       !.l.item[IF also THEN o ELSE i].count = IF also THEN 0 ELSE @]
    IN  IF P.n.type[d] = "garbage" THEN SkipGarbage(Q, w, i) ELSE P

(* SNetWorkerWorkItem up to SNetStreamWork, whose SNetFifoGet is included: *)
(* "no" (landing locked), "did" (progress without a record) or "go".       *)
Claim(P, w, i) ==
    LET garbage == P.n.type[P.l.item[i].desc] = "garbage"
        S == SkipGarbage(P, w, i)
        d == S.l.item[i].desc
        o == Lookup(S.l, w, d, i)
    IN  CASE P.n.lock[P.l.item[i].desc] # 0 -> [P EXCEPT !.res = "no"]
          [] P.n.lock[P.l.item[i].desc] = 0 /\ garbage /\ o # 0 ->
               [S EXCEPT !.l.item[o].count = @ + S.l.item[i].count,
                         !.l.item[i].count = 0, !.l.item[i].desc = 0, !.res = "did"]
          [] P.n.lock[P.l.item[i].desc] = 0 /\ garbage /\ o = 0 /\ S.n.lock[d] # 0 ->
               [S EXCEPT !.res = "did"]
          [] OTHER ->
               [S EXCEPT !.l.item[i].count = @ - 1, !.l.item[i].lock = 0,
                         !.n.lock[d] = w,
                         !.n.fifo[d] = IF @ = <<>> THEN @ ELSE Tail(@),
                         !.hand = [desc |-> d, rec |-> IF S.n.fifo[d] = <<>> THEN 0
                                                       ELSE Head(S.n.fifo[d])],
                         !.res = "go"]

(* A removed item a thief stands on: its next pointer is cleared.          *)
NoteFreed(i) ==
    [v \in Workers |-> IF i # 0 /\ ws[v].at = i THEN [ws[v] EXCEPT !.freed = TRUE] ELSE ws[v]]

(* Variant of the next operator: an item is removed although a thief holds *)
(* its lock or licences are left.                                          *)
DropAlways(L, w, i) ==
    [PutFreeWorkItem(L, w, i) EXCEPT !.todo[w] = Remove(@, i), !.cur[w] = 0]

(* Variant of the next operator: empty items stay on the list.             *)
DropNever(L, w, i) == [L EXCEPT !.item[i].lock = IF @ = w THEN 0 ELSE @, !.cur[w] = 0]

(* SNetWorkerWork after an item: remove it if empty, else unlock it.       *)
Drop(L, w, i) ==
    IF L.item[i].count = 0 /\ L.item[i].lock \in {0, w}
    THEN [PutFreeWorkItem(L, w, i) EXCEPT !.todo[w] = Remove(@, i), !.cur[w] = 0]
    ELSE [L EXCEPT !.item[i].lock = IF @ = w THEN 0 ELSE @, !.cur[w] = 0]

Dropped(M, i) == IF \E w \in Workers : i \in M.free[w] THEN i ELSE 0

(* One item of the traversal in SNetWorkerWork, or its end.                *)
WorkNext(w) ==
    LET k == wl.pos[w]
        i == wl.todo[w][k]
        P == [n |-> net, hand |-> NoHand, res |-> "no",
              l |-> [wl EXCEPT !.item[i].lock = w, !.cur[w] = i]]
        C == IF wl.item[i].count > 0 THEN Claim(P, w, i) ELSE P
        D == Drop(C.l, w, i)
        F == NoteFreed(Dropped(D, i))
    IN  /\ Step(w, "work")
        /\ \/ /\ k > Len(wl.todo[w])
              /\ wl' = [wl EXCEPT !.has_work[w] = wl.todo[w] # <<>>]
              /\ Become(w, Run(ws[w], wl.todo[w] # <<>>)) /\ UNCHANGED net
           \/ /\ k =< Len(wl.todo[w]) /\ wl.item[i].lock # 0
              /\ wl' = [wl EXCEPT !.pos[w] = @ + 1]
              /\ UNCHANGED <<net, ws>>
           \/ /\ k =< Len(wl.todo[w]) /\ wl.item[i].lock = 0 /\ C.res = "go"
              /\ net' = C.n /\ wl' = C.l
              /\ Become(w, [ws[w] EXCEPT !.pc = "process", !.ctx = "work", !.hand = C.hand])
           \/ /\ k =< Len(wl.todo[w]) /\ wl.item[i].lock = 0 /\ C.res # "go"
              /\ net' = C.n
              /\ wl' = [D EXCEPT !.pos[w] = IF C.res = "did" THEN 1
                                            ELSE IF D.todo[w] = wl.todo[w] THEN k + 1 ELSE k]
              /\ ws' = F
        /\ UNCHANGED inp

(* SNetWorkerLoot: add the licences to the worker's own item, or make one. *)
Loot(w) ==
    LET lo == ws[w].loot
        new == lo.item = 0
        i == IF new THEN GetFreeWorkItem(wl, w) ELSE lo.item
        A == IF new THEN NewItem(wl, w, lo.desc, lo.count, w)
             ELSE [wl EXCEPT !.item[i].count = @ + lo.count]
        mine == new \/ A.item[i].lock = 0
        B == [A EXCEPT !.item[i].lock = IF mine THEN w ELSE @, !.cur[w] = i]
        P == [n |-> net, hand |-> NoHand, res |-> "no", l |-> B]
        C == IF mine /\ B.item[i].count > 0 THEN Claim(P, w, i) ELSE P
        to == [ws[w] EXCEPT !.loot = NoLoot, !.ctx = IF new THEN "lootnew" ELSE "lootitem"]
    IN  /\ Step(w, "loot")
        /\ net' = C.n /\ wl' = C.l
        /\ Become(w, IF C.res = "go" THEN [to EXCEPT !.pc = "process", !.hand = C.hand]
                     ELSE [to EXCEPT !.pc = "after"])
        /\ UNCHANGED inp

(* SNetStreamWork: process the record in hand, unlock the landing, let go  *)
(* of the descriptor, and go on with the continuation if there is one.     *)
Process(w) ==
    LET h == ws[w].hand
        P == NodeWork([n |-> net, l |-> wl, hand |-> NoHand], h.desc, h.rec)
        N == [P.n EXCEPT !.lock[h.desc] = 0]
    IN  /\ Step(w, "process")
        /\ net' = SNetDescRelease(N, h.desc, 1)
        /\ wl' = P.l
        /\ Become(w, [ws[w] EXCEPT !.hand = P.hand,
                                   !.pc = IF P.hand = NoHand THEN "after" ELSE "process"])
        /\ UNCHANGED inp

(* Back in SNetWorkerWork (which starts again at the head of the list) or  *)
(* in SNetWorkerLoot (after which SNetWorkerRun works on the list).        *)
After(w) ==
    LET i == wl.cur[w]
        D == Drop(wl, w, i)
        keeps == i \notin D.free[w]
        E == IF ws[w].ctx = "lootnew" /\ keeps
             THEN [D EXCEPT !.todo[w] = InsertAt(@, D.pos[w], i)] ELSE D
        U == IF ws[w].ctx = "lootitem"
             THEN [wl EXCEPT !.item[i].lock = IF @ = w THEN 0 ELSE @, !.cur[w] = 0] ELSE E
        F == NoteFreed(IF ws[w].ctx # "lootitem" THEN Dropped(D, i) ELSE 0)
    IN  /\ Step(w, "after")
        /\ wl' = [U EXCEPT !.pos[w] = 1,
                    !.has_work[w] = IF ws[w].ctx = "work" THEN @ ELSE U.todo[w] # <<>>]
        /\ ws' = [F EXCEPT ![w].pc = "work", ![w].ctx = "work"]
        /\ UNCHANGED <<net, inp>>

WorkerStep(w) ==
    \/ Input(w) \/ StealEnter(w) \/ Visit(w) \/ Grab(w)
    \/ StealDone(w) \/ WorkNext(w) \/ Loot(w) \/ Process(w) \/ After(w)

(* The threads have been joined (SNetThreadingStop).                       *)
AllDone == \A w \in Workers : ws[w].pc = "done"
Stopped == AllDone /\ UNCHANGED vars

Next == (\E w \in Workers : WorkerStep(w)) \/ Stopped

(* What a step of worker w always changes and no other worker touches.     *)
Progress(w) ==
    <<[ws[w] EXCEPT !.freed = FALSE], wl.pos[w], wl.todo[w],
      [k \in DOMAIN wl.todo[w] |-> wl.item[wl.todo[w][k]].desc]>>

(* w tries to lock an item of its own; a thief has it, or w gets it.       *)
Tries(w, free) ==
    /\ Step(w, "work") /\ wl.pos[w] =< Len(wl.todo[w])
    /\ (wl.item[wl.todo[w][wl.pos[w]]].lock = 0) = free
    /\ Progress(w)' # Progress(w)

(* Every worker is a thread that the operating system schedules, and a     *)
(* worker that has not ended can always take a step: WF(WorkerStep(w)) in  *)
(* a form that does not evaluate ENABLED.  And a worker that tries again   *)
(* and again to lock items of its own gets one some time: a thief holds    *)
(* the lock for a few instructions only, and the threads do not run in     *)
(* lockstep for ever.                                                      *)
Fairness ==
    \A w \in Workers :
        /\ \/ []<>(ws[w].pc = "done")
           \/ []<><<Progress(w)' # Progress(w)>>_vars
        /\ \/ <>[][~Tries(w, FALSE)]_vars
           \/ []<><<Tries(w, TRUE)>>_vars

Spec == Init /\ [][Next]_vars /\ Fairness

-----------------------------------------------------------------------------
(* Properties *)

Sum(S, f(_)) == MapThenSumSet(f, S)

LicencesOf(d) ==
    Sum(UNION {OfWorker(wl, w) : w \in Workers},
        LAMBDA i : IF wl.item[i].desc = d THEN wl.item[i].count ELSE 0)
    + Sum(Workers, LAMBDA w : IF ws[w].loot.desc = d THEN ws[w].loot.count ELSE 0)

Live(d) == net.type[d] \notin {"none", "garbage", "freed"}

(* The descriptors a licence for d passes: d itself and, while landings on *)
(* the way are dissolved, the next ones.                                   *)
RECURSIVE Path(_)
Path(d) == {d} \cup (IF net.type[d] = "garbage" THEN Path(net.out[d]) ELSE {})

LicencesVia(d) == Sum({g \in Descs : net.type[g] # "freed" /\ d \in Path(g)}, LicencesOf)

(* The workers together hold exactly as many licences for a stream as it   *)
(* has records, counting those that still refer to a stream merged into    *)
(* it: no record is stranded and no worker reads an empty stream           *)
(* (assert(rec) in SNetStreamWork), whatever is stolen or dissolved.       *)
LicencesMatchRecords ==
    /\ \A d \in Descs : Live(d) => LicencesVia(d) = Len(net.fifo[d])
    /\ \A w \in Workers : ws[w].hand # NoHand => ws[w].hand.rec # 0

(* A descriptor's count is what still refers to it: the landing that       *)
(* writes to it, the dissolved landings before it, the licences that lead  *)
(* to it or through it, and the worker that handles one of its records: it *)
(* is neither closed early nor leaked.                                     *)
RefsExact ==
    \A d \in Descs : net.type[d] \notin {"none", "freed"} =>
        net.refs[d] =
            Cardinality({l \in Lands : net.out[l] = d /\ (l = 0 \/ net.type[l] # "freed")})
            + LicencesVia(d)
            + Cardinality({w \in Workers : ws[w].hand.desc = d})

(* A worker has at most one item per stream (its hash table would lose the *)
(* other one), and only streams that are still there have licences.        *)
OneItemPerStream ==
    \A w \in Workers : \A i, j \in OfWorker(wl, w) :
        /\ wl.item[i].desc # 0 /\ wl.item[i].desc = wl.item[j].desc => i = j
        /\ wl.item[i].count > 0 => net.type[wl.item[i].desc] \notin {"none", "freed"}

(* An item that its owner has freed under a thief's feet is not handed out *)
(* again before the thief has left (the turn of PutFreeWorkItem).          *)
NoReuseUnderThief ==
    \A w \in Workers : ws[w].freed => ws[w].at \in wl.free[ws[w].victim]

(* The records a pipeline delivers for input records 1, 2, 3, ...          *)
Outputs(n) ==
    LET twice(q) == FlattenSeq([k \in DOMAIN q |-> <<2 * q[k], 2 * q[k] + 1>>])
        F[d \in 0..Depth] ==
            IF d = 0 THEN [k \in 1..n |-> k]
            ELSE IF inp.pipe.kind[d] = "dup" THEN twice(F[d - 1]) ELSE F[d - 1]
    IN  F[Depth]

(* The records leave in the order of the stream, although any worker may   *)
(* have processed any of them; the output ends after the last one, and no  *)
(* worker leaves a record behind.                                          *)
InOrder ==
    /\ IsPrefix(net.outs, Outputs(inp.pipe.num))
    /\ net.terminated => net.outs = Outputs(inp.pipe.num)
    /\ AllDone => net.terminated

(* The output terminates and every worker thread ends.                     *)
AllEnd == <>AllDone
=============================================================================
