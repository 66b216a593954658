------------------------------- MODULE Lists -------------------------------
(***************************************************************************)
(* The sequences of the runtime systems: the queue and the lists, the sets *)
(* of streams, and the queue of a Front stream.                            *)
(***************************************************************************)
EXTENDS Integers, Sequences, FiniteSetsExt

CONSTANT NULL        \* the null pointer

(***************************************************************************)
(* The pointer queue of src/src/runtime/stream/utils/queue.c: a growing    *)
(* ring of entries.  The slot at tail is always empty, so that a full ring *)
(* has size - 1 elements.  Arrays are functions from 0.                    *)
(*                                                                         *)
(* The iterators of the file have no caller, and only they leave holes     *)
(* (NULL entries between head and tail), so the compaction that            *)
(* SNetQueuePut would run on a ring with holes is represented by a check   *)
(* that it is not needed.                                                  *)
(***************************************************************************)

CONSTANTS NUM_INITIAL_ELEMENTS     \* the increment of the ring's size

ASSUME QueueAssumption == NUM_INITIAL_ELEMENTS \in Nat \ {0, 1}

SNetQueueCreate ==
    [head |-> 0, tail |-> 0, size |-> NUM_INITIAL_ELEMENTS, elements |-> 0,
     entries |-> [i \in 0..(NUM_INITIAL_ELEMENTS - 1) |-> NULL]]

SNetQueueSize(q) == q.elements

\* The number of steps from index a to index b of the ring, at least one.
Steps(q, a, b) == IF a < b THEN b - a ELSE q.size + b - a

\* The entries the do-while loop of SNetQueueIncreaseSize copies.
Copied(q) ==
    SelectSeq([k \in 1..Steps(q, q.head, q.tail) |->
                   q.entries[(q.head + k - 1) % q.size]],
              LAMBDA e : e # NULL)

SNetQueueIncreaseSize(q) ==
    LET kept == Copied(q)
        size == q.size + NUM_INITIAL_ELEMENTS
    IN  [q EXCEPT !.head = 0, !.tail = Len(kept), !.size = size,
                  !.entries = [i \in 0..(size - 1) |->
                      IF i < Len(kept) THEN kept[i + 1] ELSE NULL]]

IsFull(q) == (q.tail + 1) % q.size = q.head

\* A full ring without holes grows; a ring with holes would be compacted.
NeedsCompact(q) == IsFull(q) /\ q.elements < q.size - 1

SNetQueuePut(q, value) ==
    LET r == IF IsFull(q) THEN SNetQueueIncreaseSize(q) ELSE q
        next == (r.tail + 1) % r.size
    IN  [r EXCEPT !.entries = [@ EXCEPT ![r.tail] = value, ![next] = NULL],
                  !.tail = next,
                  !.elements = @ + 1]

\* The head after the first entry: the next entry that is not NULL, or tail.
NextHead(q) ==
    LET At(k) == (q.head + k) % q.size
    IN  At(Min({k \in 1..q.size :
                    At(k) = q.tail \/ q.entries[At(k)] # NULL}))

SNetQueueGet(q) ==
    IF q.head # q.tail
    THEN [q |-> [q EXCEPT !.elements = @ - 1, !.head = NextHead(q)],
          value |-> q.entries[q.head]]
    ELSE [q |-> q, value |-> NULL]

SNetQueuePeek(q) == IF q.head # q.tail THEN q.entries[q.head] ELSE NULL

-----------------------------------------------------------------------------
(***************************************************************************)
(* The lists generated from src/include/list-template.c (a ring that grows *)
(* by one when it is full) and the record types built on them in           *)
(* src/src/runtime/common/variant.c.                                       *)
(*                                                                         *)
(* SNetListRemove is left out: its only callers are the Remove functions   *)
(* of variant.c, which no code calls.                                      *)
(***************************************************************************)

SNetListCreate(s) ==
    [size |-> Len(s), used |-> Len(s), start |-> 0,
     values |-> [i \in 0..(Len(s) - 1) |-> s[i + 1]]]

SNetListLength(l) == l.used

\* The element LIST_FOR_EACH and LIST_ENUMERATE visit as the i-th, from 0.
SNetListGet(l, i) == l.values[(l.start + i) % l.size]

\* The two memcpy calls into a larger array whose first slot is `at': the
\* part from start to the end of the array, then the part before start.
Regrown(l, at) ==
    LET toEnd == l.used - l.start
    IN  [i \in 0..l.size |->
            IF i < at \/ i >= at + l.used THEN 0
            ELSE IF i - at < toEnd THEN l.values[l.start + i - at]
            ELSE l.values[i - at - toEnd]]

SNetListAppendStart(l, val) ==
    LET r == IF l.used = l.size
             THEN [l EXCEPT !.values = Regrown(l, 1), !.size = @ + 1,
                            !.start = 1]
             ELSE l
        start == (r.start + r.size - 1) % r.size
    IN  [r EXCEPT !.start = start, !.values[start] = val, !.used = @ + 1]

SNetListAppendEnd(l, val) ==
    LET r == IF l.used = l.size
             THEN [l EXCEPT !.values = Regrown(l, 0), !.size = @ + 1,
                            !.start = 0]
             ELSE l
    IN  [r EXCEPT !.values[(r.start + r.used) % r.size] = val, !.used = @ + 1]

\* The assertion of both pops: the list is not empty.
SNetListPopStart(l) ==
    LET start == (l.start + 1) % l.size
    IN  [l |-> [l EXCEPT !.used = @ - 1, !.start = start],
         value |-> l.values[(start + l.size - 1) % l.size]]

SNetListPopEnd(l) ==
    [l |-> [l EXCEPT !.used = @ - 1],
     value |-> l.values[(l.start + l.used - 1) % l.size]]

\* One turn of LIST_DEQUEUE_EACH.
SNetListDequeue(l) ==
    [l |-> [l EXCEPT !.used = @ - 1, !.start = (@ + 1) % l.size],
     value |-> l.values[l.start]]

SNetListContains(l, val) ==
    \E i \in 0..(l.used - 1) : SNetListGet(l, i) = val

\* The copy takes size elements into an array of used: it is meant for a
\* list with used = size, the only kind that is copied (a variant's lists).
CopyFits(l) == l.size <= l.used

SNetListCopy(l) ==
    LET toEnd == l.size - l.start
    IN  [size |-> l.used, used |-> l.used, start |-> 0,
         values |-> [i \in 0..(l.size - 1) |->
             IF i < toEnd THEN l.values[l.start + i] ELSE l.values[i - toEnd]]]

SNetListDeepCopy(l) ==
    [size |-> l.used, used |-> l.used, start |-> 0,
     values |-> [i \in 0..(l.used - 1) |-> SNetListGet(l, i)]]

-----------------------------------------------------------------------------
(* Variants: a list of names for each kind of entry of a record type.      *)

VariantKinds == {"fields", "tags", "btags"}

SNetVariantCreateEmpty == [k \in VariantKinds |-> SNetListCreate(<<>>)]

SNetVariantCopy(v) == [k \in VariantKinds |-> SNetListCopy(v[k])]

\* SNetVariantAddField, SNetVariantAddTag and SNetVariantAddBTag.
SNetVariantAdd(v, k, name) == [v EXCEPT ![k] = SNetListAppendEnd(@, name)]

SNetVariantHas(v, k, name) == SNetListContains(v[k], name)

SNetVariantNum(v, k) == SNetListLength(v[k])

SNetVariantIsEmpty(v) == \A k \in VariantKinds : SNetVariantNum(v, k) = 0

\* The loop over src, for overwrite = false, the only value it is called with.
IntlistAddAll(dst, src) ==
    LET Added[i \in 0..src.used] ==
            IF i = 0 THEN dst
            ELSE LET name == SNetListGet(src, i - 1)
                 IN  IF SNetListContains(Added[i - 1], name) THEN Added[i - 1]
                     ELSE SNetListAppendEnd(Added[i - 1], name)
    IN  Added[src.used]

SNetVariantAddAll(to, from) ==
    [k \in VariantKinds |-> IntlistAddAll(to[k], from[k])]

-----------------------------------------------------------------------------
(***************************************************************************)
(* Sets of stream descriptors and their iterators                          *)
(* (src/src/threading/pthread/streamset.c): a circular list linked by the  *)
(* descriptors' next pointers, whose handle `set' is the last element, and *)
(* an iterator that keeps the current element and the one before it, so    *)
(* that elements can be removed and appended while iterating.              *)
(***************************************************************************)

CONSTANTS Nodes      \* the stream descriptors

\* An empty set with an iterator for it (SNetStreamIterCreate, which sets
\* the same fields as SNetStreamIterReset).
StreamsetInit ==
    [set |-> NULL, next |-> [n \in Nodes |-> NULL], prev |-> NULL, cur |-> NULL]

SNetStreamsetPut(s, node) ==
    IF s.set = NULL
    THEN [s EXCEPT !.set = node, !.next[node] = node]
    ELSE [s EXCEPT !.next = [@ EXCEPT ![node] = s.next[s.set], ![s.set] = node],
                   !.set = node]

\* The node before `node' on the circle: what the do-while loop of
\* SNetStreamsetRemove leaves in prev when it finds the node.
Before(s, node) == CHOOSE p \in Nodes : s.next[p] = node

\* Called for a node of the set (the other case returns -1).
SNetStreamsetRemove(s, node) ==
    LET prev == Before(s, node)
    IN  IF prev = node
        THEN [s EXCEPT !.set = NULL]
        ELSE [s EXCEPT !.next = [@ EXCEPT ![prev] = s.next[node], ![node] = NULL],
                       !.set = IF @ = node THEN prev ELSE @]

SNetStreamListIsEmpty(s) == s.set = NULL

SNetStreamIterReset(s) == [s EXCEPT !.prev = s.set, !.cur = NULL]

SNetStreamIterHasNext(s) == s.set # NULL /\ (s.cur # s.set \/ s.cur = NULL)

SNetStreamIterNext(s) ==
    IF s.cur # NULL
    THEN [s EXCEPT !.prev = s.cur, !.cur = s.next[s.cur]]
    ELSE [s EXCEPT !.cur = s.next[s.prev]]

\* Both corrections of prev: for a current element that was the first, and
\* for one that was the only one.
SNetStreamIterAppend(s, node) ==
    LET prev == IF s.prev = s.set THEN node ELSE s.prev
    IN  [s EXCEPT !.next = [@ EXCEPT ![node] = s.next[s.set], ![s.set] = node],
                  !.prev = IF prev = s.cur THEN node ELSE prev,
                  !.set = node]

SNetStreamIterRemove(s) ==
    IF s.prev = s.cur
    THEN [s EXCEPT !.next[s.cur] = NULL, !.set = NULL]
    ELSE LET next == [s.next EXCEPT ![s.prev] = s.next[s.cur], ![s.cur] = NULL]
         IN  IF s.set = s.prev
             THEN [s EXCEPT !.next = next, !.cur = NULL]
             ELSE [s EXCEPT !.next = next,
                            !.set = IF @ = s.cur THEN s.prev ELSE @,
                            !.cur = s.prev]

\* The assertion of SNetStreamIterRemove.
IterRemoveAsserts(s) == s.prev = s.cur => s.prev = s.set

-----------------------------------------------------------------------------
\* The elements from the first (the one after the handle) to the handle.
Elements(s) ==
    IF s.set = NULL THEN <<>>
    ELSE LET Walk[k \in 0..Cardinality(Nodes)] ==
                 IF k = 0 THEN s.set ELSE s.next[Walk[k - 1]]
             n == CHOOSE k \in 1..Cardinality(Nodes) :
                     Walk[k] = s.set /\ \A j \in 1..(k - 1) : Walk[j] # s.set
         IN  [k \in 1..n |-> Walk[k]]

-----------------------------------------------------------------------------
(***************************************************************************)
(* The queue of a Front stream (src/src/runtime/front/xfifo.c): a linked   *)
(* list whose first node carries no item, used without a lock by at most   *)
(* one writer and one reader at a time.  The steps of SNetFifoPut and      *)
(* SNetFifoGet are single memory accesses, in program order (the order the *)
(* code relies on); the functions for a caller that owns both sides are    *)
(* one step each.                                                          *)
(***************************************************************************)

CONSTANTS FifoNodes        \* the memory for nodes

\* wpc and rpc are the writer's and the reader's place in the code, wnode
\* and wtail, rhead and ritem their local variables; live are the nodes
\* that are allocated.
SNetFifoInit ==
    LET first == CHOOSE n \in FifoNodes : TRUE
    IN  [head |-> first, tail |-> first, live |-> {first},
         next |-> [n \in FifoNodes |-> NULL], item |-> [n \in FifoNodes |-> NULL],
         wpc |-> "idle", wnode |-> NULL, wtail |-> NULL,
         rpc |-> "idle", rhead |-> NULL, ritem |-> NULL]

NewNode(f) == CHOOSE n \in FifoNodes : n \notin f.live

\* SNetFifoPut: a new node, then the link, then the tail.
PutNew(f, item) ==
    LET n == NewNode(f)
    IN  [f EXCEPT !.live = @ \cup {n}, !.next[n] = NULL, !.item[n] = item,
                  !.wnode = n, !.wtail = f.tail, !.wpc = "link"]

PutLink(f) == [f EXCEPT !.next[f.wtail] = f.wnode, !.wpc = "tail"]

PutTailPtr(f) ==
    [f EXCEPT !.tail = f.wnode, !.wnode = NULL, !.wtail = NULL, !.wpc = "idle"]

\* SNetFifoGet: the test, the item, the emptied node, the head, the delete.
GetTest(f) ==
    IF f.next[f.head] = NULL THEN f ELSE [f EXCEPT !.rhead = f.head, !.rpc = "item"]

GetItem(f) == [f EXCEPT !.ritem = f.item[f.next[f.rhead]], !.rpc = "clear"]

GetClear(f) == [f EXCEPT !.item[f.next[f.rhead]] = NULL, !.rpc = "head"]

GetHead(f) == [f EXCEPT !.head = f.next[f.rhead], !.rpc = "delete"]

GetDelete(f) ==
    [f EXCEPT !.live = @ \ {f.rhead}, !.rhead = NULL, !.ritem = NULL,
              !.rpc = "idle"]

\* Put and get at once: the head node becomes the new last node.
SNetFifoPutGet(f, item) ==
    LET node == f.head
        new == f.next[node]
    IN  IF new = NULL THEN [f |-> f, item |-> item]
        ELSE [f |-> [f EXCEPT !.head = new, !.tail = node,
                              !.next = [@ EXCEPT ![node] = NULL, ![f.tail] = node],
                              !.item = [@ EXCEPT ![node] = item, ![new] = NULL]],
              item |-> f.item[new]]

\* The list after the first node is taken off and attached again, as the
\* merge of two streams does with the second stream's queue.
SNetFifoGetTail(f) ==
    IF f.tail = f.head THEN [f |-> f, node |-> NULL, tail |-> NULL]
    ELSE [f |-> [f EXCEPT !.next[f.head] = NULL, !.tail = f.head],
          node |-> f.next[f.head], tail |-> f.tail]

SNetFifoPutTail(f, node, tail) ==
    IF node = NULL THEN f
    ELSE [f EXCEPT !.next[f.tail] = node, !.tail = tail]

SNetFifoPeekFirst(f) ==
    IF f.next[f.head] = NULL THEN NULL ELSE f.item[f.next[f.head]]

SNetFifoPeekLast(f) == f.item[f.tail]

SNetFifoNonEmpty(f) == SNetFifoPeekFirst(f) # NULL

\* What SNetFifoDone asserts of a queue that is destroyed.
FifoDoneAsserts(f) ==
    f.head = f.tail /\ f.next[f.head] = NULL /\ f.item[f.head] = NULL

-----------------------------------------------------------------------------
\* The items from the head on; the reader has taken the first of them once
\* it has read it.
Items(f) ==
    LET Walk[k \in 0..Cardinality(FifoNodes)] ==
            IF k = 0 THEN f.head
            ELSE IF Walk[k - 1] = NULL THEN NULL ELSE f.next[Walk[k - 1]]
        n == CHOOSE k \in 0..Cardinality(FifoNodes) :
                 /\ f.next[Walk[k]] = NULL
                 /\ \A j \in 0..(k - 1) : f.next[Walk[j]] # NULL
        taken == IF f.rpc \in {"clear", "head"} THEN 1 ELSE 0
    IN  [k \in 1..(n - taken) |-> f.item[Walk[k + taken]]]

\* The nodes the next step of each side reads or writes.
Touched(f) ==
    (IF f.wpc = "link" THEN {f.wtail, f.wnode} ELSE {})
    \cup (IF f.rpc \in {"item", "clear", "head"} THEN {f.rhead, f.next[f.rhead]}
          ELSE IF f.rpc = "delete" THEN {f.rhead} ELSE {f.head})

=============================================================================
