------------------------------ MODULE Library -------------------------------
(***************************************************************************)
(* The data structures of the runtime systems in use.  A behaviour picks   *)
(* one kind of container and calls its operations in any order its callers *)
(* may; con is the container as the code keeps it, abs what it stands for  *)
(* (a sequence, a function, a set of blocks), and ret the last result the  *)
(* code returned next to the one the abstract value calls for.             *)
(***************************************************************************)
EXTENDS Integers, Sequences, FiniteSets, SequencesExt, Lists, Tables

CONSTANTS Values,        \* the values that are stored
          Keys,          \* the keys of the tables
          MaxLen,        \* bound: the length of a sequence
          MaxPuts        \* bound: the puts into a table

VARIABLES kind, con, abs, ret

libVars == <<kind, con, abs, ret>>

NoRet == [got |-> NULL, want |-> NULL]
Returned(got, want) == ret' = [got |-> got, want |-> want]
Silent == ret' = NoRet

EmptyFun == [k \in {} |-> NULL]
Updated(f, k, v) == [x \in DOMAIN f \cup {k} |-> IF x = k THEN v ELSE f[x]]
Without(f, k) == [x \in DOMAIN f \ {k} |-> f[x]]
At(f, k) == IF k \in DOMAIN f THEN f[k] ELSE NULL

IsKind(k) == kind = k /\ UNCHANGED kind

\* The set with its iterator: the elements, the ones the iteration has still
\* to visit, the one it is at, and whether it may go on (a change that does
\* not go through the iterator ends the iteration).
NoIteration(elems) ==
    [elems |-> elems, todo |-> <<>>, cur |-> NULL, iterating |-> FALSE]

Containers ==
    [queue |-> [con |-> SNetQueueCreate, abs |-> <<>>],
     list |-> [con |-> SNetListCreate(<<>>), abs |-> <<>>],
     variant |-> [con |-> <<SNetVariantCreateEmpty, SNetVariantCreateEmpty>>,
                  abs |-> <<[k \in VariantKinds |-> <<>>],
                            [k \in VariantKinds |-> <<>>]>>],
     streamset |-> [con |-> StreamsetInit, abs |-> NoIteration(<<>>)],
     fifo |-> [con |-> SNetFifoInit, abs |-> <<>>],
     hashtab |-> [con |-> HashtabCreate, abs |-> EmptyFun],
     hashtable |-> [con |-> SNetHashtableCreate, abs |-> EmptyFun],
     hashptr |-> [con |-> SNetHashPtrTabCreate(0), abs |-> EmptyFun],
     map |-> [con |-> SNetMapCreate(<<>>), abs |-> EmptyFun],
     lut |-> [con |-> LutInit, abs |-> {}],
     bitmap |-> [con |-> NULL, abs |-> {}]]

SequenceKinds == {"queue", "list", "variant", "streamset", "fifo"}
TableKinds == DOMAIN Containers \ SequenceKinds

ContainerInit ==
    /\ kind \in DOMAIN Containers
    /\ con = Containers[kind].con
    /\ abs = Containers[kind].abs
    /\ ret = NoRet

-----------------------------------------------------------------------------
(* The queue.                                                              *)

QueuePut(v) ==
    /\ IsKind("queue") /\ Len(abs) < MaxLen
    /\ con' = SNetQueuePut(con, v)
    /\ abs' = Append(abs, v)
    /\ Silent

QueueGet ==
    /\ IsKind("queue")
    /\ con' = SNetQueueGet(con).q
    /\ abs' = IF abs = <<>> THEN <<>> ELSE Tail(abs)
    /\ Returned(SNetQueueGet(con).value, IF abs = <<>> THEN NULL ELSE Head(abs))

(* The list.                                                               *)

ListAppend(v) ==
    /\ IsKind("list") /\ Len(abs) < MaxLen
    /\ \/ con' = SNetListAppendStart(con, v) /\ abs' = <<v>> \o abs
       \/ con' = SNetListAppendEnd(con, v) /\ abs' = Append(abs, v)
    /\ Silent

ListPop ==
    /\ IsKind("list") /\ abs # <<>>
    /\ \/ /\ con' = SNetListPopStart(con).l
          /\ abs' = Tail(abs)
          /\ Returned(SNetListPopStart(con).value, Head(abs))
       \/ /\ con' = SNetListPopEnd(con).l
          /\ abs' = Front(abs)
          /\ Returned(SNetListPopEnd(con).value, Last(abs))
       \/ /\ con' = SNetListDequeue(con).l
          /\ abs' = Tail(abs)
          /\ Returned(SNetListDequeue(con).value, Head(abs))

ListCopies ==
    /\ IsKind("list")
    /\ \/ CopyFits(con) /\ con' = SNetListCopy(con)
       \/ con' = SNetListDeepCopy(con)
    /\ UNCHANGED abs
    /\ Silent

(* Two variants, whose names the generated code adds, and their union.     *)

VariantAdd(i, k, name) ==
    /\ IsKind("variant") /\ Len(abs[i][k]) < 2 /\ ~Contains(abs[i][k], name)
    /\ con' = [con EXCEPT ![i] = SNetVariantAdd(@, k, name)]
    /\ abs' = [abs EXCEPT ![i][k] = Append(@, name)]
    /\ Silent

VariantUnion ==
    /\ IsKind("variant")
    /\ con' = <<SNetVariantAddAll(SNetVariantCopy(con[1]), con[2]), con[2]>>
    /\ abs' = <<[k \in VariantKinds |->
                    abs[1][k] \o SelectSeq(abs[2][k],
                                           LAMBDA n : ~Contains(abs[1][k], n))],
                abs[2]>>
    /\ Silent

(* The set of streams.  SNetStreamIterRemove is called once for an element *)
(* and SNetStreamIterAppend for a set that is not empty.                   *)

Elem == ToSet(abs.elems)

SetPut(n) ==
    /\ IsKind("streamset") /\ n \notin Elem
    /\ con' = SNetStreamsetPut(con, n)
    /\ abs' = NoIteration(Append(abs.elems, n))
    /\ Silent

SetRemove(n) ==
    /\ IsKind("streamset") /\ n \in Elem
    /\ con' = SNetStreamsetRemove(con, n)
    /\ abs' = NoIteration(SelectSeq(abs.elems, LAMBDA x : x # n))
    /\ Silent

IterReset ==
    /\ IsKind("streamset")
    /\ con' = SNetStreamIterReset(con)
    /\ abs' = [abs EXCEPT !.todo = abs.elems, !.cur = NULL, !.iterating = TRUE]
    /\ Silent

IterNext ==
    /\ IsKind("streamset") /\ abs.iterating /\ abs.todo # <<>>
    /\ con' = SNetStreamIterNext(con)
    /\ abs' = [abs EXCEPT !.todo = Tail(@), !.cur = Head(abs.todo)]
    /\ Returned(SNetStreamIterNext(con).cur, Head(abs.todo))

IterAppend(n) ==
    /\ IsKind("streamset") /\ abs.iterating /\ n \notin Elem /\ abs.elems # <<>>
    /\ con' = SNetStreamIterAppend(con, n)
    /\ abs' = [abs EXCEPT !.elems = Append(@, n), !.todo = Append(@, n)]
    /\ Silent

IterRemove ==
    /\ IsKind("streamset") /\ abs.iterating /\ abs.cur # NULL
    /\ con' = SNetStreamIterRemove(con)
    /\ abs' = [abs EXCEPT !.elems = SelectSeq(@, LAMBDA x : x # abs.cur),
                          !.cur = NULL]
    /\ Returned(IterRemoveAsserts(con), TRUE)

(* The queue of a Front stream: an item is in it once it is linked, and    *)
(* out of it once it is read.                                              *)

FifoPut(v) ==
    /\ IsKind("fifo") /\ con.wpc = "idle" /\ con.live # FifoNodes
    /\ con' = PutNew(con, v)
    /\ UNCHANGED abs
    /\ Silent

FifoPutStep ==
    /\ IsKind("fifo")
    /\ \/ /\ con.wpc = "link"
          /\ con' = PutLink(con)
          /\ abs' = Append(abs, con.item[con.wnode])
       \/ /\ con.wpc = "tail"
          /\ con' = PutTailPtr(con)
          /\ UNCHANGED abs
    /\ Silent

FifoGetStep ==
    /\ IsKind("fifo")
    /\ \/ /\ con.rpc = "idle" /\ con' = GetTest(con) /\ UNCHANGED abs
          /\ Returned(con'.rpc = "item", abs # <<>>)
       \/ /\ con.rpc = "item" /\ con' = GetItem(con) /\ abs' = Tail(abs)
          /\ Returned(con'.ritem, Head(abs))
       \/ con.rpc = "clear" /\ con' = GetClear(con) /\ UNCHANGED abs /\ Silent
       \/ con.rpc = "head" /\ con' = GetHead(con) /\ UNCHANGED abs /\ Silent
       \/ con.rpc = "delete" /\ con' = GetDelete(con) /\ UNCHANGED abs /\ Silent

\* The functions of a caller that owns both sides.
FifoOwner(v) ==
    /\ IsKind("fifo") /\ con.wpc = "idle" /\ con.rpc = "idle"
    /\ \/ /\ con' = SNetFifoPutGet(con, v).f
          /\ abs' = IF abs = <<>> THEN abs ELSE Append(Tail(abs), v)
          /\ Returned(SNetFifoPutGet(con, v).item,
                      IF abs = <<>> THEN v ELSE Head(abs))
       \/ /\ LET off == SNetFifoGetTail(con)
             IN  con' = SNetFifoPutTail(off.f, off.node, off.tail)
          /\ UNCHANGED abs
          /\ Returned(FifoDoneAsserts(SNetFifoGetTail(con).f), TRUE)

-----------------------------------------------------------------------------
(* The tables.                                                             *)

HashtabPuts(k, v) ==
    /\ IsKind("hashtab") /\ con.count < MaxPuts
    /\ con' = HashtabPut(con, k, v)
    /\ abs' = Updated(abs, k, v)
    /\ Returned(ProbeFinds(HashtabRoom(con), k), TRUE)

HashtablePuts(k, v) ==
    /\ IsKind("hashtable")
    /\ con' = SNetHashtablePut(con, k, v)
    /\ abs' = IF k \in DOMAIN abs THEN abs ELSE Updated(abs, k, v)
    /\ Silent

HashtableChanges(k, v) ==
    /\ IsKind("hashtable")
    /\ \/ /\ con' = SNetHashtableReplace(con, k, v)
          /\ abs' = IF k \in DOMAIN abs THEN Updated(abs, k, v) ELSE abs
       \/ /\ con' = SNetHashtableRemove(con, k)
          /\ abs' = Without(abs, k)
    /\ Silent

\* A worker stores a key it does not find and removes one it has.
HashPtrStores(k, v) ==
    /\ IsKind("hashptr") /\ k \notin DOMAIN abs
    /\ con' = SNetHashPtrStore(con, k, v)
    /\ abs' = Updated(abs, k, v)
    /\ Returned(StoreAsserts(con, k), TRUE)

HashPtrRemoves(k) ==
    /\ IsKind("hashptr") /\ k \in DOMAIN abs
    /\ con' = SNetHashPtrRemove(con, k)
    /\ abs' = Without(abs, k)
    /\ Silent

MapSets(k, v) ==
    /\ IsKind("map")
    /\ con' = SNetMapSet(con, k, v)
    /\ abs' = Updated(abs, k, v)
    /\ Silent

MapTakes(k) ==
    /\ IsKind("map") /\ k \in DOMAIN abs
    /\ con' = SNetMapTake(con, k)
    /\ abs' = Without(abs, k)
    /\ Returned(SNetMapGet(con, k), abs[k])

\* A rename to a name that is not there; with one that is, the map would
\* have the name twice.
MapRenames(k, new) ==
    /\ IsKind("map") /\ k \in DOMAIN abs /\ new \notin DOMAIN abs
    /\ con' = SNetMapRename(con, k, new)
    /\ abs' = Updated(Without(abs, k), new, abs[k])
    /\ Silent

MapMoves ==
    /\ IsKind("map")
    /\ \/ con' = SNetMapCopy(con)
       \/ con' = SNetMapDeserialise(SNetMapSerialise(con))
    /\ UNCHANGED abs
    /\ Silent

(* The page allocator.                                                     *)

Pages(b) == b.at..(b.at + b.size - 1)
UsedPages == UNION {Pages(b) : b \in abs}

\* The program stops when no free block is large enough.
LutMalloc(size) ==
    /\ IsKind("lut") /\ LutFits(con, size) # {}
    /\ con' = SCCMallocLut(con, size).lut
    /\ LET b == [at |-> SCCMallocLut(con, size).at, size |-> size]
       IN  abs' = abs \cup {b} /\ Returned(Pages(b) \cap UsedPages, {})

LutFree(b) ==
    /\ IsKind("lut") /\ b \in abs
    /\ con' = SCCFreeLut(con, b.at)
    /\ abs' = abs \ {b}
    /\ Silent

(* The bitmap: abs has the bits that are set.                              *)

BitmapMake(size) ==
    /\ IsKind("bitmap") /\ con = NULL
    /\ con' = SNetUtilBitmapCreate(size)
    /\ UNCHANGED abs
    /\ Silent

Bit(bits, bit) == IF bit \in bits THEN 1 ELSE 0
SetBits(map) == {bit \in 0..(SNetUtilBitmapSize(map) - 1) : IsSet(map, bit)}

\* The caller goes by the result: an error means that nothing changed,
\* anything else is the value before, and the bit now has the new one.
BitmapChange(bit) ==
    /\ IsKind("bitmap") /\ con # NULL
    /\ \/ \E r \in {SNetUtilBitmapSet(con, bit)} :
            /\ con' = r.map
            /\ IF r.val = SNET_BITMAP_ERR THEN UNCHANGED abs /\ Silent
               ELSE abs' = abs \cup {bit} /\ Returned(r.val, Bit(abs, bit))
       \/ \E r \in {SNetUtilBitmapClear(con, bit)} :
            /\ con' = r.map
            /\ IF r.val = SNET_BITMAP_ERR THEN UNCHANGED abs /\ Silent
               ELSE abs' = abs \ {bit} /\ Returned(r.val, Bit(abs, bit))

\* The bit that is returned was clear; nobody else gets it from now on.
BitmapFind ==
    /\ IsKind("bitmap") /\ con # NULL
    /\ \E r \in {SNetUtilBitmapFindNSet(con)} :
         /\ con' = r.map
         /\ IF r.bit = SNET_BITMAP_ERR THEN UNCHANGED abs /\ Silent
            ELSE /\ abs' = abs \cup {r.bit}
                 /\ Returned(r.bit \in 0..(SNetUtilBitmapSize(con) - 1) /\ r.bit \notin abs,
                             TRUE)

\* The program goes on with a copy in a used bitmap, when there is room.
BitmapCopies(size) ==
    /\ IsKind("bitmap") /\ con # NULL
    /\ \E used \in {SNetUtilBitmapFindNSet(SNetUtilBitmapCreate(size)).map} :
       \E r \in {SNetUtilBitmapCopy(con, used)} :
         /\ con' = IF r.val = 0 THEN r.map ELSE con
         /\ IF used.size < con.size
            THEN Returned(<<r.val, SetBits(r.map)>>, <<SNET_BITMAP_ERR, {0}>>)
            ELSE Returned(<<r.val, SetBits(r.map)>>, <<0, abs>>)
    /\ UNCHANGED abs

ContainerNext ==
    \/ \E v \in Values : QueuePut(v) \/ ListAppend(v) \/ FifoPut(v) \/ FifoOwner(v)
    \/ QueueGet \/ ListPop \/ ListCopies \/ VariantUnion
    \/ \E i \in 1..2, k \in VariantKinds, n \in Values : VariantAdd(i, k, n)
    \/ \E n \in Nodes : SetPut(n) \/ SetRemove(n) \/ IterAppend(n)
    \/ IterReset \/ IterNext \/ IterRemove
    \/ FifoPutStep \/ FifoGetStep
    \/ \E k \in Keys, v \in Values :
           \/ HashtabPuts(k, v) \/ HashtablePuts(k, v) \/ HashtableChanges(k, v)
           \/ HashPtrStores(k, v) \/ MapSets(k, v)
    \/ \E k \in Keys : HashPtrRemoves(k) \/ MapTakes(k)
    \/ \E k, new \in Keys : MapRenames(k, new)
    \/ MapMoves
    \/ \E size \in 1..RemotePages : LutMalloc(size)
    \/ \E b \in [at : 0..(RemotePages - 1), size : 1..RemotePages] : LutFree(b)
    \/ \E size \in BitmapSizes : BitmapMake(size) \/ BitmapCopies(size)
    \/ \E bit \in 0..Max(BitmapSizes) : BitmapChange(bit)
    \/ BitmapFind

-----------------------------------------------------------------------------
ListSeq(l) == [i \in 1..SNetListLength(l) |-> SNetListGet(l, i - 1)]

\* Every sequence container (the queue with its growing ring, the lists,
\* the variants' lists, the circular set of streams with its iterator, the
\* linked queue of a Front stream whose two ends are used without a lock)
\* holds the sequence its operations built and returns its elements in
\* order, and no step of the linked queue touches a node that was freed.
SequencesAgree ==
    /\ kind \in SequenceKinds => ret.got = ret.want
    /\ kind = "queue" =>
           /\ SNetQueueSize(con) = Len(abs) /\ ~NeedsCompact(con)
           /\ SNetQueuePeek(con) = IF abs = <<>> THEN NULL ELSE Head(abs)
           /\ Copied(con) = abs \/ abs = <<>>
    /\ kind = "list" =>
           /\ ListSeq(con) = abs
           /\ \A v \in Values : SNetListContains(con, v) <=> Contains(abs, v)
    /\ kind = "variant" =>
           \A i \in 1..2 :
               /\ \A k \in VariantKinds :
                      /\ ListSeq(con[i][k]) = abs[i][k]
                      /\ \A n \in Values : SNetVariantHas(con[i], k, n)
                                               <=> Contains(abs[i][k], n)
               /\ SNetVariantIsEmpty(con[i])
                      <=> abs[i] = [k \in VariantKinds |-> <<>>]
    /\ kind = "streamset" =>
           /\ Elements(con) = abs.elems
           /\ SNetStreamListIsEmpty(con) <=> abs.elems = <<>>
           /\ abs.iterating =>
                  (SNetStreamIterHasNext(con) <=> abs.todo # <<>>)
    /\ kind = "fifo" =>
           /\ Items(con) = abs
           /\ Touched(con) \subseteq con.live
           /\ con.rpc = "idle" => SNetFifoNonEmpty(con) = (abs # <<>>)
           /\ con.wpc = "idle" /\ abs # <<>> =>
                  SNetFifoPeekLast(con) = Last(abs)

\* Every key of a table finds the value that was stored for it last, through
\* rehashing, resizing, removal and the moves of entries (hashtab.c,
\* hashtable.c, xhashptr.c, map-template.c), an iteration returns every
\* entry once, blocks of look-up table pages do not overlap and join again
\* when they are freed (sccmalloc.c).  A bitmap has the bits that the
\* operations which did not report an error have set and not cleared, a copy
\* has the same ones and no other, and a search never gives out a bit that is
\* taken (bitmap.c); for which bits it reports an error, and that the bit it
\* finds is the first one, is not part of it.
TablesAgree ==
    /\ kind \in TableKinds => ret.got = ret.want
    /\ kind = "hashtab" =>
           /\ \A k \in Keys : HashtabGet(con, k) = At(abs, k)
           /\ \A v \in Values :
                  Cardinality({i \in DOMAIN HashtabIterAll(con) :
                                   HashtabIterAll(con)[i] = v})
                      = Cardinality({k \in DOMAIN abs : abs[k] = v})
    /\ kind = "hashtable" =>
           /\ \A k \in Keys : SNetHashtableGet(con, k) = At(abs, k)
           /\ con.elements = Cardinality(DOMAIN abs)
           /\ \A v \in Values :
                  SNetHashtableGetKey(con, v) \in
                      LET ks == {k \in DOMAIN abs : abs[k] = v}
                      IN  IF ks = {} THEN {-1} ELSE ks
    /\ kind = "hashptr" =>
           /\ \A k \in Keys : SNetHashPtrLookup(con, k) = At(abs, k)
           /\ con.count = Cardinality(DOMAIN abs)
           /\ SNetHashPtrTabEmpty(con) <=> DOMAIN abs = {}
           /\ LET n == Cardinality(DOMAIN abs)
                  Walk[i \in 1..(n + 1)] ==
                      IF i = 1 THEN SNetHashPtrFirst(con)
                      ELSE SNetHashPtrNext(con, Walk[i - 1])
              IN  Walk[n + 1] = NULL /\ {Walk[i] : i \in 1..n} = DOMAIN abs
    /\ kind = "map" =>
           /\ SNetMapSize(con) = Cardinality(DOMAIN abs)
           /\ \A k \in Keys : /\ SNetMapContains(con, k) <=> k \in DOMAIN abs
                              /\ k \in DOMAIN abs => SNetMapGet(con, k) = abs[k]
           /\ \A v \in Values :
                  LET ks == {k \in DOMAIN abs : abs[k] = v}
                  IN  SNetMapFindVal(con, v, NULL)
                          \in IF ks = {} THEN {NULL} ELSE ks
    /\ kind = "lut" =>
           LET free == {b \in LutBlocks(con) : con[b].free = 1}
           IN  /\ {[at |-> b, size |-> con[b].size] : b \in LutBlocks(con) \ free}
                      = abs
               /\ \A b, c \in abs : b # c => Pages(b) \cap Pages(c) = {}
               /\ \A b \in free : b + con[b].size \notin free
    /\ kind = "bitmap" /\ con # NULL =>
           /\ SetBits(con) = abs
           /\ \A bit \in 0..Max(BitmapSizes) :
                  SNetUtilBitmapGet(con, bit) \in {SNET_BITMAP_ERR, Bit(abs, bit)}

\* Every container stands for the value its operations built and returns
\* what that value calls for.
ContainersAgree == SequencesAgree /\ TablesAgree

=============================================================================
