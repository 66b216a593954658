------------------------------- MODULE Tables -------------------------------
(***************************************************************************)
(* The tables of the runtime systems: two hash tables of the stream        *)
(* runtime, the pointer table of the Front workers, the page table of the  *)
(* SCC's allocator, and the maps of the container templates.               *)
(***************************************************************************)
EXTENDS Lists, SequencesExt

(***************************************************************************)
(* The table of the index split's branches                                 *)
(* (src/src/runtime/stream/utils/hashtab.c): open addressing with          *)
(* quadratic probing and a capacity that is a power of two, never less     *)
(* than a quarter empty; and the chained table of                          *)
(* src/src/runtime/stream/utils/hashtable.c.                               *)
(***************************************************************************)

CONSTANTS InitCap2,      \* the initial capacity is 2^InitCap2
          ChainSize      \* the number of chains of the chained table

ASSUME HashtabAssumption == InitCap2 \in Nat /\ ChainSize \in Nat \ {0}

HASHTAB_NOT_KEY == -1

NoEntries(capacity) ==
    [i \in 0..(capacity - 1) |-> [key |-> HASHTAB_NOT_KEY, value |-> NULL]]

HashtabCreate ==
    [capacity |-> 2^InitCap2, count |-> 0, table |-> NoEntries(2^InitCap2)]

\* A faulty variant: linear steps of two, so that only every other position
\* is probed.
ProbeEven(capacity, key, i) == (key + 2 * i) % capacity

\* The i-th position probed for a key: key + 0 + 1 + ... + i, by MOD_SIZE
\* and HASH_K_I.
Probe(capacity, key, i) == (key + (i * (i + 1)) \div 2) % capacity

\* The first probe that ends the loop for `key': at its entry or at an
\* unused one; `capacity' when the loop ends without.
ProbeEnd(ht, key) ==
    LET Ends(i) == ht.table[Probe(ht.capacity, key, i)].key
                       \in {HASHTAB_NOT_KEY, key}
    IN  IF \E i \in 0..(ht.capacity - 1) : Ends(i)
        THEN CHOOSE i \in 0..(ht.capacity - 1) :
                 Ends(i) /\ \A j \in 0..(i - 1) : ~Ends(j)
        ELSE ht.capacity

\* The assertion hte # NULL.
ProbeFinds(ht, key) == ProbeEnd(ht, key) < ht.capacity

ProbePut(ht, key) == Probe(ht.capacity, key, ProbeEnd(ht, key))

Stored(ht, key, value) ==
    [ht EXCEPT !.table[ProbePut(ht, key)] = [key |-> key, value |-> value]]

\* Twice the capacity, the old entries put again in the order of the table.
Rehashed(ht) ==
    LET used == SelectSeq([i \in 1..ht.capacity |-> ht.table[i - 1]],
                          LAMBDA e : e.key # HASHTAB_NOT_KEY)
    IN  FoldLeft(LAMBDA t, e : Stored(t, e.key, e.value),
                 [ht EXCEPT !.capacity = 2 * @,
                            !.table = NoEntries(2 * ht.capacity)],
                 used)

\* The table before the last ProbePut of HashtabPut: count is the number of
\* puts, the ones that overwrite an entry included.
HashtabRoom(ht) ==
    LET t == [ht EXCEPT !.count = @ + 1]
    IN  IF t.count > t.capacity - t.capacity \div 4 THEN Rehashed(t) ELSE t

HashtabPut(ht, key, value) == Stored(HashtabRoom(ht), key, value)

\* HashtabGet, and HashtabGetPointer with the entry for its address.
HashtabGet(ht, key) ==
    IF ProbeFinds(ht, key) /\ ht.table[ProbePut(ht, key)].key = key
    THEN ht.table[ProbePut(ht, key)].value ELSE NULL

\* What a whole iteration returns: HashtabIterHasNext moves to the next used
\* entry unless it is at one that HashtabIterNext has not returned.
HashtabIterAll(ht) ==
    LET used == SelectSeq([i \in 1..ht.capacity |-> ht.table[i - 1]],
                          LAMBDA e : e.key # HASHTAB_NOT_KEY)
    IN  [i \in 1..Len(used) |-> used[i].value]

-----------------------------------------------------------------------------
(* The chained table: entries[i] is the list of the keys i modulo size.    *)

SNetHashtableCreate ==
    [elements |-> 0, entries |-> [i \in 0..(ChainSize - 1) |-> <<>>]]

SNetHashtableHash(key) == key % ChainSize

\* The position of a key in its chain, 0 when the search ends at NULL.
ChainPos(t, key) ==
    LET chain == t.entries[SNetHashtableHash(key)]
    IN  IF \E i \in DOMAIN chain : chain[i].key = key
        THEN CHOOSE i \in DOMAIN chain :
                 chain[i].key = key /\ \A j \in 1..(i - 1) : chain[j].key # key
        ELSE 0

SNetHashtableGet(t, key) ==
    IF t.elements > 0 /\ ChainPos(t, key) > 0
    THEN t.entries[SNetHashtableHash(key)][ChainPos(t, key)].value ELSE NULL

\* The key of the first entry with the value, -1 (UINT64_MAX) without one.
SNetHashtableGetKey(t, value) ==
    LET all == FoldLeft(LAMBDA s, i : s \o t.entries[i - 1], <<>>,
                        [i \in 1..ChainSize |-> i])
        hits == SelectSeq(all, LAMBDA e : e.value = value)
    IN  IF t.elements > 0 /\ hits # <<>> THEN hits[1].key ELSE -1

\* SNET_HASHTABLE_ERROR for a key that is there: the table is unchanged.
SNetHashtablePut(t, key, value) ==
    IF ChainPos(t, key) > 0 THEN t
    ELSE [t EXCEPT !.entries[SNetHashtableHash(key)] =
                       Append(@, [key |-> key, value |-> value]),
                   !.elements = @ + 1]

SNetHashtableReplace(t, key, value) ==
    IF ChainPos(t, key) = 0 THEN t
    ELSE [t EXCEPT !.entries[SNetHashtableHash(key)][ChainPos(t, key)].value =
                       value]

SNetHashtableRemove(t, key) ==
    IF ChainPos(t, key) = 0 THEN t
    ELSE [t EXCEPT !.entries[SNetHashtableHash(key)] =
                       RemoveAt(@, ChainPos(t, key)),
                   !.elements = @ - 1]

-----------------------------------------------------------------------------
(***************************************************************************)
(* The pointer table of the Front workers                                  *)
(* (src/src/runtime/front/xhashptr.c): an array of lists of nodes indexed  *)
(* by the pointer modulo a prime, with a free list of nodes.  A pointer is *)
(* a natural number, a node a pair of key and value, and the free list its *)
(* length.                                                                 *)
(***************************************************************************)

CONSTANTS IdealPrime       \* the table of primes: a function from powers

FIRST_POWER == Min(DOMAIN IdealPrime)
LAST_POWER == Max(DOMAIN IdealPrime)

LIMIT(x) == IF x < FIRST_POWER THEN FIRST_POWER
            ELSE IF x > LAST_POWER THEN LAST_POWER ELSE x

HASH_PTR(p, n) == p % n

SNetHashPtrTabCreate(power) ==
    [power |-> LIMIT(power), prime |-> IdealPrime[LIMIT(power)],
     count |-> 0, freed |-> 0,
     tab |-> [i \in 0..(IdealPrime[LIMIT(power)] - 1) |-> <<>>]]

\* Every node is put at the front of its new list, in table order.
SNetHashPtrTabResize(t, power) ==
    LET p == LIMIT(power)
        prime == IdealPrime[p]
        nodes == FoldLeft(LAMBDA s, i : s \o t.tab[i - 1], <<>>,
                          [i \in 1..t.prime |-> i])
    IN  IF p = t.power THEN t
        ELSE [t EXCEPT !.power = p, !.prime = prime,
                       !.tab = FoldLeft(
                            LAMBDA tab, n : [tab EXCEPT ![HASH_PTR(n.key, prime)] =
                                                 <<n>> \o @],
                            [i \in 0..(prime - 1) |-> <<>>], nodes)]

\* The assertion of SNetHashPtrStore: the key is not the last one stored
\* in its list.
StoreAsserts(t, key) ==
    LET list == t.tab[HASH_PTR(key, t.prime)]
    IN  list = <<>> \/ list[1].key # key

SNetHashPtrStore(t, key, val) ==
    LET s == [t EXCEPT !.tab[HASH_PTR(key, t.prime)] =
                           <<[key |-> key, val |-> val]>> \o @,
                       !.freed = IF @ > 0 THEN @ - 1 ELSE @,
                       !.count = @ + 1]
    IN  IF s.count > 2 * 2^s.power THEN SNetHashPtrTabResize(s, s.power + 3)
        ELSE s

\* The position of a key in its list, 0 when it is not there.
ListPos(t, key) ==
    LET list == t.tab[HASH_PTR(key, t.prime)]
        at == {i \in DOMAIN list : list[i].key = key}
    IN  IF at = {} THEN 0 ELSE Min(at)

SNetHashPtrLookup(t, key) ==
    IF ListPos(t, key) = 0 THEN NULL
    ELSE t.tab[HASH_PTR(key, t.prime)][ListPos(t, key)].val

\* The free list after one more node: trimmed to an eighth of the prime when
\* it exceeds a quarter of it.
Trimmed(freed, prime) ==
    IF 4 * freed > prime /\ freed > prime \div 8 THEN prime \div 8 ELSE freed

\* Called for a key that is there (assert(false) otherwise).
SNetHashPtrRemove(t, key) ==
    [t EXCEPT !.tab[HASH_PTR(key, t.prime)] = RemoveAt(@, ListPos(t, key)),
              !.freed = Trimmed(@ + 1, t.prime),
              !.count = @ - 1]

SNetHashPtrTabEmpty(t) == \A i \in DOMAIN t.tab : t.tab[i] = <<>>

\* The first key of the lists from index `from' on.
FirstFrom(t, from) ==
    LET full == {i \in from..(t.prime - 1) : t.tab[i] # <<>>}
    IN  IF full = {} THEN NULL ELSE t.tab[Min(full)][1].key

SNetHashPtrFirst(t) == FirstFrom(t, 0)

SNetHashPtrNext(t, key) ==
    LET hash == HASH_PTR(key, t.prime)
        list == t.tab[hash]
    IN  IF ListPos(t, key) < Len(list) THEN list[ListPos(t, key) + 1].key
        ELSE FirstFrom(t, hash + 1)

-----------------------------------------------------------------------------
(***************************************************************************)
(* The allocator of look-up table pages of                                 *)
(* src/src/distrib/scc/sccmalloc.c: a block of pages has its state in its  *)
(* first and in its last entry, so that a block that is freed finds both   *)
(* neighbours.                                                             *)
(***************************************************************************)

CONSTANT RemotePages         \* the number of pages, remote_pages

ASSUME SCCLutAssumption == RemotePages \in Nat \ {0}

\* The state SCCInit leaves: one free block.  Entries inside a block are
\* never read.
LutInit ==
    [i \in 0..(RemotePages - 1) |->
        IF i \in {0, RemotePages - 1} THEN [free |-> 1, size |-> RemotePages]
        ELSE [free |-> 0, size |-> 0]]

\* The blocks the loop of SCCMallocLut visits: from 0 by the sizes.
LutBlocks(lut) ==
    LET At[k \in 0..RemotePages] ==
            IF k = 0 THEN 0
            ELSE IF At[k - 1] >= RemotePages THEN RemotePages
            ELSE At[k - 1] + lut[At[k - 1]].size
    IN  {At[k] : k \in 0..RemotePages} \ {RemotePages}

\* The blocks that can serve a request; the loop takes the first, and the
\* program stops without one.
LutFits(lut, size) ==
    {b \in LutBlocks(lut) : lut[b].free = 1 /\ lut[b].size >= size}

SCCMallocLut(lut, size) ==
    LET curr == CHOOSE b \in LutFits(lut, size) :
                    \A c \in LutFits(lut, size) : b <= c
        rest == lut[curr].size - size
        used == [free |-> 0, size |-> size]
        left == [free |-> 1, size |-> rest]
    IN  [at |-> curr,
         lut |-> IF rest = 0
                 THEN [lut EXCEPT ![curr].free = 0, ![curr + size - 1].free = 0]
                 ELSE [lut EXCEPT ![curr + size] = left,
                                  ![curr + size + rest - 1] = left,
                                  ![curr] = used, ![curr + size - 1] = used]]

SCCFreeLut(lut, at) ==
    LET after == at + lut[at].size
        size == lut[at].size
                + IF after < RemotePages /\ lut[after].free = 1
                  THEN lut[after].size ELSE 0
        joins == at > 0 /\ lut[at - 1].free = 1
        first == IF joins THEN at - lut[at - 1].size ELSE at
        block == [free |-> 1,
                  size |-> IF joins THEN lut[first].size + size ELSE size]
    IN  [lut EXCEPT ![first] = block, ![first + block.size - 1] = block]

-----------------------------------------------------------------------------
(***************************************************************************)
(* The bitmap of src/src/runtime/stream/utils/bitmap.c.  A byte is the set *)
(* of its bits that are set; the size of a bitmap is in bytes.             *)
(***************************************************************************)

CONSTANT BitmapSizes         \* sizes a bitmap is created with, in bits

BITS_PER_BYTE == 8
BYTE_FULL_SET == 0..3        \* 0xf
SNET_BITMAP_ERR == -1

BYTE_OFFSET(bit) == bit \div BITS_PER_BYTE
BIT_OFFSET(bit) == bit % BITS_PER_BYTE

SNetUtilBitmapCreate(size) ==
    LET bytes == (size + (BITS_PER_BYTE - 1)) \div BITS_PER_BYTE
    IN  [size |-> bytes, search_pos |-> 0,
         bitmap |-> [b \in 0..(bytes - 1) |-> {}]]

\* Into a bitmap that is not smaller; the bits it has more are cleared.
SNetUtilBitmapCopy(from, to) ==
    IF to.size < from.size THEN [map |-> to, val |-> SNET_BITMAP_ERR]
    ELSE [map |-> [to EXCEPT !.bitmap = [b \in DOMAIN @ |->
                                 IF b < from.size THEN from.bitmap[b] ELSE {}],
                             !.search_pos = from.search_pos],
          val |-> 0]

SNetUtilBitmapSize(map) == map.size * BITS_PER_BYTE

IsSet(map, bit) == BIT_OFFSET(bit) \in map.bitmap[BYTE_OFFSET(bit)]

\* The number of the bit is compared with the number of bytes.
SNetUtilBitmapGet(map, bit) ==
    IF bit >= map.size THEN SNET_BITMAP_ERR
    ELSE IF IsSet(map, bit) THEN 1 ELSE 0

\* Both return the value the bit had.
SNetUtilBitmapSet(map, bit) ==
    IF bit >= map.size THEN [map |-> map, val |-> SNET_BITMAP_ERR]
    ELSE [map |-> [map EXCEPT !.bitmap[BYTE_OFFSET(bit)] = @ \cup {BIT_OFFSET(bit)}],
          val |-> IF IsSet(map, bit) THEN 1 ELSE 0]

SNetUtilBitmapClear(map, bit) ==
    IF bit >= map.size THEN [map |-> map, val |-> SNET_BITMAP_ERR]
    ELSE [map |-> [map EXCEPT !.bitmap[BYTE_OFFSET(bit)] = @ \ {BIT_OFFSET(bit)},
                              !.search_pos = Min({@, BYTE_OFFSET(bit)})],
          val |-> IF IsSet(map, bit) THEN 1 ELSE 0]

\* The bytes the search stops at: not the constant for a full one, and with
\* a clear bit.
ClearBytes(map) ==
    {b \in map.search_pos..(map.size - 1) :
        map.bitmap[b] \notin {BYTE_FULL_SET, 0..(BITS_PER_BYTE - 1)}}

SNetUtilBitmapFindNSet(map) ==
    IF ClearBytes(map) = {}
    THEN [map |-> [map EXCEPT !.search_pos = Max({@, map.size})],
          bit |-> SNET_BITMAP_ERR]
    ELSE LET b == Min(ClearBytes(map))
             j == Min((0..(BITS_PER_BYTE - 1)) \ map.bitmap[b])
         IN  [map |-> [map EXCEPT !.search_pos = b, !.bitmap[b] = @ \cup {j}],
              bit |-> b * BITS_PER_BYTE + j]

(***************************************************************************)
(* The maps generated from src/include/map-template.c: parallel arrays of  *)
(* keys and values, searched from the front, whose first `used' slots      *)
(* count.  They hold the tags and fields of records and the tables of the  *)
(* distribution layer.                                                     *)
(***************************************************************************)
SNetMapCreate(pairs) ==
    [size |-> Len(pairs), used |-> Len(pairs),
     slots |-> [i \in 0..(Len(pairs) - 1) |-> pairs[i + 1]]]

\* MAP_KEY_COPY_FUN and MAP_VAL_COPY_FUN are the caller's.
SNetMapCopy(m) ==
    [size |-> m.used, used |-> m.used,
     slots |-> [i \in 0..(m.used - 1) |-> m.slots[i]]]

SNetMapSize(m) == m.used

\* The entries in use, in the order in which MAP_FOR_EACH visits them.
Slots(m) == [i \in 1..m.used |-> m.slots[i - 1]]

\* The first of a set of slots, -1 without one.
FirstSlot(hits) ==
    IF hits = {} THEN -1 ELSE CHOOSE i \in hits : \A j \in hits : i <= j

SNetMapFind(m, key) == FirstSlot({i \in 0..(m.used - 1) : m.slots[i].key = key})

SNetMapFindVal(m, val, default) ==
    LET i == FirstSlot({j \in 0..(m.used - 1) : m.slots[j].val = val})
    IN  IF i = -1 THEN default ELSE m.slots[i].key

SNetMapSet(m, key, val) ==
    LET i == SNetMapFind(m, key)
        slot == [key |-> key, val |-> val]
    IN  IF i # -1 THEN [m EXCEPT !.slots[i].val = val]
        ELSE IF m.used < m.size
        THEN [m EXCEPT !.slots[m.used] = slot, !.used = @ + 1]
        ELSE [size |-> m.size + 1, used |-> m.used + 1,
              slots |-> [j \in 0..m.size |->
                             IF j = m.used THEN slot ELSE m.slots[j]]]

SNetMapContains(m, key) == SNetMapFind(m, key) # -1

\* The assertion i # -1 of Get, Take and Rename is SNetMapContains.
SNetMapGet(m, key) == m.slots[SNetMapFind(m, key)].val

\* The last slot moves into the one that is taken.
SNetMapTake(m, key) ==
    [m EXCEPT !.slots[SNetMapFind(m, key)] = m.slots[m.used - 1],
              !.used = @ - 1]

SNetMapRename(m, oldKey, newKey) ==
    [m EXCEPT !.slots[SNetMapFind(m, oldKey)].key = newKey]

\* The number of slots, then the keys, then the values.
SNetMapSerialise(m) ==
    <<m.used>> \o [i \in 1..m.used |-> m.slots[i - 1].key]
               \o [i \in 1..m.used |-> m.slots[i - 1].val]

SNetMapDeserialise(buf) ==
    LET used == buf[1]
    IN  [size |-> used, used |-> used,
         slots |-> [i \in 0..(used - 1) |->
                        [key |-> buf[2 + i], val |-> buf[2 + used + i]]]]

\* What is left of the buffer after a map.
AfterMap(buf) == SubSeq(buf, 2 + 2 * buf[1], Len(buf))

=============================================================================
