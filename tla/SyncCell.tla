------------------------------ MODULE SyncCell ------------------------------
(* The synchrocell: keeps the first record that matches each of its        *)
(* patterns, and when it has them all writes the merged record, hands its  *)
(* instream to its successor in a sync record, and ends.                   *)
EXTENDS Network

CONSTANTS Syncs, SyncIn, SyncOut,
          Patterns     \* Patterns[x] = sequence of label sets

VARIABLE sync          \* sync[x] = local state of synchrocell x

PatternSet(x) == DOMAIN Patterns[x]

SyncInit(ents) ==
  sync = [x \in Syncs \cap ents |->
            [in      |-> SyncIn[x],
             storage |-> [i \in PatternSet(x) |-> NULL], \* labels stored for
                                                         \* pattern i, NULL: none
             done    |-> FALSE]]

SyncReads(x, kinds) == ~sync[x].done /\ Reads(x, sync[x].in, kinds)

(* The free patterns that a record with these labels matches.              *)
NewMatches(x, labels) == {i \in PatternSet(x) : /\ sync[x].storage[i] = NULL
                                                /\ Patterns[x][i] \subseteq labels}

(* The storage after that record: under its first match only, elsewhere    *)
(* the slot is merely marked as used.                                      *)
Stored(x, labels) ==
  LET new == NewMatches(x, labels)
  IN  [i \in PatternSet(x) |->
         IF i \in new THEN (IF i = Min(new) THEN labels ELSE {}) ELSE sync[x].storage[i]]

(* MergeFromStorage: the record of the first pattern, plus what each other *)
(* pattern asks of the record stored for it.                               *)
Merged(x, storage) ==
  storage[1] \cup UNION {storage[i] \cap Patterns[x][i] : i \in PatternSet(x) \ {1}}

(* A record no free pattern matches passes through.                        *)
SyncPass(x) ==
  /\ SyncReads(x, {"data"})
  /\ NewMatches(x, Top(sync[x].in).ty) = {}
  /\ Take(x, sync[x].in, <<Write(SyncOut[x], Top(sync[x].in))>>)
  /\ UNCHANGED sync

SyncStore(x) ==
  /\ SyncReads(x, {"data"})
  /\ LET labels == Top(sync[x].in).ty
     IN  /\ NewMatches(x, labels) # {}
         /\ \E i \in PatternSet(x) : Stored(x, labels)[i] = NULL
         /\ sync' = [sync EXCEPT ![x].storage = Stored(x, labels)]
  /\ Take(x, sync[x].in, << >>)

(* Variant of the next operator: the cell goes on reading the stream that  *)
(* it hands over.                                                          *)
SyncFireStays(x) ==
  /\ SyncReads(x, {"data"})
  /\ LET r       == Top(sync[x].in)
         storage == Stored(x, r.ty)
         outtype == UNION {Patterns[x][i] : i \in PatternSet(x)}
     IN  /\ NewMatches(x, r.ty) # {}
         /\ \A i \in PatternSet(x) : storage[i] # NULL
         /\ Take(x, sync[x].in,
                 <<Write(SyncOut[x], Data(r.id, Merged(x, storage))),
                   Write(SyncOut[x], Sync(sync[x].in,
                           IF sync[x].in \in HasSource THEN outtype ELSE NULL))>>)
         /\ sync' = [sync EXCEPT ![x].storage = storage]

(* Variant of the next operator: the cell destroys the stream that it      *)
(* hands over.                                                             *)
SyncFireDestroys(x) ==
  /\ SyncReads(x, {"data"})
  /\ LET r       == Top(sync[x].in)
         storage == Stored(x, r.ty)
         outtype == UNION {Patterns[x][i] : i \in PatternSet(x)}
     IN  /\ NewMatches(x, r.ty) # {}
         /\ \A i \in PatternSet(x) : storage[i] # NULL
         /\ Take(x, sync[x].in,
                 <<Write(SyncOut[x], Data(r.id, Merged(x, storage))),
                   Write(SyncOut[x], Sync(sync[x].in,
                           IF sync[x].in \in HasSource THEN outtype ELSE NULL)),
                   Free(sync[x].in)>>)
         /\ sync' = [sync EXCEPT ![x].storage = storage, ![x].done = TRUE]

(* The record that completes the cell.  The merged record is numbered by   *)
(* it: that is when it enters the network.                                 *)
SyncFire(x) ==
  /\ SyncReads(x, {"data"})
  /\ LET r       == Top(sync[x].in)
         storage == Stored(x, r.ty)
         outtype == UNION {Patterns[x][i] : i \in PatternSet(x)}
     IN  /\ NewMatches(x, r.ty) # {}
         /\ \A i \in PatternSet(x) : storage[i] # NULL
         /\ Take(x, sync[x].in,
                 <<Write(SyncOut[x], Data(r.id, Merged(x, storage))),
                   Write(SyncOut[x], Sync(sync[x].in,
                           IF sync[x].in \in HasSource THEN outtype ELSE NULL))>>)
         /\ sync' = [sync EXCEPT ![x].storage = storage, ![x].done = TRUE]

SyncReplace(x) ==
  /\ SyncReads(x, {"sync"})
  /\ Take(x, sync[x].in, <<Free(sync[x].in)>>)
  /\ sync' = [sync EXCEPT ![x].in = Top(sync[x].in).s]

SyncSort(x) ==
  /\ SyncReads(x, {"sort"})
  /\ Take(x, sync[x].in, <<Write(SyncOut[x], Top(sync[x].in))>>)
  /\ UNCHANGED sync

SyncTerm(x) ==
  /\ SyncReads(x, {"term"})
  /\ Take(x, sync[x].in, <<Write(SyncOut[x], Term), Free(sync[x].in)>>)
  /\ sync' = [sync EXCEPT ![x].done = TRUE]

SyncBoxTask(x) == \/ SyncPass(x) \/ SyncStore(x) \/ SyncFire(x)
                  \/ SyncReplace(x) \/ SyncSort(x) \/ SyncTerm(x)
=============================================================================
