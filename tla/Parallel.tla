------------------------------ MODULE Parallel ------------------------------
(***************************************************************************)
(* The dispatcher of a parallel composition.  It serves initialiser        *)
(* branches at startup, routes each data record to the branch whose type   *)
(* matches best, brackets the records with sort records (deterministic     *)
(* variant), broadcasts outer sort records one level higher, and removes   *)
(* branches, finally itself, when a synchrocell announces that a type of   *)
(* record will not come again.                                             *)
(***************************************************************************)
EXTENDS Network

CONSTANTS Parallels,
          ParIn,      \* ParIn[p]  = instream
          ParOuts,    \* ParOuts[p][i] = outstream of branch i
          Variants,   \* Variants[p][i] = the variants (label sets) branch i
                      \* accepts; none for an initialiser branch
          IsDet,      \* IsDet[p]: deterministic variant
          PartOf,     \* PartOf[p] = the streams with which the instance that
                      \* p is part of is created, if it is part of one
          Junk        \* what an uninitialised match counter may hold

ASSUME ParallelAssumption == \A p \in Parallels : ParOuts[p] \in Seq(Range(ParOuts[p]))

VARIABLE par          \* par[p] = local state of dispatcher p

Branches(p)    == 1 .. Len(ParOuts[p])
IsInitialiser(p, i) == Variants[p][i] = {}
Initialisers(p) == {i \in Branches(p) : IsInitialiser(p, i)}

(* The open outstreams, in branch order.                                   *)
OpenOuts(p, live) ==
  [j \in 1 .. Cardinality(live) |->
     ParOuts[p][CHOOSE i \in live : Cardinality({k \in live : k <= i}) = j]]

(* PutToBuffers: the record, unless the branch has been closed, and in the *)
(* deterministic variant a sort record to every open branch.               *)
PutToBuffers(p, live, i, r, det, counter) ==
  (IF i \in live THEN <<Write(ParOuts[p][i], r)>> ELSE << >>)
    \o (IF det THEN WriteAll(OpenOuts(p, live), Sort(0, counter)) ELSE << >>)

ParInit(ents) ==
  par = [p \in Parallels \cap ents |->
           [in      |-> ParIn[p],
            live    |-> Branches(p),               \* outstreams[i] # NULL
            counter |-> 0,
            junk    |-> << >>,                     \* counters of initialisers
            bad     |-> FALSE,                     \* wrote to outstreams[i] = NULL
            start   |-> 1,                         \* branch of the startup loop
            running |-> FALSE,
            done    |-> FALSE]]

(* The startup loop's turn for a branch: trigger and terminate an          *)
(* initialiser, send a sort record to an ordinary branch.                  *)
StartBranch(p) ==
  /\ ~par[p].running /\ par[p].start \in Branches(p)
  /\ todo[p] = << >>
  /\ \A s \in PartOf[p] : stat[s] # "fresh"
  /\ LET i == par[p].start
     IN  \/ /\ IsInitialiser(p, i)
            /\ Proceed(p, PutToBuffers(p, par[p].live, i, Trigger, IsDet[p], par[p].counter)
                            \o <<Write(ParOuts[p][i], Term)>>, stat)
            /\ par' = [par EXCEPT ![p].start = i + 1, ![p].live = @ \ {i},
                                  ![p].counter = IF IsDet[p] THEN @ + 1 ELSE @]
         \/ /\ ~IsInitialiser(p, i)
            /\ Proceed(p, <<Write(ParOuts[p][i], Sort(0, par[p].counter))>>, stat)
            /\ par' = [par EXCEPT ![p].start = i + 1]
  /\ UNCHANGED chan

(* Then, with one ordinary branch left, the dispatcher hands it its        *)
(* instream; with none or one it ends.                                     *)
Started(p) ==
  /\ ~par[p].running /\ par[p].start \notin Branches(p)
  /\ todo[p] = << >>
  /\ LET left == Cardinality(par[p].live)
     IN  /\ Proceed(p, IF left = 1
                       THEN WriteAll(OpenOuts(p, par[p].live), Sync(par[p].in, NULL))
                       ELSE << >>, stat)
         /\ \E junk \in [Initialisers(p) -> Junk] :
              par' = [par EXCEPT ![p].counter = @ + 1, ![p].junk = junk, ![p].running = TRUE,
                                 ![p].done = left <= 1]
  /\ UNCHANGED chan

-----------------------------------------------------------------------------
ParReads(p, kinds) == par[p].running /\ ~par[p].done /\ Reads(p, par[p].in, kinds)

(* CheckMatch: the size of the largest variant a record with these labels  *)
(* satisfies, -1 for none.  For an initialiser branch the loop over the    *)
(* variants does nothing and leaves the counter as malloc returned it.     *)
CheckMatch(p, i, labels) ==
  IF IsInitialiser(p, i) THEN par[p].junk[i]
  ELSE Max({-1} \cup {Cardinality(v) : v \in {w \in Variants[p][i] : w \subseteq labels}})

(* The first branch with the highest count.                                *)
IsBestMatch(p, i, labels) ==
  /\ CheckMatch(p, i, labels) >= 0
  /\ \A j \in Branches(p) : \/ CheckMatch(p, j, labels) < CheckMatch(p, i, labels)
                            \/ CheckMatch(p, j, labels) = CheckMatch(p, i, labels) /\ i <= j

ParData(p) ==
  /\ ParReads(p, {"data"})
  /\ LET r == Top(par[p].in)
     IN  \E i \in Branches(p) :
           /\ IsBestMatch(p, i, r.ty)
           /\ Take(p, par[p].in, PutToBuffers(p, par[p].live, i, r, IsDet[p], par[p].counter))
  /\ par' = [par EXCEPT ![p].counter = IF IsDet[p] THEN @ + 1 ELSE @]

(* Variant of the next operator that tells only the first branch.          *)
ParSortFirst(p) ==
  /\ ParReads(p, {"sort"})
  /\ Take(p, par[p].in,
          <<Write(Head(OpenOuts(p, par[p].live)), Raise(Top(par[p].in)))>>)
  /\ UNCHANGED par

ParSort(p) ==
  /\ ParReads(p, {"sort"})
  /\ Take(p, par[p].in, WriteAll(OpenOuts(p, par[p].live), Raise(Top(par[p].in))))
  /\ UNCHANGED par

ParTerm(p) ==
  /\ ParReads(p, {"term"})
  /\ Take(p, par[p].in, Append(WriteAll(OpenOuts(p, par[p].live), Term), Free(par[p].in)))
  /\ par' = [par EXCEPT ![p].done = TRUE]

(* A synchrocell has gone: read from its instream.                         *)
ParSync(p) ==
  /\ ParReads(p, {"sync"})
  /\ Top(par[p].in).ty = NULL
  /\ Take(p, par[p].in, <<Free(par[p].in)>>)
  /\ par' = [par EXCEPT ![p].in = Top(par[p].in).s]

(* VariantIsSupertypeOfAllOthers: branch i accepts only records that have  *)
(* all labels of the synchrocell's result.                                 *)
Affected(p, synctype) ==
  {i \in Branches(p) : \A v \in Variants[p][i] : synctype \subseteq v}

(* It also says which type will not come again: terminate the branches     *)
(* that accept only that.  If one branch remains, tell the collector with  *)
(* (l0, c-1), pass on the stripped sync record and end.                    *)
ParSyncTyped(p) ==
  /\ ParReads(p, {"sync"})
  /\ Top(par[p].in).ty # NULL
  /\ LET r    == Top(par[p].in)
         dead == Affected(p, r.ty)
         live == par[p].live \ dead
         term == WriteAll(OpenOuts(p, par[p].live \cap dead), Term)
         last == Cardinality(live) = 1
     IN  /\ Take(p, par[p].in,
              term \o (IF last
                       THEN WriteAll(OpenOuts(p, live), Sort(0, -1))
                              \o WriteAll(OpenOuts(p, live), Sync(r.s, NULL))
                       ELSE << >>)
                   \o <<Free(par[p].in)>>)
         /\ par' = [par EXCEPT ![p].live = live, ![p].counter = @ + 1, ![p].done = last,
                               ![p].in = IF last THEN @ ELSE r.s,
                               ![p].bad = @ \/ ~(dead \subseteq par[p].live)]

ParallelBoxTask(p) == \/ StartBranch(p) \/ Started(p) \/ ParData(p) \/ ParSort(p) \/ ParTerm(p)
                      \/ ParSync(p) \/ ParSyncTyped(p)
=============================================================================
