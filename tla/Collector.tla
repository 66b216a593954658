----------------------------- MODULE Collector -----------------------------
(***************************************************************************)
(* The collector entity: merges the output streams of the branches of a    *)
(* parallel composition (static) or of the instances of a split or star    *)
(* (dynamic).  A sort record moves its stream from the ready set to the    *)
(* waiting set; when every stream waits, the sort record is passed on one  *)
(* level lower and all streams become ready again.                         *)
(*                                                                         *)
(* A descriptor is named by the stream it was opened on; `at' is the       *)
(* stream it reads now, which SNetStreamReplace changes.                   *)
(***************************************************************************)
EXTENDS Network

CONSTANTS Collectors,
          CollIns,    \* CollIns[c] = streams the collector starts with
          CollOut,    \* CollOut[c] = its outstream
          IsStatic    \* IsStatic[c]: collector of a parallel composition

ASSUME CollectorAssumption == \A c \in Collectors : IsFiniteSet(CollIns[c]) /\ CollIns[c] # {}

VARIABLE coll         \* coll[c] = local state of collector c

CollInit(ents) ==
  coll = [c \in Collectors \cap ents |->
            [ready    |-> CollIns[c],             \* readyset
             waiting  |-> {},                     \* waitingset
             at       |-> [s \in CollIns[c] |-> s],
             cur      |-> NULL,                   \* curstream
             last     |-> NULL,
             incount  |-> Cardinality(CollIns[c]),
             sort     |-> << >>,                  \* sort_rec, if any
             opening  |-> NULL,                   \* stream of a REC_collect
             scan     |-> {},                     \* rest of wait_iter
             mismatch |-> FALSE,                  \* the warning was printed
             done     |-> FALSE]]

-----------------------------------------------------------------------------
(* GetRecord stays with the current stream while that has records ...      *)
CollPeek(c) ==
  /\ ~coll[c].done /\ coll[c].opening = NULL
  /\ todo[c] = << >>
  /\ coll[c].cur # NULL
  /\ chan[coll[c].at[coll[c].cur]] = << >>
  /\ coll' = [coll EXCEPT ![c].cur = NULL]
  /\ UNCHANGED netVars

(* ... and else polls the ready set, which yields any non-empty stream.    *)
CollReads(c, d, kinds) ==
  /\ ~coll[c].done /\ coll[c].opening = NULL
  /\ d \in coll[c].ready
  /\ coll[c].cur \in {NULL, d}
  /\ Reads(c, coll[c].at[d], kinds)

(* Variant of the next operator: the level compared off by one.            *)
RestoredInner(c, st) == IF Head(st.sort).lvl > 1
                        THEN <<Write(CollOut[c], Lower(Head(st.sort)))>>
                        ELSE << >>

(* RestoreFromWaitingset: what it writes.                                  *)
Restored(c, st) == IF Head(st.sort).lvl > 0
                   THEN <<Write(CollOut[c], Lower(Head(st.sort)))>>
                   ELSE << >>

(* Variant of Settle that ends without a look at the waiting set.          *)
SettleEarly(c, st) ==
  IF st.ready # {} THEN [st |-> st, ops |-> << >>]
  ELSE [st |-> [st EXCEPT !.done = TRUE], ops |-> <<Write(CollOut[c], Term)>>]

(* Variant of the next operator that forgets to restore the streams of the *)
(* waiting set.                                                            *)
SettleWaits(c, st) ==
  IF st.ready # {} \/ st.waiting # {} THEN [st |-> st, ops |-> << >>]
  ELSE [st |-> [st EXCEPT !.done = TRUE], ops |-> <<Write(CollOut[c], Term)>>]

(* The termination conditions at the end of the main loop: the state they  *)
(* leave and the operations they perform.                                  *)
Settle(c, st) ==
  CASE st.ready # {} -> [st |-> st, ops |-> << >>]
    [] st.ready = {} /\ st.waiting # {} /\ IsStatic[c] /\ st.incount = 1 ->
         LET in == CHOOSE d \in st.waiting : TRUE
         IN  [st  |-> [st EXCEPT !.done = TRUE],
              ops |-> (IF in = st.last THEN Restored(c, st) ELSE << >>)
                        \o <<Write(CollOut[c], Sync(st.at[in], NULL))>>]
    [] st.ready = {} /\ st.waiting # {} /\ ~(IsStatic[c] /\ st.incount = 1) ->
         [st  |-> [st EXCEPT !.ready = st.waiting, !.waiting = {}, !.sort = << >>],
          ops |-> Restored(c, st)]
    [] st.ready = {} /\ st.waiting = {} ->
         [st |-> [st EXCEPT !.done = TRUE], ops |-> <<Write(CollOut[c], Term)>>]

(* One turn of the main loop: the record of descriptor d is taken, st is   *)
(* the state its case leaves and ops the operations of that case.          *)
CollTurn(c, d, st, ops) ==
  LET end == Settle(c, st)
  IN  /\ Take(c, coll[c].at[d], ops \o end.ops)
      /\ coll' = [coll EXCEPT ![c] = end.st]

CollData(c, d) ==
  /\ CollReads(c, d, {"data"})
  /\ CollTurn(c, d, [coll[c] EXCEPT !.cur = d],
              <<Write(CollOut[c], Top(coll[c].at[d]))>>)

(* The record the collector works with: sort records of the last branch    *)
(* of a dispatcher that is gone were not raised by it.                     *)
SortSeen(c, d) == LET r == Top(coll[c].at[d])
                  IN  IF d = coll[c].last THEN Raise(r) ELSE r

(* (l0, c-1): the paired dispatcher has left, d is its last branch.        *)
IsNotice(c, d) == coll[c].last = NULL /\ SortSeen(c, d) = Sort(0, -1)

CollNotice(c, d) ==
  /\ CollReads(c, d, {"sort"})
  /\ IsNotice(c, d)
  /\ CollTurn(c, d, [coll[c] EXCEPT !.cur = d, !.last = d], << >>)

(* ProcessSortRecord: d waits; the first sort record of a round is kept    *)
(* and the others only compared with it.                                   *)
CollSort(c, d) ==
  /\ CollReads(c, d, {"sort"})
  /\ ~IsNotice(c, d)
  /\ LET r == SortSeen(c, d)
         first == coll[c].sort = << >>
     IN  CollTurn(c, d,
           [coll[c] EXCEPT !.cur = NULL, !.ready = @ \ {d}, !.waiting = @ \cup {d},
                           !.sort = IF first THEN <<r>> ELSE @,
                           !.mismatch = @ \/ (~first /\ coll[c].sort # <<r>>)],
           << >>)

CollSync(c, d) ==
  /\ CollReads(c, d, {"sync"})
  /\ CollTurn(c, d, [coll[c] EXCEPT !.cur = d, !.at[d] = Top(coll[c].at[d]).s],
              <<Free(coll[c].at[d])>>)

(* Variant of the next operator: the closed stream stays counted.          *)
CollTermUncounted(c, d) ==
  /\ CollReads(c, d, {"term"})
  /\ CollTurn(c, d, [coll[c] EXCEPT !.cur = NULL, !.ready = @ \ {d}], <<Free(coll[c].at[d])>>)

(* ProcessTermRecord *)
CollTerm(c, d) ==
  /\ CollReads(c, d, {"term"})
  /\ CollTurn(c, d, [coll[c] EXCEPT !.cur = NULL, !.ready = @ \ {d}, !.incount = @ - 1],
              <<Free(coll[c].at[d])>>)

(* A new instance: DestroyTermInWaitingSet looks at every waiting stream   *)
(* in turn ...                                                             *)
CollCollect(c, d) ==
  /\ CollReads(c, d, {"collect"})
  /\ CollTurn(c, d, [coll[c] EXCEPT !.cur = d, !.opening = Top(coll[c].at[d]).s,
                                    !.scan = coll[c].waiting], << >>)

CollScan(c, d) ==
  /\ d \in coll[c].scan
  /\ todo[c] = << >>
  /\ LET s == coll[c].at[d]
         dead == chan[s] # << >> /\ Top(s) = Term
     IN  \/ /\ dead
            /\ Take(c, s, <<Free(s)>>)
            /\ coll' = [coll EXCEPT ![c].scan = @ \ {d}, ![c].waiting = @ \ {d},
                                    ![c].incount = @ - 1]
         \/ /\ ~dead
            /\ coll' = [coll EXCEPT ![c].scan = @ \ {d}]
            /\ UNCHANGED netVars

(* ... before the instance's stream joins the ready set.                   *)
CollOpen(c) ==
  /\ coll[c].opening # NULL /\ coll[c].scan = {}
  /\ todo[c] = << >>
  /\ LET s  == coll[c].opening
         at == coll[c].at
     IN  coll' = [coll EXCEPT ![c].ready = @ \cup {s},
                              ![c].at = [d \in DOMAIN at \cup {s} |-> IF d = s THEN s ELSE at[d]],
                              ![c].incount = @ + 1, ![c].opening = NULL]
  /\ UNCHANGED netVars

CollectorTask(c) ==
  \/ CollPeek(c) \/ CollOpen(c)
  \/ \E d \in coll[c].ready \cup coll[c].waiting :
       \/ CollData(c, d) \/ CollNotice(c, d) \/ CollSort(c, d) \/ CollSync(c, d)
       \/ CollTerm(c, d) \/ CollCollect(c, d) \/ CollScan(c, d)
=============================================================================
