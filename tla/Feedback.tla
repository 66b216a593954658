------------------------------ MODULE Feedback ------------------------------
(***************************************************************************)
(* The feedback combinator: a collector that lets one record at a time     *)
(* into the operand network and stays with the loop until a sort record    *)
(* has come round without a data record, a dispatcher that sends records   *)
(* matching the back pattern round again, and between the two a buffer     *)
(* that keeps any number of records, so that the loop cannot block.        *)
(***************************************************************************)
EXTENDS Network

CONSTANTS Feedbacks,           \* the feedback combinators
          FbColl, FbDisp, FbBuf,  \* their entities
          FbIn, FbOut,         \* input and output of the combinator
          IntoOp, FromOp,      \* streams into and out of the operand network
          BackIn,              \* dispatcher to buffer
          BackOuts,            \* BackOuts[f][k]: k-th stream from the buffer to
                               \* the collector; their number bounds the growth
          BackCap,             \* FEEDBACK_BACKCHAN_CAPACITY
          GoesBack(_, _)       \* MatchesBackPattern

ASSUME FeedbackAssumption ==
  BackCap \in Nat \ {0} /\ \A f \in Feedbacks : BackOuts[f] \in Seq(Range(BackOuts[f])) \ {<< >>}

VARIABLES fbcoll, fbdisp, fbbuf   \* local state of the three entities

fbVars == <<fbcoll, fbdisp, fbbuf>>

FeedbackInit(ents) ==
  LET here == {f \in Feedbacks : FbColl[f] \in ents}
  IN  /\ fbcoll = [f \in here |-> [in |-> FbIn[f], back |-> BackOuts[f][1],
                                   mode |-> "in", done |-> FALSE]]
      /\ fbdisp = [f \in here |-> [in |-> FromOp[f], done |-> FALSE]]
      /\ fbbuf  = [f \in here |-> [out   |-> BackOuts[f][1],   \* outstream
                                   made  |-> 1,        \* streams created so far
                                   q     |-> << >>,    \* internal_buffer
                                   n     |-> 0,
                                   pc    |-> "first",
                                   late  |-> FALSE,    \* REC_terminate in the buffer
                                   done  |-> FALSE]]

(* Every new stream to the collector has twice the capacity of the last.   *)
BackCapacity(k) == BackCap * 2 ^ (k - 1)
BackSize(f, s)  == BackCapacity(CHOOSE k \in DOMAIN BackOuts[f] : BackOuts[f][k] = s)

-----------------------------------------------------------------------------
(* FbCollReadIn *)
FbReadsIn(f, kinds) == /\ ~fbcoll[f].done /\ fbcoll[f].mode = "in"
                       /\ Reads(FbColl[f], fbcoll[f].in, kinds)

(* Variant of the next operator that stays in mode IN.                     *)
FbInDataStays(f) ==
  /\ FbReadsIn(f, {"data"})
  /\ Take(FbColl[f], fbcoll[f].in, <<Write(IntoOp[f], Top(fbcoll[f].in)),
                                     Write(IntoOp[f], Sort(0, 1))>>)
  /\ UNCHANGED fbcoll

FbInData(f) ==
  /\ FbReadsIn(f, {"data"})
  /\ Take(FbColl[f], fbcoll[f].in, <<Write(IntoOp[f], Top(fbcoll[f].in)),
                                     Write(IntoOp[f], Sort(0, 1))>>)
  /\ fbcoll' = [fbcoll EXCEPT ![f].mode = "fb1"]

FbInSort(f) ==
  /\ FbReadsIn(f, {"sort"})
  /\ Take(FbColl[f], fbcoll[f].in, <<Write(IntoOp[f], Raise(Top(fbcoll[f].in)))>>)
  /\ UNCHANGED fbcoll

FbInTerm(f) ==
  /\ FbReadsIn(f, {"term"})
  /\ Take(FbColl[f], fbcoll[f].in, <<Write(IntoOp[f], Term), Free(fbcoll[f].in),
                                     Free(fbcoll[f].back)>>)
  /\ fbcoll' = [fbcoll EXCEPT ![f].done = TRUE]

FbInSync(f) ==
  /\ FbReadsIn(f, {"sync"})
  /\ Take(FbColl[f], fbcoll[f].in, <<Free(fbcoll[f].in)>>)
  /\ fbcoll' = [fbcoll EXCEPT ![f].in = Top(fbcoll[f].in).s]

(* FbCollReadFbi *)
FbReadsBack(f, kinds) == /\ ~fbcoll[f].done /\ fbcoll[f].mode \in {"fb1", "fb0"}
                         /\ Reads(FbColl[f], fbcoll[f].back, kinds)

FbBackData(f) ==
  /\ FbReadsBack(f, {"data"})
  /\ Take(FbColl[f], fbcoll[f].back, <<Write(IntoOp[f], Top(fbcoll[f].back))>>)
  /\ fbcoll' = [fbcoll EXCEPT ![f].mode = "fb0"]

(* After data, another round; without, the loop is empty.                  *)
FbBackSort(f) ==
  /\ FbReadsBack(f, {"sort"})
  /\ LET again == fbcoll[f].mode = "fb0"
         top   == Top(fbcoll[f].back)
     IN  /\ Take(FbColl[f], fbcoll[f].back, IF again THEN <<Write(IntoOp[f], Sort(top.lvl, top.num + 1))>>
                                               ELSE << >>)
         /\ fbcoll' = [fbcoll EXCEPT ![f].mode = IF again THEN "fb1" ELSE "in"]

FbBackSync(f) ==
  /\ FbReadsBack(f, {"sync"})
  /\ Take(FbColl[f], fbcoll[f].back, <<Free(fbcoll[f].back)>>)
  /\ fbcoll' = [fbcoll EXCEPT ![f].back = Top(fbcoll[f].back).s]

FeedbackCollTask(f) ==
  /\ \/ FbInData(f) \/ FbInSort(f) \/ FbInTerm(f) \/ FbInSync(f)
     \/ FbBackData(f) \/ FbBackSort(f) \/ FbBackSync(f)
  /\ UNCHANGED <<fbdisp, fbbuf>>

-----------------------------------------------------------------------------
(* FeedbackDispTask *)
DispReads(f, kinds) == ~fbdisp[f].done /\ Reads(FbDisp[f], fbdisp[f].in, kinds)

DispData(f) ==
  /\ DispReads(f, {"data"})
  /\ LET r == Top(fbdisp[f].in)
     IN  Take(FbDisp[f], fbdisp[f].in,
              <<Write(IF GoesBack(f, r.ty) THEN BackIn[f] ELSE FbOut[f], r)>>)
  /\ UNCHANGED fbdisp

(* Sort records of the loop go back, those from outside leave.             *)
DispSort(f) ==
  /\ DispReads(f, {"sort"})
  /\ LET r == Top(fbdisp[f].in)
     IN  Take(FbDisp[f], fbdisp[f].in,
              <<IF r.lvl = 0 THEN Write(BackIn[f], r) ELSE Write(FbOut[f], Lower(r))>>)
  /\ UNCHANGED fbdisp

DispTerm(f) ==
  /\ DispReads(f, {"term"})
  /\ Take(FbDisp[f], fbdisp[f].in, <<Write(BackIn[f], Term), Write(FbOut[f], Term),
                                     Free(fbdisp[f].in)>>)
  /\ fbdisp' = [fbdisp EXCEPT ![f].done = TRUE]

DispSync(f) ==
  /\ DispReads(f, {"sync"})
  /\ Take(FbDisp[f], fbdisp[f].in, <<Free(fbdisp[f].in)>>)
  /\ fbdisp' = [fbdisp EXCEPT ![f].in = Top(fbdisp[f].in).s]

FeedbackDispTask(f) ==
  /\ DispData(f) \/ DispSort(f) \/ DispTerm(f) \/ DispSync(f)
  /\ UNCHANGED <<fbcoll, fbbuf>>

-----------------------------------------------------------------------------
(* FeedbackBufTask.  pc: "first" before the first read of a turn, "more"   *)
(* in the loop that reads what is available, "empty" in the one that       *)
(* writes what there is room for.                                          *)
BufAt(f, pc) == ~fbbuf[f].done /\ fbbuf[f].pc = pc /\ todo[FbBuf[f]] = << >>
BufHas(f)    == chan[BackIn[f]] # << >>

(* The record taken from the dispatcher goes to the queue.                 *)
BufPut(f, recs, n, made) ==
  /\ Take(FbBuf[f], BackIn[f], << >>)
  /\ fbbuf' = [fbbuf EXCEPT ![f].q = @ \o recs, ![f].n = n, ![f].pc = "more", ![f].made = made,
                            ![f].late = @ \/ Term \in Range(recs)]

(* With an empty queue the read blocks, and only then a termination record *)
(* is looked for.                                                          *)
BufRead(f) ==
  /\ BufAt(f, "first") /\ fbbuf[f].q = << >> /\ BufHas(f)
  /\ Top(BackIn[f]) # Term
  /\ BufPut(f, <<Top(BackIn[f])>>, 1, fbbuf[f].made)

BufTerm(f) ==
  /\ BufAt(f, "first") /\ fbbuf[f].q = << >> /\ BufHas(f)
  /\ Top(BackIn[f]) = Term
  /\ Take(FbBuf[f], BackIn[f], <<Free(BackIn[f])>>)
  /\ fbbuf' = [fbbuf EXCEPT ![f].done = TRUE]

BufPeek(f) ==
  /\ BufAt(f, "first") /\ fbbuf[f].q # << >>
  /\ \/ BufHas(f) /\ BufPut(f, <<Top(BackIn[f])>>, 1, fbbuf[f].made)
     \/ /\ ~BufHas(f)
        /\ fbbuf' = [fbbuf EXCEPT ![f].n = 0, ![f].pc = "more"]
        /\ UNCHANGED netVars

(* When the queue comes to the capacity of the stream, a larger stream and *)
(* a sync record that announces it.                                        *)
Grown(f, r) == <<Sync(BackOuts[f][fbbuf[f].made + 1], NULL), r>>

BufMore(f) ==
  /\ BufAt(f, "more") /\ fbbuf[f].n <= BackCap /\ BufHas(f)
  /\ LET r == Top(BackIn[f])
         full == Len(fbbuf[f].q) + 1 >= BackCapacity(fbbuf[f].made)
     IN  \/ /\ full /\ fbbuf[f].made < Len(BackOuts[f])
            /\ BufPut(f, Grown(f, r), fbbuf[f].n + 1, fbbuf[f].made + 1)
         \/ /\ ~full
            /\ BufPut(f, <<r>>, fbbuf[f].n + 1, fbbuf[f].made)

BufEnough(f) ==
  /\ BufAt(f, "more") /\ ~(fbbuf[f].n <= BackCap /\ BufHas(f))
  /\ fbbuf' = [fbbuf EXCEPT ![f].pc = "empty"]
  /\ UNCHANGED netVars

(* SNetStreamTryWrite of the head of the queue; behind a sync record the   *)
(* buffer goes on to the stream that the record names.                     *)
BufTryWrite(f) ==
  /\ BufAt(f, "empty")
  /\ LET out  == fbbuf[f].out
         room == Len(chan[out]) < BackSize(f, out)
     IN  \/ /\ fbbuf[f].q # << >> /\ room
            /\ chan' = [chan EXCEPT ![out] = Append(@, Head(fbbuf[f].q))]
            /\ stat' = Touched(out)
            /\ fbbuf' = [fbbuf EXCEPT ![f].q = Tail(@),
                           ![f].out = IF Head(fbbuf[f].q).t = "sync" THEN Head(fbbuf[f].q).s ELSE @]
            /\ UNCHANGED todo
         \/ /\ fbbuf[f].q = << >> \/ ~room
            /\ fbbuf' = [fbbuf EXCEPT ![f].pc = "first"]
            /\ UNCHANGED netVars

FeedbackBufTask(f) ==
  /\ \/ BufRead(f) \/ BufTerm(f) \/ BufPeek(f) \/ BufMore(f) \/ BufEnough(f) \/ BufTryWrite(f)
  /\ UNCHANGED <<fbcoll, fbdisp>>
=============================================================================
