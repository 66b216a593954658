------------------------------- MODULE Split -------------------------------
(***************************************************************************)
(* The dispatcher of an index split: one replica of the operand network    *)
(* per tag value, created when the first record with that value arrives.   *)
(* The replicas that can come to exist are wired up in advance, in the     *)
(* order of their creation.                                                *)
(***************************************************************************)
EXTENDS Network

CONSTANTS Splits,
          SplitIn,
          SplitInitial,  \* stream to the collector that announces replicas
          RepIn, RepOut, \* RepIn[x][k], RepOut[x][k]: streams of the k-th
                         \* replica; their number bounds the replicas
          SplitDet,
          LTag(_, _), UTag(_, _)  \* the two tag values of a record of a type

ASSUME SplitAssumption == \A x \in Splits : RepOut[x] \in Seq(Range(RepOut[x]))

VARIABLE split           \* split[x] = local state of dispatcher x

SplitInit(ents) ==
  split = [x \in Splits \cap ents |-> [in      |-> SplitIn[x],
                             tab     |-> << >>,   \* repos_tab: tag of replica k
                             rec     |-> << >>,   \* the record in hand, if any
                             i       |-> 0,       \* its next tag value
                             counter |-> 0,
                             done    |-> FALSE]]

SplitReads(x, kinds) ==
  ~split[x].done /\ split[x].rec = << >> /\ Reads(x, split[x].in, kinds)

(* HashtabGet: the replica for a tag value, if there is one.  The value    *)
(* HASHTAB_NOT_KEY = -1 marks a free slot and is never found.              *)
Replica(tab, v) == {k \in DOMAIN tab : tab[k] = v /\ v # -1}

SplitData(x) ==
  /\ SplitReads(x, {"data"})
  /\ Take(x, split[x].in, << >>)
  /\ split' = [split EXCEPT ![x].rec = <<Top(split[x].in)>>, ![x].i = LTag(x, Top(split[x].in).ty)]

(* A turn of the loop over the tag values of the record in hand: create    *)
(* the replica and announce it if it does not exist, then write the record *)
(* to it.                                                                  *)
SplitTag(x) ==
  /\ split[x].rec # << >> /\ split[x].i <= UTag(x, Head(split[x].rec).ty)
  /\ todo[x] = << >>
  /\ LET tab == split[x].tab
         old == Replica(tab, split[x].i)
         k   == Len(tab) + 1
     IN  \/ /\ old = {} /\ k <= Len(RepOut[x])
            /\ Proceed(x, <<Create(RepIn[x][k]), Write(SplitInitial[x], Collect(RepOut[x][k])),
                            Write(RepIn[x][k], Head(split[x].rec))>>, stat)
            /\ split' = [split EXCEPT ![x].tab = Append(@, split[x].i), ![x].i = @ + 1]
         \/ /\ old # {}
            /\ Proceed(x, <<Write(RepIn[x][CHOOSE j \in old : TRUE], Head(split[x].rec))>>, stat)
            /\ split' = [split EXCEPT ![x].i = @ + 1]
  /\ UNCHANGED chan

(* The streams of all replicas, in the order of the stream set.            *)
Replicas(x, tab) == [k \in DOMAIN tab |-> RepIn[x][k]]

(* Variant of the next operator: nobody is told that the record is over.   *)
SplitSortEndSilent(x) ==
  /\ split[x].rec # << >> /\ split[x].i > UTag(x, Head(split[x].rec).ty)
  /\ todo[x] = << >>
  /\ Proceed(x, << >>, stat)
  /\ split' = [split EXCEPT ![x].rec = << >>, ![x].i = 0, ![x].counter = @ + 1]
  /\ UNCHANGED chan

(* After the loop, sort records of the deterministic variant.              *)
SplitSortEnd(x) ==
  /\ split[x].rec # << >> /\ split[x].i > UTag(x, Head(split[x].rec).ty)
  /\ todo[x] = << >>
  /\ Proceed(x, IF SplitDet[x]
                THEN WriteAll(Replicas(x, split[x].tab) \o <<SplitInitial[x]>>,
                              Sort(0, split[x].counter))
                ELSE << >>, stat)
  /\ split' = [split EXCEPT ![x].rec = << >>, ![x].i = 0, ![x].counter = @ + 1]
  /\ UNCHANGED chan

SplitSync(x) ==
  /\ SplitReads(x, {"sync"})
  /\ Take(x, split[x].in, <<Free(split[x].in)>>)
  /\ split' = [split EXCEPT ![x].in = Top(split[x].in).s]

SplitSort(x) ==
  /\ SplitReads(x, {"sort"})
  /\ Take(x, split[x].in, WriteAll(Replicas(x, split[x].tab) \o <<SplitInitial[x]>>,
                                   Raise(Top(split[x].in))))
  /\ UNCHANGED split

SplitTerm(x) ==
  /\ SplitReads(x, {"term"})
  /\ Take(x, split[x].in,
          Append(WriteAll(Replicas(x, split[x].tab) \o <<SplitInitial[x]>>, Term),
                 Free(split[x].in)))
  /\ split' = [split EXCEPT ![x].done = TRUE]

SplitBoxTask(x) == \/ SplitData(x) \/ SplitTag(x) \/ SplitSortEnd(x)
                   \/ SplitSync(x) \/ SplitSort(x) \/ SplitTerm(x)
=============================================================================
