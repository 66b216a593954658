---------------------------- MODULE FifoChannels ----------------------------
(***************************************************************************)
(* What a set of S-Net streams promises to the entities that use them: a   *)
(* stream is a bounded FIFO channel between one producer and one consumer. *)
(* Records are numbered in the order in which the producer writes them, so *)
(* that "nothing lost, duplicated or reordered" is visible in the          *)
(* contents: the consumer must receive 1, 2, 3, ...                        *)
(***************************************************************************)
EXTENDS Naturals, Sequences

CONSTANTS Streams,    \* the streams of one consumer
          Capacity    \* Capacity[s] = number of slots of stream s

VARIABLES chan,       \* chan[s]  = records written and not yet read
          sent,       \* sent[s]  = number of records written so far
          got         \* got[s]   = the record the consumer read last (0: none)

chanVars == <<chan, sent, got>>

ChanInit == /\ chan = [s \in Streams |-> << >>]
            /\ sent = [s \in Streams |-> 0]
            /\ got  = [s \in Streams |-> 0]

(* SNetStreamWrite: append one record when there is room.                  *)
Send(s) == /\ Len(chan[s]) < Capacity[s]
           /\ chan' = [chan EXCEPT ![s] = Append(@, sent[s] + 1)]
           /\ sent' = [sent EXCEPT ![s] = @ + 1]
           /\ got'  = got

(* SNetStreamRead: take the oldest record, which is the successor of the   *)
(* one read before it.                                                     *)
Receive(s) == /\ chan[s] # << >>
              /\ Head(chan[s]) = got[s] + 1
              /\ chan' = [chan EXCEPT ![s] = Tail(@)]
              /\ got'  = [got EXCEPT ![s] = @ + 1]
              /\ sent' = sent

ChanNext == \E s \in Streams : Send(s) \/ Receive(s)

ChanSpec == ChanInit /\ [][ChanNext]_chanVars
=============================================================================
