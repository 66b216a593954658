---------------------------- MODULE StreamProofs ----------------------------
(***************************************************************************)
(* Proofs that the streams of the pthread layer are safe for every number  *)
(* of streams, every capacity and every interleaving of producers and      *)
(* consumer.                                                               *)
(***************************************************************************)
EXTENDS Stream, SequenceTheorems, TLAPS

(* Who holds a stream's mutex between two steps.                           *)
LockInv ==
  \A s \in Streams :
    /\ lock[s] = "producer" <=> ppc[s] = "notify"
    /\ lock[s] = "consumer" <=> cpc = "hit" /\ s = At(k)

(* The count records behind the head are the ones written last, in order.  *)
RingInv ==
  \A s \in Streams :
    /\ tail[s] = (head[s] + count[s]) % Capacity[s]
    /\ sent[s] = got[s] + count[s]
    /\ \A i \in 0 .. count[s] - 1 :
         buffer[s][(head[s] + i) % Capacity[s]] = got[s] + i + 1

(* The positions of the iteration that may still be registered.            *)
Pending(j) ==
  /\ cpc \in {"register", "hit"} => j < k
  /\ cpc \in {"pollwait", "pollsleep"} => j <= cnt
  /\ cpc = "clear" => k <= j /\ j < k + cnt

(* The streams through which a writer may still reach the consumer.        *)
Registered == {s \in Streams : is_poll[s] \/ ppc[s] = "notify"}

(* Registrations exist only inside a poll, at positions not yet cleared.   *)
RegisteredInv ==
  /\ \A s \in Registered :
       Polling /\ \E j \in 1 .. N : s = At(j) /\ Pending(j)
  /\ cpc \in {"scan", "reset"} => cnt = 0
  /\ cpc \in {"register", "hit"} => cnt = k - 1

(* A registered stream is empty; a notifying writer has just filled it.    *)
CountInv ==
  /\ \A s \in Streams : is_poll[s] => count[s] = 0
  /\ \A s \in Streams : ppc[s] = "notify" => count[s] > 0
  /\ \A s \in Streams : ppc[s] = "trywrite" => count[s] < Capacity[s]
  /\ cpc = "hit" => count[At(k)] > 0

(* While no wakeup has come, what was visited is registered or notifying.  *)
WakeupInv ==
  wakeup_sd = NULL =>
    /\ cpc \in {"register", "hit"} => \A j \in 1 .. k - 1 : At(j) \in Registered
    /\ cpc \in {"pollwait", "pollsleep"} => Streams \subseteq Registered

(* What ends a poll is a stream with a record.                             *)
ResultInv ==
  /\ wakeup_sd # NULL /\ Polling => count[wakeup_sd] > 0
  /\ cpc \in {"scan", "clear"} /\ result # NULL => count[result] > 0
  /\ cpc = "clear" => result # NULL

IInv == /\ TypeOK /\ LockInv /\ RingInv /\ RegisteredInv
        /\ CountInv /\ WakeupInv /\ ResultInv /\ NoLostSignal

-----------------------------------------------------------------------------
(* Addition modulo c, for summands that overflow at most once: the only    *)
(* arithmetic of the ring buffers and of the circular stream set.          *)
LEMMA ModAdd ==
  ASSUME NEW c \in Nat \ {0}, NEW a \in 0 .. c - 1, NEW i \in 0 .. c
  PROVE  (a + i) % c = IF a + i < c THEN a + i ELSE a + i - c
<1>1. CASE a + i < c
  BY <1>1, Z3
<1>2. CASE a + i >= c
  <2>1. a + i = c * 1 + (a + i - c) /\ a + i - c \in 0 .. c - 1
    BY <1>2
  <2> QED BY <2>1, <1>2, Z3
<1> QED BY <1>1, <1>2

(* An iterator of the stream set visits streams only ...                   *)
LEMMA NodeType ==
  ASSUME NEW p \in Streams, NEW j \in 1 .. N
  PROVE  NodeAt(p, j) \in Streams
BY ModAdd, StreamAssumption DEF NodeAt, Streams

(* ... and it visits all of them within N steps.                           *)
LEMMA NodeOnto ==
  ASSUME NEW p \in Streams, NEW s \in Streams
  PROVE  \E j \in 1 .. N : s = NodeAt(p, j)
<1> DEFINE d == IF s > p THEN s - p ELSE s - p + N
<1>1. /\ N \in Nat \ {0} /\ p \in 0 .. N - 1 /\ s \in 0 .. N - 1
      /\ d \in 0 .. N /\ d \in 1 .. N
  BY StreamAssumption DEF Streams
<1> HIDE DEF d
<1>2. (p + d) % N = IF p + d < N THEN p + d ELSE p + d - N
  BY <1>1, ModAdd
<1>3. NodeAt(p, d) = s
  BY <1>1, <1>2 DEF NodeAt, d
<1> QED BY <1>1, <1>3

(* SNetStreamCreate and SNetStreamsetPut establish the invariant.          *)
LEMMA InitIInv == Init => IInv
<1> SUFFICES ASSUME Init PROVE IInv
  OBVIOUS
<1> USE StreamAssumption
<1>1. TypeOK
  BY DEF Init, TypeOK, Streams, ProducerStates, ConsumerStates
<1>2. LockInv /\ RegisteredInv /\ CountInv /\ WakeupInv /\ ResultInv
  BY DEF Init, LockInv, RegisteredInv, CountInv, WakeupInv, ResultInv, Registered,
         Polling
<1>3. RingInv
  <2> SUFFICES ASSUME NEW s \in Streams
               PROVE  (0 + 0) % Capacity[s] = 0
    BY DEF Init, RingInv
  <2>1. Capacity[s] \in Nat \ {0} /\ 0 \in 0 .. Capacity[s] - 1
    OBVIOUS
  <2> QED BY <2>1, ModAdd
<1>4. NoLostSignal
  BY DEF Init, NoLostSignal
<1> QED BY <1>1, <1>2, <1>3, <1>4 DEF IInv

(* No descriptor is NULL.                                                  *)
LEMMA NullNotStream == NULL \notin Streams
BY StreamAssumption DEF Streams

(* Every step of a producer but the write itself preserves the invariant.  *)
LEMMA ProducerStep ==
  ASSUME IInv, NEW s \in Streams,
         \/ SNetStreamWrite(s) \/ SNetStreamTryWrite(s) \/ TryWriteReturn(s)
         \/ WriteWait(s) \/ WriteNotify(s) \/ SpuriousWrite(s)
  PROVE  IInv'
<1> USE StreamAssumption, NullNotStream DEF IInv
<1>1. CASE SNetStreamWrite(s)
  <2>0. Registered' = Registered
    BY <1>1 DEF SNetStreamWrite, Registered, TypeOK
  <2>1. TypeOK'
    BY <1>1 DEF SNetStreamWrite, TypeOK, ProducerStates, ConsumerStates, ringVars, pollVars
  <2>2. LockInv'
    BY <1>1 DEF SNetStreamWrite, LockInv, TypeOK, ProducerStates, At, pollVars
  <2>3. RingInv'
    BY <1>1 DEF SNetStreamWrite, RingInv, ringVars
  <2>4. RegisteredInv'
    BY <1>1, <2>0 DEF SNetStreamWrite, RegisteredInv, Pending, Polling, At, pollVars
  <2>5. CountInv'
    BY <1>1 DEF SNetStreamWrite, CountInv, TypeOK, At, ringVars, pollVars, LockInv
  <2>6. WakeupInv'
    BY <1>1, <2>0 DEF SNetStreamWrite, WakeupInv, At, pollVars
  <2>7. ResultInv'
    BY <1>1 DEF SNetStreamWrite, ResultInv, CountInv, TypeOK, Polling, ringVars, pollVars
  <2>8. NoLostSignal'
    BY <1>1 DEF SNetStreamWrite, NoLostSignal, TypeOK, ringVars
  <2> QED BY <2>1, <2>2, <2>3, <2>4, <2>5, <2>6, <2>7, <2>8
<1>2. CASE SNetStreamTryWrite(s)
  <2>0. Registered' = Registered
    BY <1>2 DEF SNetStreamTryWrite, Registered, TypeOK
  <2>b. count[s] \in Nat /\ Capacity[s] \in Nat /\ count[s] <= Capacity[s]
    BY DEF TypeOK
  <2>a. count[s] # Capacity[s] => count[s] < Capacity[s]
    BY <2>b
  <2>1. TypeOK'
    BY <1>2 DEF SNetStreamTryWrite, TypeOK, ProducerStates, ConsumerStates, ringVars, pollVars
  <2>2. LockInv'
    BY <1>2 DEF SNetStreamTryWrite, LockInv, TypeOK, ProducerStates, At, pollVars
  <2>3. RingInv'
    BY <1>2 DEF SNetStreamTryWrite, RingInv, ringVars
  <2>4. RegisteredInv'
    BY <1>2, <2>0 DEF SNetStreamTryWrite, RegisteredInv, Pending, Polling, At, pollVars
  <2>5. CountInv'
    BY <1>2, <2>a DEF SNetStreamTryWrite, CountInv, TypeOK, At, ringVars, pollVars, LockInv
  <2>6. WakeupInv'
    BY <1>2, <2>0 DEF SNetStreamTryWrite, WakeupInv, At, pollVars
  <2>7. ResultInv'
    BY <1>2 DEF SNetStreamTryWrite, ResultInv, CountInv, TypeOK, Polling, ringVars, pollVars
  <2>8. NoLostSignal'
    BY <1>2 DEF SNetStreamTryWrite, NoLostSignal, TypeOK, ringVars
  <2> QED BY <2>1, <2>2, <2>3, <2>4, <2>5, <2>6, <2>7, <2>8
<1>3. CASE TryWriteReturn(s)
  <2>0. Registered' = Registered
    BY <1>3 DEF TryWriteReturn, Registered, TypeOK
  <2>1. TypeOK'
    BY <1>3 DEF TryWriteReturn, TypeOK, ProducerStates, ConsumerStates, ringVars, pollVars
  <2>2. LockInv'
    BY <1>3 DEF TryWriteReturn, LockInv, TypeOK, ProducerStates, At, pollVars
  <2>3. RingInv'
    BY <1>3 DEF TryWriteReturn, RingInv, ringVars
  <2>4. RegisteredInv'
    BY <1>3, <2>0 DEF TryWriteReturn, RegisteredInv, Pending, Polling, At, pollVars
  <2>5. CountInv'
    BY <1>3 DEF TryWriteReturn, CountInv, TypeOK, At, ringVars, pollVars, LockInv
  <2>6. WakeupInv'
    BY <1>3, <2>0 DEF TryWriteReturn, WakeupInv, At, pollVars
  <2>7. ResultInv'
    BY <1>3 DEF TryWriteReturn, ResultInv, CountInv, TypeOK, Polling, ringVars, pollVars
  <2>8. NoLostSignal'
    BY <1>3 DEF TryWriteReturn, NoLostSignal, TypeOK, ringVars
  <2> QED BY <2>1, <2>2, <2>3, <2>4, <2>5, <2>6, <2>7, <2>8
<1>4. CASE WriteWait(s)
  <2>0. Registered' = Registered
    BY <1>4 DEF WriteWait, Registered, TypeOK
  <2>1. TypeOK'
    BY <1>4 DEF WriteWait, TypeOK, ProducerStates, ConsumerStates, ringVars, pollVars
  <2>2. LockInv'
    BY <1>4 DEF WriteWait, LockInv, TypeOK, ProducerStates, At, pollVars
  <2>3. RingInv'
    BY <1>4 DEF WriteWait, RingInv, ringVars
  <2>4. RegisteredInv'
    BY <1>4, <2>0 DEF WriteWait, RegisteredInv, Pending, Polling, At, pollVars
  <2>5. CountInv'
    BY <1>4 DEF WriteWait, CountInv, TypeOK, At, ringVars, pollVars, LockInv
  <2>6. WakeupInv'
    BY <1>4, <2>0 DEF WriteWait, WakeupInv, At, pollVars
  <2>7. ResultInv'
    BY <1>4 DEF WriteWait, ResultInv, CountInv, TypeOK, Polling, ringVars, pollVars
  <2>8. NoLostSignal'
    BY <1>4 DEF WriteWait, NoLostSignal, TypeOK, ringVars
  <2> QED BY <2>1, <2>2, <2>3, <2>4, <2>5, <2>6, <2>7, <2>8
<1>5. CASE WriteNotify(s)
  <2>0. Registered' \subseteq Registered
    BY <1>5 DEF WriteNotify, Registered, TypeOK
  <2>1. TypeOK'
    BY <1>5 DEF WriteNotify, TypeOK, ProducerStates, ConsumerStates, ringVars, pollVars
  <2>2. LockInv'
    BY <1>5 DEF WriteNotify, LockInv, TypeOK, ProducerStates, At, pollVars
  <2>3. RingInv'
    BY <1>5 DEF WriteNotify, RingInv, ringVars
  <2>4. RegisteredInv'
    BY <1>5, <2>0 DEF WriteNotify, RegisteredInv, Pending, Polling, At, pollVars
  <2>5. CountInv'
    BY <1>5 DEF WriteNotify, CountInv, TypeOK, At, ringVars, pollVars, LockInv
  <2>6. WakeupInv'
    BY <1>5, <2>0 DEF WriteNotify, WakeupInv, At, pollVars
  <2>7. ResultInv'
    BY <1>5 DEF WriteNotify, ResultInv, CountInv, TypeOK, Polling, ringVars, pollVars
  <2>8. NoLostSignal'
    BY <1>5 DEF WriteNotify, NoLostSignal, TypeOK, ringVars
  <2> QED BY <2>1, <2>2, <2>3, <2>4, <2>5, <2>6, <2>7, <2>8
<1>6. CASE SpuriousWrite(s)
  <2>0. Registered' = Registered
    BY <1>6 DEF SpuriousWrite, Registered, TypeOK
  <2>1. TypeOK'
    BY <1>6 DEF SpuriousWrite, TypeOK, ProducerStates, ConsumerStates, ringVars, pollVars
  <2>2. LockInv'
    BY <1>6 DEF SpuriousWrite, LockInv, TypeOK, ProducerStates, At, pollVars
  <2>3. RingInv'
    BY <1>6 DEF SpuriousWrite, RingInv, ringVars
  <2>4. RegisteredInv'
    BY <1>6, <2>0 DEF SpuriousWrite, RegisteredInv, Pending, Polling, At, pollVars
  <2>5. CountInv'
    BY <1>6 DEF SpuriousWrite, CountInv, TypeOK, At, ringVars, pollVars, LockInv
  <2>6. WakeupInv'
    BY <1>6, <2>0 DEF SpuriousWrite, WakeupInv, At, pollVars
  <2>7. ResultInv'
    BY <1>6 DEF SpuriousWrite, ResultInv, CountInv, TypeOK, Polling, ringVars, pollVars
  <2>8. NoLostSignal'
    BY <1>6 DEF SpuriousWrite, NoLostSignal, TypeOK, ringVars
  <2> QED BY <2>1, <2>2, <2>3, <2>4, <2>5, <2>6, <2>7, <2>8
<1> QED BY <1>1, <1>2, <1>3, <1>4, <1>5, <1>6

(* Every step of the consumer but the read itself preserves the invariant. *)
LEMMA ConsumerStep ==
  ASSUME IInv,
         \/ ReadWait \/ SpuriousRead \/ SNetStreamPoll \/ PollStep \/ SpuriousPoll
  PROVE  IInv'
<1> USE StreamAssumption, NullNotStream DEF IInv
<1>0. /\ At(k) \in Streams
      /\ k \in 1 .. N /\ N \in Nat \ {0} /\ cnt \in Int
      /\ set \in Streams /\ result \in Streams \cup {NULL}
      /\ wakeup_sd \in Streams \cup {NULL}
  BY NodeType DEF TypeOK, At
<1>1. CASE ReadWait
  <2>0. Registered' = Registered
    BY <1>0, <1>1 DEF ReadWait, Registered, TypeOK, LockInv, At, pollVars
  <2>1. TypeOK'
    BY <1>0, <1>1 DEF ReadWait, PollReturn, TypeOK, ProducerStates, ConsumerStates, ringVars, pollVars
  <2>2. LockInv'
    BY <1>0, <1>1 DEF ReadWait, PollReturn, LockInv, TypeOK, ProducerStates, At, pollVars
  <2>3. RingInv'
    BY <1>0, <1>1 DEF ReadWait, PollReturn, RingInv, ringVars
  <2>4. RegisteredInv'
    BY <1>0, <1>1, <2>0 DEF ReadWait, PollReturn, RegisteredInv, Pending, Polling, At, pollVars
  <2>5. CountInv'
    BY <1>0, <1>1 DEF ReadWait, PollReturn, CountInv, TypeOK, At, ringVars, pollVars, LockInv
  <2>6. WakeupInv'
    BY <1>0, <1>1, <2>0 DEF ReadWait, PollReturn, WakeupInv, At, pollVars
  <2>7. ResultInv'
    BY <1>0, <1>1 DEF ReadWait, PollReturn, ResultInv, CountInv, TypeOK, Polling, At, ringVars, pollVars
  <2>8. NoLostSignal'
    BY <1>0, <1>1 DEF ReadWait, PollReturn, NoLostSignal, TypeOK, ringVars
  <2> QED BY <2>1, <2>2, <2>3, <2>4, <2>5, <2>6, <2>7, <2>8
<1>2. CASE SpuriousRead
  <2>0. Registered' = Registered
    BY <1>0, <1>2 DEF SpuriousRead, Registered, TypeOK, LockInv, At, pollVars
  <2>1. TypeOK'
    BY <1>0, <1>2 DEF SpuriousRead, PollReturn, TypeOK, ProducerStates, ConsumerStates, ringVars, pollVars
  <2>2. LockInv'
    BY <1>0, <1>2 DEF SpuriousRead, PollReturn, LockInv, TypeOK, ProducerStates, At, pollVars
  <2>3. RingInv'
    BY <1>0, <1>2 DEF SpuriousRead, PollReturn, RingInv, ringVars
  <2>4. RegisteredInv'
    BY <1>0, <1>2, <2>0 DEF SpuriousRead, PollReturn, RegisteredInv, Pending, Polling, At, pollVars
  <2>5. CountInv'
    BY <1>0, <1>2 DEF SpuriousRead, PollReturn, CountInv, TypeOK, At, ringVars, pollVars, LockInv
  <2>6. WakeupInv'
    BY <1>0, <1>2, <2>0 DEF SpuriousRead, PollReturn, WakeupInv, At, pollVars
  <2>7. ResultInv'
    BY <1>0, <1>2 DEF SpuriousRead, PollReturn, ResultInv, CountInv, TypeOK, Polling, At, ringVars, pollVars
  <2>8. NoLostSignal'
    BY <1>0, <1>2 DEF SpuriousRead, PollReturn, NoLostSignal, TypeOK, ringVars
  <2> QED BY <2>1, <2>2, <2>3, <2>4, <2>5, <2>6, <2>7, <2>8
<1>3. CASE SNetStreamPoll
  <2>0. Registered' = Registered
    BY <1>0, <1>3 DEF SNetStreamPoll, Registered, TypeOK, LockInv, At, pollVars
  <2>a. /\ k' \in 1 .. N /\ cnt' \in Int
        /\ set' \in Streams /\ result' \in Streams \cup {NULL}
    BY <1>0, <1>3 DEF SNetStreamPoll, PollReturn, ResultInv
  <2>1. TypeOK'
    BY <1>0, <1>3, <2>a DEF SNetStreamPoll, PollReturn, TypeOK, ProducerStates, ConsumerStates, ringVars, pollVars
  <2>2. LockInv'
    BY <1>0, <1>3 DEF SNetStreamPoll, PollReturn, LockInv, TypeOK, ProducerStates, At, pollVars
  <2>3. RingInv'
    BY <1>0, <1>3 DEF SNetStreamPoll, PollReturn, RingInv, ringVars
  <2>4. RegisteredInv'
    BY <1>0, <1>3, <2>0 DEF SNetStreamPoll, PollReturn, RegisteredInv, Pending, Polling, At, pollVars
  <2>5. CountInv'
    BY <1>0, <1>3 DEF SNetStreamPoll, PollReturn, CountInv, TypeOK, At, ringVars, pollVars, LockInv
  <2>6. WakeupInv'
    BY <1>0, <1>3, <2>0 DEF SNetStreamPoll, PollReturn, WakeupInv, At, pollVars
  <2>7. ResultInv'
    BY <1>0, <1>3 DEF SNetStreamPoll, PollReturn, ResultInv, CountInv, TypeOK, Polling, At, ringVars, pollVars
  <2>8. NoLostSignal'
    BY <1>0, <1>3 DEF SNetStreamPoll, PollReturn, NoLostSignal, TypeOK, ringVars
  <2> QED BY <2>1, <2>2, <2>3, <2>4, <2>5, <2>6, <2>7, <2>8
<1>4. CASE PollScan
  <2>0. Registered' = Registered
    BY <1>0, <1>4 DEF PollScan, Registered, TypeOK, LockInv, At, pollVars
  <2>a. /\ k' \in 1 .. N /\ cnt' \in Int
        /\ set' \in Streams /\ result' \in Streams \cup {NULL}
    BY <1>0, <1>4 DEF PollScan, PollReturn, ResultInv
  <2>1. TypeOK'
    BY <1>0, <1>4, <2>a DEF PollScan, PollReturn, TypeOK, ProducerStates, ConsumerStates, ringVars, pollVars
  <2>2. LockInv'
    BY <1>0, <1>4 DEF PollScan, PollReturn, LockInv, TypeOK, ProducerStates, At, pollVars
  <2>3. RingInv'
    BY <1>0, <1>4 DEF PollScan, PollReturn, RingInv, ringVars
  <2>4. RegisteredInv'
    BY <1>0, <1>4, <2>0 DEF PollScan, PollReturn, RegisteredInv, Pending, Polling, At, pollVars
  <2>5. CountInv'
    BY <1>0, <1>4 DEF PollScan, PollReturn, CountInv, TypeOK, At, ringVars, pollVars, LockInv
  <2>6. WakeupInv'
    BY <1>0, <1>4, <2>0 DEF PollScan, PollReturn, WakeupInv, At, pollVars
  <2>7. ResultInv'
    BY <1>0, <1>4 DEF PollScan, PollReturn, ResultInv, CountInv, TypeOK, Polling, At, ringVars, pollVars
  <2>8. NoLostSignal'
    BY <1>0, <1>4 DEF PollScan, PollReturn, NoLostSignal, TypeOK, ringVars
  <2> QED BY <2>1, <2>2, <2>3, <2>4, <2>5, <2>6, <2>7, <2>8
<1>5. CASE PollReset
  <2>0. Registered' = Registered
    BY <1>0, <1>5 DEF PollReset, Registered, TypeOK, LockInv, At, pollVars
  <2>a. /\ k' \in 1 .. N /\ cnt' \in Int
        /\ set' \in Streams /\ result' \in Streams \cup {NULL}
    BY <1>0, <1>5 DEF PollReset, PollReturn, ResultInv
  <2>1. TypeOK'
    BY <1>0, <1>5, <2>a DEF PollReset, PollReturn, TypeOK, ProducerStates, ConsumerStates, ringVars, pollVars
  <2>2. LockInv'
    BY <1>0, <1>5 DEF PollReset, PollReturn, LockInv, TypeOK, ProducerStates, At, pollVars
  <2>3. RingInv'
    BY <1>0, <1>5 DEF PollReset, PollReturn, RingInv, ringVars
  <2>4. RegisteredInv'
    BY <1>0, <1>5, <2>0 DEF PollReset, PollReturn, RegisteredInv, Pending, Polling, At, pollVars
  <2>5. CountInv'
    BY <1>0, <1>5 DEF PollReset, PollReturn, CountInv, TypeOK, At, ringVars, pollVars, LockInv
  <2>6. WakeupInv'
    BY <1>0, <1>5, <2>0 DEF PollReset, PollReturn, WakeupInv, At, pollVars
  <2>7. ResultInv'
    BY <1>0, <1>5 DEF PollReset, PollReturn, ResultInv, CountInv, TypeOK, Polling, At, ringVars, pollVars
  <2>8. NoLostSignal'
    BY <1>0, <1>5 DEF PollReset, PollReturn, NoLostSignal, TypeOK, ringVars
  <2> QED BY <2>1, <2>2, <2>3, <2>4, <2>5, <2>6, <2>7, <2>8
<1>6. CASE PollRegister
  <2>0. Registered' = Registered \cup {At(k)}
    BY <1>0, <1>6 DEF PollRegister, Registered, TypeOK, LockInv, At, pollVars
  <2>a. /\ k' \in 1 .. N /\ cnt' \in Int
        /\ set' \in Streams /\ result' \in Streams \cup {NULL}
    BY <1>0, <1>6 DEF PollRegister, PollReturn, ResultInv
  <2>1. TypeOK'
    BY <1>0, <1>6, <2>a DEF PollRegister, PollReturn, TypeOK, ProducerStates, ConsumerStates, ringVars, pollVars
  <2>2. LockInv'
    BY <1>0, <1>6 DEF PollRegister, PollReturn, LockInv, TypeOK, ProducerStates, At, pollVars
  <2>3. RingInv'
    BY <1>0, <1>6 DEF PollRegister, PollReturn, RingInv, ringVars
  <2>4. RegisteredInv'
    BY <1>0, <1>6, <2>0 DEF PollRegister, PollReturn, RegisteredInv, Pending, Polling, At, pollVars
  <2>5. CountInv'
    BY <1>0, <1>6 DEF PollRegister, PollReturn, CountInv, TypeOK, At, ringVars, pollVars, LockInv
  <2>6. WakeupInv'
    <3> SUFFICES ASSUME wakeup_sd' = NULL PROVE WakeupInv'
      BY DEF WakeupInv
    <3>1. \A j \in 1 .. k : At(j) \in Registered'
      BY <1>0, <1>6, <2>0 DEF PollRegister, WakeupInv
    <3>2. CASE k < N
      BY <1>0, <1>6, <3>1, <3>2 DEF PollRegister, WakeupInv, At
    <3>3. CASE k = N
      <4>1. \A s \in Streams : s \in Registered'
        BY <3>1, <3>3, NodeOnto DEF At, TypeOK
      <4> QED BY <4>1, <3>3, <1>6 DEF PollRegister, WakeupInv
    <3> QED BY <1>0, <3>2, <3>3
  <2>7. ResultInv'
    BY <1>0, <1>6 DEF PollRegister, PollReturn, ResultInv, CountInv, TypeOK, Polling, At, ringVars, pollVars
  <2>8. NoLostSignal'
    BY <1>0, <1>6 DEF PollRegister, PollReturn, NoLostSignal, TypeOK, ringVars
  <2> QED BY <2>1, <2>2, <2>3, <2>4, <2>5, <2>6, <2>7, <2>8
<1>7. CASE PollHit
  <2>0. Registered' = Registered
    BY <1>0, <1>7 DEF PollHit, Registered, TypeOK, LockInv, At, pollVars
  <2>1. TypeOK'
    BY <1>0, <1>7 DEF PollHit, PollReturn, TypeOK, ProducerStates, ConsumerStates, ringVars, pollVars
  <2>2. LockInv'
    BY <1>0, <1>7 DEF PollHit, PollReturn, LockInv, TypeOK, ProducerStates, At, pollVars
  <2>3. RingInv'
    BY <1>0, <1>7 DEF PollHit, PollReturn, RingInv, ringVars
  <2>4. RegisteredInv'
    BY <1>0, <1>7, <2>0 DEF PollHit, PollReturn, RegisteredInv, Pending, Polling, At, pollVars
  <2>5. CountInv'
    BY <1>0, <1>7 DEF PollHit, PollReturn, CountInv, TypeOK, At, ringVars, pollVars, LockInv
  <2>6. WakeupInv'
    BY <1>0, <1>7, <2>0 DEF PollHit, PollReturn, WakeupInv, At, pollVars
  <2>7. ResultInv'
    BY <1>0, <1>7 DEF PollHit, PollReturn, ResultInv, CountInv, TypeOK, Polling, At, ringVars, pollVars
  <2>8. NoLostSignal'
    BY <1>0, <1>7 DEF PollHit, PollReturn, NoLostSignal, TypeOK, ringVars
  <2> QED BY <2>1, <2>2, <2>3, <2>4, <2>5, <2>6, <2>7, <2>8
<1>8. CASE PollWakeSelf
  <2>0. Registered' = Registered
    BY <1>0, <1>8 DEF PollWakeSelf, Registered, TypeOK, LockInv, At, pollVars
  <2>1. TypeOK'
    BY <1>0, <1>8 DEF PollWakeSelf, PollReturn, TypeOK, ProducerStates, ConsumerStates, ringVars, pollVars
  <2>2. LockInv'
    BY <1>0, <1>8 DEF PollWakeSelf, PollReturn, LockInv, TypeOK, ProducerStates, At, pollVars
  <2>3. RingInv'
    BY <1>0, <1>8 DEF PollWakeSelf, PollReturn, RingInv, ringVars
  <2>4. RegisteredInv'
    BY <1>0, <1>8, <2>0 DEF PollWakeSelf, PollReturn, RegisteredInv, Pending, Polling, At, pollVars
  <2>5. CountInv'
    BY <1>0, <1>8 DEF PollWakeSelf, PollReturn, CountInv, TypeOK, At, ringVars, pollVars, LockInv
  <2>6. WakeupInv'
    BY <1>0, <1>8, <2>0 DEF PollWakeSelf, PollReturn, WakeupInv, At, pollVars
  <2>7. ResultInv'
    BY <1>0, <1>8 DEF PollWakeSelf, PollReturn, ResultInv, CountInv, TypeOK, Polling, At, ringVars, pollVars
  <2>8. NoLostSignal'
    BY <1>0, <1>8 DEF PollWakeSelf, PollReturn, NoLostSignal, TypeOK, ringVars
  <2> QED BY <2>1, <2>2, <2>3, <2>4, <2>5, <2>6, <2>7, <2>8
<1>9. CASE PollSleep
  <2>0. Registered' = Registered
    BY <1>0, <1>9 DEF PollSleep, Registered, TypeOK, LockInv, At, pollVars
  <2>1. TypeOK'
    BY <1>0, <1>9 DEF PollSleep, PollReturn, TypeOK, ProducerStates, ConsumerStates, ringVars, pollVars
  <2>2. LockInv'
    BY <1>0, <1>9 DEF PollSleep, PollReturn, LockInv, TypeOK, ProducerStates, At, pollVars
  <2>3. RingInv'
    BY <1>0, <1>9 DEF PollSleep, PollReturn, RingInv, ringVars
  <2>4. RegisteredInv'
    BY <1>0, <1>9, <2>0 DEF PollSleep, PollReturn, RegisteredInv, Pending, Polling, At, pollVars
  <2>5. CountInv'
    BY <1>0, <1>9 DEF PollSleep, PollReturn, CountInv, TypeOK, At, ringVars, pollVars, LockInv
  <2>6. WakeupInv'
    BY <1>0, <1>9, <2>0 DEF PollSleep, PollReturn, WakeupInv, At, pollVars
  <2>7. ResultInv'
    BY <1>0, <1>9 DEF PollSleep, PollReturn, ResultInv, CountInv, TypeOK, Polling, At, ringVars, pollVars
  <2>8. NoLostSignal'
    BY <1>0, <1>9 DEF PollSleep, PollReturn, NoLostSignal, TypeOK, ringVars
  <2> QED BY <2>1, <2>2, <2>3, <2>4, <2>5, <2>6, <2>7, <2>8
<1>10. CASE SpuriousPoll
  <2>0. Registered' = Registered
    BY <1>0, <1>10 DEF SpuriousPoll, Registered, TypeOK, LockInv, At, pollVars
  <2>1. TypeOK'
    BY <1>0, <1>10 DEF SpuriousPoll, PollReturn, TypeOK, ProducerStates, ConsumerStates, ringVars, pollVars
  <2>2. LockInv'
    BY <1>0, <1>10 DEF SpuriousPoll, PollReturn, LockInv, TypeOK, ProducerStates, At, pollVars
  <2>3. RingInv'
    BY <1>0, <1>10 DEF SpuriousPoll, PollReturn, RingInv, ringVars
  <2>4. RegisteredInv'
    BY <1>0, <1>10, <2>0 DEF SpuriousPoll, PollReturn, RegisteredInv, Pending, Polling, At, pollVars
  <2>5. CountInv'
    BY <1>0, <1>10 DEF SpuriousPoll, PollReturn, CountInv, TypeOK, At, ringVars, pollVars, LockInv
  <2>6. WakeupInv'
    BY <1>0, <1>10, <2>0 DEF SpuriousPoll, PollReturn, WakeupInv, At, pollVars
  <2>7. ResultInv'
    BY <1>0, <1>10 DEF SpuriousPoll, PollReturn, ResultInv, CountInv, TypeOK, Polling, At, ringVars, pollVars
  <2>8. NoLostSignal'
    BY <1>0, <1>10 DEF SpuriousPoll, PollReturn, NoLostSignal, TypeOK, ringVars
  <2> QED BY <2>1, <2>2, <2>3, <2>4, <2>5, <2>6, <2>7, <2>8
<1>11. CASE PollWoken
  <2>0. Registered' = Registered
    BY <1>0, <1>11 DEF PollWoken, Registered, TypeOK, LockInv, At, pollVars
  <2>a. /\ k' \in 1 .. N /\ cnt' \in Int
        /\ set' \in Streams /\ result' \in Streams \cup {NULL}
    BY <1>0, <1>11 DEF PollWoken, PollReturn, ResultInv
  <2>1. TypeOK'
    BY <1>0, <1>11, <2>a DEF PollWoken, PollReturn, TypeOK, ProducerStates, ConsumerStates, ringVars, pollVars
  <2>2. LockInv'
    BY <1>0, <1>11 DEF PollWoken, PollReturn, LockInv, TypeOK, ProducerStates, At, pollVars
  <2>3. RingInv'
    BY <1>0, <1>11 DEF PollWoken, PollReturn, RingInv, ringVars
  <2>4. RegisteredInv'
    BY <1>0, <1>11, <2>0 DEF PollWoken, PollReturn, RegisteredInv, Pending, Polling, At, pollVars
  <2>5. CountInv'
    BY <1>0, <1>11 DEF PollWoken, PollReturn, CountInv, TypeOK, At, ringVars, pollVars, LockInv
  <2>6. WakeupInv'
    BY <1>0, <1>11, <2>0 DEF PollWoken, PollReturn, WakeupInv, At, pollVars
  <2>7. ResultInv'
    BY <1>0, <1>11 DEF PollWoken, PollReturn, ResultInv, CountInv, TypeOK, Polling, At, ringVars, pollVars
  <2>8. NoLostSignal'
    BY <1>0, <1>11 DEF PollWoken, PollReturn, NoLostSignal, TypeOK, ringVars
  <2> QED BY <2>1, <2>2, <2>3, <2>4, <2>5, <2>6, <2>7, <2>8
<1>12. CASE PollClear
  <2>0. Registered' = Registered \ {At(k)}
    BY <1>0, <1>12 DEF PollClear, Registered, TypeOK, LockInv, At, pollVars
  <2>a. /\ k' \in 1 .. N /\ cnt' \in Int
        /\ set' \in Streams /\ result' \in Streams \cup {NULL}
    BY <1>0, <1>12 DEF PollClear, PollReturn, ResultInv
  <2>1. TypeOK'
    BY <1>0, <1>12, <2>a DEF PollClear, PollReturn, TypeOK, ProducerStates, ConsumerStates, ringVars, pollVars
  <2>2. LockInv'
    BY <1>0, <1>12 DEF PollClear, PollReturn, LockInv, TypeOK, ProducerStates, At, pollVars
  <2>3. RingInv'
    BY <1>0, <1>12 DEF PollClear, PollReturn, RingInv, ringVars
  <2>4. RegisteredInv'
    BY <1>0, <1>12, <2>0 DEF PollClear, PollReturn, RegisteredInv, Pending, Polling, At, pollVars
  <2>5. CountInv'
    BY <1>0, <1>12 DEF PollClear, PollReturn, CountInv, TypeOK, At, ringVars, pollVars, LockInv
  <2>6. WakeupInv'
    BY <1>0, <1>12, <2>0 DEF PollClear, PollReturn, WakeupInv, At, pollVars
  <2>7. ResultInv'
    BY <1>0, <1>12 DEF PollClear, PollReturn, ResultInv, CountInv, TypeOK, Polling, At, ringVars, pollVars
  <2>8. NoLostSignal'
    BY <1>0, <1>12 DEF PollClear, PollReturn, NoLostSignal, TypeOK, ringVars
  <2> QED BY <2>1, <2>2, <2>3, <2>4, <2>5, <2>6, <2>7, <2>8
<1> QED BY <1>1, <1>2, <1>3, <1>4, <1>5, <1>6, <1>7, <1>8, <1>9, <1>10, <1>11, <1>12 DEF PollStep

(* Slots of a ring buffer at different distances from the head differ ...  *)
LEMMA SlotsDiffer ==
  ASSUME NEW c \in Nat \ {0}, NEW h \in 0 .. c - 1,
         NEW i \in 0 .. c - 1, NEW n \in 0 .. c - 1, i # n
  PROVE  (h + i) % c # (h + n) % c
<1>1. i \in 0 .. c /\ n \in 0 .. c
  OBVIOUS
<1>2. (h + i) % c = IF h + i < c THEN h + i ELSE h + i - c
  BY <1>1, ModAdd
<1>3. (h + n) % c = IF h + n < c THEN h + n ELSE h + n - c
  BY <1>1, ModAdd
<1> QED BY <1>2, <1>3

(* ... at distance 0 lies the head itself ...                              *)
LEMMA SlotZero ==
  ASSUME NEW c \in Nat \ {0}, NEW h \in 0 .. c - 1
  PROVE  (h + 0) % c = h
<1>1. h + 0 = h
  OBVIOUS
<1>2. h % c = h
  BY Z3
<1> QED BY <1>1, <1>2, Zenon

(* ... and stepping one slot on, from either end, adds one to the distance.*)
LEMMA SlotNext ==
  ASSUME NEW c \in Nat \ {0}, NEW h \in 0 .. c - 1, NEW n \in 0 .. c - 1
  PROVE  /\ (h + n) % c \in 0 .. c - 1
         /\ (((h + n) % c) + 1) % c = (h + (n + 1)) % c
         /\ (((h + 1) % c) + n) % c = (h + (n + 1)) % c
<1>1. /\ n \in 0 .. c /\ n + 1 \in 0 .. c /\ 1 \in 0 .. c
  OBVIOUS
<1>2. (h + n) % c = IF h + n < c THEN h + n ELSE h + n - c
  BY <1>1, ModAdd
<1>3. (h + (n + 1)) % c = IF h + (n + 1) < c THEN h + (n + 1) ELSE h + (n + 1) - c
  BY <1>1, ModAdd
<1>4. (h + 1) % c = IF h + 1 < c THEN h + 1 ELSE h + 1 - c
  BY <1>1, ModAdd
<1>5. (h + n) % c \in 0 .. c - 1 /\ (h + 1) % c \in 0 .. c - 1
  BY <1>2, <1>4
<1> DEFINE a == (h + n) % c
           b == (h + 1) % c
<1>6. a \in 0 .. c - 1 /\ b \in 0 .. c - 1
  BY <1>5
<1>7. a = (IF h + n < c THEN h + n ELSE h + n - c)
  BY <1>2
<1>8. b = (IF h + 1 < c THEN h + 1 ELSE h + 1 - c)
  BY <1>4
<1> HIDE DEF a, b
<1>9. (a + 1) % c = IF a + 1 < c THEN a + 1 ELSE a + 1 - c
  BY <1>1, <1>6, ModAdd
<1>10. (b + n) % c = IF b + n < c THEN b + n ELSE b + n - c
  BY <1>1, <1>6, ModAdd
<1>11. (a + 1) % c = (h + (n + 1)) % c
  BY <1>3, <1>6, <1>7, <1>9
<1>12. (b + n) % c = (h + (n + 1)) % c
  BY <1>3, <1>6, <1>8, <1>10
<1> QED BY <1>5, <1>11, <1>12 DEF a, b

(* A step keeps an index inside the buffer.                                *)
LEMMA SlotType ==
  ASSUME NEW c \in Nat \ {0}, NEW a \in 0 .. c - 1
  PROVE  (a + 1) % c \in 0 .. c - 1
<1>1. 1 \in 0 .. c
  OBVIOUS
<1>2. (a + 1) % c = IF a + 1 < c THEN a + 1 ELSE a + 1 - c
  BY <1>1, ModAdd
<1> QED BY <1>2

(* The types of one stream's ring buffer.                                  *)
LEMMA RingTypes ==
  ASSUME TypeOK, NEW s \in Streams
  PROVE  /\ Capacity[s] \in Nat \ {0}
         /\ head[s] \in 0 .. Capacity[s] - 1
         /\ tail[s] \in 0 .. Capacity[s] - 1
         /\ count[s] \in 0 .. Capacity[s]
         /\ sent[s] \in Nat /\ got[s] \in Nat
         /\ buffer[s] \in [0 .. Capacity[s] - 1 -> Nat \cup {NULL}]
<1>1. /\ Capacity[s] \in Nat \ {0}
      /\ head[s] \in Nat /\ head[s] < Capacity[s]
      /\ tail[s] \in Nat /\ tail[s] < Capacity[s]
      /\ count[s] \in Nat /\ count[s] <= Capacity[s]
      /\ sent[s] \in Nat /\ got[s] \in Nat
  BY StreamAssumption DEF TypeOK
<1>2. buffer[s] \in [0 .. Capacity[s] - 1 -> Nat \cup {NULL}]
  BY DEF TypeOK
<1> QED BY <1>1, <1>2

(* One write: the slot at the tail receives the next record.               *)
LEMMA PutRing ==
  ASSUME TypeOK, RingInv, NEW s \in Streams, WritePut(s)
  PROVE  RingInv'
<1> DEFINE c == Capacity[s]
           h == head[s]
           n == count[s]
<1>1. /\ c \in Nat \ {0} /\ h \in 0 .. c - 1 /\ n \in 0 .. c - 1
      /\ sent[s] \in Nat /\ got[s] \in Nat
      /\ buffer[s] \in [0 .. c - 1 -> Nat \cup {NULL}]
  <2>1. n # c
    BY DEF WritePut
  <2> QED BY <2>1, RingTypes
<1>2. /\ tail[s] = (h + n) % c
      /\ sent[s] = got[s] + n
      /\ \A i \in 0 .. n - 1 : buffer[s][(h + i) % c] = got[s] + i + 1
  BY DEF RingInv
<1>3. /\ head' = head /\ got' = got
      /\ buffer'[s] = [buffer[s] EXCEPT ![tail[s]] = sent[s] + 1]
      /\ tail'[s] = (tail[s] + 1) % c
      /\ count'[s] = n + 1
      /\ sent'[s] = sent[s] + 1
  BY DEF WritePut, TypeOK
<1>4. \A r \in Streams \ {s} : /\ buffer'[r] = buffer[r] /\ tail'[r] = tail[r]
                               /\ count'[r] = count[r] /\ sent'[r] = sent[r]
  BY DEF WritePut, TypeOK
<1>5. tail'[s] = (h + (n + 1)) % c /\ tail[s] \in 0 .. c - 1
  <2> HIDE DEF c, h, n
  <2>1. (((h + n) % c) + 1) % c = (h + (n + 1)) % c /\ (h + n) % c \in 0 .. c - 1
    BY <1>1, SlotNext
  <2> QED BY <1>2, <1>3, <2>1
<1>6. \A i \in 0 .. n : buffer'[s][(h + i) % c] = got[s] + i + 1
  <2> HIDE DEF c, h, n
  <2> SUFFICES ASSUME NEW i \in 0 .. n
               PROVE  buffer'[s][(h + i) % c] = got[s] + i + 1
    OBVIOUS
  <2>1. i \in 0 .. c - 1
    BY <1>1
  <2>2. (h + i) % c \in 0 .. c - 1
    BY <1>1, <2>1, SlotNext
  <2>3. CASE i = n
    BY <1>2, <1>3, <1>5, <1>1, <2>3
  <2>4. CASE i # n
    <3>1. (h + i) % c # tail[s]
      BY <1>1, <1>2, <2>1, <2>4, SlotsDiffer
    <3>2. buffer'[s][(h + i) % c] = buffer[s][(h + i) % c]
      BY <1>1, <1>3, <2>2, <3>1
    <3>3. i \in 0 .. n - 1
      BY <1>1, <2>4
    <3> QED BY <1>2, <3>2, <3>3
  <2> QED BY <2>3, <2>4
<1>7. sent'[s] = got[s] + (n + 1) /\ (n + 1) - 1 = n
  <2>1. sent'[s] = (got[s] + n) + 1
    BY <1>2, <1>3
  <2> QED BY <1>1, <2>1
<1> HIDE DEF c, h, n
<1>8. ASSUME NEW r \in Streams
      PROVE  /\ tail'[r] = (head'[r] + count'[r]) % Capacity[r]
             /\ sent'[r] = got'[r] + count'[r]
             /\ \A i \in 0 .. count'[r] - 1 :
                  buffer'[r][(head'[r] + i) % Capacity[r]] = got'[r] + i + 1
  <2>1. CASE r = s
    BY <1>3, <1>5, <1>6, <1>7, <2>1 DEF c, h
  <2>2. CASE r # s
    BY <1>3, <1>4, <2>2 DEF RingInv
  <2> QED BY <2>1, <2>2
<1> QED BY <1>8 DEF RingInv

(* One read: the record at the head is the successor of the one before.    *)
LEMMA TakeRing ==
  ASSUME TypeOK, RingInv, ReadTake
  PROVE  /\ RingInv'
         /\ buffer[cs][head[cs]] = got[cs] + 1
         /\ got' = [got EXCEPT ![cs] = got[cs] + 1]
<1> DEFINE s == cs
           c == Capacity[s]
           h == head[s]
           n == count[s]
<1>0. s \in Streams
  BY DEF TypeOK
<1>1. /\ c \in Nat \ {0} /\ h \in 0 .. c - 1 /\ n \in 1 .. c
      /\ sent[s] \in Nat /\ got[s] \in Nat
      /\ buffer[s] \in [0 .. c - 1 -> Nat \cup {NULL}]
  <2>1. n # 0
    BY DEF ReadTake
  <2> QED BY <1>0, <2>1, RingTypes
<1>2. /\ tail[s] = (h + n) % c
      /\ sent[s] = got[s] + n
      /\ \A i \in 0 .. n - 1 : buffer[s][(h + i) % c] = got[s] + i + 1
  BY <1>0 DEF RingInv
<1>3. /\ tail' = tail /\ sent' = sent
      /\ buffer'[s] = [buffer[s] EXCEPT ![h] = NULL]
      /\ head'[s] = (h + 1) % c
      /\ count'[s] = n - 1
      /\ got' = [got EXCEPT ![s] = buffer[s][h]]
  BY <1>0 DEF ReadTake, TypeOK
<1>4. \A r \in Streams \ {s} : /\ buffer'[r] = buffer[r] /\ head'[r] = head[r]
                               /\ count'[r] = count[r] /\ got'[r] = got[r]
  BY <1>0 DEF ReadTake, TypeOK
<1> HIDE DEF s, c, h, n
<1>5. buffer[s][h] = got[s] + 1
  <2>1. (h + 0) % c = h
    BY <1>1, SlotZero
  <2>2. 0 \in 0 .. n - 1 /\ got[s] + 0 + 1 = got[s] + 1
    BY <1>1
  <2>3. buffer[s][(h + 0) % c] = got[s] + 0 + 1
    BY <1>2, <2>2, Zenon
  <2> QED BY <2>1, <2>2, <2>3, Zenon
<1>6. tail[s] = (head'[s] + count'[s]) % c
  <2>1. n - 1 \in 0 .. c - 1 /\ n = (n - 1) + 1
    BY <1>1
  <2>2. (((h + 1) % c) + (n - 1)) % c = (h + ((n - 1) + 1)) % c
    BY <1>1, <2>1, SlotNext
  <2> QED BY <1>2, <1>3, <2>1, <2>2
<1>7. got'[s] = got[s] + 1 /\ got' = [got EXCEPT ![s] = got[s] + 1]
  BY <1>0, <1>3, <1>5 DEF TypeOK
<1>8. \A i \in 0 .. n - 2 : buffer'[s][(head'[s] + i) % c] = got'[s] + i + 1
  <2> SUFFICES ASSUME NEW i \in 0 .. n - 2
               PROVE  buffer'[s][(head'[s] + i) % c] = got[s] + (i + 1) + 1
    BY <1>1, <1>7
  <2>1. i \in 0 .. c - 1 /\ i + 1 \in 0 .. c - 1 /\ i + 1 \in 0 .. n - 1
        /\ i + 1 # 0 /\ 0 \in 0 .. c - 1 /\ 0 \in 0 .. c
    BY <1>1
  <2>a. (((h + 1) % c) + i) % c = (h + (i + 1)) % c
    BY <1>1, <2>1, SlotNext
  <2>2. (head'[s] + i) % c = (h + (i + 1)) % c
    BY <1>3, <2>a
  <2>3. (h + 0) % c = h
    BY <1>1, SlotZero
  <2>4. (h + (i + 1)) % c # h
    BY <1>1, <2>1, <2>3, SlotsDiffer
  <2>5. (h + (i + 1)) % c \in 0 .. c - 1
    BY <1>1, <2>1, SlotNext
  <2>6. buffer'[s][(h + (i + 1)) % c] = buffer[s][(h + (i + 1)) % c]
    BY <1>1, <1>3, <2>4, <2>5
  <2> QED BY <1>2, <2>1, <2>2, <2>6
<1>9. sent[s] = got'[s] + count'[s] /\ 0 .. count'[s] - 1 = 0 .. n - 2
  BY <1>1, <1>2, <1>3, <1>7
<1>10. ASSUME NEW r \in Streams
       PROVE  /\ tail'[r] = (head'[r] + count'[r]) % Capacity[r]
              /\ sent'[r] = got'[r] + count'[r]
              /\ \A i \in 0 .. count'[r] - 1 :
                   buffer'[r][(head'[r] + i) % Capacity[r]] = got'[r] + i + 1
  <2>1. CASE r = s
    BY <1>3, <1>6, <1>8, <1>9, <2>1 DEF c
  <2>2. CASE r # s
    BY <1>3, <1>4, <2>2 DEF RingInv
  <2> QED BY <2>1, <2>2
<1>11. RingInv'
  BY <1>10 DEF RingInv
<1> QED BY <1>5, <1>7, <1>11 DEF s, h

(* The write itself preserves the invariant: it takes a stream from        *)
(* registered to notifying in one critical section.                        *)
LEMMA PutStep ==
  ASSUME IInv, NEW s \in Streams, WritePut(s)
  PROVE  IInv'
<1> USE StreamAssumption, NullNotStream DEF IInv
<1>0. /\ count[s] \in Nat /\ Capacity[s] \in Nat \ {0} /\ tail[s] \in Nat
      /\ sent[s] \in Nat /\ count[s] < Capacity[s]
  <2>1. count[s] # Capacity[s]
    BY DEF WritePut
  <2> QED BY <2>1, RingTypes
<1>a. /\ head' = head /\ got' = got /\ set' = set /\ k' = k /\ cnt' = cnt
      /\ result' = result /\ wakeup_sd' = wakeup_sd /\ cs' = cs
      /\ ppc' = [ppc EXCEPT ![s] = IF is_poll[s] THEN "notify" ELSE "idle"]
      /\ lock' = [lock EXCEPT ![s] = IF is_poll[s] THEN "producer" ELSE "free"]
      /\ is_poll' = [is_poll EXCEPT ![s] = FALSE]
      /\ sent' = [sent EXCEPT ![s] = @ + 1]
      /\ lock[s] = "free" /\ ppc[s] \in {"write", "trywrite"}
  BY DEF WritePut, pollVars
<1>b. /\ cpc' = cpc \/ (cpc = "waitempty" /\ cs = s /\ cpc' = "read")
      /\ cpc = "waitempty" /\ cs = s /\ count[s] = 0 => cpc' = "read"
  BY <1>0 DEF WritePut
<1>c. /\ count' \in [Streams -> Nat]
      /\ \A r \in Streams : count'[r] = IF r = s THEN count[s] + 1 ELSE count[r]
  <2>1. count' = [count EXCEPT ![s] = count[s] + 1]
    BY DEF WritePut
  <2>2. count \in [Streams -> Nat]
    BY DEF TypeOK
  <2> QED BY <1>0, <2>1, <2>2
<1>1. RingInv'
  BY PutRing
<1>2. Registered' = Registered
  BY <1>a DEF Registered, TypeOK
<1>3. TypeOK'
  <2>1. (tail[s] + 1) % Capacity[s] \in 0 .. Capacity[s] - 1
    BY RingTypes, SlotType
  <2>2. ASSUME NEW r \in Streams
        PROVE  buffer'[r] \in [0 .. Capacity[r] - 1 -> Nat \cup {NULL}]
    <3>1. buffer[r] \in [0 .. Capacity[r] - 1 -> Nat \cup {NULL}]
      BY RingTypes
    <3>2. buffer' = [buffer EXCEPT ![s][tail[s]] = sent[s] + 1]
      BY DEF WritePut
    <3>3. DOMAIN buffer = Streams
      BY DEF TypeOK
    <3>4. CASE r = s
      <4> DEFINE q == sent[s] + 1
      <4>1. q \in Nat /\ buffer'[s] = [buffer[s] EXCEPT ![tail[s]] = q]
        BY <1>0, <3>2, <3>3
      <4> HIDE DEF q
      <4> QED BY <3>1, <3>4, <4>1
    <3>5. CASE r # s
      BY <3>1, <3>2, <3>3, <3>5
    <3> QED BY <3>4, <3>5
  <2>3. /\ tail' \in [Streams -> Nat] /\ \A r \in Streams : tail'[r] < Capacity[r]
    <3>1. tail \in [Streams -> Nat] /\ \A r \in Streams : tail[r] < Capacity[r]
      BY DEF TypeOK
    <3> DEFINE q == (tail[s] + 1) % Capacity[s]
    <3>2. tail' = [tail EXCEPT ![s] = q]
      BY DEF WritePut
    <3>3. q \in Nat /\ q < Capacity[s]
      BY <1>0, <2>1
    <3> HIDE DEF q
    <3> QED BY <3>1, <3>2, <3>3
  <2>4. \A r \in Streams : count'[r] <= Capacity[r]
    <3>1. \A r \in Streams : count[r] <= Capacity[r]
      BY DEF TypeOK
    <3> QED BY <1>0, <1>c, <3>1
  <2>5. /\ sent' \in [Streams -> Nat]
        /\ is_poll' \in [Streams -> BOOLEAN]
        /\ lock' \in [Streams -> {"free", "producer", "consumer"}]
        /\ ppc' \in [Streams -> ProducerStates]
        /\ cpc' \in ConsumerStates
    <3>1. /\ sent \in [Streams -> Nat]
          /\ is_poll \in [Streams -> BOOLEAN]
          /\ lock \in [Streams -> {"free", "producer", "consumer"}]
          /\ ppc \in [Streams -> ProducerStates]
          /\ cpc \in ConsumerStates
      BY DEF TypeOK
    <3>2. sent' \in [Streams -> Nat]
      BY <1>0, <1>a, <3>1
    <3>3. /\ is_poll' \in [Streams -> BOOLEAN]
          /\ lock' \in [Streams -> {"free", "producer", "consumer"}]
          /\ ppc' \in [Streams -> ProducerStates]
      BY <1>a, <3>1 DEF ProducerStates
    <3>4. cpc' \in ConsumerStates
      BY <1>b, <3>1 DEF ConsumerStates
    <3> QED BY <3>2, <3>3, <3>4
  <2>6. DOMAIN buffer' = Streams
    BY DEF WritePut, TypeOK
  <2> QED BY <1>a, <1>c, <2>2, <2>3, <2>4, <2>5, <2>6 DEF TypeOK
<1>4. LockInv'
  BY <1>a, <1>b DEF LockInv, TypeOK, At
<1>5. RegisteredInv'
  BY <1>2, <1>a, <1>b DEF RegisteredInv, Pending, Polling, At
<1>6. CountInv'
  <2>1. cpc' = "hit" => At(k) # s /\ At(k) \in Streams
    BY <1>a, <1>b, NodeType DEF LockInv, At, TypeOK
  <2>2. \A r \in Streams : count[r] \in Nat /\ count'[r] \in Nat
    BY <1>c, RingTypes
  <2>3. ppc \in [Streams -> ProducerStates] /\ is_poll \in [Streams -> BOOLEAN]
    BY DEF TypeOK
  <2>4. \A r \in Streams : is_poll'[r] => count'[r] = 0
    BY <1>a, <1>c, <2>3 DEF CountInv
  <2>5. \A r \in Streams : ppc'[r] = "notify" => count'[r] > 0
    BY <1>0, <1>a, <1>c, <2>2, <2>3 DEF CountInv
  <2>6. \A r \in Streams : ppc'[r] = "trywrite" => count'[r] < Capacity[r]
    BY <1>a, <1>c, <2>3 DEF CountInv
  <2>7. cpc' = "hit" => count'[At(k)] > 0 /\ At(k)' = At(k)
    BY <1>a, <1>b, <1>c, <2>1 DEF CountInv, At
  <2> QED BY <2>4, <2>5, <2>6, <2>7 DEF CountInv
<1>7. WakeupInv'
  BY <1>2, <1>a, <1>b DEF WakeupInv, At
<1>8. ResultInv'
  <2>1. \A r \in Streams : count[r] > 0 => count'[r] > 0
    BY <1>0, <1>c, RingTypes
  <2>2. wakeup_sd \in Streams \cup {NULL} /\ result \in Streams \cup {NULL}
    BY DEF TypeOK
  <2> QED BY <1>a, <1>b, <2>1, <2>2 DEF ResultInv, Polling
<1>9. NoLostSignal'
  BY <1>0, <1>a, <1>b, <1>c DEF NoLostSignal, TypeOK
<1> QED BY <1>1, <1>3, <1>4, <1>5, <1>6, <1>7, <1>8, <1>9

(* The read itself preserves the invariant: the consumer is not polling.   *)
LEMMA TakeStep ==
  ASSUME IInv, ReadTake
  PROVE  IInv'
<1> USE StreamAssumption, NullNotStream DEF IInv
<1>0. /\ cs \in Streams /\ count[cs] \in Nat /\ Capacity[cs] \in Nat \ {0}
      /\ head[cs] \in Nat /\ got[cs] \in Nat /\ count[cs] # 0
      /\ count[cs] <= Capacity[cs]
  <2>1. cs \in Streams /\ count[cs] # 0
    BY DEF ReadTake, TypeOK
  <2> QED BY <2>1, RingTypes
<1>1. RingInv' /\ got' = [got EXCEPT ![cs] = got[cs] + 1]
  BY TakeRing
<1>2. Registered = {} /\ Registered' = {}
  BY DEF ReadTake, Registered, RegisteredInv, Polling, TypeOK
<1>a. /\ tail' = tail /\ sent' = sent /\ set' = set /\ k' = k /\ cnt' = cnt
      /\ result' = result /\ wakeup_sd' = wakeup_sd /\ cs' = cs
      /\ is_poll' = is_poll /\ lock' = lock
      /\ cpc = "read" /\ cpc' = "idle"
  BY DEF ReadTake, pollVars
<1>b. /\ count' \in [Streams -> Nat]
      /\ \A r \in Streams : count'[r] = IF r = cs THEN count[cs] - 1 ELSE count[r]
  <2>1. count' = [count EXCEPT ![cs] = count[cs] - 1]
    BY DEF ReadTake
  <2>2. count \in [Streams -> Nat]
    BY DEF TypeOK
  <2> QED BY <1>0, <2>1, <2>2
<1>c. \A r \in Streams : count[r] \in Nat /\ Capacity[r] \in Nat
                         /\ count[r] <= Capacity[r]
  BY RingTypes
<1>3. TypeOK'
  <2>1. (head[cs] + 1) % Capacity[cs] \in 0 .. Capacity[cs] - 1
    BY <1>0, RingTypes, SlotType
  <2>2. \A r \in Streams :
          buffer'[r] \in [0 .. Capacity[r] - 1 -> Nat \cup {NULL}]
    <3>1. \A r \in Streams :
            buffer[r] \in [0 .. Capacity[r] - 1 -> Nat \cup {NULL}]
      BY RingTypes
    <3>2. buffer' = [buffer EXCEPT ![cs][head[cs]] = NULL]
      BY DEF ReadTake
    <3>3. DOMAIN buffer = Streams
      BY DEF TypeOK
    <3> QED BY <1>0, <3>1, <3>2, <3>3
  <2>3. /\ head' \in [Streams -> Nat] /\ \A r \in Streams : head'[r] < Capacity[r]
    <3>1. head \in [Streams -> Nat] /\ \A r \in Streams : head[r] < Capacity[r]
      BY DEF TypeOK
    <3> DEFINE q == (head[cs] + 1) % Capacity[cs]
    <3>2. head' = [head EXCEPT ![cs] = q]
      BY DEF ReadTake
    <3>3. q \in Nat /\ q < Capacity[cs]
      BY <1>0, <2>1
    <3> HIDE DEF q
    <3> QED BY <3>1, <3>2, <3>3
  <2>4. \A r \in Streams : count'[r] <= Capacity[r]
    BY <1>0, <1>b, <1>c
  <2>5. got' \in [Streams -> Nat]
    BY <1>0, <1>1, SMTT(30) DEF TypeOK
  <2>6. /\ DOMAIN buffer' = Streams
        /\ ppc' \in [Streams -> ProducerStates]
        /\ cpc' \in ConsumerStates
    BY <1>0 DEF ReadTake, TypeOK, ProducerStates, ConsumerStates
  <2> QED BY <1>a, <1>b, <2>2, <2>3, <2>4, <2>5, <2>6 DEF TypeOK
<1>4. LockInv'
  BY <1>0 DEF ReadTake, LockInv, TypeOK, At, pollVars
<1>5. RegisteredInv'
  BY <1>2, <1>a DEF RegisteredInv
<1>6. CountInv'
  <2>1. \A r \in Streams : count'[r] \in Nat /\ count'[r] <= count[r]
    BY <1>0, <1>b, <1>c
  <2>2. \A r \in Streams : ppc'[r] = "trywrite" => ppc[r] = "trywrite"
    BY <1>0 DEF ReadTake, TypeOK
  <2>3. \A r \in Streams : ppc'[r] = "trywrite" => count'[r] < Capacity[r]
    BY <1>c, <2>1, <2>2 DEF CountInv
  <2>4. \A r \in Streams : ~is_poll'[r] /\ ppc'[r] # "notify"
    BY <1>2 DEF Registered
  <2> QED BY <1>a, <2>3, <2>4 DEF CountInv
<1>7. WakeupInv'
  BY <1>a DEF WakeupInv
<1>8. ResultInv'
  BY <1>a DEF ResultInv, Polling
<1>9. NoLostSignal'
  <2>1. \A r \in Streams : ppc'[r] = "waitfull" => r # cs /\ ppc[r] = "waitfull"
    <3>1. CASE count[cs] = Capacity[cs]
      BY <1>0, <3>1 DEF ReadTake, TypeOK
    <3>2. CASE count[cs] # Capacity[cs]
      BY <1>0, <3>2 DEF ReadTake, TypeOK, NoLostSignal
    <3> QED BY <3>1, <3>2
  <2> QED BY <1>a, <1>b, <2>1 DEF NoLostSignal
<1> QED BY <1>1, <1>3, <1>4, <1>5, <1>6, <1>7, <1>8, <1>9

(* The call of a read, which changes the consumer's control state only.    *)
LEMMA ReadCallStep ==
  ASSUME IInv, NEW s \in Streams, SNetStreamRead(s)
  PROVE  IInv'
<1> USE DEF IInv, SNetStreamRead
<1>1. Registered' = Registered
  BY DEF Registered
<1>2. TypeOK' /\ RingInv' /\ CountInv' /\ WakeupInv'
  BY DEF TypeOK, RingInv, CountInv, WakeupInv, ringVars, pollVars, ConsumerStates
<1>3. LockInv' /\ RegisteredInv' /\ ResultInv'
  BY <1>1 DEF LockInv, RegisteredInv, ResultInv, At, Polling, Pending, pollVars
<1>4. NoLostSignal'
  BY DEF NoLostSignal, ringVars
<1> QED BY <1>2, <1>3, <1>4

(* The invariant is inductive.                                             *)
LEMMA NextIInv == IInv /\ [Next]_vars => IInv'
<1> SUFFICES ASSUME IInv, [Next]_vars PROVE IInv'
  OBVIOUS
<1>1. CASE UNCHANGED vars
  <2> USE DEF vars, ringVars, pollVars, IInv
  <2>1. TypeOK' /\ RingInv' /\ NoLostSignal'
    BY <1>1 DEF TypeOK, RingInv, NoLostSignal
  <2>2. LockInv' /\ CountInv' /\ ResultInv'
    BY <1>1 DEF LockInv, CountInv, ResultInv, At, Polling
  <2>3. RegisteredInv' /\ WakeupInv'
    BY <1>1 DEF RegisteredInv, WakeupInv, Registered, Pending, At, Polling
  <2> QED BY <2>1, <2>2, <2>3
<1>2. CASE Consumer
  BY <1>2, ReadCallStep, TakeStep, ConsumerStep DEF Consumer
<1>3. CASE Spurious
  BY <1>3, ConsumerStep, ProducerStep DEF Spurious
<1>4. CASE \E s \in Streams : Producer(s)
  BY <1>4, ProducerStep, PutStep DEF Producer
<1> QED BY <1>1, <1>2, <1>3, <1>4 DEF Next

(* The invariant holds of every behaviour of the streams.                  *)
LEMMA SpecIInv == Spec => []IInv
BY InitIInv, NextIInv, PTL DEF Spec

-----------------------------------------------------------------------------
(* Type correctness of the pthread streams.                                *)
THEOREM TypeCorrect == Spec => []TypeOK
BY SpecIInv, PTL DEF IInv

(* SNetStreamPoll loses no wakeup, for any number of streams and writers.  *)
THEOREM PollWakeupSafe == Spec => []NoLostPollWakeup
<1>1. IInv => NoLostPollWakeup
  BY DEF IInv, WakeupInv, CountInv, Registered, NoLostPollWakeup
<1> QED BY <1>1, SpecIInv, PTL

(* Blocked readers and writers are signalled although SNetStreamRead and   *)
(* SNetStreamWrite signal only at the boundaries full and empty.           *)
THEOREM SignalSafe == Spec => []NoLostSignal
BY SpecIInv, PTL DEF IInv

(* No writer reaches a consumer thread that has left SNetStreamPoll.       *)
THEOREM NotifySafe == Spec => []NotifyOnlyDuringPoll
<1>1. IInv => NotifyOnlyDuringPoll
  BY DEF IInv, RegisteredInv, Registered, NotifyOnlyDuringPoll
<1> QED BY <1>1, SpecIInv, PTL

(* SNetStreamTryWrite never blocks after its test has passed.              *)
THEOREM TryWriteSafe == Spec => []TryWriteNeverBlocks
<1>1. IInv => TryWriteNeverBlocks
  BY DEF IInv, CountInv, TryWriteNeverBlocks
<1> QED BY <1>1, SpecIInv, PTL

(* SNetStreamPoll returns a stream that holds a record.                    *)
THEOREM PollResultSafe == Spec => PollFindsRecord
<1> DEFINE A == cpc \notin {"idle", "read", "waitempty"} /\ cpc' = "idle"
                  => count'[set'] > 0
<1>1. IInv /\ [Next]_vars => [A]_vars
  <2> SUFFICES ASSUME IInv, Next, cpc \notin {"idle", "read", "waitempty"},
                      cpc' = "idle"
               PROVE  count'[set'] > 0
    OBVIOUS
  <2>1. PollScan \/ PollClear
    BY DEF Next, Consumer, Spurious, Producer, PollStep, SNetStreamRead,
           ReadWait, ReadTake, SNetStreamPoll, PollReset, PollRegister, PollHit,
           PollWakeSelf, PollSleep, PollWoken, SpuriousRead, SpuriousPoll,
           SpuriousWrite, SNetStreamWrite, SNetStreamTryWrite, TryWriteReturn,
           WriteWait, WritePut, WriteNotify
  <2>2. CASE PollScan
    BY <2>2, NullNotStream DEF PollScan, PollReturn, IInv, ResultInv, ringVars
  <2>3. CASE PollClear
    BY <2>3, NullNotStream DEF PollClear, PollReturn, IInv, ResultInv, ringVars
  <2> QED BY <2>1, <2>2, <2>3
<1> QED BY <1>1, SpecIInv, PTL DEF Spec, PollFindsRecord

-----------------------------------------------------------------------------
(* The records g+1 .. g+n in order: what a buffer holds when g records     *)
(* have been read and n have not.                                          *)
Numbered(g, n) == [i \in 1 .. n |-> g + i]

(* Numbered records form a sequence.                                       *)
LEMMA NumberedSeq ==
  ASSUME NEW g \in Nat, NEW n \in Nat
  PROVE  /\ Numbered(g, n) \in Seq(Nat)
         /\ Len(Numbered(g, n)) = n
         /\ Numbered(g, 0) = << >>
         /\ Append(Numbered(g, n), g + n + 1) = Numbered(g, n + 1)
         /\ n > 0 => /\ Numbered(g, n) # << >>
                     /\ Head(Numbered(g, n)) = g + 1
                     /\ Tail(Numbered(g, n)) = Numbered(g + 1, n - 1)
<1>1. Numbered(g, n) \in Seq(Nat) /\ Len(Numbered(g, n)) = n
  BY DEF Numbered
<1>2. Numbered(g, 0) = << >>
  BY DEF Numbered
<1>3. Append(Numbered(g, n), g + n + 1) = Numbered(g, n + 1)
  BY DEF Numbered
<1>4. ASSUME n > 0
      PROVE  /\ Numbered(g, n) # << >>
             /\ Head(Numbered(g, n)) = g + 1
             /\ Tail(Numbered(g, n)) = Numbered(g + 1, n - 1)
  <2> DEFINE q == Numbered(g, n)
  <2>1. \A i \in 1 .. n : q[i] = g + i
    BY DEF Numbered
  <2>2. q \in Seq(Nat) /\ Len(q) = n
    BY <1>1
  <2>3. Numbered(g + 1, n - 1) = [i \in 1 .. n - 1 |-> (g + 1) + i]
    BY DEF Numbered
  <2> HIDE DEF q
  <2>4. q # << >> /\ Head(q) = q[1]
    BY <1>4, <2>2
  <2>5. /\ Tail(q) \in Seq(Nat) /\ Len(Tail(q)) = n - 1
        /\ \A i \in 1 .. n - 1 : Tail(q)[i] = q[i + 1]
    BY <2>2, <2>4, HeadTailProperties
  <2>6. \A i \in 1 .. n - 1 : q[i + 1] = (g + 1) + i
    BY <2>1
  <2>7. Tail(q) = Numbered(g + 1, n - 1)
    <3> DEFINE r == Numbered(g + 1, n - 1)
    <3>1. r \in Seq(Nat) /\ Len(r) = n - 1 /\ \A i \in 1 .. n - 1 : r[i] = (g + 1) + i
      BY <1>4, <2>3
    <3> HIDE DEF r
    <3>2. Tail(q) = r
      BY <2>5, <2>6, <3>1, SeqEqual
    <3> QED BY <3>2 DEF r
  <2>8. Head(q) = g + 1
    BY <1>4, <2>1, <2>4
  <2> QED BY <2>4, <2>7, <2>8 DEF q
<1> QED BY <1>1, <1>2, <1>3, <1>4

(* The channels the refinement mapping computes, by the invariant.         *)
Mapped == [s \in Streams |-> Contents(s)]
MappedInv == Mapped = [s \in Streams |-> Numbered(got[s], count[s])]

(* By the ring invariant a buffer holds consecutively numbered records ... *)
LEMMA MappedNumbered == IInv => MappedInv
<1> SUFFICES ASSUME IInv, NEW s \in Streams
             PROVE  Contents(s) = Numbered(got[s], count[s])
  BY DEF MappedInv, Mapped
<1>1. count[s] \in Nat /\ head[s] \in Nat /\ got[s] \in Nat
  BY RingTypes DEF IInv
<1>2. ASSUME NEW i \in 1 .. count[s]
      PROVE  buffer[s][(head[s] + i - 1) % Capacity[s]] = got[s] + i
  <2>1. i - 1 \in 0 .. count[s] - 1 /\ head[s] + i - 1 = head[s] + (i - 1)
        /\ got[s] + (i - 1) + 1 = got[s] + i
    BY <1>1
  <2>2. buffer[s][(head[s] + (i - 1)) % Capacity[s]] = got[s] + (i - 1) + 1
    BY <2>1 DEF IInv, RingInv
  <2> QED BY <2>1, <2>2
<1> QED BY <1>2 DEF Contents, Numbered

(* ... also after a step.                                                  *)
LEMMA MappedNumberedNext == IInv' => MappedInv'
BY MappedNumbered, PTL

(* SNetStreamWrite's critical section is Send.                             *)
LEMMA PutSends ==
  ASSUME IInv, IInv', NEW s \in Streams, WritePut(s)
  PROVE  Channels!Send(s)
<1>1. /\ count[s] \in Nat /\ Capacity[s] \in Nat /\ count[s] < Capacity[s]
      /\ got[s] \in Nat /\ sent[s] = got[s] + count[s]
  <2>1. count[s] # Capacity[s]
    BY DEF WritePut
  <2> QED BY <2>1, RingTypes DEF IInv, RingInv
<1>2. /\ count' = [count EXCEPT ![s] = count[s] + 1]
      /\ sent' = [sent EXCEPT ![s] = sent[s] + 1]
      /\ got' = got
  BY DEF WritePut
<1>3. count \in [Streams -> Nat]
  BY DEF IInv, TypeOK
<1>4. /\ Mapped = [r \in Streams |-> Numbered(got[r], count[r])]
      /\ Mapped' = [r \in Streams |-> Numbered(got'[r], count'[r])]
  BY MappedNumbered, MappedNumberedNext DEF MappedInv
<1>5. /\ Len(Numbered(got[s], count[s])) = count[s]
      /\ Append(Numbered(got[s], count[s]), sent[s] + 1)
           = Numbered(got[s], count[s] + 1)
  <2>1. sent[s] + 1 = got[s] + count[s] + 1
    BY <1>1
  <2>2. /\ Len(Numbered(got[s], count[s])) = count[s]
        /\ Append(Numbered(got[s], count[s]), got[s] + count[s] + 1)
             = Numbered(got[s], count[s] + 1)
    BY <1>1, NumberedSeq
  <2> QED BY <2>1, <2>2, Zenon
<1>6. Len(Mapped[s]) < Capacity[s]
  BY <1>1, <1>4, <1>5
<1>7. Mapped' = [Mapped EXCEPT ![s] = Append(Mapped[s], sent[s] + 1)]
  BY <1>2, <1>3, <1>4, <1>5
<1> QED BY <1>2, <1>6, <1>7 DEF Channels!Send, Mapped

(* SNetStreamRead's critical section is Receive.                           *)
LEMMA TakeReceives ==
  ASSUME IInv, IInv', ReadTake
  PROVE  cs \in Streams /\ Channels!Receive(cs)
<1>0. cs \in Streams
  BY DEF IInv, TypeOK
<1>1. count[cs] \in Nat /\ count[cs] > 0 /\ got[cs] \in Nat
  <2>1. count[cs] # 0
    BY DEF ReadTake
  <2> QED BY <1>0, <2>1, RingTypes DEF IInv
<1>2. /\ count' = [count EXCEPT ![cs] = count[cs] - 1]
      /\ got' = [got EXCEPT ![cs] = got[cs] + 1]
      /\ sent' = sent
  BY TakeRing DEF ReadTake, IInv
<1>3. count \in [Streams -> Nat] /\ got \in [Streams -> Nat]
  BY DEF IInv, TypeOK
<1>4. /\ Mapped = [r \in Streams |-> Numbered(got[r], count[r])]
      /\ Mapped' = [r \in Streams |-> Numbered(got'[r], count'[r])]
  BY MappedNumbered, MappedNumberedNext DEF MappedInv
<1>5. /\ Numbered(got[cs], count[cs]) # << >>
      /\ Head(Numbered(got[cs], count[cs])) = got[cs] + 1
      /\ Tail(Numbered(got[cs], count[cs])) = Numbered(got[cs] + 1, count[cs] - 1)
  BY <1>1, NumberedSeq
<1>6. Mapped[cs] # << >> /\ Head(Mapped[cs]) = got[cs] + 1
  BY <1>0, <1>4, <1>5
<1>7. Mapped' = [Mapped EXCEPT ![cs] = Tail(Mapped[cs])]
  BY <1>0, <1>2, <1>3, <1>4, <1>5
<1> QED BY <1>0, <1>2, <1>6, <1>7 DEF Channels!Receive, Mapped

(* Every other step leaves the channels alone.                             *)
LEMMA StepRefines ==
  IInv /\ IInv' /\ [Next]_vars => [Channels!ChanNext]_(Channels!chanVars)
<1> SUFFICES ASSUME IInv, IInv', [Next]_vars
             PROVE  [Channels!ChanNext]_(Channels!chanVars)
  OBVIOUS
<1>1. CASE ringVars' = ringVars
  <2>1. Mapped' = Mapped /\ sent' = sent /\ got' = got
    BY <1>1 DEF Mapped, Contents, ringVars
  <2> QED BY <2>1 DEF Channels!chanVars, Mapped
<1>2. ASSUME NEW s \in Streams, WritePut(s)
      PROVE  Channels!ChanNext
  BY <1>2, PutSends DEF Channels!ChanNext
<1>3. CASE ReadTake
  BY <1>3, TakeReceives DEF Channels!ChanNext
<1>4. \/ ringVars' = ringVars \/ ReadTake \/ \E s \in Streams : WritePut(s)
  BY DEF Next, Consumer, Spurious, Producer, PollStep, SNetStreamRead,
         ReadWait, SNetStreamPoll, PollScan, PollReset, PollRegister, PollHit,
         PollWakeSelf, PollSleep, PollWoken, PollClear, SpuriousRead,
         SpuriousPoll, SpuriousWrite, SNetStreamWrite, SNetStreamTryWrite,
         TryWriteReturn, WriteWait, WriteNotify, vars
<1> QED BY <1>1, <1>2, <1>3, <1>4

(* The ring buffers implement bounded FIFO channels: no interleaving of    *)
(* writers, blocking reads and polls loses, duplicates or reorders a       *)
(* record, for every number of streams and every capacity.                 *)
THEOREM StreamRefinesChannels == Spec => RefinesChannels
<1>1. Init => Channels!ChanInit
  <2> SUFFICES ASSUME Init PROVE Channels!ChanInit
    OBVIOUS
  <2>1. \A s \in Streams : count[s] = 0 /\ got[s] = 0
    BY DEF Init
  <2>2. Mapped = [s \in Streams |-> Numbered(got[s], count[s])]
    BY InitIInv, MappedNumbered DEF MappedInv
  <2>3. Mapped = [s \in Streams |-> << >>]
    <3>1. Numbered(0, 0) = << >>
      BY NumberedSeq
    <3> QED BY <2>1, <2>2, <3>1
  <2> QED BY <2>3 DEF Init, Channels!ChanInit, Mapped
<1> QED BY <1>1, SpecIInv, StepRefines, PTL
        DEF Spec, RefinesChannels, Channels!ChanSpec
=============================================================================
