------------------------------- MODULE Stream -------------------------------
(***************************************************************************)
(* The streams of the pthread threading layer: ring buffers guarded by a   *)
(* mutex and two condition variables, each with one producer, all read by  *)
(* one consumer thread that may block in SNetStreamRead or in              *)
(* SNetStreamPoll on the whole stream set.                                 *)
(*                                                                         *)
(* A step is one critical section.  The thread lock of the consumer        *)
(* (snet_thread_t.lock) protects sections that acquire nothing else, so    *)
(* such a section is one step.  A stream lock is held across the           *)
(* acquisition of the thread lock in two places (the notification of a     *)
(* poller in SNetStreamWrite and the hit in the registration loop of       *)
(* SNetStreamPoll); there the section is split in two steps and `lock'     *)
(* says who holds the mutex in between.  Condition variables may wake up   *)
(* spuriously.                                                             *)
(***************************************************************************)
EXTENDS Integers, Sequences

CONSTANTS N,          \* number of streams in the consumer's set
          Capacity,   \* Capacity[s] = s->size
          MaxWrites,  \* bound on the records written to one stream
          NULL

Streams == 0 .. N - 1

ASSUME StreamAssumption ==
  /\ N \in Nat \ {0}
  /\ Capacity \in [Streams -> Nat \ {0}]
  /\ MaxWrites \in Nat
  /\ NULL \notin Nat

VARIABLES
  buffer, head, tail, count,  \* the ring buffer of each stream
  is_poll,                    \* stream is registered as activator of a poll
  lock,                       \* holder of the stream's mutex between steps
  wakeup_sd,                  \* consumer thread: stream that ends the poll
  set,                        \* the snet_streamset_t: the list's last node
  ppc,                        \* where each producer is
  cpc,                        \* where the consumer is
  cs,                         \* stream of the consumer's current Read
  k, cnt, result,             \* SNetStreamPoll's iterator, cnt and result
  sent,                       \* number of records written to each stream
  got                         \* record read last from each stream

ringVars == <<buffer, head, tail, count, sent, got>>
pollVars == <<set, k, cnt, result>>
vars == <<ringVars, pollVars, is_poll, lock, wakeup_sd, ppc, cpc, cs>>

-----------------------------------------------------------------------------
(* SNetStreamCreate for every stream, SNetStreamsetPut of 0, 1, ..., N-1.  *)
Init ==
  /\ buffer = [s \in Streams |-> [i \in 0 .. Capacity[s] - 1 |-> NULL]]
  /\ head = [s \in Streams |-> 0]
  /\ tail = [s \in Streams |-> 0]
  /\ count = [s \in Streams |-> 0]
  /\ is_poll = [s \in Streams |-> FALSE]
  /\ lock = [s \in Streams |-> "free"]
  /\ wakeup_sd = NULL
  /\ set = N - 1
  /\ ppc = [s \in Streams |-> "idle"]
  /\ cpc = "idle"
  /\ cs = 0
  /\ k = 1 /\ cnt = 0 /\ result = NULL
  /\ sent = [s \in Streams |-> 0]
  /\ got = [s \in Streams |-> 0]

(* The j-th node an iterator visits: it starts behind the last node.       *)
NodeAt(last, j) == (last + j) % N
At(j) == NodeAt(set, j)

-----------------------------------------------------------------------------
(* Producer of stream s *)

SNetStreamWrite(s) ==
  /\ ppc[s] = "idle"
  /\ sent[s] < MaxWrites
  /\ ppc' = [ppc EXCEPT ![s] = "write"]
  /\ UNCHANGED <<ringVars, pollVars, is_poll, lock, wakeup_sd, cpc, cs>>

(* Variant of the next operator without the test for a full buffer.        *)
TryWriteUntested(s) ==
  /\ ppc[s] = "idle"
  /\ sent[s] < MaxWrites
  /\ lock[s] = "free"
  /\ ppc' = [ppc EXCEPT ![s] = "trywrite"]
  /\ UNCHANGED <<ringVars, pollVars, is_poll, lock, wakeup_sd, cpc, cs>>

(* The test of SNetStreamTryWrite, in a critical section of its own ...    *)
SNetStreamTryWrite(s) ==
  /\ ppc[s] = "idle"
  /\ sent[s] < MaxWrites
  /\ lock[s] = "free"
  /\ ppc' = [ppc EXCEPT ![s] =
               IF count[s] = Capacity[s] THEN "refused" ELSE "trywrite"]
  /\ UNCHANGED <<ringVars, pollVars, is_poll, lock, wakeup_sd, cpc, cs>>

(* ... and its return with -1.                                             *)
TryWriteReturn(s) ==
  /\ ppc[s] = "refused"
  /\ ppc' = [ppc EXCEPT ![s] = "idle"]
  /\ UNCHANGED <<ringVars, pollVars, is_poll, lock, wakeup_sd, cpc, cs>>

(* pthread_cond_wait(&s->notfull) releases the mutex.                      *)
WriteWait(s) ==
  /\ ppc[s] \in {"write", "trywrite"}
  /\ lock[s] = "free"
  /\ count[s] = Capacity[s]
  /\ ppc' = [ppc EXCEPT ![s] = "waitfull"]
  /\ UNCHANGED <<ringVars, pollVars, is_poll, lock, wakeup_sd, cpc, cs>>

(* Variant of the next operator that does not advance the tail.            *)
WritePutInPlace(s) ==
  /\ ppc[s] \in {"write", "trywrite"}
  /\ lock[s] = "free"
  /\ count[s] # Capacity[s]
  /\ buffer' = [buffer EXCEPT ![s][tail[s]] = sent[s] + 1]
  /\ count' = [count EXCEPT ![s] = @ + 1]
  /\ sent' = [sent EXCEPT ![s] = @ + 1]
  /\ cpc' = IF count[s] + 1 = 1 /\ cpc = "waitempty" /\ cs = s
            THEN "read" ELSE cpc
  /\ is_poll' = [is_poll EXCEPT ![s] = FALSE]
  /\ lock' = [lock EXCEPT ![s] = IF is_poll[s] THEN "producer" ELSE "free"]
  /\ ppc' = [ppc EXCEPT ![s] = IF is_poll[s] THEN "notify" ELSE "idle"]
  /\ UNCHANGED <<head, tail, got, pollVars, wakeup_sd, cs>>

(* The item goes to the tail; a reader blocked in SNetStreamRead is        *)
(* signalled when the buffer was empty.  With is_poll set the producer     *)
(* keeps the stream locked and goes on to the consumer's thread lock.      *)
WritePut(s) ==
  /\ ppc[s] \in {"write", "trywrite"}
  /\ lock[s] = "free"
  /\ count[s] # Capacity[s]
  /\ buffer' = [buffer EXCEPT ![s][tail[s]] = sent[s] + 1]
  /\ tail' = [tail EXCEPT ![s] = (@ + 1) % Capacity[s]]
  /\ count' = [count EXCEPT ![s] = @ + 1]
  /\ sent' = [sent EXCEPT ![s] = @ + 1]
  /\ cpc' = IF count[s] + 1 = 1 /\ cpc = "waitempty" /\ cs = s
            THEN "read" ELSE cpc
  /\ is_poll' = [is_poll EXCEPT ![s] = FALSE]
  /\ lock' = [lock EXCEPT ![s] = IF is_poll[s] THEN "producer" ELSE "free"]
  /\ ppc' = [ppc EXCEPT ![s] = IF is_poll[s] THEN "notify" ELSE "idle"]
  /\ UNCHANGED <<head, got, pollVars, wakeup_sd, cs>>

(* Variant of the next operator without the signal on pollcond.            *)
WriteNotifySilent(s) ==
  /\ ppc[s] = "notify"
  /\ wakeup_sd' = IF wakeup_sd = NULL THEN s ELSE wakeup_sd
  /\ lock' = [lock EXCEPT ![s] = "free"]
  /\ ppc' = [ppc EXCEPT ![s] = "idle"]
  /\ UNCHANGED <<ringVars, pollVars, is_poll, cpc, cs>>

(* First writer wins: only it sets wakeup_sd and signals pollcond.         *)
WriteNotify(s) ==
  /\ ppc[s] = "notify"
  /\ wakeup_sd' = IF wakeup_sd = NULL THEN s ELSE wakeup_sd
  /\ cpc' = IF wakeup_sd = NULL /\ cpc = "pollsleep" THEN "pollwait" ELSE cpc
  /\ lock' = [lock EXCEPT ![s] = "free"]
  /\ ppc' = [ppc EXCEPT ![s] = "idle"]
  /\ UNCHANGED <<ringVars, pollVars, is_poll, cs>>

SpuriousWrite(s) ==
  /\ ppc[s] = "waitfull"
  /\ ppc' = [ppc EXCEPT ![s] = "write"]
  /\ UNCHANGED <<ringVars, pollVars, is_poll, lock, wakeup_sd, cpc, cs>>

-----------------------------------------------------------------------------
(* Consumer: SNetStreamRead *)

SNetStreamRead(s) ==
  /\ cpc = "idle"
  /\ cpc' = "read"
  /\ cs' = s
  /\ UNCHANGED <<ringVars, pollVars, is_poll, lock, wakeup_sd, ppc>>

(* pthread_cond_wait(&s->notempty) releases the mutex.                     *)
ReadWait ==
  /\ cpc = "read"
  /\ lock[cs] = "free"
  /\ count[cs] = 0
  /\ cpc' = "waitempty"
  /\ UNCHANGED <<ringVars, pollVars, is_poll, lock, wakeup_sd, ppc, cs>>

(* Variants of the next operator: the head does not wrap around; the       *)
(* producer is not signalled.                                              *)
ReadTakeNoWrap ==
  /\ cpc = "read"
  /\ lock[cs] = "free"
  /\ count[cs] # 0
  /\ got' = [got EXCEPT ![cs] = buffer[cs][head[cs]]]
  /\ buffer' = [buffer EXCEPT ![cs][head[cs]] = NULL]
  /\ head' = [head EXCEPT ![cs] = @ + 1]
  /\ count' = [count EXCEPT ![cs] = @ - 1]
  /\ ppc' = [ppc EXCEPT ![cs] =
               IF count[cs] - 1 = Capacity[cs] - 1 /\ @ = "waitfull"
               THEN "write" ELSE @]
  /\ cpc' = "idle"
  /\ UNCHANGED <<tail, sent, pollVars, is_poll, lock, wakeup_sd, cs>>

ReadTakeSilent ==
  /\ cpc = "read"
  /\ lock[cs] = "free"
  /\ count[cs] # 0
  /\ got' = [got EXCEPT ![cs] = buffer[cs][head[cs]]]
  /\ buffer' = [buffer EXCEPT ![cs][head[cs]] = NULL]
  /\ head' = [head EXCEPT ![cs] = (@ + 1) % Capacity[cs]]
  /\ count' = [count EXCEPT ![cs] = @ - 1]
  /\ cpc' = "idle"
  /\ UNCHANGED <<tail, sent, ppc, pollVars, is_poll, lock, wakeup_sd, cs>>

(* The item leaves the head; a producer blocked in SNetStreamWrite is      *)
(* signalled when the buffer was full.                                     *)
ReadTake ==
  /\ cpc = "read"
  /\ lock[cs] = "free"
  /\ count[cs] # 0
  /\ got' = [got EXCEPT ![cs] = buffer[cs][head[cs]]]
  /\ buffer' = [buffer EXCEPT ![cs][head[cs]] = NULL]
  /\ head' = [head EXCEPT ![cs] = (@ + 1) % Capacity[cs]]
  /\ count' = [count EXCEPT ![cs] = @ - 1]
  /\ ppc' = [ppc EXCEPT ![cs] =
               IF count[cs] - 1 = Capacity[cs] - 1 /\ @ = "waitfull"
               THEN "write" ELSE @]
  /\ cpc' = "idle"
  /\ UNCHANGED <<tail, sent, pollVars, is_poll, lock, wakeup_sd, cs>>

SpuriousRead ==
  /\ cpc = "waitempty"
  /\ cpc' = "read"
  /\ UNCHANGED <<ringVars, pollVars, is_poll, lock, wakeup_sd, ppc, cs>>

-----------------------------------------------------------------------------
(* Consumer: SNetStreamPoll *)

SNetStreamPoll ==
  /\ cpc = "idle"
  /\ cpc' = "scan"
  /\ k' = 1 /\ cnt' = 0 /\ result' = NULL
  /\ UNCHANGED <<ringVars, set, is_poll, lock, wakeup_sd, ppc, cs>>

(* The rotation at poll_fastpath, part of the last step of a poll.         *)
PollReturn(sd) == cpc' = "idle" /\ set' = sd /\ k' = 1

(* Fast path: visit every stream and remember the last non-empty one.      *)
PollScan ==
  /\ cpc = "scan"
  /\ lock[At(k)] = "free"
  /\ result' = IF count[At(k)] > 0 THEN At(k) ELSE result
  /\ \/ k < N /\ k' = k + 1 /\ UNCHANGED <<cpc, set>>
     \/ k = N /\ result' # NULL /\ PollReturn(result')
     \/ k = N /\ result' = NULL /\ cpc' = "reset" /\ UNCHANGED <<k, set>>
  /\ UNCHANGED <<ringVars, cnt, is_poll, lock, wakeup_sd, ppc, cs>>

(* Variant of the next operator that keeps a stale wakeup_sd.              *)
PollResetStale ==
  /\ cpc = "reset"
  /\ cpc' = "register"
  /\ k' = 1
  /\ UNCHANGED <<ringVars, set, cnt, result, is_poll, lock, wakeup_sd, ppc, cs>>

PollReset ==
  /\ cpc = "reset"
  /\ wakeup_sd' = NULL
  /\ cpc' = "register"
  /\ k' = 1
  /\ UNCHANGED <<ringVars, set, cnt, result, is_poll, lock, ppc, cs>>

(* Variant of the next operator that does not look into the buffer.        *)
PollRegisterBlind ==
  /\ cpc = "register"
  /\ lock[At(k)] = "free"
  /\ is_poll' = [is_poll EXCEPT ![At(k)] = TRUE]
  /\ cnt' = cnt + 1
  /\ k' = IF k < N THEN k + 1 ELSE k
  /\ cpc' = IF k < N THEN "register" ELSE "pollwait"
  /\ UNCHANGED <<ringVars, set, result, lock, wakeup_sd, ppc, cs>>

(* Registration: an empty stream becomes an activator ...                  *)
PollRegister ==
  /\ cpc = "register"
  /\ lock[At(k)] = "free"
  /\ count[At(k)] = 0
  /\ is_poll' = [is_poll EXCEPT ![At(k)] = TRUE]
  /\ cnt' = cnt + 1
  /\ k' = IF k < N THEN k + 1 ELSE k
  /\ cpc' = IF k < N THEN "register" ELSE "pollwait"
  /\ UNCHANGED <<ringVars, set, result, lock, wakeup_sd, ppc, cs>>

(* ... and a non-empty one ends the loop: the consumer holds the stream's  *)
(* mutex while it acquires its own lock.                                   *)
PollHit ==
  /\ cpc = "register"
  /\ lock[At(k)] = "free"
  /\ count[At(k)] > 0
  /\ lock' = [lock EXCEPT ![At(k)] = "consumer"]
  /\ cpc' = "hit"
  /\ UNCHANGED <<ringVars, pollVars, is_poll, wakeup_sd, ppc, cs>>

PollWakeSelf ==
  /\ cpc = "hit"
  /\ wakeup_sd' = IF wakeup_sd = NULL THEN At(k) ELSE wakeup_sd
  /\ lock' = [lock EXCEPT ![At(k)] = "free"]
  /\ cpc' = "pollwait"
  /\ UNCHANGED <<ringVars, pollVars, is_poll, ppc, cs>>

PollSleep ==
  /\ cpc = "pollwait"
  /\ wakeup_sd = NULL
  /\ cpc' = "pollsleep"
  /\ UNCHANGED <<ringVars, pollVars, is_poll, lock, wakeup_sd, ppc, cs>>

SpuriousPoll ==
  /\ cpc = "pollsleep"
  /\ cpc' = "pollwait"
  /\ UNCHANGED <<ringVars, pollVars, is_poll, lock, wakeup_sd, ppc, cs>>

PollWoken ==
  /\ cpc = "pollwait"
  /\ wakeup_sd # NULL
  /\ result' = wakeup_sd
  /\ wakeup_sd' = NULL
  /\ cpc' = "clear"
  /\ k' = 1
  /\ UNCHANGED <<ringVars, set, cnt, is_poll, lock, ppc, cs>>

(* Variant of the next operator that deregisters one stream only.          *)
PollClearFirst ==
  /\ cpc = "clear"
  /\ lock[At(k)] = "free"
  /\ is_poll' = [is_poll EXCEPT ![At(k)] = FALSE]
  /\ cnt' = cnt - 1
  /\ PollReturn(result)
  /\ UNCHANGED <<ringVars, result, lock, wakeup_sd, ppc, cs>>

(* Deregistration of the first cnt streams (of all of them when cnt is 0). *)
PollClear ==
  /\ cpc = "clear"
  /\ lock[At(k)] = "free"
  /\ is_poll' = [is_poll EXCEPT ![At(k)] = FALSE]
  /\ cnt' = cnt - 1
  /\ IF cnt - 1 = 0 \/ k = N
     THEN PollReturn(result)
     ELSE k' = k + 1 /\ UNCHANGED <<cpc, set>>
  /\ UNCHANGED <<ringVars, result, lock, wakeup_sd, ppc, cs>>

-----------------------------------------------------------------------------
Producer(s) == \/ SNetStreamWrite(s) \/ SNetStreamTryWrite(s)
               \/ TryWriteReturn(s)
               \/ WriteWait(s) \/ WritePut(s) \/ WriteNotify(s)

PollStep == \/ PollScan \/ PollReset \/ PollRegister \/ PollHit
            \/ PollWakeSelf \/ PollSleep \/ PollWoken \/ PollClear

Consumer == \/ \E s \in Streams : SNetStreamRead(s)
            \/ ReadWait \/ ReadTake \/ SNetStreamPoll \/ PollStep

Spurious == SpuriousRead \/ SpuriousPoll \/ \E s \in Streams : SpuriousWrite(s)

Next == Consumer \/ Spurious \/ \E s \in Streams : Producer(s)

(* A thread inside an operation goes on with it: pthread mutexes are       *)
(* granted when they stay free.  No thread is obliged to call an           *)
(* operation, and no spurious wakeup has to come.                          *)
Fairness == /\ WF_vars(PollStep \/ ReadTake)
            /\ \A s \in Streams : WF_vars(WritePut(s) \/ WriteNotify(s))

Spec == Init /\ [][Next]_vars

FairSpec == Spec /\ Fairness

-----------------------------------------------------------------------------
ConsumerStates == {"idle", "read", "waitempty", "scan", "reset", "register",
                   "hit", "pollwait", "pollsleep", "clear"}
ProducerStates == {"idle", "write", "trywrite", "refused", "waitfull", "notify"}

(* The consumer is inside the registered part of a poll.                   *)
Polling == cpc \in {"register", "hit", "pollwait", "pollsleep", "clear"}

(* Type invariant of the ring buffers, the locks and the poll state.       *)
TypeOK ==
  /\ DOMAIN buffer = Streams
  /\ \A s \in Streams : buffer[s] \in [0 .. Capacity[s] - 1 -> Nat \cup {NULL}]
  /\ head \in [Streams -> Nat] /\ \A s \in Streams : head[s] < Capacity[s]
  /\ tail \in [Streams -> Nat] /\ \A s \in Streams : tail[s] < Capacity[s]
  /\ count \in [Streams -> Nat] /\ \A s \in Streams : count[s] <= Capacity[s]
  /\ is_poll \in [Streams -> BOOLEAN]
  /\ lock \in [Streams -> {"free", "producer", "consumer"}]
  /\ wakeup_sd \in Streams \cup {NULL}
  /\ set \in Streams
  /\ ppc \in [Streams -> ProducerStates]
  /\ cpc \in ConsumerStates
  /\ cs \in Streams
  /\ k \in 1 .. N
  /\ cnt \in Int
  /\ result \in Streams \cup {NULL}
  /\ sent \in [Streams -> Nat]
  /\ got \in [Streams -> Nat]

(* What the ring buffer holds, oldest record first.                        *)
Contents(s) == [i \in 1 .. count[s] |->
                  buffer[s][(head[s] + i - 1) % Capacity[s]]]

(* The streams implement bounded FIFO channels.                            *)
Channels == INSTANCE FifoChannels WITH
              chan <- [s \in Streams |-> Contents(s)]

(* Every interleaving of writes, reads and polls refines the abstract      *)
(* channels: SNetStreamWrite and SNetStreamRead neither lose nor           *)
(* duplicate nor reorder records, and no buffer exceeds its capacity.      *)
RefinesChannels == Channels!ChanSpec

(* No lost wakeup in SNetStreamPoll: while the consumer sleeps on pollcond *)
(* with no wakeup_sd, every stream is empty and registered, or its         *)
(* producer is on the way to the consumer's lock.                          *)
NoLostPollWakeup ==
  cpc = "pollsleep" /\ wakeup_sd = NULL =>
    \A s \in Streams : \/ ppc[s] = "notify"
                       \/ is_poll[s] /\ count[s] = 0

(* No lost wakeup in SNetStreamRead and SNetStreamWrite although both      *)
(* signal only on the transition from empty and from full.                 *)
NoLostSignal ==
  /\ cpc = "waitempty" => count[cs] = 0
  /\ \A s \in Streams : ppc[s] = "waitfull" => count[s] = Capacity[s]

(* A producer touches the consumer's thread (its lock, wakeup_sd and       *)
(* pollcond) only while that consumer is inside SNetStreamPoll, and no     *)
(* registration outlives the poll: a thread that has left the poll may     *)
(* terminate and be freed although writers still use its streams.          *)
NotifyOnlyDuringPoll ==
  \A s \in Streams : is_poll[s] \/ ppc[s] = "notify" => Polling

(* SNetStreamPoll returns a non-empty stream, as threading.h promises:     *)
(* its callers go on to SNetStreamRead without expecting to block.         *)
PollFindsRecord ==
  [][cpc \notin {"idle", "read", "waitempty"} /\ cpc' = "idle"
       => count'[set'] > 0]_vars

(* SNetStreamTryWrite tests for room in one critical section and writes in *)
(* another, and still never blocks.                                        *)
TryWriteNeverBlocks ==
  \A s \in Streams : ppc[s] = "trywrite" => count[s] < Capacity[s]

(* SNetStreamPoll returns only when some stream has a record, and when     *)
(* some stream has one it does return: registration, wakeup and            *)
(* deregistration never leave the consumer asleep for ever.                *)
PollReturns ==
  (cpc \notin {"idle", "read", "waitempty"} /\ \E s \in Streams : count[s] > 0)
    ~> cpc = "idle"

(* A producer inside SNetStreamWrite returns once its stream has room: it  *)
(* is signalled out of notfull and not starved by the polling consumer.    *)
WriteReturns ==
  \A s \in Streams :
    (ppc[s] \in {"write", "trywrite", "waitfull", "notify"}
       /\ count[s] < Capacity[s]) ~> ppc[s] = "idle"
=============================================================================
