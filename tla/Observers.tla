----------------------------- MODULE Observers -----------------------------
(***************************************************************************)
(* The observers of the stream runtime: tasks that report the records that *)
(* pass them to a listener, over a socket or in a file, and, when they are *)
(* interactive, hold a record until the listener has answered.  Observers  *)
(* of one listener share its connection; one dispatcher thread reads the   *)
(* answers and wakes the observer each is for.  connection_mutex protects  *)
(* all of it, so a step below is what one thread does between taking the   *)
(* mutex and giving it up.                                                 *)
(*                                                                         *)
(* con.obs has for every observer its program counter, its id and the      *)
(* records it has still to read.  An answer arrives in two pieces.         *)
(***************************************************************************)
EXTENDS Library

CONSTANTS Observers,       \* the observers of the network
          ObserverType,    \* for each of them: obstype and isInteractive
          Observed         \* the records each of them reads

NOTIFICATION_BUFFER_SIZE == 4

\* ObserverPrintRecordToFile: the elements of the report on a record.  The
\* cases after the one for data have no break before the last of them.
ControlCases == <<"sync", "collect", "sort_end", "terminate">>

ObserverPrintRecordToFile(rec) ==
    IF rec \in ToSet(ControlCases)
    THEN SelectSeq(ControlCases,
                   LAMBDA c : \E i, j \in DOMAIN ControlCases :
                       /\ ControlCases[i] = rec /\ ControlCases[j] = c /\ i <= j)
    ELSE IF rec = "data" THEN <<"data">> ELSE <<>>

-----------------------------------------------------------------------------
\* SNetObserverInit: the dispatcher is started.
ObserverInit ==
    /\ kind = "observers"
    /\ con = [obs |-> [o \in Observers |->
                          [pc |-> "none", id |-> -1, todo |-> Observed[o]]],
              socket |-> [open |-> FALSE, users |-> 0, wait_queue |-> <<>>,
                          buffer |-> <<>>],
              file |-> [open |-> FALSE, users |-> 0, log |-> <<>>],
              user_count |-> 0, id_pool |-> 0, mustTerminate |-> FALSE,
              pipe |-> 0, dispatch |-> "loop", fdr_set |-> {},
              main |-> "run", wire |-> <<>>]
    \* what the listener has been told and not answered, and has answered
    /\ abs = [told |-> {}, answers |-> [o \in Observers |-> 0]]
    /\ ret = NoRet

IsObs(o, pc) == kind = "observers" /\ UNCHANGED kind /\ con.obs[o].pc = pc

\* SNetObserverSocketBox, SNetObserverFileBox: the box takes an id...
ObserverBox(o) ==
    /\ IsObs(o, "none") /\ con.main = "run"
    /\ con' = [con EXCEPT !.obs[o].pc = "register", !.obs[o].id = con.id_pool,
                          !.id_pool = @ + 1]
    /\ UNCHANGED abs /\ Silent

\* A new connection: the dispatcher is woken to select from it too.
ObserverInitSocket(c) == [c EXCEPT !.socket.open = TRUE, !.pipe = @ + 1]

\* ... and registers with the connection of its listener, which is opened by
\* the first.  When it cannot be opened the network does without the observer.
ObserverRegisterSocket(o) ==
    /\ IsObs(o, "register") /\ ObserverType[o].obstype = "socket"
    /\ \/ LET c == IF con.socket.open THEN con ELSE ObserverInitSocket(con)
          IN  con' = [c EXCEPT !.obs[o].pc = "read", !.user_count = @ + 1,
                               !.socket.users = @ + 1]
       \/ ~con.socket.open /\ con' = [con EXCEPT !.obs[o].pc = "ignored"]
    /\ UNCHANGED abs /\ Silent

ObserverRegisterFile(o) ==
    /\ IsObs(o, "register") /\ ObserverType[o].obstype = "file"
    /\ \/ con' = [con EXCEPT !.obs[o].pc = "read", !.user_count = @ + 1,
                             !.file.open = TRUE, !.file.users = @ + 1]
       \/ ~con.file.open /\ con' = [con EXCEPT !.obs[o].pc = "ignored"]
    /\ UNCHANGED abs /\ Silent

FreePlaces(wq) == {i \in DOMAIN wq : wq[i].hnd = NULL}

\* The waiter forgets to forget that its place was woken before.
WaitWokenBefore(wq, o) ==
    IF FreePlaces(wq) = {} THEN <<[hnd |-> o, hasBeenWoken |-> FALSE]>> \o wq
    ELSE [wq EXCEPT ![Min(FreePlaces(wq))] = [@ EXCEPT !.hnd = o]]

\* The observer takes the first unused place of the queue, or a new one.
ObserverWait(wq, o) ==
    LET place == [hnd |-> o, hasBeenWoken |-> FALSE]
    IN  IF FreePlaces(wq) = {} THEN <<place>> \o wq
        ELSE [wq EXCEPT ![Min(FreePlaces(wq))] = place]

\* ObserverBoxTask reads a record and calls ObserverSend, which keeps the
\* mutex from the report to the wait.
ObserverSend(o) ==
    /\ IsObs(o, "read")
    /\ LET report == [oid |-> con.obs[o].id,
                      elems |-> ObserverPrintRecordToFile(Head(con.obs[o].todo))]
       IN  IF ObserverType[o].obstype = "file"
           THEN /\ con' = [con EXCEPT !.file.log = Append(@, report),
                                      !.obs[o].pc = "write"]
                /\ UNCHANGED abs
           ELSE IF ObserverType[o].isInteractive
           THEN /\ con' = [con EXCEPT
                      !.socket.wait_queue = ObserverWait(@, o),
                      !.obs[o].pc = "wait"]
                /\ abs' = [abs EXCEPT !.told = @ \cup {o}]
           ELSE con' = [con EXCEPT !.obs[o].pc = "write"] /\ UNCHANGED abs
    /\ Silent

\* The waiting observer finds that it has been woken and leaves the queue.
ObserverWoken(o) ==
    /\ IsObs(o, "wait")
    /\ \E i \in DOMAIN con.socket.wait_queue :
           /\ con.socket.wait_queue[i].hnd = o
           /\ con.socket.wait_queue[i].hasBeenWoken
           /\ con' = [con EXCEPT !.socket.wait_queue[i].hnd = NULL,
                                 !.obs[o].pc = "write"]
    /\ UNCHANGED abs /\ Silent

\* The rest of the loop of ObserverBoxTask: the record is passed on.
ObserverPass(o) ==
    /\ IsObs(o, "write")
    /\ con' = [con EXCEPT
           !.obs[o].pc = IF Head(con.obs[o].todo) = "terminate" THEN "remove"
                         ELSE "read",
           !.obs[o].todo = Tail(@)]
    /\ UNCHANGED abs /\ Silent

ObserverRemove(o) ==
    /\ IsObs(o, "remove")
    /\ con' = IF ObserverType[o].obstype = "file"
              THEN [con EXCEPT !.obs[o].pc = "done", !.user_count = @ - 1,
                               !.file.users = @ - 1]
              ELSE [con EXCEPT !.obs[o].pc = "done", !.user_count = @ - 1,
                               !.socket.users = @ - 1]
    /\ UNCHANGED abs /\ Silent

-----------------------------------------------------------------------------
(* The dispatcher.                                                         *)

IsDispatch(pc) == kind = "observers" /\ UNCHANGED kind /\ con.dispatch = pc

\* The head of the loop: it ends, or forms the set to select from.
DispatchLoop ==
    /\ IsDispatch("loop")
    /\ con' = IF ~con.mustTerminate \/ con.user_count > 0
              THEN [con EXCEPT !.dispatch = "select",
                        !.fdr_set = IF con.socket.open THEN {"pipe", "socket"}
                                    ELSE {"pipe"}]
              ELSE [con EXCEPT !.dispatch = "exit"]
    /\ UNCHANGED abs /\ Silent

Readable == (IF con.pipe > 0 THEN {"pipe"} ELSE {})
                \cup (IF con.wire # <<>> THEN {"socket"} ELSE {})

\* select, without the mutex.
DispatchSelect ==
    /\ IsDispatch("select") /\ con.fdr_set \cap Readable # {}
    /\ con' = [con EXCEPT !.dispatch = "ready", !.fdr_set = @ \cap Readable]
    /\ UNCHANGED abs /\ Silent

\* ObserverParseReplyMessage: the answers that are complete in a buffer,
\* from its front on; what is left is kept for the next call.
ObserverParseReplyMessage(buf) ==
    LET n == Len(buf) \div 2
    IN  [oids |-> {buf[2 * i].oid : i \in 1..n}, rest |-> SubSeq(buf, 2 * n + 1, Len(buf))]

\* A notification, or else answers: recv returns some of what has arrived,
\* and the observers of the complete answers are woken.
ObserverDispatch ==
    /\ IsDispatch("ready")
    /\ \/ /\ "pipe" \in con.fdr_set
          /\ con' = [con EXCEPT !.dispatch = "loop", !.fdr_set = {},
                         !.pipe = IF @ > NOTIFICATION_BUFFER_SIZE
                                  THEN @ - NOTIFICATION_BUFFER_SIZE ELSE 0]
       \/ /\ "pipe" \notin con.fdr_set
          /\ \E n \in 1..Len(con.wire) :
                 LET parsed == ObserverParseReplyMessage(
                                   con.socket.buffer \o SubSeq(con.wire, 1, n))
                 IN  con' = [con EXCEPT
                         !.dispatch = "loop", !.fdr_set = {},
                         !.wire = SubSeq(@, n + 1, Len(@)),
                         !.socket.buffer = parsed.rest,
                         !.socket.wait_queue = [i \in DOMAIN @ |->
                             [@[i] EXCEPT !.hasBeenWoken =
                                 @ \/ LET h == con.socket.wait_queue[i].hnd
                                      IN  h # NULL /\ con.obs[h].id \in parsed.oids]]]
    /\ UNCHANGED abs /\ Silent

\* The listener (not part of the program) answers what it was told.
ListenerAnswers(o) ==
    /\ kind = "observers" /\ UNCHANGED kind /\ o \in abs.told
    /\ con' = [con EXCEPT !.wire = @ \o <<[oid |-> con.obs[o].id, part |-> 1],
                                          [oid |-> con.obs[o].id, part |-> 2]>>]
    /\ abs' = [told |-> abs.told \ {o}, answers |-> [abs.answers EXCEPT ![o] = @ + 1]]
    /\ Silent

-----------------------------------------------------------------------------
\* SNetObserverDestroy, once SNetThreadingStop has waited for the tasks: the
\* dispatcher is told to end, joined, and the connections are closed.
SNetObserverDestroy ==
    /\ kind = "observers" /\ UNCHANGED kind
    /\ \/ /\ con.main = "run"
          /\ \A o \in Observers : con.obs[o].pc \in {"none", "ignored", "done"}
          /\ con' = [con EXCEPT !.main = "terminate", !.mustTerminate = TRUE]
       \/ /\ con.main = "terminate"
          /\ con' = [con EXCEPT !.main = "join", !.pipe = @ + 1]
       \/ /\ con.main = "join" /\ con.dispatch = "exit"
          /\ con' = [con EXCEPT !.main = "closed", !.socket.open = FALSE,
                                !.socket.wait_queue = <<>>, !.file.open = FALSE]
    /\ UNCHANGED abs /\ Silent

ObserverNext ==
    \/ \E o \in Observers :
           \/ ObserverBox(o) \/ ObserverRegisterSocket(o) \/ ObserverRegisterFile(o)
           \/ ObserverSend(o) \/ ObserverWoken(o) \/ ObserverPass(o)
           \/ ObserverRemove(o) \/ ListenerAnswers(o)
    \/ DispatchLoop \/ DispatchSelect \/ ObserverDispatch \/ SNetObserverDestroy

-----------------------------------------------------------------------------
Waiting(o) == con.obs[o].pc = "wait"
PlacesOf(o) == {i \in DOMAIN con.socket.wait_queue : con.socket.wait_queue[i].hnd = o}
Registered(o) == con.obs[o].pc \in {"read", "wait", "write", "remove"}
PassedOn(o) == Len(Observed[o]) - Len(con.obs[o].todo)

\* A waiting observer has one place in the queue, and unless it was woken
\* its answer is still to come: no wake-up is lost.
AnswersArrive ==
    \A o \in Observers :
        /\ Cardinality(PlacesOf(o)) = (IF Waiting(o) THEN 1 ELSE 0)
        /\ \A i \in PlacesOf(o) :
               \/ con.socket.wait_queue[i].hasBeenWoken
               \/ o \in abs.told
               \/ \E c \in ToSet(con.socket.buffer \o con.wire) :
                      c.oid = con.obs[o].id /\ c.part = 2

\* An interactive observer passes a record on only after its answer.
PassedAnswered ==
    \A o \in Observers : ObserverType[o].isInteractive /\ con.obs[o].pc # "ignored" =>
        PassedOn(o) <= abs.answers[o]

\* The connections count their users, are open while they have any, and the
\* dispatcher ends after the last of them and can be joined.
ConnectionsKept ==
    /\ con.user_count = Cardinality({o \in Observers : Registered(o)})
    /\ con.user_count = con.socket.users + con.file.users
    /\ con.socket.users > 0 => con.socket.open
    /\ con.file.users > 0 => con.file.open
    /\ con.dispatch = "exit" => con.user_count = 0
    /\ con.main = "join" /\ con.dispatch = "select" => con.pipe > 0

\* The file has the reports of each of its observers in order.
FileReports ==
    \A o \in Observers : ObserverType[o].obstype = "file" /\ con.obs[o].id # -1 =>
        LET mine == SelectSeq(con.file.log, LAMBDA r : r.oid = con.obs[o].id)
        IN  /\ Len(mine) = PassedOn(o) + (IF con.obs[o].pc = "write" THEN 1 ELSE 0)
            /\ \A i \in DOMAIN mine :
                   mine[i].elems = ObserverPrintRecordToFile(Observed[o][i])

-----------------------------------------------------------------------------
(***************************************************************************)
(* The observers of the Front runtime.  An observer node wraps each record *)
(* in a REC_observ and sends it to the node of its file or socket, which   *)
(* is shared: workers process its records one at a time, under the lock of *)
(* its only landing.  That node reports the record, waits for the answer   *)
(* of an interactive listener and sends the record on to the output of the *)
(* observer it came from.  A connection that fails is given up, and the    *)
(* records pass without a report.                                          *)
(***************************************************************************)

CONSTANTS FrontObservers,      \* the observer nodes that share a socket
          FrontRecords         \* bound: the records each of them receives

FrontObserveInit ==
    /\ kind = "frontobserve"
    /\ con = [oid |-> [o \in FrontObservers |-> 0], oid_pool |-> 0,
              queue |-> [o \in FrontObservers |-> <<>>],
              state |-> "Initial", at |-> NULL, buf |-> <<>>, wire |-> <<>>,
              out |-> [o \in FrontObservers |-> <<>>]]
    /\ abs = [sent |-> [o \in FrontObservers |-> 0],
              told |-> NULL, answered |-> {}, closed |-> FALSE]
    /\ ret = NoRet

IsFrontObserve == kind = "frontobserve" /\ UNCHANGED kind /\ Silent

\* SNetNodeObserver: the first record gives the landing its id.
SNetNodeObserver(o) ==
    /\ IsFrontObserve /\ abs.sent[o] < FrontRecords
    /\ LET new == IF con.oid[o] = 0 THEN con.oid_pool + 1 ELSE con.oid_pool
       IN  con' = [con EXCEPT
               !.oid_pool = new,
               !.oid[o] = IF @ = 0 THEN new ELSE @,
               !.queue[o] = Append(@, <<o, abs.sent[o] + 1>>)]
    /\ abs' = [abs EXCEPT !.sent[o] = @ + 1]

\* The end of SNetNodeObserver2: the record goes to its own output.
SentOn(c, o) == [c EXCEPT !.queue[o] = Tail(@), !.at = NULL, !.buf = <<>>,
                          !.out[o] = Append(@, Head(c.queue[o]))]

\* The report of the record reaches the listener.
FileRecord(o) == abs' = [abs EXCEPT !.told = Head(con.queue[o])]

\* SNetNodeObserver2 with the landing locked: the connection is opened for
\* the first record, the record reported, and the confirmation waited for.
SNetNodeObserver2(o) ==
    /\ IsFrontObserve /\ con.at = NULL /\ con.queue[o] # <<>>
    /\ \/ /\ con.state \in {"Initial", "Active"}
          /\ con' = [con EXCEPT !.state = "Active", !.at = o]
          /\ FileRecord(o)
       \* no connection, or an error when writing
       \/ con' = SentOn([con EXCEPT !.state = "Closing"], o) /\ UNCHANGED abs

\* The first complete message in the buffer, wherever it starts.
Confirms(buf, oid) ==
    \E i \in 1..(Len(buf) - 1) :
        /\ buf[i].part = 1 /\ buf[i + 1].part = 2
        /\ \A j \in 1..(i - 1) : buf[j].part # 1 \/ buf[j + 1].part # 2
        /\ buf[i].oid = oid

\* One turn of the loop of GetConfirmation.
GetConfirmation(o) ==
    /\ IsFrontObserve /\ con.at = o
    /\ \/ \E n \in 1..Len(con.wire) :
              LET buf == con.buf \o SubSeq(con.wire, 1, n)
                  read == [con EXCEPT !.buf = buf, !.wire = SubSeq(@, n + 1, Len(@))]
              IN  con' = IF Confirms(buf, con.oid[o]) THEN SentOn(read, o) ELSE read
       \/ /\ con.wire = <<>> /\ abs.closed
          /\ con' = SentOn([con EXCEPT !.state = "Closing"], o)
    /\ UNCHANGED abs

\* The listener answers the last report, or closes the connection.
FrontListener ==
    /\ IsFrontObserve /\ ~abs.closed
    /\ \/ /\ abs.told # NULL
          /\ LET oid == con.oid[abs.told[1]]
             IN  con' = [con EXCEPT !.wire = @ \o <<[oid |-> oid, part |-> 1],
                                                    [oid |-> oid, part |-> 2]>>]
          /\ abs' = [abs EXCEPT !.told = NULL, !.answered = @ \cup {abs.told}]
       \/ con.state = "Active" /\ abs' = [abs EXCEPT !.closed = TRUE] /\ UNCHANGED con

FrontObserveNext ==
    \/ \E o \in FrontObservers :
           SNetNodeObserver(o) \/ SNetNodeObserver2(o) \/ GetConfirmation(o)
    \/ FrontListener

-----------------------------------------------------------------------------
\* Records leave in order and by their own output; while the connection
\* lasts only with their answer, and the one at the socket still gets its
\* answer, however the answers before it were cut into pieces.
FrontAnswered ==
    /\ \A o \in FrontObservers :
           con.out[o] \o con.queue[o] = [i \in 1..abs.sent[o] |-> <<o, i>>]
    /\ con.state # "Closing" =>
           \A o \in FrontObservers : ToSet(con.out[o]) \subseteq abs.answered
    /\ con.at # NULL =>
           \/ abs.told = Head(con.queue[con.at])
           \/ \E c \in ToSet(con.buf \o con.wire) : c.oid = con.oid[con.at]
    /\ con.at = NULL /\ ~abs.closed /\ con.state = "Active" => con.wire = <<>>

=============================================================================
