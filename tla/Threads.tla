------------------------------ MODULE Threads ------------------------------
(***************************************************************************)
(* The threading layers: entities and monitoring of the pthread layer, and *)
(* placement, options, streams and monitoring of the LPEL layer.           *)
(***************************************************************************)
EXTENDS Library

(***************************************************************************)
(* The entities of the pthread layer and its monitoring thread.  The main  *)
(* thread builds the network, waits until no entity is left and then ends  *)
(* the monitoring; entities spawn others, report events and end.  Events   *)
(* go through a circular list, whose handle is its last node, to the       *)
(* thread that prints them; nodes are taken from and returned to a free    *)
(* list.  Each of entity_lock, queue_lock and free_list_lock protects a    *)
(* step.                                                                   *)
(***************************************************************************)
CONSTANTS Entities,       \* the entities that may be spawned
          MonNodes        \* bound: the nodes of the event list

MainThread == "main"

\* SNetThreadingInit, SNetThreadingMonitoringInit.
ThreadsInit ==
    /\ kind = "threads"
    /\ con = [entity_count |-> 0,
              thr |-> [e \in Entities |-> [pc |-> "none", node |-> NULL]],
              main |-> "build", spawning |-> [t \in Entities \cup {MainThread} |-> NULL],
              next |-> [n \in MonNodes |-> NULL], moninfo |-> [n \in MonNodes |-> NULL],
              queue |-> NULL, free_list |-> NULL, live |-> {}, queue_term |-> FALSE,
              mon |-> "dequeue", at |-> NULL]
    /\ abs = [queued |-> <<>>, printed |-> {}, lost |-> {}]
    /\ ret = NoRet

IsThreads == kind = "threads" /\ UNCHANGED kind /\ Silent

Parents == {MainThread} \cup Entities
MayRun(t) == IF t = MainThread THEN con.main = "build" ELSE con.thr[t].pc = "run"

\* SNetThreadingSpawn: the entity is counted...
SNetThreadingSpawn(t, e) ==
    /\ IsThreads /\ MayRun(t) /\ con.spawning[t] = NULL /\ con.thr[e].pc = "none"
    /\ con' = [con EXCEPT !.entity_count = @ + 1, !.thr[e].pc = "counted",
                          !.spawning[t] = e]
    /\ UNCHANGED abs

\* ... and its thread created; on an error the call returns 1, which no
\* caller looks at, and the count stays as it is.
PthreadCreate(t) ==
    /\ IsThreads /\ con.spawning[t] # NULL
    /\ \/ /\ con' = [con EXCEPT !.spawning[t] = NULL, !.thr[con.spawning[t]].pc = "run"]
          /\ UNCHANGED abs
       \/ /\ con' = [con EXCEPT !.spawning[t] = NULL]
          /\ abs' = [abs EXCEPT !.lost = @ \cup {con.spawning[t]}]

\* GetFree, in SNetThreadingMonitoringAppend: the node gets the event.
GetFree(e) ==
    /\ IsThreads /\ con.thr[e].pc = "run" /\ con.spawning[e] = NULL
    /\ \E n \in MonNodes :
           /\ IF con.free_list # NULL THEN n = con.free_list ELSE n \notin con.live
           /\ con' = [con EXCEPT !.free_list = IF @ = NULL THEN NULL ELSE con.next[@],
                                 !.live = @ \cup {n},
                                 !.moninfo[n] = e,
                                 !.thr[e] = [pc |-> "append", node |-> n]]
    /\ UNCHANGED abs

Enqueued(c, n) ==
    IF c.queue = NULL THEN [c EXCEPT !.queue = n, !.next[n] = n]
    ELSE [c EXCEPT !.next[n] = c.next[c.queue], !.next[c.queue] = n, !.queue = n]

\* EnqueueSignal: a monitor that waits is woken when the list was empty.
EnqueueSignal(e) ==
    /\ IsThreads /\ con.thr[e].pc = "append"
    /\ LET c == Enqueued(con, con.thr[e].node)
       IN  con' = [c EXCEPT !.thr[e] = [pc |-> "reported", node |-> NULL],
                            !.mon = IF con.queue = NULL /\ @ = "wait"
                                    THEN "dequeue" ELSE @]
    /\ abs' = [abs EXCEPT !.queued = Append(@, e)]

\* EntityThread returns from the entity: ThreadDestroy counts it out, and
\* wakes the main thread when it was the last.
ThreadDestroy(e) ==
    /\ IsThreads /\ con.thr[e].pc \in {"run", "reported"} /\ con.spawning[e] = NULL
    /\ con' = [con EXCEPT !.thr[e].pc = "gone", !.entity_count = @ - 1,
                          !.main = IF con.entity_count = 1 /\ @ = "wait"
                                   THEN "stop" ELSE @]
    /\ UNCHANGED abs

\* SNetThreadingStop: wait for the entities.
SNetThreadingStop ==
    /\ IsThreads /\ con.spawning[MainThread] = NULL
    /\ con.main \in {"build", "stop"}
    /\ con' = [con EXCEPT !.main = IF con.entity_count > 0 THEN "wait" ELSE "cleanup"]
    /\ UNCHANGED abs

\* SNetThreadingCleanup: SNetThreadingMonitoringCleanup ends the monitor,
\* joins it and frees the nodes on the free list (FreeFree).
FreeChain[i \in 0..Cardinality(MonNodes)] ==
    IF i = 0 THEN <<con.free_list>>
    ELSE LET s == FreeChain[i - 1]
         IN  IF Last(s) = NULL THEN s ELSE Append(s, con.next[Last(s)])

FreeNodes == ToSet(FreeChain[Cardinality(MonNodes)]) \ {NULL}

MonitoringCleanup ==
    /\ IsThreads
    /\ \/ /\ con.main = "cleanup"
          /\ con' = [con EXCEPT !.main = "join", !.queue_term = TRUE,
                                !.mon = IF @ = "wait" THEN "dequeue" ELSE @]
       \/ /\ con.main = "join" /\ con.mon = "exit"
          /\ con' = [con EXCEPT !.main = "end", !.free_list = NULL,
                                !.live = @ \ FreeNodes]
    /\ UNCHANGED abs

-----------------------------------------------------------------------------
(* The monitoring thread.                                                  *)

DequeueWait ==
    /\ IsThreads /\ con.mon = "dequeue"
    /\ LET first == con.next[con.queue]
       IN  con' = IF con.queue # NULL
                  THEN [con EXCEPT !.at = first, !.mon = "print",
                                   !.queue = IF first = @ THEN NULL ELSE @,
                                   !.next = IF first = con.queue THEN @
                                            ELSE [@ EXCEPT ![con.queue] = con.next[first]]]
                  ELSE [con EXCEPT !.mon = IF con.queue_term THEN "exit" ELSE "wait"]
    /\ UNCHANGED abs

\* ProcessMonInfo prints the event, PutFree returns the node.
MonitorThread ==
    /\ kind = "threads" /\ UNCHANGED kind /\ con.mon = "print"
    /\ con' = [con EXCEPT !.mon = "dequeue", !.at = NULL, !.moninfo[con.at] = NULL,
                          !.next[con.at] = con.free_list, !.free_list = con.at]
    /\ Returned(con.moninfo[con.at], Head(abs.queued))
    /\ abs' = [abs EXCEPT !.queued = Tail(@), !.printed = @ \cup {Head(abs.queued)}]

ThreadsNext ==
    \/ \E t \in Parents : PthreadCreate(t) \/ \E e \in Entities : SNetThreadingSpawn(t, e)
    \/ \E e \in Entities : GetFree(e) \/ EnqueueSignal(e) \/ ThreadDestroy(e)
    \/ SNetThreadingStop \/ MonitoringCleanup \/ DequeueWait \/ MonitorThread

-----------------------------------------------------------------------------
\* The entities that run or are about to.
Present == {e \in Entities : con.thr[e].pc \notin {"none", "gone"}} \ abs.lost

\* The main thread goes on only when no entity is left, running or about to
\* run; and it does not wait when there is none, unless the creation of a
\* thread has failed: such an entity stays in the count, and the wait does
\* not end (entity.c:183).
StopWaits ==
    /\ con.entity_count >= Cardinality(Present)
    /\ con.main \in {"cleanup", "join", "end"} => Present = {}
    /\ abs.lost = {} => /\ con.entity_count = Cardinality(Present)
                        /\ con.main = "wait" => Present # {}

\* Events are printed in the order they were queued, all of them before the
\* monitor ends; it does not sleep on a queued event or on its own end, and
\* no node is lost or freed while it is used.
EventsPrinted ==
    /\ ret.got = ret.want
    /\ con.mon = "exit" => abs.queued = <<>>
    /\ con.mon = "wait" => con.queue = NULL /\ ~con.queue_term
    /\ con.main = "end" => con.live = {}
    /\ {con.thr[e].node : e \in Entities} \cup {con.at, con.queue} \subseteq con.live \cup {NULL}

-----------------------------------------------------------------------------
(***************************************************************************)
(* Where entities run.  The LPEL layer gives every entity a worker when it *)
(* is spawned: by the location of the node, by a round of its own for each *)
(* box name that starts at the worker with the fewest boxes, or by one     *)
(* round for all other entities.  The Front runtime gives a box the number *)
(* of its concurrent invocations, from the -c option.                      *)
(***************************************************************************)

CONSTANTS BoxNames,          \* the names of boxes
          NumWorkers,        \* the workers LPEL has
          NodeLocations,     \* the locations of entities
          Concurrency,       \* values of the -c option: see below
          MaxSpawns          \* bound: the entities spawned

LPEL_MAP_OTHERS == -1
Workers == 0..(NumWorkers - 1)

\* SNetThreadingInit of glue_decen.c reads the options; without -w the
\* variable num_workers keeps its initial value of -1.  SNetAssignInit.
PlacementInit ==
    /\ kind = "placement"
    /\ \E sosi, dloc, w \in BOOLEAN :
           con = [sosi_placement |-> sosi, dloc_placement |-> dloc,
                  num_workers |-> IF w THEN NumWorkers ELSE -1,
                  boxcnt |-> [i \in Workers |-> 0], non_box |-> NumWorkers - 1,
                  head |-> <<>>]
    \* the boxes of each name, and the other entities, by worker
    /\ abs = [boxes |-> [n \in BoxNames |-> [i \in Workers |-> 0]],
              others |-> [i \in Workers |-> 0], spawned |-> 0]
    /\ ret = NoRet

findMinBoxes(boxcnt) ==
    CHOOSE i \in Workers :
        \A j \in Workers : boxcnt[i] < boxcnt[j] \/ (boxcnt[i] = boxcnt[j] /\ i <= j)

NameAt(head, name) == {i \in DOMAIN head : head[i].boxname = name}

SNetAssignTask(c, isBox, name) ==
    IF ~isBox
    THEN [target |-> c.non_box, c |-> [c EXCEPT !.non_box = (@ + 1) % NumWorkers]]
    ELSE LET head == IF NameAt(c.head, name) # {} THEN c.head
                     ELSE <<[boxname |-> name, round |-> findMinBoxes(c.boxcnt)]>> \o c.head
             i == Min(NameAt(head, name))
         IN  [target |-> head[i].round,
              c |-> [c EXCEPT !.head = [head EXCEPT ![i].round = (@ + 1) % NumWorkers],
                              !.boxcnt[head[i].round] = @ + 1]]

\* SNetThreadingSpawn of glue_decen.c; sosi: the name has the prefix of a
\* source or of a sink.  The remainder by -1 is 0.
PlacedAt(c, type, name, sosi, location) ==
    IF type = "other" \/ (c.sosi_placement /\ sosi)
    THEN [target |-> LPEL_MAP_OTHERS, c |-> c]
    ELSE IF c.dloc_placement
    THEN [target |-> IF c.num_workers = -1 THEN 0 ELSE location % c.num_workers, c |-> c]
    ELSE SNetAssignTask(c, type = "box", name)

LpelSpawn(type, name, sosi, location) ==
    /\ kind = "placement" /\ UNCHANGED kind /\ abs.spawned < MaxSpawns
    /\ LET p == PlacedAt(con, type, name, sosi, location)
           byRound == p.target # LPEL_MAP_OTHERS /\ ~con.dloc_placement
       IN  /\ con' = p.c
           /\ abs' = IF ~byRound THEN [abs EXCEPT !.spawned = @ + 1]
                     ELSE IF type = "box"
                     THEN [abs EXCEPT !.spawned = @ + 1, !.boxes[name][p.target] = @ + 1]
                     ELSE [abs EXCEPT !.spawned = @ + 1, !.others[p.target] = @ + 1]
           \* the load of the worker that gets the first box of a name
           /\ IF byRound /\ type = "box" /\ NameAt(con.head, name) = {}
              THEN Returned(con.boxcnt[p.target], Min({con.boxcnt[i] : i \in Workers}))
              ELSE Silent

-----------------------------------------------------------------------------
\* SNetGetBoxConcurrency.  The option is a sequence of words, each a number
\* that may be marked D and the names that follow it; one without names is a
\* default.  The loop over the words ends at the first with the name.
Word(num, det, names) == [num |-> num, det |-> det, names |-> names]

SNetGetBoxConcurrency(spec, box) ==
    LET scan[i \in 0..Len(spec)] ==
            IF i = 0 THEN [conc |-> -1, det |-> FALSE, default |-> Word(1, FALSE, {})]
            ELSE LET s == scan[i - 1] IN
                 IF s.conc # -1 THEN s
                 ELSE IF box \in spec[i].names
                 THEN [s EXCEPT !.conc = spec[i].num, !.det = spec[i].det]
                 ELSE IF spec[i].names = {} THEN [s EXCEPT !.default = spec[i]]
                 ELSE s
        end == scan[Len(spec)]
    IN  IF end.conc = -1 THEN [conc |-> end.default.num, det |-> end.default.det]
        ELSE [conc |-> end.conc, det |-> end.det]

ConcurrencyInit ==
    /\ kind = "concurrency"
    /\ con \in Concurrency /\ abs = NULL /\ ret = NoRet

\* The comment of the function: the word that names the box, and a default
\* only if there is none.
ConcurrencyOf(spec, box) ==
    LET named == {i \in DOMAIN spec : box \in spec[i].names}
        defaults == {i \in DOMAIN spec : spec[i].names = {}}
        At1(i) == [conc |-> spec[i].num, det |-> spec[i].det]
    IN  IF named # {} THEN At1(Min(named))
        ELSE IF defaults # {} THEN At1(Max(defaults))
        ELSE [conc |-> 1, det |-> FALSE]

PlacementNext ==
    \E type \in {"box", "other", "filter"}, name \in BoxNames, sosi \in BOOLEAN,
       location \in NodeLocations : LpelSpawn(type, name, sosi, location)

-----------------------------------------------------------------------------
Even(load) == \A i, j \in Workers : load[i] - load[j] <= 1

BoxesAt(i) == FoldSet(LAMBDA n, sum : sum + abs.boxes[n][i], 0, BoxNames)

\* The boxes of one name, and the entities that are not boxes, are spread
\* evenly over the workers, whatever is spawned between them; the worker a
\* new name starts at has the fewest boxes of all; and a box gets the
\* concurrency of the word that names it.
PlacementEven ==
    /\ kind = "placement" =>
           /\ \A n \in BoxNames : Even(abs.boxes[n])
           /\ Even(abs.others)
           /\ \A i \in Workers : con.boxcnt[i] = BoxesAt(i)
           /\ ret.got = ret.want
    /\ kind = "concurrency" =>
           \A n \in BoxNames : SNetGetBoxConcurrency(con, n) = ConcurrencyOf(con, n)

-----------------------------------------------------------------------------
(***************************************************************************)
(* The monitoring callbacks of the LPEL layer.  While a task runs on a     *)
(* worker, LPEL calls back for every stream it opens, uses or closes and   *)
(* the entity reports events; when the task stops, its line of the log is  *)
(* printed: the streams that changed (the dirty list, linked through the   *)
(* stream monitors) and the worker's buffered events.  LPEL itself is not  *)
(* part of the repository: the order of its calls is the one its interface *)
(* has, a task's callbacks between its start and its stop.                 *)
(***************************************************************************)


CONSTANTS MonTasks,             \* the tasks
          MonWorkers,           \* the workers, and
          MonWrappers,          \* the wrapper threads among them
          MonStreams,           \* bound: the stream monitors
          MonFlags,             \* the flags the -m option may set
          MON_USREVT_BUFSIZE_DELTA,
          MaxMoves,             \* bound: the moves on a stream in a dispatch
          MaxEvents             \* bound: the events of a dispatch

ST_DIRTY_END == "end"
NoStream == [montask |-> NULL]
Unchanged == [state |-> "I", moves |-> 0, evts |-> {}]

\* SNetThreadingMonInit, MonCbWorkerCreate and MonCbWrapperCreate, and
\* SNetThreadingMonTaskCreate.
MonInit ==
    /\ kind = "monitor"
    /\ \E flags \in MonFlags :
           con = [flags |-> flags,
                  mt |-> [t \in MonTasks |->
                             [mw |-> NULL, dirty_list |-> ST_DIRTY_END, blockon |-> "A"]],
                  ms |-> [s \in MonStreams |-> NoStream],
                  mw |-> [w \in MonWorkers |->
                             [events |-> <<>>,
                              size |-> IF w \in MonWrappers THEN 0
                                       ELSE MON_USREVT_BUFSIZE_DELTA]]]
    \* the task each worker runs, what happened to each stream and in which
    \* order the streams of a task changed, and the events, since it started
    /\ abs = [runs |-> [w \in MonWorkers |-> NULL],
              since |-> [s \in MonStreams |-> Unchanged],
              changed |-> [t \in MonTasks |-> <<>>],
              events |-> [t \in MonTasks |-> <<>>],
              blocked |-> [t \in MonTasks |-> "A"]]
    /\ ret = NoRet

IsMonitor == kind = "monitor" /\ UNCHANGED kind
Running(t) == \E w \in MonWorkers : abs.runs[w] = t

-----------------------------------------------------------------------------
(* Streams.                                                                *)

\* The test takes the last stream of the list for one that is not on it.
MarkDirtyAgain(c, s) ==
    IF c.ms[s].dirty \notin {NULL, ST_DIRTY_END} THEN c
    ELSE [c EXCEPT !.ms[s].dirty = c.mt[c.ms[s].montask].dirty_list,
                   !.mt[c.ms[s].montask].dirty_list = s]

\* A stream that is not dirty yet goes to the front of its task's list.  (The
\* counters MarkDirty copies as well are stored with events and never used.)
MarkDirty(c, s) ==
    IF c.ms[s].dirty # NULL THEN c
    ELSE [c EXCEPT !.ms[s].dirty = c.mt[c.ms[s].montask].dirty_list,
                   !.mt[c.ms[s].montask].dirty_list = s]

Happened(s, t, since) ==
    [abs EXCEPT !.since[s] = since,
                !.changed[t] = IF Contains(@, s) THEN @ ELSE <<s>> \o @]

MonCbStreamOpen(t, s, mode) ==
    /\ IsMonitor /\ Running(t) /\ abs.blocked[t] = "A" /\ con.ms[s] = NoStream
    /\ con' = MarkDirty([con EXCEPT !.ms[s] =
                  [montask |-> t, mode |-> mode, state |-> "O", counter |-> 0,
                   evts |-> {}, dirty |-> NULL]], s)
    /\ abs' = Happened(s, t, [Unchanged EXCEPT !.state = "O"]) /\ Silent

\* A call for a stream of a running task that is not closed.
InUse(t, s) ==
    /\ IsMonitor /\ Running(t) /\ abs.blocked[t] = "A" /\ con.ms[s] # NoStream
    /\ con.ms[s].montask = t /\ con.ms[s].state # "C"

MonCbStreamClose(t, s) ==
    /\ InUse(t, s)
    /\ con' = MarkDirty([con EXCEPT !.ms[s].state = "C"], s)
    /\ abs' = Happened(s, t, [abs.since[s] EXCEPT !.state = "C"]) /\ Silent

MonCbStreamReplace(t, s) ==
    /\ InUse(t, s)
    /\ con' = MarkDirty([con EXCEPT !.ms[s].state = "R"], s)
    /\ abs' = Happened(s, t, [abs.since[s] EXCEPT !.state = "R"]) /\ Silent

\* MonCbStreamReadFinish and MonCbStreamWriteFinish.
MonCbStreamFinish(c, s) ==
    MarkDirty([c EXCEPT !.ms[s].counter = @ + 1, !.ms[s].evts = @ \cup {"moved"}], s)

\* The stream is not marked dirty: it moves after the wake-up.
MonCbStreamWakeup(c, s) == [c EXCEPT !.ms[s].evts = @ \cup {"wakeup"}]

\* An item is read or written, after a wake-up if the task had blocked.
StreamMoves(t, s) ==
    /\ InUse(t, s) /\ con.ms[s].counter < MaxMoves /\ "STREAM" \in con.flags
    /\ \E woken \in BOOLEAN :
           /\ con' = MonCbStreamFinish(IF woken THEN MonCbStreamWakeup(con, s) ELSE con, s)
           /\ abs' = Happened(s, t, [abs.since[s] EXCEPT
                         !.moves = @ + 1,
                         !.evts = @ \cup {"moved"} \cup (IF woken THEN {"wakeup"} ELSE {})])
    /\ Silent

\* The task will stop, blocked on this stream.
MonCbStreamBlockon(t, s) ==
    /\ InUse(t, s)
    /\ LET c == MarkDirty([con EXCEPT !.ms[s].evts = @ \cup {"blockon"}], s)
       IN  con' = [c EXCEPT !.mt[t].blockon = IF c.ms[s].mode = "r" THEN "I" ELSE "O"]
    /\ abs' = [Happened(s, t, [abs.since[s] EXCEPT !.evts = @ \cup {"blockon"}]) EXCEPT
                   !.blocked[t] = IF con.ms[s].mode = "r" THEN "I" ELSE "O"]
    /\ Silent

-----------------------------------------------------------------------------
(* Tasks and events.                                                       *)

\* MonCbTaskAssign and MonCbTaskStart.
MonCbTaskStart(t, w) ==
    /\ IsMonitor /\ ~Running(t) /\ abs.runs[w] = NULL
    /\ con' = [con EXCEPT !.mt[t].mw = w, !.mt[t].blockon = "A"]
    /\ abs' = [abs EXCEPT !.runs[w] = t] /\ Silent

\* The event of a message in or out (SNetMonInfoCreate), buffered by the
\* worker, whose buffer grows when it is full.
SNetMonInfoCreate(event, id) == [event |-> event, id |-> id]

SNetThreadingMonEvent(t) ==
    /\ IsMonitor /\ Running(t) /\ abs.blocked[t] = "A" /\ Len(abs.events[t]) < MaxEvents
    /\ LET w == con.mt[t].mw
           n == Len(abs.events[t])
           mon == SNetMonInfoCreate(IF n = 0 THEN "EV_MESSAGE_IN" ELSE "EV_MESSAGE_OUT", n)
           full == Len(con.mw[w].events) = con.mw[w].size
       IN  /\ con' = IF "MESSAGE" \in con.flags
                     THEN [con EXCEPT
                              !.mw[w].size = IF full THEN @ + MON_USREVT_BUFSIZE_DELTA ELSE @,
                              !.mw[w].events = Append(@, mon)]
                     ELSE con
           /\ abs' = [abs EXCEPT !.events[t] = Append(@, mon)]
    /\ Silent

\* The streams on the dirty list of a task.
DirtyChain(c, t) ==
    LET chain[i \in 0..Cardinality(MonStreams)] ==
            IF i = 0 THEN <<c.mt[t].dirty_list>>
            ELSE IF Last(chain[i - 1]) \in MonStreams
            THEN Append(chain[i - 1], c.ms[Last(chain[i - 1])].dirty)
            ELSE chain[i - 1]
    IN  SelectSeq(chain[Cardinality(MonStreams)], LAMBDA s : s \in MonStreams)

\* PrintDirtyList: what is printed, and the monitors after it.
DirtyEntry(m) ==
    [mode |-> m.mode, state |-> m.state, counter |-> m.counter, evts |-> m.evts]

PrintedStream(m) ==
    IF m.state = "C" THEN NoStream
    ELSE [m EXCEPT !.counter = 0, !.state = "I", !.dirty = NULL, !.evts = {}]

PrintDirtyList(c, t) ==
    LET list == DirtyChain(c, t)
    IN  [out |-> [i \in DOMAIN list |-> DirtyEntry(c.ms[list[i]])],
         c |-> [c EXCEPT !.ms = [s \in MonStreams |->
                                    IF Contains(list, s) THEN PrintedStream(c.ms[s])
                                    ELSE c.ms[s]],
                         !.mt[t].dirty_list = ST_DIRTY_END]]

PrintUsrEvt(c, t) ==
    [out |-> c.mw[c.mt[t].mw].events, c |-> [c EXCEPT !.mw[c.mt[t].mw].events = <<>>]]

\* What the line should say, from what happened since the last one.
Reported(s) ==
    [mode |-> con.ms[s].mode, state |-> abs.since[s].state,
     counter |-> abs.since[s].moves, evts |-> abs.since[s].evts]

\* MonCbTaskStop, on its worker: the task is blocked, on a stream or on any
\* of a set, or it is not.
MonCbTaskStop(t) ==
    /\ IsMonitor /\ Running(t)
    /\ \E state \in {"blocked", "ready"} :
       /\ abs.blocked[t] # "A" => state = "blocked"
       /\ LET streams == "STREAM" \in con.flags
              messages == "MESSAGE" \in con.flags
              d == IF streams THEN PrintDirtyList(con, t) ELSE [out |-> <<>>, c |-> con]
              e == IF messages THEN PrintUsrEvt(d.c, t) ELSE [out |-> <<>>, c |-> d.c]
              mine == abs.changed[t]
          IN  /\ con' = e.c
              /\ Returned(/\ state = "blocked" => con.mt[t].blockon = abs.blocked[t]
                          /\ streams => d.out = [i \in DOMAIN mine |-> Reported(mine[i])]
                          /\ messages => e.out = abs.events[t],
                          TRUE)
              /\ abs' = [abs EXCEPT
                     !.runs = [w \in MonWorkers |-> IF @[w] = t THEN NULL ELSE @[w]],
                     !.since = [s \in MonStreams |->
                                   IF Contains(mine, s) THEN Unchanged ELSE @[s]],
                     !.changed[t] = <<>>, !.events[t] = <<>>, !.blocked[t] = "A"]

MonNext ==
    \/ \E t \in MonTasks, s \in MonStreams :
           \/ \E mode \in {"r", "w"} : MonCbStreamOpen(t, s, mode)
           \/ MonCbStreamClose(t, s) \/ MonCbStreamReplace(t, s)
           \/ StreamMoves(t, s) \/ MonCbStreamBlockon(t, s)
    \/ \E t \in MonTasks, w \in MonWorkers : MonCbTaskStart(t, w)
    \/ \E t \in MonTasks : SNetThreadingMonEvent(t) \/ MonCbTaskStop(t)

-----------------------------------------------------------------------------
\* Every line of the log has the streams that changed in the dispatch, each
\* once, with its moves and flags, and the events of the task and no other;
\* a monitor is freed when its closing was printed and never while it is on
\* a list, and an event is never written past the end of the buffer.
LogAgrees ==
    /\ ret.got = ret.want
    /\ \A t \in MonTasks : \A i \in DOMAIN DirtyChain(con, t) :
           LET s == DirtyChain(con, t)[i]
           IN  con.ms[s] # NoStream /\ con.ms[s].montask = t
    /\ \A w \in MonWorkers : Len(con.mw[w].events) <= con.mw[w].size
    /\ "STREAM" \in con.flags =>
           \A s \in MonStreams : con.ms[s] # NoStream /\ con.ms[s].state = "C" =>
               Contains(abs.changed[con.ms[s].montask], s)

-----------------------------------------------------------------------------
(***************************************************************************)
(* The options of a program.  SNetInRun and the SNetThreadingInit of the   *)
(* threading layer each go through the same command line, a sequence of    *)
(* options; one that a loop does not know is skipped.  An option has, for  *)
(* its value, a number with or without a suffix, a set of letters or text. *)
(* con has what the three loops have set so far, abs the command line.     *)
(***************************************************************************)

CONSTANTS Options,           \* the options, [opt, num, suffix, letters, text]
          MaxOptions,        \* bound: their number
          NumProcs,          \* processors of the machine
          PTHREAD_STACK_MIN

\* networkinterface.c: the first file or socket for each side counts, and -h
\* ends the program.
IoDefaults == [input |-> "stdin", output |-> "stdout", help |-> FALSE]

IoOption(c, o) ==
    CASE o.opt = "-h" -> [c EXCEPT !.help = TRUE]
      [] o.opt \in {"-i", "-I"} /\ c.input = "stdin" -> [c EXCEPT !.input = o.text]
      [] o.opt \in {"-o", "-O"} /\ c.output = "stdout" -> [c EXCEPT !.output = o.text]
      [] OTHER -> c

\* xthread.c: the variables, each with a function that returns it.
FrontDefaults ==
    [workers |-> NumProcs, thieves |-> 0, gc |-> TRUE, verbose |-> FALSE,
     debug |-> FALSE, zipper |-> TRUE, det |-> FALSE, stack |-> 0,
     concurrency |-> NULL, throttle |-> FALSE, offset |-> 0, factor |-> 0,
     fatal |-> FALSE]

GetSize(o) ==
    o.num * (CASE o.suffix \in {"k", "K"} -> 1024
               [] o.suffix \in {"m", "M"} -> 1024 * 1024
               [] o.suffix = NULL -> 1
               [] OTHER -> 0)

FrontOption(c, o) ==
    CASE o.opt = "-c" -> [c EXCEPT !.concurrency = o.text]
      [] o.opt = "-d" -> [c EXCEPT !.debug = TRUE]
      [] o.opt = "-g" -> [c EXCEPT !.gc = FALSE]
      [] o.opt = "-s" -> [c EXCEPT !.stack = GetSize(o),
                                   !.fatal = GetSize(o) < PTHREAD_STACK_MIN]
      [] o.opt = "-v" -> [c EXCEPT !.verbose = TRUE]
      [] o.opt = "-T" -> [c EXCEPT !.thieves = o.num, !.fatal = o.num <= 0]
      [] o.opt = "-w" -> [c EXCEPT !.workers = o.num, !.fatal = o.num <= 0]
      [] o.opt = "-x" -> [c EXCEPT !.offset = o.num, !.fatal = o.num < 1,
                                   !.throttle = @ \/ o.num >= 1]
      [] o.opt = "-y" -> [c EXCEPT !.factor = o.num, !.fatal = o.num <= 0,
                                   !.offset = IF @ = 0 /\ o.num > 0 THEN 1 ELSE @,
                                   !.throttle = @ \/ (c.offset = 0 /\ o.num > 0)]
      [] o.opt = "-FD" -> [c EXCEPT !.det = TRUE]
      [] o.opt = "-FN" -> [c EXCEPT !.det = FALSE]
      [] o.opt = "-z" -> [c EXCEPT !.zipper = FALSE]
      [] OTHER -> c

\* glue_hrc.c.
HrcDefaults ==
    [pinned |-> TRUE, exclusive |-> FALSE, num_workers |-> 0, proc_workers |-> 0,
     proc_others |-> 0, sosi |-> FALSE, priorf |-> 14, rec_lim |-> -1,
     neg_demand |-> 0, window |-> 1, found |-> FALSE, threshold |-> -1, mon_elts |-> {}]

HrcOption(c, o) ==
    CASE o.opt = "-m" -> [c EXCEPT !.mon_elts = o.letters]
      [] o.opt = "-excl" -> [c EXCEPT !.exclusive = TRUE]
      [] o.opt = "-co" -> [c EXCEPT !.proc_others = o.num]
      [] o.opt = "-cw" -> [c EXCEPT !.proc_workers = o.num]
      [] o.opt = "-w" -> [c EXCEPT !.num_workers = o.num, !.proc_workers = o.num]
      [] o.opt = "-sosi" -> [c EXCEPT !.sosi = TRUE]
      [] o.opt = "-np" -> [c EXCEPT !.pinned = ~@]
      [] o.opt = "-pf" -> [c EXCEPT !.priorf = o.num]
      [] o.opt = "-rl" -> [c EXCEPT !.rec_lim = o.num]
      [] o.opt = "-nd" -> [c EXCEPT !.neg_demand = o.num]
      [] o.opt = "-ws" -> [c EXCEPT !.window = o.num, !.found = TRUE]
      [] o.opt = "-wt" -> [c EXCEPT !.threshold = o.num]
      [] OTHER -> c

\* After the loop: the window that LpelStart gets, and mon_flags.
HrcWindow(c) == IF c.found THEN c.window ELSE c.num_workers

MonLetters ==
    [m |-> "MAP", t |-> "TIME", W |-> "WORKER", T |-> "TASK", S |-> "STREAM",
     M |-> "MESSAGE", L |-> "LOAD"]
HrcMonFlags(elts) ==
    IF "A" \in elts THEN {MonLetters[l] : l \in DOMAIN MonLetters}
    ELSE {MonLetters[l] : l \in elts \cap DOMAIN MonLetters}

\* The task of an entity: where it runs, its stack (GetStacksize), its limit
\* of records (setTaskRecLimit) and whether it is monitored and in the map.
HrcTask(c, type, sosi) ==
    LET others == type = "other" \/ (c.sosi /\ sosi)
        flags == HrcMonFlags(c.mon_elts)
    IN  [location |-> IF others THEN "others" ELSE "master",
         stack |-> IF type \in {"box", "other"} THEN 64 * 1024 ELSE 256 * 1024,
         limit |-> IF others THEN NULL
                   ELSE IF type \in {"sync", "nameshift", "other", "collect"} THEN -1
                   ELSE c.rec_lim,
         monitored |-> "TASK" \in flags, mapped |-> "MAP" \in flags]

OptionsInit ==
    /\ kind = "options"
    /\ con = [io |-> IoDefaults, front |-> FrontDefaults, hrc |-> HrcDefaults]
    /\ abs = <<>> /\ ret = NoRet

OptionRead(o) ==
    /\ kind = "options" /\ UNCHANGED kind /\ Silent
    /\ ~con.io.help /\ ~con.front.fatal /\ Len(abs) < MaxOptions
    /\ con' = [io |-> IoOption(con.io, o), front |-> FrontOption(con.front, o),
               hrc |-> HrcOption(con.hrc, o)]
    /\ abs' = Append(abs, o)

Given(opts) == {i \in DOMAIN abs : abs[i].opt \in opts}
LastOf(opts, default) == IF Given(opts) = {} THEN default ELSE abs[Max(Given(opts))].num
FirstOf(opts, default) == IF Given(opts) = {} THEN default ELSE abs[Min(Given(opts))].text

\* What the options say, whatever their order: the first input and output
\* and the last of every other option count; the Front's input is throttled
\* when -x or -y is given, with the offset of -x if there is one; the number
\* of workers is also that of their processors unless -cw comes later; and
\* the tasks LPEL gets are of the kind the options ask for.
OptionsAgree ==
    /\ con.io.input = FirstOf({"-i", "-I"}, "stdin")
    /\ con.io.output = FirstOf({"-o", "-O"}, "stdout")
    /\ ~con.front.fatal =>
           /\ con.front.workers = LastOf({"-w"}, NumProcs)
           /\ con.front.throttle = (Given({"-x", "-y"}) # {})
           /\ con.front.offset = LastOf({"-x"}, IF Given({"-y"}) = {} THEN 0 ELSE 1)
           /\ con.front.det = /\ Given({"-FD"}) # {}
                              /\ abs[Max(Given({"-FD", "-FN"}))].opt = "-FD"
           /\ Given({"-s"}) # {} => con.front.stack >= PTHREAD_STACK_MIN
    /\ con.hrc.pinned = (Cardinality(Given({"-np"})) % 2 = 0)
    /\ con.hrc.proc_workers = LastOf({"-w", "-cw"}, 0)
    /\ HrcWindow(con.hrc) = LastOf({"-ws"}, LastOf({"-w"}, 0))
    /\ LET sosi == HrcTask(con.hrc, "box", TRUE)
           elts == IF Given({"-m"}) = {} THEN {} ELSE abs[Max(Given({"-m"}))].letters
       IN  /\ (sosi.location = "others") = (Given({"-sosi"}) # {})
           /\ (sosi.limit = NULL) = (sosi.location = "others")
           /\ HrcTask(con.hrc, "box", FALSE).limit = LastOf({"-rl"}, -1)
           /\ HrcTask(con.hrc, "collect", FALSE).limit = -1
           /\ sosi.monitored = (elts \cap {"A", "T"} # {})
           /\ sosi.mapped = (elts \cap {"A", "m"} # {})

-----------------------------------------------------------------------------
(***************************************************************************)
(* The streams of the LPEL layer (wrappers.c): a stream of LPEL with user  *)
(* data, made when the source or the read callback of the stream is first  *)
(* set.  The streams themselves are LPEL's.                                *)
(***************************************************************************)

CONSTANTS LpelStreams, Locvecs

NoUsrdata == [source |-> NULL, func |-> NULL]
CheckCreateUsrdata(c, s) == IF c.usr[s] = NULL THEN [c EXCEPT !.usr[s] = NoUsrdata] ELSE c

LpelStreamsInit ==
    /\ kind = "lpelstream"
    /\ con = [usr |-> [s \in LpelStreams |-> NULL], allocated |-> {}]
    /\ abs = [live |-> LpelStreams, source |-> EmptyFun, callback |-> EmptyFun]
    /\ ret = NoRet

UsesStream(s) == kind = "lpelstream" /\ UNCHANGED kind /\ s \in abs.live

\* A network sets the source of a stream once: a second call would not free
\* the copy of the first.
SNetStreamSetSource(s, lv) ==
    /\ UsesStream(s) /\ Silent /\ s \notin DOMAIN abs.source
    /\ con' = [CheckCreateUsrdata(con, s) EXCEPT !.usr[s].source = lv,
                                                 !.allocated = @ \cup {<<s, lv>>}]
    /\ abs' = [abs EXCEPT !.source = Updated(@, s, lv)]

SNetStreamRegisterReadCallback(s, arg) ==
    /\ UsesStream(s) /\ Silent
    /\ con' = [CheckCreateUsrdata(con, s) EXCEPT !.usr[s].func = arg]
    /\ abs' = [abs EXCEPT !.callback = Updated(@, s, arg)]

SNetStreamGetSource(c, s) == IF c.usr[s] = NULL THEN NULL ELSE c.usr[s].source

\* SNetStreamRead: the callback that is called, with its argument.
SNetStreamRead(s) ==
    /\ UsesStream(s) /\ UNCHANGED <<con, abs>>
    /\ Returned(IF con.usr[s] = NULL THEN NULL ELSE con.usr[s].func, At(abs.callback, s))

\* SNetStreamClose with its stream; the source is freed with the user data.
SNetStreamClose(s) ==
    /\ UsesStream(s) /\ Silent
    /\ con' = [con EXCEPT !.usr[s] = NULL,
                          !.allocated = @ \ {<<s, SNetStreamGetSource(con, s)>>}]
    /\ abs' = [live |-> abs.live \ {s}, source |-> Without(abs.source, s),
               callback |-> Without(abs.callback, s)]

LpelStreamsNext ==
    \E s \in LpelStreams :
        \/ SNetStreamRead(s) \/ SNetStreamClose(s)
        \/ \E lv \in Locvecs : SNetStreamSetSource(s, lv) \/ SNetStreamRegisterReadCallback(s, lv)

\* A stream has its own source and callback from when they are set to its
\* end, in whichever order they are set, and its end leaves nothing of it.
UsrdataAgrees ==
    /\ ret.got = ret.want
    /\ \A s \in LpelStreams : SNetStreamGetSource(con, s) = At(abs.source, s)
    /\ con.allocated = {<<s, abs.source[s]>> : s \in DOMAIN abs.source}

-----------------------------------------------------------------------------
(* The log of a worker and the time it waits (mon_snet.c).  The callbacks  *)
(* are registered by the flags; time is counted in ticks.                  *)

CONSTANT MaxWaits          \* bound: the waits of a worker

HasWorkerCallbacks(flags) == flags \cap {"WORKER", "TASK", "LOAD"} # {}

\* SNetThreadingMonInit and MonCbWorkerCreate.
WorkerLogInit ==
    /\ kind = "workerlog"
    /\ \E flags \in SUBSET {"WORKER", "TASK", "LOAD"} :
           con = [flags |-> flags, wait_cnt |-> 0, wait_time |-> 0, current |-> 0,
                  log |-> IF flags \cap {"WORKER", "LOAD"} = {} THEN <<>> ELSE <<"start">>,
                  open |-> HasWorkerCallbacks(flags)]
    /\ abs = [waits |-> <<>>, waiting |-> FALSE] /\ ret = NoRet

IsWorkerLog == kind = "workerlog" /\ UNCHANGED kind /\ Silent /\ con.open

MonCbWorkerWaitStart ==
    /\ IsWorkerLog /\ ~abs.waiting /\ Len(abs.waits) < MaxWaits
    /\ con' = [con EXCEPT !.wait_cnt = IF "LOAD" \in con.flags THEN @ + 1 ELSE @]
    /\ abs' = [abs EXCEPT !.waiting = TRUE]

MonCbWorkerWaitStop(ticks) ==
    /\ IsWorkerLog /\ abs.waiting
    /\ con' = [con EXCEPT
           !.current = IF con.flags \cap {"WORKER", "LOAD"} = {} THEN @ ELSE ticks,
           !.log = IF "WORKER" \in con.flags THEN Append(@, ticks) ELSE @,
           !.wait_time = IF "LOAD" \in con.flags THEN @ + ticks ELSE @]
    /\ abs' = [waits |-> Append(abs.waits, ticks), waiting |-> FALSE]

\* The statistic is printed behind the end of the log.
MonCbWorkerDestroy ==
    /\ IsWorkerLog /\ ~abs.waiting
    /\ con' = [con EXCEPT !.open = FALSE,
           !.log = @ \o (IF con.flags \cap {"WORKER", "LOAD"} = {} THEN <<>> ELSE <<"end">>)
                     \o (IF "LOAD" \in con.flags
                         THEN <<[WC |-> con.wait_cnt, WT |-> con.wait_time]>> ELSE <<>>)]
    /\ UNCHANGED abs

WorkerLogNext ==
    MonCbWorkerWaitStart \/ MonCbWorkerDestroy \/ \E ticks \in 1..2 : MonCbWorkerWaitStop(ticks)

\* The log of a worker that has ended has every wait once, in order, and the
\* statistic their number and their sum.
WorkerLogAgrees ==
    con.flags # {} /\ ~con.open =>
        LET sum == FoldLeft(LAMBDA s, w : s + w, 0, abs.waits)
        IN  con.log = (IF con.flags = {"TASK"} THEN <<>> ELSE <<"start">>)
                      \o (IF "WORKER" \in con.flags THEN abs.waits ELSE <<>>)
                      \o (IF con.flags = {"TASK"} THEN <<>> ELSE <<"end">>)
                      \o (IF "LOAD" \notin con.flags THEN <<>>
                          ELSE <<[WC |-> Len(abs.waits), WT |-> sum]>>)

=============================================================================
