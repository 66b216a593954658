-------------------------------- MODULE Scc --------------------------------
(***************************************************************************)
(* The distribution layer on the SCC processor (distrib/scc): messages and *)
(* references between its cores.                                           *)
(***************************************************************************)
EXTENDS Library

(***************************************************************************)
(* The messages of the SCC transport (distrib/scc): every core has in its  *)
(* message passing buffer a ring of bytes that other cores, and its own    *)
(* threads, write under a lock of the hardware, and that its input manager *)
(* reads.  The reader sleeps when the ring is empty; HANDLING tells the    *)
(* writers whether it has to be interrupted.  A writer that finds the ring *)
(* full gives up the lock and tries again; WRITING keeps other writers off *)
(* meanwhile, but not in the middle of a part.                             *)
(*                                                                         *)
(* A step is what one thread does while it has the lock.  A message is the *)
(* sequence of parts that the calls of cpy_mem_to_mpb write; a byte is its *)
(* message and its place in it.                                            *)
(***************************************************************************)

CONSTANTS B_SIZE,          \* the size of the ring
          Outbox           \* what each sender sends: a sequence of types

\* The bytes of an int, a type, a destination, a reference, an address.
IntSize == 1

(* The messages, as transmit.c writes them and as SNetDistribRecvMsg reads *)
(* them; a record is a header and references, and C4SNet data a header and *)
(* for an array the address and size of its elements, which stay behind.   *)

SNetDistribSendRecord == <<IntSize, 2 * IntSize, IntSize>>
SNetDistribFetchRef == <<IntSize, IntSize, IntSize>>
SNetDistribUpdateRef == <<IntSize, IntSize, IntSize>>
SNetDistribUpdateBlocked == <<IntSize>>
SNetDistribBlockDest == <<IntSize, IntSize>>
SNetDistribPack(remap) == IF remap THEN <<IntSize, IntSize, IntSize>> ELSE <<IntSize>>
SNetDistribSendData(remap) ==
    <<IntSize, IntSize>> \o (IF remap THEN <<>> ELSE <<IntSize>>) \o SNetDistribPack(remap)

Sent(type, remap) ==
    CASE type = "snet_rec" -> SNetDistribSendRecord
      [] type = "snet_ref_fetch" -> SNetDistribFetchRef
      [] type = "snet_ref_update" -> SNetDistribUpdateRef
      [] type = "snet_ref_set" -> SNetDistribSendData(remap)
      [] type \in {"snet_block", "snet_unblock"} -> SNetDistribBlockDest
      [] type \in {"snet_update", "snet_stop"} -> SNetDistribUpdateBlocked

\* What is read after the type.
SNetDistribUnpack(remap) == IF remap THEN 3 * IntSize ELSE IntSize
ReadAfter(type, remap) ==
    CASE type = "snet_rec" -> 2 * IntSize + IntSize
      [] type \in {"snet_block", "snet_unblock"} -> IntSize
      [] type = "snet_ref_set" ->
             IntSize + (IF remap THEN 0 ELSE IntSize) + SNetDistribUnpack(remap)
      [] type \in {"snet_ref_fetch", "snet_ref_update"} -> IntSize + IntSize
      [] OTHER -> 0

\* The message as parts of bytes.
MessageBytes(msg, sizes) ==
    LET before(i) == FoldFunctionOnSet(+, 0, sizes, 1..(i - 1))
    IN  [i \in DOMAIN sizes |-> [k \in 1..sizes[i] |-> [msg |-> msg, at |-> before(i) + k]]]

Senders == DOMAIN Outbox

MailboxInit ==
    /\ kind = "mailbox"
    /\ \E remap \in BOOLEAN :
           con = [remap |-> remap, mpb |-> [i \in 0..(B_SIZE - 1) |-> NULL],
                  start |-> 0, end |-> 0, HANDLING |-> TRUE, WRITING |-> FALSE,
                  handling |-> TRUE, reader |-> "call", signal |-> FALSE,
                  parts |-> [s \in Senders |-> <<>>], got |-> <<>>, torn |-> FALSE]
    /\ abs = [next |-> [s \in Senders |-> 1], begun |-> <<>>, unread |-> <<>>,
              released |-> FALSE]
    /\ ret = NoRet

IsMailbox == kind = "mailbox" /\ UNCHANGED kind /\ ~con.torn /\ Silent

-----------------------------------------------------------------------------
\* The room in front of the writer, up to the end of the buffer.
FreeBytes(c) == IF c.end < c.start THEN c.start - c.end - 1
                ELSE B_SIZE - c.end - (IF c.start = 0 THEN 1 ELSE 0)

\* The loop of cpy_mem_to_mpb, for this part and those that follow, until the
\* message is complete or there is no room.
RECURSIVE cpy_mem_to_mpb(_, _)
cpy_mem_to_mpb(c, parts) ==
    LET src == Head(parts)
        free == Min({FreeBytes(c), Len(src)})
        copied == [c EXCEPT
            !.mpb = [i \in DOMAIN @ |-> IF i \in c.end..(c.end + free - 1)
                                        THEN src[i - c.end + 1] ELSE @[i]],
            !.end = (@ + free) % B_SIZE, !.WRITING = FALSE]
    IN  IF free = 0 THEN [c |-> c, parts |-> parts]
        ELSE IF free < Len(src)
        THEN cpy_mem_to_mpb(copied, <<SubSeq(src, free + 1, Len(src))>> \o Tail(parts))
        ELSE IF Tail(parts) = <<>> THEN [c |-> copied, parts |-> <<>>]
        ELSE cpy_mem_to_mpb([copied EXCEPT !.WRITING = TRUE], Tail(parts))

\* stop_write_node interrupts a reader that does not read.
stop_write_node(c) == [c EXCEPT !.signal = @ \/ ~c.HANDLING]

\* What sender s does until it gives up the lock.
Writes(s, c, parts, begun) ==
    LET w == cpy_mem_to_mpb(c, parts)
        n == Len(FlattenSeq(parts)) - Len(FlattenSeq(w.parts))
        all == Len(FlattenSeq(MessageBytes(<<>>, Sent(Outbox[s][abs.next[s]], c.remap))))
    IN  /\ con' = [(IF w.parts = <<>> THEN stop_write_node(w.c) ELSE w.c)
                       EXCEPT !.parts[s] = w.parts]
        /\ abs' = [abs EXCEPT
               !.begun = begun,
               !.unread = @ \o SubSeq(FlattenSeq(parts), 1, n),
               !.next[s] = IF w.parts = <<>> THEN @ + 1 ELSE @,
               !.released = @ \/ Len(FlattenSeq(w.parts)) \in 1..(all - 1)]

\* start_write_node waits for WRITING as well as for the lock.
start_write_node(s) ==
    /\ IsMailbox /\ con.parts[s] = <<>> /\ abs.next[s] <= Len(Outbox[s]) /\ ~con.WRITING
    /\ LET msg == <<s, abs.next[s]>>
       IN  Writes(s, [con EXCEPT !.WRITING = TRUE],
                  MessageBytes(msg, Sent(Outbox[s][abs.next[s]], con.remap)),
                  Append(abs.begun, msg))

\* The writer that found no room has slept and has the lock again.
WriteAgain(s) ==
    /\ IsMailbox /\ con.parts[s] # <<>> /\ FreeBytes(con) > 0
    /\ Writes(s, con, con.parts[s], abs.begun)

-----------------------------------------------------------------------------
\* cpy_mpb_to_mem: it does not look whether so much is there.
RECURSIVE cpy_mpb_to_mem(_, _)
cpy_mpb_to_mem(c, size) ==
    LET cpy == IF c.end < c.start THEN Min({size, B_SIZE - c.start}) ELSE size
        rest == cpy_mpb_to_mem([c EXCEPT !.start = (@ + cpy) % B_SIZE], size - cpy)
    IN  IF size = 0 THEN [start |-> c.start, dst |-> <<>>]
        ELSE [start |-> rest.start,
              dst |-> [k \in 1..cpy |-> At(c.mpb, c.start + k - 1)] \o rest.dst]

\* The reader sleeps until it is interrupted.
RecvWait ==
    /\ IsMailbox /\ ~con.handling /\ con.reader = "call" /\ con.signal
    /\ con' = [con EXCEPT !.signal = FALSE, !.reader = "woken"]
    /\ UNCHANGED abs

\* With the lock: there is nothing, or a message is read.
SNetDistribRecvMsg ==
    /\ IsMailbox /\ (con.handling \/ con.reader = "woken")
    /\ IF con.start = con.end
       THEN /\ con' = [con EXCEPT !.handling = FALSE, !.HANDLING = FALSE, !.reader = "call"]
            /\ UNCHANGED abs
       ELSE LET type == cpy_mpb_to_mem(con, IntSize)
                msg == type.dst[1].msg
                sizes == Sent(Outbox[msg[1]][msg[2]], con.remap)
                body == cpy_mpb_to_mem([con EXCEPT !.start = type.start],
                            ReadAfter(Outbox[msg[1]][msg[2]], con.remap))
                whole == type.dst \o body.dst = FlattenSeq(MessageBytes(msg, sizes))
            IN  /\ con' = [con EXCEPT !.handling = TRUE, !.HANDLING = TRUE,
                               !.reader = "call", !.start = body.start,
                               !.got = Append(@, msg), !.torn = ~whole]
                /\ abs' = IF ~whole THEN abs
                          ELSE [abs EXCEPT !.unread = SubSeq(@, Len(type.dst \o body.dst) + 1, Len(@))]

MailboxNext ==
    \/ \E s \in Senders : start_write_node(s) \/ WriteAgain(s)
    \/ RecvWait \/ SNetDistribRecvMsg

-----------------------------------------------------------------------------
\* The bytes from start to end.
Content(c) == [k \in 1..((c.end - c.start + B_SIZE) % B_SIZE) |->
                  c.mpb[(c.start + k - 1) % B_SIZE]]

\* The ring has the bytes that were written and not read, and the reader is
\* awake, or will be, when a message is there.  As long as every message found
\* room for all of its bytes, messages arrive whole and in order.  Nothing is
\* said of a ring that was full in the middle of a message: the writer gives
\* up the lock, and what the reader then takes for a message may be none.
MailboxKept ==
    /\ ~con.torn => Content(con) = abs.unread
    /\ con.start # con.end /\ (\A s \in Senders : con.parts[s] = <<>>) =>
           con.handling \/ con.signal \/ con.reader = "woken"
    /\ con.handling <=> con.HANDLING
    /\ con.torn => abs.released
    /\ ~abs.released => IsPrefix(con.got, abs.begun)

-----------------------------------------------------------------------------
(***************************************************************************)
(* References of the SCC build (distrib/scc/sccref.c): a datum of one core *)
(* and the references to it on another.  The owner's localRefMap counts    *)
(* the references abroad; the other core's remoteRefMap counts those it    *)
(* has, and keeps the datum once it was fetched.  Messages of one core to  *)
(* another stay in order (Mailbox).  With remap the pages of the datum are *)
(* mapped instead of copied: a reference then stays a remote one until its *)
(* datum is taken or it is destroyed, and a fetch does not consume it.     *)
(*                                                                         *)
(* con.users is what the box language counts: the users of the datum.  abs *)
(* has the references that programs hold on the two cores, and those of    *)
(* readers that have their datum and still have to give up the reference.  *)
(***************************************************************************)

CONSTANTS MaxRefs,         \* bound: the references made, by creation or copy
          MaxUnread        \* bound: the messages to the owner

NoRefcount == [count |-> 0, data |-> FALSE, list |-> <<>>]

SccRefInit ==
    /\ kind = "sccref"
    /\ \E remap \in BOOLEAN :
           con = [remap |-> remap, users |-> 0, local |-> 0, remote |-> NoRefcount,
                  toOwner |-> <<>>, toReader |-> <<>>, missing |-> FALSE]
    /\ abs = [owner |-> 0, reader |-> 0, taking |-> 0, made |-> 0]
    /\ ret = NoRet

IsSccRef == kind = "sccref" /\ UNCHANGED kind /\ Silent

Tell(c, msg) == [c EXCEPT !.toOwner = Append(@, msg)]
MayTell == Len(con.toOwner) < MaxUnread

\* The entry of the remoteRefMap goes with its last reference.
OneRefLess(c) ==
    IF c.remote.count = 0 THEN [c EXCEPT !.missing = TRUE]
    ELSE IF c.remote.count = 1 THEN [c EXCEPT !.remote = NoRefcount]
    ELSE [c EXCEPT !.remote.count = @ - 1]

-----------------------------------------------------------------------------
(* The owner.                                                              *)

\* A new datum, at an address that is free.
SNetRefCreate ==
    /\ IsSccRef /\ con.users = 0 /\ abs.made < MaxRefs
    /\ con' = [con EXCEPT !.users = 1]
    /\ abs' = [abs EXCEPT !.owner = 1, !.made = @ + 1]

OwnerCopies ==
    /\ IsSccRef /\ abs.owner > 0 /\ abs.made < MaxRefs
    /\ con' = [con EXCEPT !.users = @ + 1]
    /\ abs' = [abs EXCEPT !.owner = @ + 1, !.made = @ + 1]

OwnerDestroys ==
    /\ IsSccRef /\ abs.owner > 0
    /\ con' = [con EXCEPT !.users = @ - 1]
    /\ abs' = [abs EXCEPT !.owner = @ - 1]

\* SNetRefOutgoing: the first reference that leaves makes the map a user.
OwnerSends ==
    /\ IsSccRef /\ abs.owner > 0
    /\ con' = [con EXCEPT !.local = @ + 1, !.users = IF con.local > 0 THEN @ - 1 ELSE @,
                          !.toReader = Append(@, "rec")]
    /\ abs' = [abs EXCEPT !.owner = @ - 1]

\* SNetRefUpdate
UpdatedCount(c, value) ==
    IF c.local = 0 THEN [c EXCEPT !.missing = TRUE]
    ELSE [c EXCEPT !.local = @ + value, !.users = IF c.local + value = 0 THEN @ - 1 ELSE @]

\* A message arrives: SNetRefIncoming of a reference that comes home,
\* SNetRefUpdate, or a fetch, which with remap leaves the count alone.
OwnerReceives ==
    /\ IsSccRef /\ con.toOwner # <<>>
    /\ LET msg == Head(con.toOwner)
           c == [con EXCEPT !.toOwner = Tail(@)]
       IN  /\ con' = CASE msg = "rec" ->
                            IF c.local = 0 THEN [c EXCEPT !.missing = TRUE]
                            ELSE [c EXCEPT !.local = @ - 1,
                                           !.users = IF c.local = 1 THEN @ ELSE @ + 1]
                       [] msg = "fetch" ->
                            LET s == [c EXCEPT !.toReader = Append(@, "set")]
                            IN  IF c.remap THEN s ELSE UpdatedCount(s, -1)
                       [] msg = "more" -> UpdatedCount(c, 1)
                       [] msg = "less" -> UpdatedCount(c, -1)
           /\ abs' = IF msg = "rec" THEN [abs EXCEPT !.owner = @ + 1] ELSE abs

-----------------------------------------------------------------------------
(* The other core.                                                         *)

\* SNetRefCopy: the copy of a reference whose datum was fetched is local,
\* unless it is mapped.
ReaderCopies ==
    /\ IsSccRef /\ abs.reader > 0 /\ abs.made < MaxRefs /\ MayTell
    /\ IF ~con.remap /\ con.remote.data THEN UNCHANGED <<con, abs>>
       ELSE /\ con' = Tell([con EXCEPT !.remote.count = @ + 1], "more")
            /\ abs' = [abs EXCEPT !.reader = @ + 1, !.made = @ + 1]

\* SNetRefDestroy
ReaderDestroys ==
    /\ IsSccRef /\ abs.reader > 0 /\ MayTell
    /\ con' = Tell(OneRefLess(con), "less")
    /\ abs' = [abs EXCEPT !.reader = @ - 1]

\* SNetRefOutgoing: the reference goes home with a record.
ReaderSends ==
    /\ IsSccRef /\ abs.reader > 0 /\ MayTell
    /\ con' = Tell(OneRefLess(con), "rec")
    /\ abs' = [abs EXCEPT !.reader = @ - 1]

\* GetData, called by SNetRefGetData or SNetRefTakeData.  Readers of a datum
\* that is not there share one fetch.
GetData(call) ==
    /\ IsSccRef /\ abs.reader > 0 /\ MayTell
    /\ IF ~con.remote.data
       THEN /\ con' = LET c == [con EXCEPT !.remote.list = Append(@, call)]
                      IN  IF con.remote.list = <<>> THEN Tell(c, "fetch") ELSE c
            /\ abs' = [abs EXCEPT !.reader = @ - 1]
       ELSE IF con.remap
       THEN /\ UNCHANGED con
            /\ abs' = IF call = "get" THEN abs
                      ELSE [abs EXCEPT !.reader = @ - 1, !.taking = @ + 1]
       ELSE /\ con' = Tell(OneRefLess(con), "less")
            /\ abs' = [abs EXCEPT !.reader = @ - 1]

\* The rest of SNetRefTakeData with remap.
SNetRefTakeData ==
    /\ IsSccRef /\ abs.taking > 0 /\ MayTell
    /\ con' = Tell(OneRefLess(con), "less")
    /\ abs' = [abs EXCEPT !.taking = @ - 1]

\* SNetRefSet: the readers get the datum; unless it is mapped they give up
\* their references here, for the core's own count.
SNetRefSet(c) ==
    LET left == c.remote.count - (IF c.remap THEN 0 ELSE Len(c.remote.list))
    IN  IF c.remote.count = 0 THEN [c EXCEPT !.missing = TRUE]
        ELSE [c EXCEPT !.remote = IF left > 0 THEN [count |-> left, data |-> TRUE, list |-> <<>>]
                                  ELSE NoRefcount]

ReaderReceives ==
    /\ IsSccRef /\ con.toReader # <<>>
    /\ LET c == [con EXCEPT !.toReader = Tail(@)]
           By(call) == Len(SelectSeq(con.remote.list, LAMBDA x : x = call))
       IN  IF Head(con.toReader) = "rec"
           THEN /\ con' = [c EXCEPT !.remote.count = @ + 1]
                /\ abs' = [abs EXCEPT !.reader = @ + 1]
           ELSE /\ con' = SNetRefSet(c)
                /\ abs' = IF ~con.remap THEN abs
                          ELSE [abs EXCEPT !.reader = @ + By("get"), !.taking = @ + By("take")]

SccRefNext ==
    \/ SNetRefCreate \/ OwnerCopies \/ OwnerDestroys \/ OwnerSends \/ OwnerReceives
    \/ ReaderCopies \/ ReaderDestroys \/ ReaderSends \/ SNetRefTakeData \/ ReaderReceives
    \/ \E call \in {"get", "take"} : GetData(call)

-----------------------------------------------------------------------------
Unread(q, msg) == Cardinality({i \in DOMAIN q : q[i] = msg})

\* No reference is looked up in vain; the datum lives as long as a reference
\* to it anywhere; readers that wait have a fetch or an answer under way.
\* What the owner counts is, with the messages to it, never less than what is
\* abroad, so that nothing is freed too early; with remap it is that number.
\* Without remap it is not: readers that share a fetch are counted out once,
\* the datum is never freed and the assertion of sccref.c:88 does not hold.
SccRefKept ==
    LET readers == Len(con.remote.list)
        abroad == con.remote.count + Unread(con.toReader, "rec") + Unread(con.toOwner, "rec")
        coming == Unread(con.toOwner, "more") - Unread(con.toOwner, "less")
                      + (IF con.remap THEN 0 ELSE Unread(con.toReader, "set"))
    IN  /\ ~con.missing
        /\ con.remote.count = abs.reader + abs.taking + readers
        /\ con.users = abs.owner + (IF con.local > 0 THEN 1 ELSE 0)
        /\ abroad > 0 => con.users > 0 \/ (~con.remap /\ Unread(con.toReader, "set") > 0)
        /\ readers > 0 <=> Unread(con.toOwner, "fetch") + Unread(con.toReader, "set") = 1
        /\ con.local + coming >= abroad
        /\ con.remap => con.local + coming = abroad

=============================================================================
