------------------------------- MODULE Zipper -------------------------------
(***************************************************************************)
(* The fused star of a synchrocell of the Front runtime (xzipper.c).  The  *)
(* chain of incarnations that a star with a synchrocell as its operand     *)
(* unfolds is kept in one landing: a list of matchings, one for each cell  *)
(* that waits, in which neighbours that wait for the same patterns are     *)
(* chained behind the first of them, so that a record none of them can     *)
(* take passes all of them at once.  con.at has the matchings with their   *)
(* three pointers, con.head is the first, con.failed the line of the       *)
(* assertion that failed.                                                  *)
(*                                                                         *)
(* abs is the star itself, cell by cell (xstar.c, xsync.c).  A record is   *)
(* its labels, the number of its detref, and the records it was made from. *)
(***************************************************************************)
EXTENDS Library

CONSTANTS ZipPatterns,     \* the patterns of the cell, a sequence of label sets
          ZipExits,        \* the exit patterns of the star, a set of label sets
          ZipTypes,        \* the label sets of records that arrive
          MaxZipped        \* bound: the records that arrive

\* Records that arrive match a pattern or leave, and so does what a cell
\* makes of them: the others would unfold the star without end, and the
\* fused star fails an assertion.  That needs records that match one pattern
\* besides the first: of one that is stored for a pattern and matches another
\* too, the labels of the other pattern are lost.
ASSUME ZipperAssumption ==
    /\ \A ty \in ZipTypes :
           LET matches == {i \in DOMAIN ZipPatterns : ZipPatterns[i] \subseteq ty}
           IN  \/ matches # {} /\ Cardinality(matches \ {1}) <= 1
               \/ \E x \in ZipExits : x \subseteq ty
    /\ \E x \in ZipExits : x \subseteq UNION ToSet(ZipPatterns)

MatchExitPatterns(rec) == \E x \in ZipExits : x \subseteq rec.labels

NewCell == [unmatched |-> DOMAIN ZipPatterns,
            storage |-> [i \in DOMAIN ZipPatterns |-> NULL]]
NewMatching == [next |-> NULL, same |-> NULL, tail |-> NULL,
                unmatched |-> NewCell.unmatched, storage |-> NewCell.storage]

\* The record is stored for the first of the patterns it matches; the others
\* are only no longer sought.
MatchedBy(m, rec, tested) == {i \in tested \cap m.unmatched : ZipPatterns[i] \subseteq rec.labels}
Taken(m, rec, new) == [m EXCEPT !.unmatched = @ \ new, !.storage[Min(new)] = rec]

\* The record of the first pattern, with what each other pattern asks of the
\* record stored for it; it goes on in the place of the last one.
MergeStorage(m, rec) ==
    LET parts == {i \in DOMAIN ZipPatterns : m.storage[i] # NULL}
    IN  [labels |-> m.storage[1].labels
                        \cup UNION {m.storage[i].labels \cap ZipPatterns[i] : i \in parts},
         detref |-> rec.detref, from |-> UNION {m.storage[i].from : i \in parts}]

ZipperInit ==
    /\ kind = "zipper"
    /\ con = [head |-> NULL, at |-> EmptyFun, out |-> <<>>, destroyed |-> {},
              failed |-> 0, live |-> TRUE]
    /\ abs = [cells |-> <<>>, out |-> <<>>, arrived |-> 0]
    /\ ret = NoRet

-----------------------------------------------------------------------------
(* The landing.                                                            *)

\* An assertion of the given line; the program ends at the first that fails.
Asserted(z, line, holds) ==
    IF z.failed # 0 \/ holds THEN z ELSE [z EXCEPT !.failed = line]

FreshMatching(z) == Min((1..(Cardinality(DOMAIN z.at) + 1)) \ DOMAIN z.at)

\* The one that took a record leaves its chain: what is behind it becomes an
\* element of the list of its own.
LeavesChain(z, m) ==
    LET s == z.at[m].same
        y == Asserted(Asserted(z, 134, z.at[s].next = NULL), 137, z.at[s].tail = NULL)
    IN  IF s = NULL THEN z
        ELSE [y EXCEPT !.at[s].next = z.at[m].next, !.at[s].tail = z.at[m].tail,
                       !.at[m].next = s, !.at[m].same = NULL, !.at[m].tail = NULL]

\* It still waits, and joins the chain before it if that waits for the same.
JoinsChain(z, prev, m) ==
    LET last == z.at[prev].tail
        y == [z EXCEPT !.at[prev].next = z.at[m].next, !.at[m].next = NULL]
        x == [y EXCEPT !.at[last].same = m, !.at[prev].tail = m]
    IN  IF prev = NULL \/ z.at[prev].unmatched # z.at[m].unmatched THEN z
        ELSE IF last # NULL
        THEN Asserted(Asserted(x, 149, x.at[m].same = NULL), 150, x.at[m].tail = NULL)
        ELSE Asserted([y EXCEPT !.at[prev].same = m, !.at[prev].tail = m],
                      152, y.at[prev].same = NULL)

\* It is complete, and is removed.
Removed(z, prev, m) ==
    LET y == IF prev = NULL THEN [z EXCEPT !.head = z.at[m].next]
             ELSE [z EXCEPT !.at[prev].next = z.at[m].next]
    IN  [y EXCEPT !.at = Without(@, m)]

\* The loop of SNetNodeZipperData, at matching m behind prev; a new matching
\* at the end of the list.
RECURSIVE ZipperData(_, _, _, _, _)
ZipperData(z, prev, m, rec, untested) ==
    LET id == FreshMatching(z)
        made == [z EXCEPT !.at = Updated(@, id, NewMatching)]
        new == MatchedBy(z.at[m], rec, untested)
        y == LeavesChain([z EXCEPT !.at[m] = Taken(@, rec, new)], m)
        merged == MergeStorage(y.at[m], rec)
        x == Removed(y, prev, m)
        After(w, p, r, u) ==
            ZipperData(w, p, IF p = NULL THEN NULL ELSE w.at[p].next, r, u)
    IN  CASE z.failed # 0 -> z
          [] z.failed = 0 /\ untested = {} -> [z EXCEPT !.destroyed = @ \cup rec.from]
          [] z.failed = 0 /\ untested # {} /\ m = NULL ->
                 IF prev = NULL
                 THEN ZipperData(Asserted([made EXCEPT !.head = id], 175, z.head = NULL),
                                 NULL, id, rec, untested)
                 ELSE ZipperData(Asserted([made EXCEPT !.at[prev].next = id], 180,
                                          z.at[prev].unmatched # DOMAIN ZipPatterns),
                                 prev, id, rec, untested)
          [] z.failed = 0 /\ untested # {} /\ m # NULL ->
                 IF new = {} THEN After(z, m, rec, untested \ z.at[m].unmatched)
                 ELSE IF y.at[m].unmatched # {} THEN JoinsChain(y, prev, m)
                 ELSE IF MatchExitPatterns(merged)
                 THEN [x EXCEPT !.out = Append(@, merged)]
                 ELSE After(x, prev, merged, DOMAIN ZipPatterns)

SNetNodeZipper(c, rec) ==
    IF MatchExitPatterns(rec) THEN [c EXCEPT !.out = Append(@, rec)]
    ELSE LET z == ZipperData(c, NULL, c.head, rec, DOMAIN ZipPatterns)
         IN  [z EXCEPT !.live = z.failed = 0]

-----------------------------------------------------------------------------
(* The star: the record leaves, or goes to the cell of this incarnation,   *)
(* which is an identity once it has synchronised, and on to the next.      *)

RECURSIVE StarOfSync(_, _, _)
StarOfSync(s, k, rec) ==
    LET cells == IF k > Len(s.cells) THEN Append(s.cells, NewCell) ELSE s.cells
        new == MatchedBy(cells[k], rec, DOMAIN ZipPatterns)
        m == Taken(cells[k], rec, new)
        next == [s EXCEPT !.cells = cells]
    IN  IF MatchExitPatterns(rec) THEN [s EXCEPT !.out = Append(@, rec)]
        ELSE IF new = {} THEN StarOfSync(next, k + 1, rec)
        ELSE IF m.unmatched # {} THEN [next EXCEPT !.cells[k] = m]
        ELSE StarOfSync([next EXCEPT !.cells[k] = m], k + 1, MergeStorage(m, rec))

ZipperRec(ty) ==
    /\ IsKind("zipper") /\ con.live /\ abs.arrived < MaxZipped
    /\ LET n == abs.arrived + 1
           rec == [labels |-> ty, detref |-> n, from |-> {n}]
       IN  /\ con' = SNetNodeZipper(con, rec)
           /\ abs' = [StarOfSync(abs, 1, rec) EXCEPT !.arrived = n]
    /\ Silent

RECURSIVE Chain(_, _)
Chain(at, m) == IF m = NULL THEN <<>> ELSE <<m>> \o Chain(at, at[m].same)
RECURSIVE Heads(_, _)
Heads(at, m) == IF m = NULL THEN <<>> ELSE <<m>> \o Heads(at, at[m].next)

Matchings(z) ==
    FlattenSeq([i \in DOMAIN Heads(z.at, z.head) |-> Chain(z.at, Heads(z.at, z.head)[i])])
AsCell(m) == [unmatched |-> m.unmatched, storage |-> m.storage]
HeldBy(ms) == UNION {UNION {m.storage[i].from : i \in {j \in DOMAIN m.storage :
                                 j \notin m.unmatched /\ m.storage[j] # NULL}} : m \in ToSet(ms)}

\* SNetTermZipper: the records that still wait are destroyed.
SNetTermZipper ==
    /\ IsKind("zipper") /\ con.live
    /\ con' = [con EXCEPT !.head = NULL, !.at = EmptyFun, !.live = FALSE,
                          !.destroyed = @ \cup HeldBy([i \in DOMAIN Matchings(con) |->
                                                          con.at[Matchings(con)[i]]])]
    /\ UNCHANGED abs /\ Silent

ZipperNext == SNetTermZipper \/ \E ty \in ZipTypes : ZipperRec(ty)

-----------------------------------------------------------------------------
\* The fused star writes what the star of synchrocells writes, in its order
\* and with the same detrefs; its matchings are the cells that wait; those
\* of a chain wait for the same patterns and its first one points to its
\* last; every record is written, held or, in the end, destroyed.  The
\* assertions hold but for match->tail == NULL (xzipper.c:137, 150), and that
\* fails only for a matching that points to itself, which line 138 makes of
\* the last one of a chain.  The program ends there.
ZipperAgrees ==
    LET waits == SelectSeq(abs.cells, LAMBDA m : m.unmatched # {})
        ids == Matchings(con)
    IN  /\ ret.got = ret.want
        /\ con.failed \in {0, 137, 150}
        /\ IF con.failed # 0 THEN IsPrefix(con.out, abs.out) ELSE con.out = abs.out
        /\ con.live =>
               /\ [i \in DOMAIN ids |-> AsCell(con.at[ids[i]])] = waits
               /\ con.destroyed = {}
               /\ \A m \in ToSet(Heads(con.at, con.head)) :
                      LET chain == Chain(con.at, m)
                      IN  /\ con.at[m].tail = Last(chain) \/ (chain = <<m>> /\ con.at[m].tail = NULL)
                          /\ \A s \in ToSet(chain) \ {m} :
                                 /\ con.at[s].unmatched = con.at[m].unmatched
                                 /\ con.at[s].tail \in {NULL, s}
        /\ ~con.live /\ con.failed = 0 => con.destroyed = HeldBy(waits)
        /\ HeldBy(waits) \cup UNION {r.from : r \in ToSet(abs.out)} = 1..abs.arrived
=============================================================================
