------------------------------ MODULE Records ------------------------------
(***************************************************************************)
(* Data records and the data they refer to.  Sources:                      *)
(*   src/src/runtime/common/record.c        the record and its entries     *)
(*   src/src/runtime/stream/entity/out.c    a box's output                 *)
(*   src/src/runtime/stream/entity/filter.c a filter's instructions        *)
(*   src/src/runtime/stream/entity/syncro.c the merge of a synchrocell     *)
(*   src/src/runtime/common/expression.c    guards and tag expressions     *)
(*   src/src/interfaces/c4snet/C4SNet.c     the data's reference count     *)
(*                                                                         *)
(* A heap h has the records (h.rec, NULL for a free slot) and, for every   *)
(* piece of data, its reference count (0: freed) and the number of         *)
(* references that were dropped without releasing them (h.leaked), which is  *)
(* what SNetRecSetField does to the reference it overwrites; h.ended: the  *)
(* program has ended with a failed assertion.                              *)
(***************************************************************************)
EXTENDS Library, Zipper

CONSTANTS RecSlots, Data,
          ExprError      \* stands for the runtime error that ends the program

ASSUME RecordsAssumption == IsFiniteSet(Data) /\ IsFiniteSet(RecSlots)

(***************************************************************************)
(* Guard and tag expressions (src/src/runtime/common/expression.c): the    *)
(* trees the constructors SNetEadd, SNetEeq, ... build and their           *)
(* evaluation on a record's tags.  The division and the remainder are C's, *)
(* which round towards zero.                                               *)
(***************************************************************************)
\* The constructors, by the type of node CreateExpr allocates.
ConstI(i) == [type |-> "CONSTI", val |-> i]
ConstB(b) == [type |-> "CONSTB", bool |-> b]
TagExpr(t, id) == [type |-> t, id |-> id]
MonOp(t, a) == [type |-> t, expr |-> <<a>>]
BinOp(t, a, b) == [type |-> t, expr |-> <<a, b>>]

isBoolean(e) ==
    e.type \in {"CONSTB", "EQ", "NE", "GT", "GE", "LT", "LE", "AND", "OR", "NOT"}

Abs(n) == IF n < 0 THEN -n ELSE n

CDiv(a, b) ==
    IF (a < 0) = (b < 0) THEN Abs(a) \div Abs(b) ELSE -(Abs(a) \div Abs(b))

CMod(a, b) == a - b * CDiv(a, b)

\* SNetEevaluateInt; an operand that is an error, an unknown tag and a
\* division by zero end the program.
RECURSIVE SNetEevaluateInt(_, _)
SNetEevaluateInt(e, rec) ==
    LET a == SNetEevaluateInt(e.expr[1], rec)
        b == SNetEevaluateInt(e.expr[2], rec)
        Both(v) == IF ExprError \in {a, b} THEN ExprError ELSE v
    IN  CASE e.type = "NULL" -> 1              \* no expression at all
          [] e.type = "CONSTI" -> e.val
          [] e.type = "TAG" ->
                 IF e.id \in DOMAIN rec.tags THEN rec.tags[e.id] ELSE ExprError
          [] e.type = "BTAG" ->
                 IF e.id \in DOMAIN rec.btags THEN rec.btags[e.id] ELSE ExprError
          [] e.type = "ABS" -> IF a = ExprError THEN a ELSE Abs(a)
          [] e.type = "MIN" -> Both(IF a < b THEN a ELSE b)
          [] e.type = "MAX" -> Both(IF a > b THEN a ELSE b)
          [] e.type = "ADD" -> Both(a + b)
          [] e.type = "MUL" -> Both(a * b)
          [] e.type = "SUB" -> Both(a - b)
          [] e.type = "DIV" -> IF b = 0 THEN ExprError ELSE Both(CDiv(a, b))
          [] e.type = "MOD" -> IF b = 0 THEN ExprError ELSE Both(CMod(a, b))
          [] OTHER -> ExprError

\* isEqualOp, isGreaterOp and isLessOp: equality is on Booleans when the
\* first operand is one, the other two are on integers.
RECURSIVE SNetEevaluateBool(_, _)
SNetEevaluateBool(e, rec) ==
    LET BoolOf(i) == SNetEevaluateBool(e.expr[i], rec)
        IntOf(i) == SNetEevaluateInt(e.expr[i], rec)
        Strict(S, v) == IF ExprError \in S THEN ExprError ELSE v
        isEqualOp == IF isBoolean(e.expr[1])
                     THEN Strict({BoolOf(1), BoolOf(2)}, BoolOf(1) = BoolOf(2))
                     ELSE Strict({IntOf(1), IntOf(2)}, IntOf(1) = IntOf(2))
        isGreaterOp == Strict({IntOf(1), IntOf(2)}, IntOf(1) > IntOf(2))
        isLessOp == Strict({IntOf(1), IntOf(2)}, IntOf(1) < IntOf(2))
        \* C's && and || leave the second operand out when the first decides.
        Or(p, q) == IF p = FALSE THEN q ELSE p
        And(p, q) == IF p = TRUE THEN q ELSE p
        Not(p) == IF p = ExprError THEN p ELSE ~p
    IN  CASE e.type = "NULL" -> TRUE
          [] e.type = "CONSTB" -> e.bool
          [] e.type = "EQ" -> isEqualOp
          [] e.type = "NE" -> Not(isEqualOp)
          [] e.type = "GT" -> isGreaterOp
          [] e.type = "GE" -> Or(isGreaterOp, isEqualOp)
          [] e.type = "LT" -> isLessOp
          [] e.type = "LE" -> Or(isLessOp, isEqualOp)
          [] e.type = "AND" -> And(BoolOf(1), BoolOf(2))
          [] e.type = "OR" -> Or(BoolOf(1), BoolOf(2))
          [] e.type = "NOT" -> Not(BoolOf(1))
          [] OTHER -> ExprError

-----------------------------------------------------------------------------
\* The map as a function.
AsFun(m) ==
    [k \in {m.slots[i].key : i \in 0..(m.used - 1)} |-> SNetMapGet(m, k)]

NewRec(mode, iface) ==
    [fields |-> SNetMapCreate(<<>>), tags |-> SNetMapCreate(<<>>),
     btags |-> SNetMapCreate(<<>>), mode |-> mode, interface_id |-> iface]

\* A record with its tags as functions, for the expressions.
TagsOf(r) == [tags |-> AsFun(r.tags), btags |-> AsFun(r.btags)]

FreeSlots(h) == {s \in RecSlots : h.rec[s] = NULL}
NewSlot(h) == CHOOSE s \in FreeSlots(h) : TRUE
FreshData(h) == {d \in Data : h.count[d] = 0}

\* C4SNetShallowCopy (by SNetRefCopy) and C4SNetFree (by SNetRefDestroy) of
\* local data.
RefCopy(h, d) == [h EXCEPT !.count[d] = @ + 1]
RefDestroy(h, d) == [h EXCEPT !.count[d] = @ - 1]

\* C4SNetCreate, C4SNetAlloc and SNetRefCreate: the first reference.
RefCreate(h, d) == [h EXCEPT !.count[d] = 1]

SNetRecHasField(r, name) == SNetMapContains(r.fields, name)

\* A reference that is overwritten is never released.
SNetRecSetField(h, s, name, d) ==
    LET old == h.rec[s].fields
        over == IF SNetMapContains(old, name) THEN {SNetMapGet(old, name)} ELSE {}
    IN  [h EXCEPT !.rec[s].fields = SNetMapSet(@, name, d),
                  !.leaked = [x \in Data |-> IF x \in over THEN @[x] + 1 ELSE @[x]]]

SNetRecTakeField(h, s, name) ==
    [h EXCEPT !.rec[s].fields = SNetMapTake(@, name)]

SNetRecSetTag(h, s, name, val) ==
    [h EXCEPT !.rec[s].tags = SNetMapSet(@, name, val)]

SNetRecSetBTag(h, s, name, val) ==
    [h EXCEPT !.rec[s].btags = SNetMapSet(@, name, val)]

SNetRecTakeTag(h, s, name) == [h EXCEPT !.rec[s].tags = SNetMapTake(@, name)]

\* Every field's reference is released, then the record is freed.
SNetRecDestroy(h, s) ==
    [FoldLeft(LAMBDA g, f : RefDestroy(g, f.val), h, Slots(h.rec[s].fields))
     EXCEPT !.rec[s] = NULL]

\* The copy of the field map copies every reference (MAP_VAL_COPY_FUN).
SNetRecCopy(h, s, t) ==
    LET r == h.rec[s]
        copied == FoldLeft(LAMBDA g, f : RefCopy(g, f.val), h, Slots(r.fields))
    IN  [copied EXCEPT !.rec[t] = [r EXCEPT !.fields = SNetMapCopy(r.fields),
                                            !.tags = SNetMapCopy(r.tags),
                                            !.btags = SNetMapCopy(r.btags)]]

\* A pattern or a variant is a record of sets of names.
SNetRecPatternMatches(pat, r) ==
    /\ \A n \in pat.fields : SNetRecHasField(r, n)
    /\ \A n \in pat.tags : SNetMapContains(r.tags, n)
    /\ \A n \in pat.btags : SNetMapContains(r.btags, n)

\* A faulty variant: inherited fields share the reference instead of
\* copying it.
FlowInheritShares(h, pat, s, t) ==
    FoldLeft(LAMBDA g, f : SNetRecSetField(g, t, f.key, f.val), h,
             SelectSeq(Slots(h.rec[s].fields), LAMBDA f : f.key \notin pat.fields))

\* The excess fields and tags of record s go to record t; binding tags do
\* not.
SNetRecFlowInherit(h, pat, s, t) ==
    LET fields == SelectSeq(Slots(h.rec[s].fields),
                            LAMBDA f : f.key \notin pat.fields)
        tags == SelectSeq(Slots(h.rec[s].tags), LAMBDA g : g.key \notin pat.tags)
        withFields ==
            FoldLeft(LAMBDA g, f : SNetRecSetField(RefCopy(g, f.val), t, f.key, f.val),
                     h, fields)
    IN  FoldLeft(LAMBDA g, x : SNetRecSetTag(g, t, x.key, x.val), withFields, tags)

\* SNetOutRawV (and SNetOutRawArray, with the values in arrays): a new
\* record of the given variant with the box's values, then the excess of the
\* record the box was called with, unless that was a trigger for the
\* initialiser (s = NULL).
SNetOutRawV(h, s, t, id, variant, data, val) ==
    LET mode == IF s = NULL THEN "textual" ELSE h.rec[s].mode
        new == [h EXCEPT !.rec[t] = NewRec(mode, id)]
        fields == FoldLeft(LAMBDA g, n :
                               SNetRecSetField(RefCreate(g, data[n]), t, n, data[n]),
                           new, SetToSeq(variant.fields))
        tags == FoldLeft(LAMBDA g, n : SNetRecSetTag(g, t, n, val), fields,
                         SetToSeq(variant.tags))
        all == FoldLeft(LAMBDA g, n : SNetRecSetBTag(g, t, n, val), tags,
                        SetToSeq(variant.btags))
    IN  IF s = NULL THEN all ELSE SNetRecFlowInherit(all, variant, s, t)

\* The box function takes the entries of its input type and releases the
\* data when it is done.
BoxTakes(h, s, intype) ==
    LET fields == FoldLeft(LAMBDA g, n :
                      SNetRecTakeField(RefDestroy(g, SNetMapGet(g.rec[s].fields, n)),
                                       s, n),
                      h, SetToSeq(intype.fields))
    IN  FoldLeft(LAMBDA g, n : SNetRecTakeTag(g, s, n), fields,
                 SetToSeq(intype.tags))

\* One list of filter instructions: a new record with the entries the
\* instructions compute from the input record, then its excess.
FilterRecord(h, s, t, intype, instrs) ==
    LET in == h.rec[s]
        Apply(g, i) ==
            CASE i.opcode = "snet_tag" ->
                     SNetRecSetTag(g, t, i.name, SNetEevaluateInt(i.expr, TagsOf(in)))
              [] i.opcode = "snet_btag" ->
                     SNetRecSetBTag(g, t, i.name, SNetEevaluateInt(i.expr, TagsOf(in)))
              [] i.opcode = "snet_field" ->
                     LET d == SNetMapGet(in.fields, i.name)
                     IN  SNetRecSetField(RefCopy(g, d), t, i.newName, d)
              [] OTHER -> g
        new == [h EXCEPT !.rec[t] = NewRec(in.mode, in.interface_id)]
    IN  SNetRecFlowInherit(FoldLeft(Apply, new, instrs), intype, s, t)

\* The merge of a synchrocell: a copy of the first record, with the entries
\* of the others that their patterns name; then all are destroyed.
MergeFromStorage(h, s1, s2, t, pat2) ==
    LET copy == SNetRecCopy(h, s1, t)
        fields == FoldLeft(LAMBDA g, f :
                               SNetRecSetField(RefCopy(g, f.val), t, f.key, f.val),
                           copy,
                           SelectSeq(Slots(h.rec[s2].fields),
                                     LAMBDA f : f.key \in pat2.fields))
        tags == FoldLeft(LAMBDA g, x : SNetRecSetTag(g, t, x.key, x.val), fields,
                         SelectSeq(Slots(h.rec[s2].tags),
                                   LAMBDA x : x.key \in pat2.tags))
    IN  SNetRecDestroy(SNetRecDestroy(tags, s1), s2)

\* The record as SNetRecSerialise packs it, its references moved into the
\* buffer.
SNetRecSerialise(r) ==
    SNetMapSerialise(r.btags) \o SNetMapSerialise(r.tags)
        \o SNetMapSerialise(r.fields) \o <<r.mode, r.interface_id>>

\* SNetRecDeserialise: both of the last two values go to the mode, the
\* interface stays that of a new record.
SNetRecDeserialise(buf) ==
    LET b1 == AfterMap(buf)
        b2 == AfterMap(b1)
        b3 == AfterMap(b2)
    IN  [btags |-> SNetMapDeserialise(buf), tags |-> SNetMapDeserialise(b1),
         fields |-> SNetMapDeserialise(b2), mode |-> b3[2], interface_id |-> 0]

-----------------------------------------------------------------------------
\* The references to d in the records' fields.
Holders(h, d) ==
    FoldSet(LAMBDA s, n :
                n + Cardinality({i \in 0..(h.rec[s].fields.used - 1) :
                                     h.rec[s].fields.slots[i].val = d}),
            0, {s \in RecSlots : h.rec[s] # NULL})

-----------------------------------------------------------------------------
(***************************************************************************)
(* The life of data records: the input creates them, boxes, filters and    *)
(* synchrocells turn them into others, the distribution layer packs and    *)
(* unpacks them, and the output destroys them.  con is the heap of module  *)
(* Records; abs has the same records as plain functions from names.        *)
(***************************************************************************)

CONSTANTS Inputs,      \* the types of the records that arrive
          TagValues,   \* the values of their tags
          Boxes,       \* the box signatures: intype, outtype
          Filters,     \* the filters: intype, guard, instrs, with references
          Syncs        \* the pattern pairs of the synchrocells

Heap0 ==
    [rec |-> [s \in RecSlots |-> NULL], count |-> [d \in Data |-> 0],
     leaked |-> [d \in Data |-> 0], ended |-> FALSE]

RecordInit ==
    /\ kind = "records"
    /\ con = Heap0
    /\ abs = [s \in RecSlots |-> NULL]
    /\ ret = NoRet

\* The function f, with the entries of g where g has them.
Over(f, g) == [x \in DOMAIN f \cup DOMAIN g |-> IF x \in DOMAIN g THEN g[x] ELSE f[x]]
Only(f, S) == [x \in DOMAIN f \cap S |-> f[x]]
Excess(f, S) == [x \in DOMAIN f \ S |-> f[x]]

RecordsRun == kind = "records" /\ ~con.ended

Matches(pat, s) == abs[s] # NULL /\ SNetRecPatternMatches(pat, con.rec[s])

\* As many pieces of data as there are names, none of them in use.
FreshFor(names) ==
    {f \in [names -> FreshData(con)] : \A m, n \in names : m # n => f[m] # f[n]}

\* A record from the input: its entries are set one by one.
RecInput(type, val) ==
    /\ RecordsRun /\ FreeSlots(con) # {}
    /\ LET t == NewSlot(con)
       IN  \E data \in FreshFor(type.fields) :
               /\ con' = SNetOutRawV(con, NULL, t, 0, type, data, val)
               /\ abs' = [abs EXCEPT ![t] =
                              [fields |-> data, tags |-> [n \in type.tags |-> val],
                               btags |-> [n \in type.btags |-> val]]]
    /\ Silent /\ UNCHANGED kind

\* A box takes its input's entries, writes one record and drops the input.
RecBox(s, box) ==
    /\ RecordsRun /\ Matches(box.intype, s) /\ FreeSlots(con) # {}
    /\ LET t == NewSlot(con)
           taken == BoxTakes(con, s, box.intype)
           rest == [fields |-> Excess(abs[s].fields, box.intype.fields),
                    tags |-> Excess(abs[s].tags, box.intype.tags)]
       IN  \E data \in FreshFor(box.outtype.fields), val \in TagValues :
               /\ con' = SNetRecDestroy(
                             SNetOutRawV(taken, s, t, 1, box.outtype, data, val), s)
               /\ abs' = [abs EXCEPT
                      ![s] = NULL,
                      ![t] = [fields |-> Over(rest.fields, data),
                              tags |-> Over(rest.tags,
                                            [n \in box.outtype.tags |-> val]),
                              btags |-> [n \in box.outtype.btags |-> val]]]
    /\ Silent /\ UNCHANGED kind

\* What the instructions set, and then what the record inherits.
Instructed(f, s) ==
    LET Of(op) == {i \in DOMAIN f.instrs : f.instrs[i].opcode = op}
        Named(op, Val(_)) ==
            [n \in {f.instrs[i].name : i \in Of(op)} |->
                Val(CHOOSE i \in Of(op) : f.instrs[i].name = n)]
        Tag(i) == f.instrs[i].ref[abs[s].tags[f.tag]]
        fields == [n \in {f.instrs[i].newName : i \in Of("snet_field")} |->
                      abs[s].fields[f.instrs[CHOOSE i \in Of("snet_field") :
                                                 f.instrs[i].newName = n].name]]
    IN  [fields |-> Over(fields, Excess(abs[s].fields, f.intype.fields)),
         tags |-> Over(Named("snet_tag", Tag), Excess(abs[s].tags, f.intype.tags)),
         btags |-> Named("snet_btag", Tag)]

\* The record is destroyed and, if the guard did not hold, the program ends
\* with assert(done).
RecFilter(s, f) ==
    /\ RecordsRun /\ Matches(f.intype, s) /\ FreeSlots(con) # {}
    /\ LET t == NewSlot(con)
           guard == SNetEevaluateBool(f.guard, TagsOf(con.rec[s]))
           applies == f.guardRef[abs[s].tags[f.tag]]
       IN  /\ con' = IF guard = TRUE
                     THEN SNetRecDestroy(FilterRecord(con, s, t, f.intype, f.instrs), s)
                     ELSE [SNetRecDestroy(con, s) EXCEPT !.ended = TRUE]
           /\ abs' = [abs EXCEPT ![t] = IF applies THEN Instructed(f, s) ELSE @,
                                 ![s] = NULL]
           /\ Returned(guard, applies)
    /\ UNCHANGED kind

RecSync(s1, s2, pats) ==
    /\ RecordsRun /\ s1 # s2 /\ FreeSlots(con) # {}
    /\ Matches(pats[1], s1) /\ Matches(pats[2], s2)
    /\ LET t == NewSlot(con)
       IN  /\ con' = MergeFromStorage(con, s1, s2, t, pats[2])
           /\ abs' = [abs EXCEPT
                  ![s1] = NULL, ![s2] = NULL,
                  ![t] = [fields |-> Over(abs[s1].fields,
                                          Only(abs[s2].fields, pats[2].fields)),
                          tags |-> Over(abs[s1].tags,
                                        Only(abs[s2].tags, pats[2].tags)),
                          btags |-> abs[s1].btags]]
    /\ Silent /\ UNCHANGED kind

\* The record travels to another node: packed, freed and unpacked.
RecTravels(s) ==
    /\ RecordsRun /\ abs[s] # NULL
    /\ con' = [con EXCEPT !.rec[s] = SNetRecDeserialise(SNetRecSerialise(@))]
    /\ Silent /\ UNCHANGED <<kind, abs>>

RecOutput(s) ==
    /\ RecordsRun /\ abs[s] # NULL
    /\ con' = SNetRecDestroy(con, s)
    /\ abs' = [abs EXCEPT ![s] = NULL]
    /\ Silent /\ UNCHANGED kind

RecordNext ==
    \/ \E type \in Inputs, val \in TagValues : RecInput(type, val)
    \/ \E s \in RecSlots :
           \/ \E b \in Boxes : RecBox(s, b)
           \/ \E f \in Filters : RecFilter(s, f)
           \/ \E s2 \in RecSlots, pats \in Syncs : RecSync(s, s2, pats)
           \/ RecTravels(s) \/ RecOutput(s)

-----------------------------------------------------------------------------
\* Through boxes, filters, synchrocells and the network between nodes, every
\* record has exactly the entries the language gives it (guards and tags
\* have the values of their expressions, the excess is inherited), and the
\* count of every piece of data is the number of references that records
\* have to it and of those that were overwritten by SNetRecSetField, which
\* nobody can release any more: data leaks where an inherited or merged entry
\* meets one of the same name, but none is freed while a record refers to
\* it, and none is released twice.  The program ends only at a filter none of
\* whose guards holds.  A star of a synchrocell that the Front runtime fuses
\* does what the star would do.
RecordsAgree ==
    /\ kind = "zipper" => ZipperAgrees
    /\ kind = "records" =>
        /\ ret.got = ret.want
        /\ con.ended => ret.want = FALSE
        /\ \A s \in RecSlots :
               /\ con.rec[s] = NULL <=> abs[s] = NULL
               /\ abs[s] # NULL =>
                      /\ AsFun(con.rec[s].fields) = abs[s].fields
                      /\ AsFun(con.rec[s].tags) = abs[s].tags
                      /\ AsFun(con.rec[s].btags) = abs[s].btags
        /\ \A d \in Data : con.count[d] = Holders(con, d) + con.leaked[d]

=============================================================================
