------------------------------- MODULE NetIf -------------------------------
(***************************************************************************)
(* The network interface: records from XML documents and back.  Sources:   *)
(*   src/src/runtime/stream/netif/{parser.y,lexer.l,label.c,interface.c,   *)
(*                                 input.c,output.c}                       *)
(*   src/src/runtime/front/{xinput.c,xoutput.c}                            *)
(*                                                                         *)
(* A document is what one call of yyparse reads: its form, its attributes  *)
(* (NULL for one that is missing) and its items.  The text of a field's    *)
(* data is that of module Codec; all other text is left out.               *)
(***************************************************************************)
EXTENDS Library, Codec

CONSTANTS StaticLabels,       \* the labels of the program, a sequence
          StaticInterfaces    \* its language interfaces, a sequence

INTERFACE_UNKNOWN == -1

IndexOf(seq, x) ==
    IF \E i \in DOMAIN seq : seq[i] = x
    THEN CHOOSE i \in DOMAIN seq : seq[i] = x /\ \A j \in 1..(i - 1) : seq[j] # x
    ELSE 0

\* The temporary labels, the newest first.
LabelInit == <<>>

\* A faulty variant: every new label gets the first number after the static
\* ones.
LabelToIdSame(temps, label) ==
    LET static == IndexOf(StaticLabels, label)
        temp == {i \in DOMAIN temps : temps[i].label = label}
    IN  IF static > 0 THEN [id |-> static - 1, temps |-> temps]
        ELSE [id |-> Len(StaticLabels),
              temps |-> IF temp # {} THEN temps
                        ELSE <<[label |-> label, index |-> Len(StaticLabels)]>>
                                 \o temps]

SNetInLabelToId(temps, label) ==
    LET static == IndexOf(StaticLabels, label)
        temp == {i \in DOMAIN temps : temps[i].label = label}
        index == IF temps = <<>> THEN Len(StaticLabels) ELSE temps[1].index + 1
    IN  IF static > 0 THEN [id |-> static - 1, temps |-> temps]
        ELSE IF temp # {}
        THEN [id |-> temps[CHOOSE i \in temp : TRUE].index, temps |-> temps]
        ELSE [id |-> index,
              temps |-> <<[label |-> label, index |-> index]>> \o temps]

SNetInIdToLabel(temps, id) ==
    LET temp == {i \in DOMAIN temps : temps[i].index = id}
    IN  IF id < 0 THEN NULL
        ELSE IF id < Len(StaticLabels) THEN StaticLabels[id + 1]
        ELSE IF temp = {} THEN NULL ELSE temps[CHOOSE i \in temp : TRUE].label

SNetInInterfaceToId(name) == IndexOf(StaticInterfaces, name) - 1

SNetInIdToInterface(id) ==
    IF id \in 0..(Len(StaticInterfaces) - 1) THEN StaticInterfaces[id + 1] ELSE NULL

-----------------------------------------------------------------------------
(* The parser.  Its state: what SNetInParserParse returns (terminate), the *)
(* record under construction with its interface and mode, the labels, and  *)
(* whether the program has ended with a fatal error.                       *)

ParserInit ==
    [terminate |-> "CONTINUE", record |-> NULL, interface |-> INTERFACE_UNKNOWN,
     mode |-> "binary", temps |-> LabelInit, fatal |-> FALSE]

parserflush(p) ==
    [p EXCEPT !.record = NULL, !.interface = INTERFACE_UNKNOWN, !.mode = "binary",
              !.terminate = IF @ = "ERROR" THEN "CONTINUE" ELSE @]

yyerror(p) == [p EXCEPT !.terminate = IF @ = "TERMINATE" THEN @ ELSE "ERROR"]

Fatal(p) == [p EXCEPT !.fatal = TRUE]

Discarded(p) ==
    [p EXCEPT !.record = NULL, !.interface = INTERFACE_UNKNOWN,
              !.terminate = "CONTINUE"]

DataRecord(mode, interface) ==
    [descr |-> "data", mode |-> mode, interface_id |-> interface,
     fields |-> SNetMapCreate(<<>>), tags |-> SNetMapCreate(<<>>),
     btags |-> SNetMapCreate(<<>>)]

TerminateRecord == [descr |-> "terminate"]

\* The label attribute of an item; without one the id is -1.
Labelled(p, item) ==
    IF item.label = NULL THEN [p |-> yyerror(p), id |-> -1]
    ELSE LET l == SNetInLabelToId(p.temps, item.label)
         IN  [p |-> [p EXCEPT !.temps = l.temps], id |-> l.id]

\* The interface of a field, from its attribute, from the record's or from
\* an earlier field's.
FieldInterface(p, item) ==
    LET i == SNetInInterfaceToId(item.interface)
        rec == p.record.interface_id
        bad == [p |-> yyerror(p), iid |-> INTERFACE_UNKNOWN]
        good == [p |-> p, iid |-> i]
    IN  IF item.interface = NULL THEN [p |-> p, iid |-> p.interface]
        ELSE IF p.interface # INTERFACE_UNKNOWN
        THEN IF i # p.interface THEN bad ELSE good
        ELSE IF i = INTERFACE_UNKNOWN THEN bad
        ELSE IF rec = INTERFACE_UNKNOWN
        THEN [p |-> [p EXCEPT !.record.interface_id = i], iid |-> i]
        ELSE IF rec # i THEN bad ELSE good

\* deserialisefun or decodefun, on the text up to the end tag.
FieldData(mode, text) ==
    IF mode = "textual" THEN C4SNetDeserialise(text).data ELSE C4SNetDecode(text).data

\* A field without data is fatal; one without a known interface is skipped.
SetField(f, id, item) ==
    IF f.iid = INTERFACE_UNKNOWN THEN f.p
    ELSE [f.p EXCEPT !.record.fields =
              SNetMapSet(@, id, FieldData(f.p.mode, item.text))]

Field(p, item) ==
    LET l == Labelled(p, item)
    IN  IF item.form = "short" THEN Fatal(p)
        ELSE SetField(FieldInterface(l.p, item), l.id, item)

\* Tag and Btag: the value is 0 unless the item has character data.
TagItem(p, item) ==
    LET l == Labelled(p, item)
        val == IF item.form = "value" THEN item.val ELSE 0
    IN  IF item.label = NULL THEN l.p
        ELSE IF item.kind = "tag"
        THEN [l.p EXCEPT !.record.tags = SNetMapSet(@, l.id, val)]
        ELSE [l.p EXCEPT !.record.btags = SNetMapSet(@, l.id, val)]

\* The entities of a record.  A document of an unknown type has no record:
\* its items dereference NULL, which ends the program.
Entitys(p, items) ==
    FoldLeft(LAMBDA q, item :
                 IF q.fatal THEN q
                 ELSE IF q.record = NULL THEN Fatal(q)
                 ELSE IF item.kind = "field" THEN Field(q, item)
                 ELSE TagItem(q, item),
             p, items)

ModeOf(doc) == IF doc.mode = "textual" THEN "textual" ELSE "binary"

\* The record that the start tag makes, for both forms; only the short form
\* leaves out a data record without the interface attribute.
StartRecord(p, doc) ==
    LET i == SNetInInterfaceToId(doc.interface)
    IN  CASE doc.type = "data" /\ (doc.form = "long" \/ doc.interface # NULL) ->
                 [p EXCEPT !.mode = ModeOf(doc),
                           !.record = DataRecord(ModeOf(doc), i),
                           !.interface = IF doc.interface = NULL THEN @ ELSE i]
          [] doc.type = "data" /\ ~(doc.form = "long" \/ doc.interface # NULL) ->
                 [p EXCEPT !.mode = ModeOf(doc)]
          [] doc.type = "terminate" ->
                 [p EXCEPT !.record = TerminateRecord,
                           !.terminate = IF @ = "ERROR" THEN @ ELSE "TERMINATE"]
          [] doc.type \in {"collect", "sort_begin", "sort_end", "trigger"} -> Fatal(p)
          [] OTHER -> yyerror(p)

\* Record: the start tag, the entities and the end.  In the short form the
\* record of a document with an error is destroyed even when there is none.
EndRecord(q, doc) ==
    IF q.fatal THEN q
    ELSE IF doc.form = "short"
    THEN IF q.terminate = "ERROR" THEN Fatal(q) ELSE q
    ELSE IF q.record = NULL THEN q
    ELSE IF q.terminate = "ERROR" THEN Discarded(q)
    ELSE IF q.record.descr = "data" /\ q.record.interface_id = INTERFACE_UNKNOWN
    THEN Discarded(q)
    ELSE [q EXCEPT !.interface = INTERFACE_UNKNOWN]

Record(p, doc) ==
    EndRecord(Entitys(StartRecord(p, doc), IF doc.form = "long" THEN doc.items ELSE <<>>),
              doc)

\* One call of yyparse after parserflush.  A document that is not well
\* formed, and the end of the file, are syntax errors.
Parsed(p, doc) ==
    IF doc.form \in {"syntax", "eof"} THEN yyerror(parserflush(p))
    ELSE Record(parserflush(p), doc)

-----------------------------------------------------------------------------
(* The printer of both runtime systems.                                    *)

FieldText(mode, d) ==
    (IF mode = "textual" THEN C4SNetSerialise(d) ELSE C4SNetEncode(d)) \o <<LT>>

PrintedField(temps, name, mode, e) ==
    [kind |-> "field", label |-> SNetInIdToLabel(temps, e.key), form |-> "value",
     interface |-> name, text |-> FieldText(mode, e.val)]

PrintedTag(temps, k, e) ==
    [kind |-> k, label |-> SNetInIdToLabel(temps, e.key), form |-> "value",
     val |-> e.val]

\* printRec: the fields with the record's interface (none when it has no
\* name), the tags and the binding tags.
printRec(temps, rec) ==
    IF rec.descr = "terminate"
    THEN [form |-> "short", type |-> "terminate", interface |-> NULL,
          mode |-> NULL, items |-> <<>>]
    ELSE LET name == SNetInIdToInterface(rec.interface_id)
             fields == [i \in 1..rec.fields.used |->
                           PrintedField(temps, name, rec.mode, Slots(rec.fields)[i])]
             tags == [i \in 1..rec.tags.used |->
                         PrintedTag(temps, "tag", Slots(rec.tags)[i])]
             btags == [i \in 1..rec.btags.used |->
                          PrintedTag(temps, "btag", Slots(rec.btags)[i])]
         IN  [form |-> "long", type |-> "data", interface |-> NULL,
              mode |-> rec.mode,
              items |-> (IF name = NULL THEN <<>> ELSE fields) \o tags \o btags]

\* An entry without a label is fatal.
PrintFatal(doc) == \E i \in DOMAIN doc.items : doc.items[i].label = NULL

-----------------------------------------------------------------------------
(***************************************************************************)
(* The tasks at the two ends of a network: the input task of the stream    *)
(* runtime (GlobInputTask) or the input node of the Front runtime          *)
(* (SNetGetNextInputRecord) reads documents, the output prints records.    *)
(* The network between them passes the records on.                         *)
(***************************************************************************)

CONSTANTS Docs,        \* the documents the input may hold
          MaxDocs      \* bound: the number of documents read

\* reader: the runtime system; out: the records on their way to the output.
\* abs has the records the documents stand for, and whether input is over.
NetIfInit ==
    /\ kind = "netif"
    /\ \E reader \in {"stream", "front"} :
           con = [reader |-> reader, parser |-> ParserInit, out |-> <<>>,
                  done |-> FALSE, read |-> 0]
    /\ abs = [out |-> <<>>, done |-> FALSE]
    /\ ret = NoRet

\* What a document stands for, by its labels, without a parser.
Known(name) == name \in ToSet(StaticInterfaces)

Fields(doc) == SelectSeq(doc.items, LAMBDA i : i.kind = "field")
OwnNames(doc) ==
    {Fields(doc)[i].interface : i \in DOMAIN Fields(doc)} \ {NULL}

\* Every item has a label, and all interfaces that are named agree.
ItemsAgree(doc) ==
    /\ \A i \in DOMAIN doc.items : doc.items[i].label # NULL
    /\ IF Known(doc.interface) THEN OwnNames(doc) \subseteq {doc.interface}
       ELSE Cardinality(OwnNames(doc)) <= 1 /\ \A n \in OwnNames(doc) : Known(n)

HasInterface(doc) == Known(doc.interface) \/ \E n \in OwnNames(doc) : Known(n)

\* The last item of each label, of the items of a kind that count.
ByLabel(items, Val(_)) ==
    [l \in {items[i].label : i \in DOMAIN items} |->
        Val(items[CHOOSE i \in DOMAIN items :
                      /\ items[i].label = l
                      /\ \A j \in (i + 1)..Len(items) : items[j].label # l])]

\* The data of a value, however its size is recorded.
Plain(d) == [type |-> d.type, vtype |-> d.vtype, elems |-> d.elems]

TagValue(i) == IF i.form = "value" THEN i.val ELSE 0

RecordOf(doc) ==
    LET Of(k) == SelectSeq(doc.items, LAMBDA i : i.kind = k)
        read == SelectSeq(Fields(doc), LAMBDA i :
                              Known(doc.interface) \/ i.interface # NULL)
    IN  [fields |-> ByLabel(read, LAMBDA i : Plain(i.data)),
         tags |-> ByLabel(Of("tag"), TagValue),
         btags |-> ByLabel(Of("btag"), TagValue)]

\* Documents that end the program, by design or by a null pointer.
EndsProgram(doc) ==
    \/ doc.form \in {"short", "long"} /\ doc.type = "collect"
    \/ doc.form = "short" /\ doc.type = "unknown"
    \/ doc.form = "long" /\ doc.items # <<>> /\ doc.type = "unknown"
    \/ doc.form = "long" /\ \E i \in DOMAIN doc.items :
           doc.items[i].kind = "field" /\ doc.items[i].form = "short"

IsRecord(doc) ==
    \/ doc.form = "short" /\ doc.type = "data" /\ doc.interface # NULL
    \/ doc.form = "long" /\ doc.type = "data" /\ ItemsAgree(doc) /\ HasInterface(doc)

IsTerminate(doc) == doc.form \in {"short", "long"} /\ doc.type = "terminate"

\* A document with an error that the parser has not dealt with itself: the
\* records it discards at the end tag are not such errors.
LeavesError(doc) ==
    \/ doc.form \in {"syntax", "eof"}
    \/ doc.form = "long" /\ doc.type = "unknown"

Terminate == [terminate |-> TRUE]

\* The record with its labels for its ids.
Named(temps, rec) ==
    LET Fun(m, Val(_)) ==
            [l \in {SNetInIdToLabel(temps, m.slots[i].key) : i \in 0..(m.used - 1)} |->
                LET i == CHOOSE j \in 0..(m.used - 1) :
                             SNetInIdToLabel(temps, m.slots[j].key) = l
                IN  Val(m.slots[i].val)]
    IN  IF rec.descr = "terminate" THEN Terminate
        ELSE [fields |-> Fun(rec.fields, Plain), tags |-> Fun(rec.tags, LAMBDA v : v),
              btags |-> Fun(rec.btags, LAMBDA v : v)]

\* One call of SNetInParserParse by GlobInputTask, which goes on until the
\* termination record, or of SNetInParserGetNextRecord by the input node,
\* which goes on while the parser says CONTINUE.
ReadDoc(doc) ==
    /\ kind = "netif" /\ ~con.done /\ ~con.parser.fatal /\ con.read < MaxDocs
    /\ \E p \in {Parsed(con.parser, doc)} :
       LET written == p.record # NULL /\ ~p.fatal
                      /\ ~(con.reader = "front" /\ p.record.descr = "terminate")
           done == IF con.reader = "stream" THEN p.terminate = "TERMINATE"
                   ELSE p.terminate # "CONTINUE"
       IN  con' = [con EXCEPT
               !.parser = [p EXCEPT !.record = NULL],
               !.out = IF written THEN Append(@, p.record) ELSE @,
               !.done = done /\ ~p.fatal,
               !.read = @ + 1]
    /\ abs' = IF EndsProgram(doc) THEN abs
              ELSE [out |-> IF IsRecord(doc) THEN Append(abs.out, RecordOf(doc))
                            ELSE IF IsTerminate(doc) /\ con.reader = "stream"
                            THEN Append(abs.out, Terminate) ELSE abs.out,
                    done |-> \/ IsTerminate(doc)
                             \/ con.reader = "front" /\ LeavesError(doc)]
    /\ Returned(con'.parser.fatal, EndsProgram(doc))
    /\ UNCHANGED kind

\* The output prints a record.  Read back by another run of the program it
\* is the same record, but for one without fields: nothing names its
\* interface and the parser drops it.
PrintNext ==
    /\ kind = "netif" /\ con.out # <<>>
    /\ con' = [con EXCEPT !.out = Tail(@)]
    /\ abs' = [abs EXCEPT !.out = Tail(@)]
    /\ \E doc \in {printRec(con.parser.temps, Head(con.out))} :
       \E again \in {Parsed(ParserInit, doc)} :
       LET want == Head(abs.out)
       IN  Returned([fatal |-> PrintFatal(doc),
                     rec |-> IF again.record = NULL THEN NULL
                             ELSE Named(again.temps, again.record)],
                    [fatal |-> FALSE,
                     rec |-> IF want = Terminate THEN want
                             ELSE IF DOMAIN want.fields = {} THEN NULL ELSE want])
    /\ UNCHANGED kind

NetIfNext == PrintNext \/ \E doc \in Docs : ReadDoc(doc)


-----------------------------------------------------------------------------
(***************************************************************************)
(* The SAC interface.  Arrays travel between nodes in a buffer: con has    *)
(* its contents, abs the arrays that are in it.                            *)
(***************************************************************************)

CONSTANTS SacArrays,     \* arrays of several types and shapes
          SacVariants,   \* output variants, sequences of kinds and names
          MaxPacked      \* bound: the arrays in the buffer

SacInit == kind = "sac" /\ con = <<>> /\ abs = <<>> /\ ret = NoRet

SacPacks(d) ==
    /\ IsKind("sac") /\ con # SacError /\ Len(abs) < MaxPacked
    /\ con' = SAC4SNetMPIPackFun(d, con)
    /\ abs' = IF d.type \in SacTypes THEN Append(abs, d) ELSE <<>>
    /\ Returned(con' = SacError, d.type \notin SacTypes)

SacUnpacks ==
    /\ IsKind("sac") /\ abs # <<>>
    /\ \E r \in {SAC4SNetMPIUnpackFun(con)} :
         con' = r.buf /\ Returned(r.data, Head(abs))
    /\ abs' = Tail(abs)

\* An array is read from its header and a file with its elements.  What the
\* interface itself has printed cannot be read: the elements are in the place
\* of the file's name, or the end tag is.
SacReads(d) ==
    /\ IsKind("sac") /\ con # SacError
    /\ LET disk == "name" :> Append(d.elems, 0)
       IN  Returned(<<SAC4SNetDataDeserialise(Append(SacHeader(d), "name"), disk),
                      SAC4SNetDataDeserialise(Append(SAC4SNetDataSerialise(d), LT), <<>>)>>,
                    <<IF d.type \in SacTypes THEN d ELSE SacError, SacError>>)
    /\ UNCHANGED <<con, abs>>

\* Every entry of the variant gets its own argument; the variant has its names
\* in a list for each kind, which SNetOutRawArray goes through with the array.
SacOuts(variant) ==
    /\ IsKind("sac") /\ con # SacError
    /\ LET arrays == SAC4SNet_out(variant, [i \in DOMAIN variant |-> i])
           Names(k) == SelectSeq(variant, LAMBDA e : e.kind = k)
       IN  Returned(UNION {{<<Names(k)[i], arrays[k][i]>> : i \in DOMAIN arrays[k]} :
                              k \in DOMAIN arrays},
                    {<<variant[i], i>> : i \in DOMAIN variant})
    /\ UNCHANGED <<con, abs>>

SacNext ==
    \/ SacUnpacks
    \/ \E d \in SacArrays : SacPacks(d) \/ SacReads(d)
    \/ \E variant \in SacVariants : SacOuts(variant)

-----------------------------------------------------------------------------
\* The input task writes the records of the well-formed documents, and no
\* others, in their order and with their entries by label; it stops at the
\* termination record (the Front's also at the first document with an error
\* it cannot skip); and a printed record reads back as itself.  An array of
\* the SAC interface is unpacked as it was packed, and takes from the buffer
\* just what it put there.
DocumentsAgree ==
    /\ kind = "sac" => ret.got = ret.want /\ (abs = <<>> => con \in {<<>>, SacError})
    /\ kind = "netif" =>
        /\ ret.got = ret.want
        /\ [i \in DOMAIN con.out |-> Named(con.parser.temps, con.out[i])] = abs.out
        /\ ~con.parser.fatal => con.done = abs.done

=============================================================================
