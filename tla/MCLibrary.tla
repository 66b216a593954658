----------------------------- MODULE MCLibrary ------------------------------
(***************************************************************************)
(* The containers and the records for TLC: two values, keys that collide   *)
(* in every table, a few record types and a few documents.                 *)
(***************************************************************************)
EXTENDS Records, NetIf, Observers, Threads, Scc

LibraryPrimes == 0 :> 2 @@ 1 :> 3 @@ 2 :> 5 @@ 3 :> 7

Type(fields, tags) == [fields |-> fields, tags |-> tags, btags |-> {}]

LibraryInputs == {Type({"A"}, {"T"}), Type({"A", "B"}, {"T"})}

\* One signature with an entry the input may carry as excess.
LibraryBoxes ==
    {[intype |-> Type({"A"}, {"T"}), outtype |-> Type({"B"}, {"T", "U"})],
     [intype |-> Type({"B"}, {}),
      outtype |-> [fields |-> {"A"}, tags |-> {}, btags |-> {"P"}]]}

LibraryTagValues == {2}

T == TagExpr("TAG", "T")

\* <T> := (3 * <T> - 5) % 4 and <#P> := max(abs <T>, <T> / 2), under the guard
\* (<T> >= 0) == true || !(<T> != -2).
LibraryFilters ==
    {[intype |-> Type({"A"}, {"T"}), tag |-> "T",
      guard |-> BinOp("OR", BinOp("EQ", BinOp("GE", T, ConstI(0)), ConstB(TRUE)),
                            MonOp("NOT", BinOp("NE", T, ConstI(-2)))),
      guardRef |-> [t \in -3..3 |-> t >= 0 \/ t = -2],
      instrs |->
          <<[opcode |-> "snet_tag", name |-> "T",
             expr |-> BinOp("MOD", BinOp("SUB", BinOp("MUL", ConstI(3), T),
                                         ConstI(5)), ConstI(4)),
             ref |-> [t \in -3..3 |-> <<-2, -3, 0, -1, -2, 1, 0>>[t + 4]]],
            [opcode |-> "snet_btag", name |-> "P",
             expr |-> BinOp("MAX", MonOp("ABS", T), BinOp("DIV", T, ConstI(2))),
             ref |-> [t \in -3..3 |-> IF t < 0 THEN -t ELSE t]],
            [opcode |-> "snet_field", name |-> "A", newName |-> "B"]>>]}

LibrarySyncs ==
    {<<Type({"A"}, {"T"}), Type({"B"}, {})>>,
     <<Type({"B"}, {}), Type({"A"}, {"T"})>>}

\* Documents of every form, with labels of the program and others, and data
\* whose text and base64 forms have every kind of ending.
Chars == C4SNetCreate("char", <<LT, COMMA, AMP, 26>>)
OneChar == C4SNetCreate("uchar", <<AMP>>)
Shorts == C4SNetCreate("short", <<-2, 300>>)
NoShorts == C4SNetCreate("ushort", <<>>)

Doc(form, type, interface, mode, items) ==
    [form |-> form, type |-> type, interface |-> interface, mode |-> mode,
     items |-> items]
FieldItem(label, interface, mode, d) ==
    [kind |-> "field", label |-> label, interface |-> interface,
     form |-> "value", text |-> FieldText(mode, d), data |-> d]
Item(k, label, form, val) ==
    [kind |-> k, label |-> label, form |-> form, val |-> val]

LibraryDocs ==
    {Doc("eof", NULL, NULL, NULL, <<>>),
     Doc("syntax", NULL, NULL, NULL, <<>>),
     Doc("short", "terminate", NULL, NULL, <<>>),
     Doc("short", "data", "C4SNet", NULL, <<>>),
     Doc("short", "data", NULL, "textual", <<>>),
     Doc("short", "unknown", NULL, NULL, <<>>),
     Doc("long", "collect", NULL, NULL, <<>>),
     Doc("long", "unknown", NULL, NULL, <<>>),
     Doc("long", "unknown", NULL, NULL, <<Item("tag", "T", "value", 1)>>),
     \* the record names the interface
     Doc("long", "data", "C4SNet", "textual",
         <<FieldItem("A", NULL, "textual", Chars),
           Item("tag", "X", "value", 3), Item("btag", "T", "empty", 0)>>),
     \* the fields name it, the first one by another record's label
     Doc("long", "data", NULL, NULL,
         <<FieldItem("X", "C4SNet", "binary", Shorts),
           FieldItem("A", "C4SNet", "binary", OneChar),
           Item("tag", "Y", "short", 0)>>),
     \* a field before the one that names it
     Doc("long", "data", NULL, "binary",
         <<FieldItem("A", NULL, "binary", NoShorts),
           FieldItem("B", "Other", "binary", NoShorts)>>),
     \* two interfaces, an unknown one, none, no label
     Doc("long", "data", "C4SNet", "textual",
         <<FieldItem("A", "Other", "textual", OneChar)>>),
     Doc("long", "data", "Nowhere", "textual",
         <<FieldItem("B", "Other", "textual", OneChar)>>),
     Doc("long", "data", NULL, "textual",
         <<FieldItem("B", "Nowhere", "textual", OneChar)>>),
     Doc("long", "data", NULL, NULL, <<Item("tag", "T", "value", 7)>>),
     Doc("long", "data", "Other", NULL, <<Item("tag", NULL, "value", 7)>>)}

LibraryLabels == <<"A", "B", "T">>
LibraryInterfaces == <<"C4SNet", "Other">>

\* Two interactive observers of one listener and one that writes a file.
LibraryObservers == {"o1", "o2", "f"}
LibraryObserverType ==
    [o \in LibraryObservers |->
        IF o = "f" THEN [obstype |-> "file", isInteractive |-> FALSE]
        ELSE [obstype |-> "socket", isInteractive |-> TRUE]]
LibraryObserved ==
    [o \in LibraryObservers |-> IF o = "o1" THEN <<"data", "terminate">>
                                ELSE IF o = "f" THEN <<"sort_end", "terminate">>
                                ELSE <<"terminate">>]

\* [| {a}, {b}, {c} |] ** {a, b, c}
LibraryZipPatterns == <<{"a"}, {"b"}, {"c"}>>
LibraryZipTypes == {{"a"}, {"b"}, {"c"}, {"a", "b"}, {"b", "x"}, {"a", "b", "c"}}

LibraryOutbox ==
    [c1 |-> <<"snet_rec", "snet_ref_update", "snet_block">>,
     c2 |-> <<"snet_ref_fetch", "snet_ref_set">>, c3 |-> <<"snet_update", "snet_stop">>]

Flag(o) == [opt |-> o, num |-> 0, suffix |-> NULL, letters |-> {}, text |-> NULL]
Num(o, n) == [Flag(o) EXCEPT !.num = n]
Size(o, n, suffix) == [Num(o, n) EXCEPT !.suffix = suffix]
Text(o, text) == [Flag(o) EXCEPT !.text = text]
LibraryOptions ==
    {Flag(o) : o \in {"-h", "-d", "-g", "-v", "-z", "-FD", "-FN", "-excl", "-sosi", "-np"}}
    \cup {Num("-w", 0), Num("-w", 2), Num("-cw", 5), Num("-co", 1), Num("-T", 1),
          Num("-x", 3), Num("-y", 2), Num("-ws", 4), Num("-wt", 1), Num("-rl", 6),
          Num("-pf", 1), Num("-nd", 1), Size("-s", 1, "M"), Size("-s", 1, "K"),
          Text("-c", "16D"), Text("-i", "file"), Text("-I", "port"),
          Text("-o", "out"), Text("-O", "host")}
    \cup {[Flag("-m") EXCEPT !.letters = l] : l \in {{"T"}, {"A"}, {"m", "S"}}}

LibraryMonFlags == {{"TASK"}, {"TASK", "STREAM", "MESSAGE"}}

LibraryWords == [num : 1..2, det : BOOLEAN, names : SUBSET {"foo", "bar"}]
LibraryConcurrency == UNION {[1..n -> LibraryWords] : n \in 0..2}

\* A scalar, a vector, a matrix, an empty array, and types that FibreIO or
\* the table of types lacks.
LibrarySacArrays ==
    {SacArray(SACint, <<>>, <<7>>), SacArray(SACdbl, <<2>>, <<5, 6>>),
     SacArray(SACflt, <<2, 2>>, <<1, 2, 3, 4>>), SacArray(SACint, <<3, 0>>, <<>>),
     SacArray(5, <<1>>, <<1>>), SacArray(40, <<1>>, <<1>>)}
LibrarySacVariants ==
    UNION {[1..n -> [kind : {"field", "tag", "btag"}, name : {1}]] : n \in 0..2}
        \cup {<<[kind |-> "tag", name |-> 4], [kind |-> "field", name |-> 2],
               [kind |-> "tag", name |-> 3], [kind |-> "field", name |-> 1]>>}

LibrarySymmetry == Permutations(Data) \cup Permutations(Values)

(***************************************************************************)
(* The services around a network: observers, threads and their monitoring, *)
(* the placement of entities, the mailboxes and the references of the SCC. *)
(* Each is one kind of the library's runs.                                 *)
(***************************************************************************)
ServicesInit ==
    \/ ObserverInit \/ FrontObserveInit \/ ThreadsInit \/ MonInit
    \/ PlacementInit \/ ConcurrencyInit \/ OptionsInit \/ LpelStreamsInit
    \/ WorkerLogInit \/ MailboxInit \/ SccRefInit

ServicesNext ==
    \/ ObserverNext \/ FrontObserveNext \/ ThreadsNext \/ MonNext
    \/ PlacementNext \/ LpelStreamsNext \/ WorkerLogNext \/ MailboxNext
    \/ SccRefNext \/ \E o \in Options : OptionRead(o)

-----------------------------------------------------------------------------
\* An observer holds a record until the listener's answer to it arrives, and
\* no answer is lost, whichever way the answers of several observers of one
\* connection are ordered, cut into pieces and read by the dispatcher (the
\* Front: by the node of the socket); the dispatcher outlives the observers
\* and ends when it is told to.
ObserversAnswered ==
    /\ kind = "observers" =>
           AnswersArrive /\ PassedAnswered /\ ConnectionsKept /\ FileReports
    /\ kind = "frontobserve" => FrontAnswered

\* The main thread outlasts all entities, those that others are just
\* spawning too, and as long as every thread could be created it does not
\* wait without one; the monitoring of either threading layer logs every event
\* and every change of a stream once and in order before it ends; the
\* entities are spread evenly over the workers; the options mean the same in
\* every order the code promises; a stream of LPEL keeps its source and its
\* callback; the mailboxes of the SCC leave no reader asleep and, while all
\* messages find room, deliver them whole and in order; and its reference
\* counts never let a datum go too early, and with remap are exact.
ServicesAgree ==
    /\ kind = "threads" => StopWaits /\ EventsPrinted
    /\ kind = "monitor" => LogAgrees
    /\ kind \in {"placement", "concurrency"} => PlacementEven
    /\ kind = "options" => OptionsAgree
    /\ kind = "lpelstream" => UsrdataAgrees
    /\ kind = "workerlog" => WorkerLogAgrees
    /\ kind = "mailbox" => MailboxKept
    /\ kind = "sccref" => SccRefKept

-----------------------------------------------------------------------------
Init == ContainerInit \/ RecordInit \/ ZipperInit \/ NetIfInit \/ SacInit \/ ServicesInit
Next == ContainerNext \/ RecordNext \/ ZipperNext \/ NetIfNext \/ SacNext \/ ServicesNext

Spec == Init /\ [][Next]_libVars

=============================================================================
