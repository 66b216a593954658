------------------------------- MODULE Codec --------------------------------
(***************************************************************************)
(* The data of the C language interface and its two forms in a file:       *)
(* src/src/interfaces/c4snet/C4SNet.c, with the base64 form of             *)
(* src/src/interfaces/c4snet/base64.c.                                     *)
(*                                                                         *)
(* A file is a sequence of characters.  A character of the base64 alphabet *)
(* is its index in the table base64[], the padding '=' included; the other *)
(* characters that matter have numbers past it, and a decimal number or a  *)
(* type's name counts as one character.  Floating point values are not     *)
(* modelled: their text form rounds.                                       *)
(***************************************************************************)
EXTENDS Integers, Sequences, SequencesExt

PADDING_BYTE == 64
LT == 65            \* '<', which also begins the tag after a field
AMP == 66
COMMA == 67
SEMI == 68
OPEN == 69
CLOSE == 70
LBRACKET == 71
RBRACKET == 72

\* The characters of "&lt;" and "&amp;".
EscLt == <<AMP, 37, 45, SEMI>>
EscAmp == <<AMP, 26, 38, 41, SEMI>>

Number(n) == 1000 + n
TypeName(type) == 500 + type

\* c4snet_type_t: the integral types in the order of the enumeration.
CTypes == <<"uchar", "char", "ushort", "short", "uint", "int", "ulong", "long">>
TypeCode(type) == (CHOOSE i \in DOMAIN CTypes : CTypes[i] = type) - 1

sizeOfType(type) == <<1, 1, 2, 2, 4, 4, 8, 8>>[TypeCode(type) + 1]

\* C4SNetCreate, and C4SNetAlloc followed by the assignment of the elements.
C4SNetCreate(type, elems) ==
    [type |-> type, size |-> Len(elems), elems |-> elems,
     vtype |-> IF Len(elems) = 1 THEN "simple" ELSE "array"]

-----------------------------------------------------------------------------
(* base64.c.                                                               *)

\* The j-th of the encoded characters, from 0: six bits from two bytes.
EncodedChar(src, j) ==
    LET B(i) == IF i < Len(src) THEN src[i + 1] ELSE 0
        i == 3 * (j \div 4) + (j % 4)
    IN  CASE j % 4 = 0 -> B(i) \div 4
          [] j % 4 = 1 -> ((B(i - 1) % 4) * 16) + (B(i) \div 16)
          [] j % 4 = 2 -> ((B(i - 1) % 16) * 4) + (B(i) \div 64)
          [] j % 4 = 3 -> B(i - 1) % 64

\* The characters, and the padding that fills the last block of four.
Base64encode(src) ==
    LET size == (Len(src) * 8 + 5) \div 6
        pad == (4 - (size % 4)) % 4
    IN  [j \in 1..(size + pad) |->
            IF j <= size THEN EncodedChar(src, j - 1) ELSE PADDING_BYTE]

Base64encodeDataType(type) ==
    [j \in 1..(type \div 64 + 1) |->
        IF j <= type \div 64 THEN PADDING_BYTE ELSE type % 64]

Base64decodeDataType(file) ==
    LET pads == CHOOSE n \in 0..(Len(file) - 1) :
                    /\ file[n + 1] # PADDING_BYTE
                    /\ \A j \in 1..n : file[j] = PADDING_BYTE
    IN  [type |-> 64 * pads + file[pads + 1],
         file |-> SubSeq(file, pads + 2, Len(file))]

\* The padding of the current block, i characters of which are read.
RECURSIVE SkipPadding(_, _)
SkipPadding(file, i) ==
    IF i % 4 # 0 /\ file # <<>> /\ Head(file) = PADDING_BYTE
    THEN SkipPadding(Tail(file), i + 1) ELSE file

Filled(to, len) == to \o [j \in 1..(len - Len(to)) |-> 0]

\* The loop of Base64decode: to has the bytes that are complete, part the
\* bits of the next one, i is the number of characters read.  Padding and
\* an unknown character end the loop, the rest of the bytes is zero.
RECURSIVE DecodeLoop(_, _, _, _, _)
DecodeLoop(file, len, i, to, part) ==
    LET c == Head(file)
        Go(bytes, rest) == DecodeLoop(Tail(file), len, i + 1, to \o bytes, rest)
    IN  IF Len(to) >= len THEN [to |-> to, file |-> SkipPadding(file, i)]
        ELSE IF file = <<>> \/ c > PADDING_BYTE
        THEN [to |-> Filled(to, len), file |-> file]
        ELSE IF c = PADDING_BYTE
        THEN [to |-> Filled(to, len), file |-> SkipPadding(Tail(file), i + 1)]
        ELSE CASE i % 4 = 0 -> Go(<<>>, (c * 4) % 256)
               [] i % 4 = 1 -> Go(<<part + (c \div 16)>>, (c % 16) * 16)
               [] i % 4 = 2 -> Go(<<part + (c \div 4)>>, (c * 64) % 256)
               [] i % 4 = 3 -> Go(<<part + c>>, 0)

Base64decode(file, len) == DecodeLoop(file, len, 0, <<>>, 0)

-----------------------------------------------------------------------------
(* The binary form.  An integer is stored little endian, in two's          *)
(* complement.                                                             *)

Bytes(v, n) == [k \in 1..n |-> (v \div 256^(k - 1)) % 256]

\* Signed types only: the value of n bytes.
ValueOf(bytes, type) ==
    LET n == Len(bytes)
        v == FoldLeft(LAMBDA acc, k : acc + bytes[k] * 256^(k - 1), 0,
                      [k \in 1..n |-> k])
    IN  IF type \in {"char", "short"} /\ bytes[n] >= 128 THEN v - 256^n ELSE v

DataBytes(d) ==
    FoldLeft(LAMBDA acc, e : acc \o Bytes(e, sizeOfType(d.type)), <<>>, d.elems)

VType(d) == IF d.vtype = "simple" THEN 0 ELSE 1

C4SNetEncode(d) ==
    Base64encodeDataType(VType(d)) \o Base64encode(Bytes(d.size, 4))
        \o Base64encodeDataType(TypeCode(d.type)) \o Base64encode(DataBytes(d))

\* C4SNetDecode from its end: the elements; their number and width, after the
\* type was read; the type, after the size.  Only four bytes of the size are
\* read: the other four of the size_t are those of fresh memory, taken to be
\* zero.
DecodedData(vtype, size, type, width, bytes) ==
    [data |->
        [type |-> type, size |-> size,
         vtype |-> IF vtype = 1 THEN "array" ELSE "simple",
         elems |-> [e \in 1..(Len(bytes.to) \div width) |->
             ValueOf(SubSeq(bytes.to, (e - 1) * width + 1, e * width), type)]],
     file |-> bytes.file]

DecodeElems(vtype, size, type, file) ==
    DecodedData(vtype, size, type, sizeOfType(type),
                Base64decode(file, (IF vtype = 1 THEN size ELSE 1) * sizeOfType(type)))

DecodeType(vtype, size, code) ==
    DecodeElems(vtype, ValueOf(size, "uint"), CTypes[code.type + 1], code.file)

DecodeSize(vtype, size) ==
    DecodeType(vtype, size.to, Base64decodeDataType(size.file))

DecodeVType(vtype) == DecodeSize(vtype.type, Base64decode(vtype.file, 4))

C4SNetDecode(file) == DecodeVType(Base64decodeDataType(file))

-----------------------------------------------------------------------------
(* The text form.                                                          *)

IsChar(type) == type \in {"char", "uchar"}

SerialiseData(type, v) ==
    IF ~IsChar(type) THEN <<Number(v)>>
    ELSE IF v = LT THEN EscLt
    ELSE IF v = AMP THEN EscAmp
    ELSE <<v>>

C4SNetSerialise(d) ==
    LET Elem(i) == SerialiseData(d.type, d.elems[i])
                       \o IF i < Len(d.elems) THEN <<COMMA>> ELSE <<>>
    IN  <<OPEN, TypeName(TypeCode(d.type))>>
        \o (IF d.vtype = "array" THEN <<LBRACKET, Number(d.size), RBRACKET>>
            ELSE <<>>)
        \o <<CLOSE>>
        \o FoldLeft(LAMBDA acc, i : acc \o Elem(i), <<>>,
                    [i \in 1..Len(d.elems) |-> i])

\* fscanf("%c%4[^<,]"): one character and up to four that are neither '<'
\* nor ','.
Scanned(file) ==
    LET n == CHOOSE k \in 0..4 :
                 /\ \A j \in 2..(k + 1) : j <= Len(file) /\ file[j] \notin {LT, COMMA}
                 /\ k = 4 \/ k + 2 > Len(file) \/ file[k + 2] \in {LT, COMMA}
    IN  SubSeq(file, 1, n + 1)

\* A scan of more than one character that is no escape is a fatal error,
\* for which the value is -1.
DeserialiseData(file, type) ==
    LET s == Scanned(file)
        v == IF s = EscAmp THEN AMP
             ELSE IF s = EscLt THEN LT
             ELSE IF Len(s) = 1 THEN s[1] ELSE -1
    IN  IF IsChar(type)
        THEN [val |-> v, file |-> SubSeq(file, Len(s) + 1, Len(file))]
        ELSE [val |-> Head(file) - Number(0), file |-> Tail(file)]

\* The elements from the n-th on; a comma is read before all but the first.
RECURSIVE DeserialiseElems(_, _, _, _)
DeserialiseElems(file, type, n, elems) ==
    IF n = 0 THEN [elems |-> elems, file |-> file]
    ELSE LET r == DeserialiseData(IF elems = <<>> THEN file ELSE Tail(file), type)
         IN  DeserialiseElems(r.file, type, n - 1, Append(elems, r.val))

\* The size of a simple value stays zero.
C4SNetDeserialise(file) ==
    LET type == CTypes[file[2] - TypeName(0) + 1]
        array == file[3] = LBRACKET
        size == IF array THEN file[4] - Number(0) ELSE 0
        r == DeserialiseElems(SubSeq(file, IF array THEN 7 ELSE 4, Len(file)),
                              type, IF array THEN size ELSE 1, <<>>)
    IN  [data |-> [type |-> type, size |-> size, elems |-> r.elems,
                   vtype |-> IF array THEN "array" ELSE "simple"],
         file |-> r.file]

-----------------------------------------------------------------------------
(***************************************************************************)
(* The SAC language interface (src/src/interfaces/sac4snet/SAC4SNet.c).    *)
(* An array is its base type, its shape and its elements in row-major      *)
(* order; SACARG... and the FibreIO functions are the SAC runtime's.  A    *)
(* file is a sequence of words, a message buffer one of values.            *)
(***************************************************************************)

SACint == 3
SACflt == 11
SACdbl == 12
SacTypes == {SACint, SACflt, SACdbl}

\* The table of type names: "nothing" is the last one.
NOTHING == 24
UDT == -1
TypeWord(btype) == [type |-> IF btype <= NOTHING THEN btype ELSE UDT]

IDSTRINGPRE == [mark |-> "pre"]
IDSTRINGSUF == [mark |-> "suf"]
SacError == [mark |-> "error"]
UNSERIALISABLE == [mark |-> "unserialisable"]

SacArray(type, shape, elems) == [type |-> type, shape |-> shape, elems |-> elems]

NumElems(shape) == FoldLeft(LAMBDA n, s : n * s, 1, shape)

SacSizeOf(type) == IF type = SACdbl THEN 8 ELSE 4
SAC4SNetAllocSize(d) == NumElems(d.shape) * SacSizeOf(d.type)

SacHeader(d) == <<IDSTRINGPRE, TypeWord(d.type), Len(d.shape)>> \o d.shape \o <<IDSTRINGSUF>>

SAC4SNetDataSerialise(d) ==
    SacHeader(d) \o IF d.type \in SacTypes THEN d.elems ELSE <<UNSERIALISABLE>>

\* Only the header is read from the file itself; the word after it names the
\* file with the elements.  disk has the files that can be opened.  The
\* errors are fatal: a wrong prefix, a type that is not in the table, no such file,
\* a wrong suffix, a type that FibreIO does not read, in this order.
SAC4SNetDataDeserialise(file, disk) ==
    LET dim == file[3]
        shape == SubSeq(file, 4, 3 + dim)
        suffix == file[4 + dim]
        name == file[5 + dim]
    IN  IF file[1] # IDSTRINGPRE \/ file[2].type = UDT THEN SacError
        ELSE IF name \notin DOMAIN disk THEN SacError
        ELSE IF suffix # IDSTRINGSUF \/ file[2].type \notin SacTypes THEN SacError
        ELSE SacArray(file[2].type, shape, SubSeq(disk[name], 1, NumElems(shape)))

\* The message form: a type without a conversion ends the program.
SAC4SNetMPIPackFun(d, buf) ==
    IF d.type \notin SacTypes THEN SacError
    ELSE buf \o <<d.type, Len(d.shape)>> \o d.shape \o SubSeq(d.elems, 1, NumElems(d.shape))

SAC4SNetMPIUnpackFun(buf) ==
    LET dims == buf[2]
        shape == SubSeq(buf, 3, 2 + dims)
        last == 2 + dims + NumElems(shape)
    IN  [data |-> SacArray(buf[1], shape, SubSeq(buf, 3 + dims, last)),
         buf |-> SubSeq(buf, last + 1, Len(buf))]

\* SAC4SNet_out: the arguments, one for each entry of the variant in the order
\* of its declaration, into an array for each kind.
SAC4SNet_out(variant, args) ==
    [k \in {"field", "tag", "btag"} |->
        LET at == SelectSeq([i \in DOMAIN variant |-> i],
                            LAMBDA i : variant[i].kind = k)
        IN  [i \in DOMAIN at |-> args[at[i]]]]

=============================================================================
