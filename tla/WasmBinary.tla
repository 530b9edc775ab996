------------------------------ MODULE WasmBinary ------------------------------
(***************************************************************************)
(* The reader of wasm/binary_parser.rs: variable length numbers, constant  *)
(* expressions and the sections of a module.  A reader takes the bytes and *)
(* a position and gives [v, at], the value and the position behind it;     *)
(* at = 0 is an error and v its kind.  Positions count from 1.  Numbers    *)
(* have Width bits, in groups of seven.                                    *)
(***************************************************************************)
EXTENDS Integers, Sequences, SequencesExt, FiniteSets, TLC

CONSTANT Width
ASSUME WidthAssumption == Width \in Nat \ {0}

Ok(v, at) == [v |-> v, at |-> at]
Bad(kind) == [v |-> kind, at |-> 0]
IsBad(r) == r.at = 0

Signed(n) == ((n + 2 ^ (Width - 1)) % (2 ^ Width)) - 2 ^ (Width - 1)

ReadByte(bytes, at) == IF at > Len(bytes) THEN Bad("UnexpectedEnd") ELSE Ok(bytes[at], at + 1)
MutReadBytes(bytes, at, n) == Ok(SubSeq(bytes, at, Min({at + n - 1, Len(bytes)})), at + n)
ReadBytes(bytes, at, n) ==
  IF at + n - 1 > Len(bytes) THEN Bad("UnexpectedEnd") ELSE Ok(SubSeq(bytes, at, at + n - 1), at + n)

RECURSIVE Groups(_, _, _, _)
Groups(bytes, at, shift, sum) ==
  IF at > Len(bytes) THEN Bad("UnexpectedEnd")
  ELSE IF shift >= Width THEN Bad("Leb128Overflow")
  ELSE LET next == sum + (bytes[at] % 128) * 2 ^ shift IN
       IF bytes[at] >= 128 THEN Groups(bytes, at + 1, shift + 7, next)
       ELSE Ok([sum |-> next, shift |-> shift + 7, last |-> bytes[at]], at + 1)

ReadUnsigned(bytes, at) ==
  LET g == Groups(bytes, at, 0, 0)
  IN  IF IsBad(g) THEN g ELSE Ok(g.v.sum % (2 ^ Width), g.at)

(* The sign is the highest bit of the last group, unless the groups fill the width. *)
ReadSigned(bytes, at) ==
  LET g == Groups(bytes, at, 0, 0)
  IN  IF IsBad(g) THEN g
      ELSE Ok(Signed(IF g.v.shift < Width /\ g.v.last % 128 >= 64 THEN g.v.sum - 2 ^ g.v.shift ELSE g.v.sum), g.at)

-----------------------------------------------------------------------------
(* Writing numbers, as the reader does when it keeps a constant expression *)

RECURSIVE EncodeUnsigned(_)
EncodeUnsigned(n) == IF n < 128 THEN <<n>> ELSE <<(n % 128) + 128>> \o EncodeUnsigned(n \div 128)

RECURSIVE EncodeSigned(_)
EncodeSigned(n) ==
  LET rest == n \div 128
      group == n % 128
  IN  IF (rest = 0 /\ group < 64) \/ (rest = -1 /\ group >= 64) THEN <<group>>
      ELSE <<group + 128>> \o EncodeSigned(rest)

(* A constant expression is kept with its numbers in their shortest form.  *)
RECURSIVE ReadConst(_, _, _), ReadGc(_, _, _)
ReadGc(bytes, at, expr) ==
  LET op == ReadUnsigned(bytes, at)
      type == IF ~IsBad(op) /\ op.v \in {0, 1, 6, 7} THEN ReadUnsigned(bytes, op.at) ELSE op
  IN  IF IsBad(type) THEN type
      ELSE ReadConst(bytes, type.at, expr \o EncodeUnsigned(op.v)
                                     \o (IF type = op THEN <<>> ELSE EncodeUnsigned(type.v)))
ReadConst(bytes, at, expr) ==
  IF at > Len(bytes) THEN Bad("UnexpectedEnd") ELSE
  LET b == bytes[at]
      Kept(r, Write(_)) == IF IsBad(r) THEN r ELSE ReadConst(bytes, r.at, Append(expr, b) \o Write(r.v))
      Raw(v) == v
  IN  CASE b \in {65, 66}   -> Kept(ReadSigned(bytes, at + 1), EncodeSigned)
        [] b = 67           -> Kept(ReadBytes(bytes, at + 1, 4), Raw)
        [] b = 68           -> Kept(ReadBytes(bytes, at + 1, 8), Raw)
        [] b = 208          -> Kept(ReadBytes(bytes, at + 1, 1), Raw)
        [] b \in {210, 35}  -> Kept(ReadUnsigned(bytes, at + 1), EncodeUnsigned)
        [] b = 251          -> ReadGc(bytes, at + 1, Append(expr, b))
        [] b = 11           -> Ok(Append(expr, b), at + 1)
        [] OTHER            -> ReadConst(bytes, at + 1, Append(expr, b))

(* eval_const_i32: an i32.const, read up to the first byte that equals `end`. *)
EvalConst(expr) ==
  IF Len(expr) < 2 \/ expr[1] # 65 THEN 0
  ELSE LET ends == {i \in 2..Len(expr) : expr[i] = 11}
           data == SubSeq(expr, 2, IF ends = {} THEN Len(expr) ELSE Min(ends) - 1)
           r == ReadSigned(data, 1)
           sum == [i \in 1..Len(data) |-> (data[i] % 128) * 128 ^ (i - 1)]
       IN  IF IsBad(r) THEN Signed(FoldSeq(LAMBDA x, y : x + y, 0, sum)) ELSE r.v

-----------------------------------------------------------------------------
(* The sections.  A format is a term; Read gives the tuple of what it holds. *)

U32 == <<"u32">>
Vec(format) == <<"vec", format>>
Tuple(formats) == <<"tuple", formats>>
ValType == <<"valtype">>
ValTypes == 105..112 \cup 123..127
Limits == <<"limits">>
Name == Vec(<<"byte">>)

TypeSection     == Vec(<<"type">>)
ImportSection   == Vec(Tuple(<<Name, Name, <<"case", (0 :> U32) @@ (1 :> Tuple(<<ValType, Limits>>))
                       @@ (2 :> Limits) @@ (3 :> Tuple(<<ValType, <<"byte">>>>)) @@ (4 :> Tuple(<<<<"byte">>, U32>>))>>>>))
FunctionSection == Vec(U32)
TableSection    == Vec(Tuple(<<ValType, Limits>>))
MemorySection   == Vec(Limits)
GlobalSection   == Vec(Tuple(<<ValType, <<"byte">>, <<"const">>>>))
ExportSection   == Vec(Tuple(<<Name, <<"case", [k \in 0..4 |-> U32]>>>>))
StartSection    == U32
ElementSection  == Vec(<<"element">>)
CodeSection     == Vec(<<"code">>)
DataSection     == Vec(<<"data">>)
TagSection      == Vec(Tuple(<<<<"byte">>, U32>>))

RECURSIVE Read(_, _, _), ReadAll(_, _, _, _)

After(r, Next(_)) == IF IsBad(r) THEN r ELSE Next(r)

(* n numbers, onto the values done. *)
RECURSIVE ReadNumbers(_, _, _, _)
ReadNumbers(n, bytes, at, done) ==
  IF n = 0 THEN Ok(done, at)
  ELSE After(ReadUnsigned(bytes, at), LAMBDA r : ReadNumbers(n - 1, bytes, r.at, Append(done, r.v)))

(* The formats one after the other, onto the values done. *)
ReadAll(formats, bytes, at, done) ==
  IF formats = <<>> THEN Ok(done, at)
  ELSE After(Read(Head(formats), bytes, at), LAMBDA r : ReadAll(Tail(formats), bytes, r.at, Append(done, r.v)))

Times(n, format) == [i \in 1..n |-> format]

ReadValType(bytes, at) ==
  After(ReadByte(bytes, at),
        LAMBDA b : IF b.v \in {99, 100} THEN After(ReadSigned(bytes, b.at), LAMBDA h : Ok(<<b.v, h.v>>, h.at))
                   ELSE IF b.v \in ValTypes THEN b ELSE Bad("InvalidByte"))

(* A type; the prefixes of subtypes and recursive groups are read and left out. *)
RECURSIVE ReadType(_, _)
ReadType(bytes, at) ==
  After(ReadByte(bytes, at), LAMBDA b :
    LET Rest(kind, formats) == After(ReadAll(formats, bytes, b.at, <<>>), LAMBDA r : Ok(<<kind>> \o r.v, r.at))
    IN  CASE b.v = 96 -> Rest("func", <<Vec(ValType), Vec(ValType)>>)
          [] b.v = 95 -> Rest("struct", <<Vec(Tuple(<<ValType, <<"byte">>>>))>>)
          [] b.v = 94 -> Rest("array", <<ValType, <<"byte">>>>)
          [] b.v = 78 -> After(Read(Vec(U32), bytes, b.at), LAMBDA r : ReadType(bytes, r.at))
          [] b.v = 79 -> After(ReadUnsigned(bytes, b.at), LAMBDA r : ReadType(bytes, r.at))
          [] OTHER    -> Bad("InvalidByte"))

(* An element segment of the first format, <<offset, functions>>; another is taken for empty. *)
ReadElement(bytes, at) ==
  After(ReadUnsigned(bytes, at), LAMBDA flags :
    IF flags.v = 0 THEN ReadAll(<<<<"const">>, Vec(U32)>>, bytes, flags.at, <<>>) ELSE Ok(<<>>, flags.at))

(* The body of a function is kept as bytes, behind its locals. *)
ReadCode(bytes, at) ==
  After(ReadUnsigned(bytes, at), LAMBDA size :
  After(ReadBytes(bytes, size.at, size.v), LAMBDA code :
  After(Read(Vec(Tuple(<<U32, ValType>>)), code.v, 1), LAMBDA locals :
    Ok([locals |-> locals.v, body |-> SubSeq(code.v, locals.at, Len(code.v))], code.at))))

(* A data segment: <<memory, offset, bytes>>. *)
ReadData(bytes, at) ==
  After(ReadUnsigned(bytes, at), LAMBDA flags :
  After(IF (flags.v % 4) \div 2 = 1 THEN ReadUnsigned(bytes, flags.at) ELSE Ok(0, flags.at), LAMBDA memory :
  After(IF flags.v % 2 = 0 THEN ReadConst(bytes, memory.at, <<>>) ELSE Ok(<<>>, memory.at), LAMBDA offset :
  After(Read(Vec(<<"byte">>), bytes, offset.at), LAMBDA data :
    Ok(<<memory.v, offset.v, data.v>>, data.at)))))

Read(format, bytes, at) ==
  CASE format[1] = "byte"    -> ReadByte(bytes, at)
    [] format[1] = "u32"     -> ReadUnsigned(bytes, at)
    [] format[1] = "const"   -> ReadConst(bytes, at, <<>>)
    [] format[1] = "valtype" -> ReadValType(bytes, at)
    [] format[1] = "type"    -> ReadType(bytes, at)
    [] format[1] = "element" -> ReadElement(bytes, at)
    [] format[1] = "code"    -> ReadCode(bytes, at)
    [] format[1] = "data"    -> ReadData(bytes, at)
    [] format[1] = "tuple"   -> ReadAll(format[2], bytes, at, <<>>)
    [] format[1] = "vec"     ->
         After(ReadUnsigned(bytes, at), LAMBDA n : ReadAll(Times(n.v, format[2]), bytes, n.at, <<>>))
    [] format[1] = "limits"  ->
         After(ReadByte(bytes, at), LAMBDA b : ReadAll(Times(1 + (b.v % 2), U32), bytes, b.at, <<>>))
    [] format[1] = "case"    ->
         After(ReadByte(bytes, at), LAMBDA b :
           IF b.v \in DOMAIN format[2] THEN After(Read(format[2][b.v], bytes, b.at), LAMBDA r : Ok(<<b.v, r.v>>, r.at))
           ELSE Bad("InvalidByte"))

-----------------------------------------------------------------------------
(* A module: for every section what its vectors held, in order. *)

Sections == [id \in {1, 2, 3, 4, 5, 6, 7, 8, 9, 10, 11, 13} |->
  CASE id = 1 -> TypeSection     [] id = 2 -> ImportSection  [] id = 3 -> FunctionSection
    [] id = 4 -> TableSection    [] id = 5 -> MemorySection  [] id = 6 -> GlobalSection
    [] id = 7 -> ExportSection   [] id = 8 -> StartSection   [] id = 9 -> ElementSection
    [] id = 10 -> CodeSection    [] id = 11 -> DataSection   [] id = 13 -> TagSection]

Empty == [id \in DOMAIN Sections |-> <<>>]
Start == 8

(* Reads the sections from a position on: a section must lie inside the bytes and is read alone. *)
RECURSIVE ReadSections(_, _, _)
ReadSections(bytes, at, module) ==
  IF at > Len(bytes) THEN Ok(module, at) ELSE
  After(ReadUnsigned(bytes, at + 1), LAMBDA size :
  After(ReadBytes(bytes, size.at, size.v), LAMBDA section :
    LET id == bytes[at] IN
    IF id \notin DOMAIN Sections THEN ReadSections(bytes, section.at, module)
    ELSE After(Read(Sections[id], section.v, 1), LAMBDA r :
           ReadSections(bytes, section.at,
                        [module EXCEPT ![id] = IF id = Start THEN <<r.v>> ELSE @ \o r.v]))))

Header == <<0, 97, 115, 109, 1, 0, 0, 0>>

Parse(bytes) ==
  IF Len(bytes) < 8 THEN Bad("TooShort")
  ELSE IF SubSeq(bytes, 1, 4) # SubSeq(Header, 1, 4) THEN Bad("BadMagic")
  ELSE IF SubSeq(bytes, 5, 8) # SubSeq(Header, 5, 8) THEN Bad("BadVersion")
  ELSE ReadSections(bytes, 9, Empty)

(* Imported functions come first in the numbering; functions and types count from 0. *)
ImportedFunctions(module) == SelectSeq(module[2], LAMBDA i : i[3][1] = 0)
TypeIndex(module, f) ==
  LET imported == Len(ImportedFunctions(module))
  IN  IF f < imported THEN ImportedFunctions(module)[f + 1][3][2] ELSE module[3][f - imported + 1]
FuncType(module, f) == module[1][TypeIndex(module, f) + 1]
===============================================================================
