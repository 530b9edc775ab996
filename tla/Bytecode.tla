-------------------------------- MODULE Bytecode --------------------------------
(***************************************************************************)
(* Instructions and registers (src/src/interpreter/bytecodes.rs,           *)
(* bytecode_register.rs, bytecode_array.rs), as the generator writes and   *)
(* the machine reads them.                                                 *)
(*                                                                         *)
(* An instruction is a tuple of its opcode and its operands: a constant    *)
(* stands for its index in the pool, and a jump counts instructions, not   *)
(* bytes.  Binary and unary opcodes are written as their operators.  A     *)
(* register is its index: 0, 1, .. for locals, -1 for the receiver, -2,    *)
(* -3, .. for parameters.                                                  *)
(***************************************************************************)
EXTENDS Integers, Sequences, SequencesExt

Receiver == -1
Parameter(i) == -1 - i

(* The receiver and parameters come first, twelve locals behind three      *)
(* parameters, and the other parameters behind the locals.                 *)
Slot(r) == IF r >= 0 THEN 4 + r ELSE IF -1 - r < 4 THEN -1 - r ELSE 12 - 1 - r

(* The bytes of an instruction, with its feedback slot and flags: a jump's *)
(* distance is written in one byte, and a longer one would be cut off.     *)
WithSlot == {"+", "-", "*", "/", "%", "&", "|", "^", "<<", ">>", "==", "===", "<", ">", "<=", ">=", "in",
             "LdaGlobal", "StaGlobal", "LdaKeyedProperty", "StaNamedProperty", "Construct"}
Width(i) ==
  CASE i[1] = "Star" -> IF i[2] \in 0..15 THEN 1 ELSE 2
    [] i[1] \in WithSlot -> Len(i) + 1
    [] i[1] \in {"StaKeyedProperty", "StaInArrayLiteral"} -> Len(i) + 2
    [] OTHER -> Len(i)

Jumps == {"Jump", "JumpLoop", "JumpIfTrue", "JumpIfFalse", "JumpIfUndefinedOrNull"}
Bytes(code, from, to) == FoldLeft(LAMBDA sum, i : sum + Width(i), 0, SubSeq(code, from, to - 1))
JumpsFit(code) ==
  \A j \in DOMAIN code :
    code[j][1] \in Jumps => IF code[j][2] > 0 THEN Bytes(code, j, j + code[j][2]) <= 127
                                              ELSE Bytes(code, j + code[j][2], j) <= 128
=============================================================================
