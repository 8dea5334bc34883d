------------------------------ MODULE X86Decode ------------------------------
(***************************************************************************)
(* decode_x86_insn (rosetta_x86_decode.c): how many bytes an instruction    *)
(* takes and which opcode and operands it names.  A handful of fast paths   *)
(* recognise common instructions by their first three bytes; what they      *)
(* leave goes through prefixes, opcode, ModR/M byte, displacement and       *)
(* immediate.  An instruction is a sequence of bytes; zeros follow it.      *)
(***************************************************************************)
EXTENDS Naturals, Sequences

(* p[i] in C. *)
At(b, i) == IF i < Len(b) THEN b[i + 1] ELSE 0

Bit(x, i) == (x \div 2^i) % 2
IsRex(x) == x \in \h40 .. \h4F

(* The fields of a ModR/M byte. *)
Mod(m) == m \div 64
Reg(m) == (m \div 8) % 8
Rm(m) == m % 8

-----------------------------------------------------------------------------
(* Fast paths: opcode and ModR/M byte stand behind at most one REX prefix.  *)

Skip(b) == IF IsRex(At(b, 0)) THEN 1 ELSE 0
FastRex(b) == IF IsRex(At(b, 0)) THEN At(b, 0) ELSE 0
Op(b) == At(b, Skip(b))
ModRM(b) == At(b, Skip(b) + 1)

IsSimplePushPop(b) == At(b, 0) \in \h50 .. \h5F

IsSimpleMemoryInsn(b) ==
  /\ Op(b) \in IF Skip(b) = 1 THEN {\h89, \h8B} ELSE \h88 .. \h8B
  /\ Mod(ModRM(b)) = 3 /\ Rm(ModRM(b)) # 4

AluOps == (\h01 .. \h03) \union (\h08 .. \h0B) \union (\h20 .. \h23)
          \union (\h28 .. \h2B) \union (\h30 .. \h33) \union (\h38 .. \h3B)

(* Mutant: memory operands are not sent to the general path. *)
IsAluAnyOperand(b) == Op(b) \in AluOps

IsRegToRegAlu(b) == Op(b) \in AluOps /\ Mod(ModRM(b)) = 3

IsSimpleLea(b) == Op(b) = \h8D

IsSimpleIncDec(b) ==
  /\ Skip(b) = 1 /\ Bit(At(b, 0), 3) = 1 /\ Op(b) = \hFF
  /\ Reg(ModRM(b)) \in {0, 1} /\ Mod(ModRM(b)) = 3

IsSimpleRet(b) == At(b, 0) \in {\hC2, \hC3}

IsSimpleJcc(b) ==
  \/ At(b, 0) \in \h70 .. \h7F
  \/ At(b, 0) = \h0F /\ At(b, 1) \in \h80 .. \h8F

IsSimpleJmpCall(b) == At(b, 0) \in {\hE8, \hE9, \hEB}

(* What is kept of an x86_insn_t; is64 is its is_64bit.  The values of      *)
(* displacement and immediate are left out.                                 *)
Insn(length, op, op2, mod, reg, rm) ==
  [length |-> length, opcode |-> op, opcode2 |-> op2, mod |-> mod, reg |-> reg, rm |-> rm,
   is64 |-> 1]

NoOperand(length, op, op2) == Insn(length, op, op2, 0, 0, 0)

(* The extended fields: bit 2 of a REX prefix extends reg, bit 0 extends rm. *)
RegX(rex, m) == Reg(m) + 8 * Bit(rex, 2)
RmX(rex, m) == Rm(m) + 8 * Bit(rex, 0)

(* Mutant: the ModR/M byte is not counted. *)
DecodeRegistersShort(b) ==
  Insn(Skip(b) + 1, Op(b), 0, Mod(ModRM(b)), RegX(FastRex(b), ModRM(b)),
       RmX(FastRex(b), ModRM(b)))

(* decode_memory_insn_fast and decode_alu_insn_fast.  A REX prefix without  *)
(* bit 3 clears is_64bit, as it does in none of the other paths.            *)
DecodeRegisters(b) ==
  [Insn(Skip(b) + 2, Op(b), 0, Mod(ModRM(b)), RegX(FastRex(b), ModRM(b)),
        RmX(FastRex(b), ModRM(b)))
   EXCEPT !.is64 = IF Skip(b) = 0 THEN 1 ELSE Bit(FastRex(b), 3)]

(* The register behind an INC or DEC is in rm alone. *)
DecodeIncDecFast(b) == [DecodeRegisters(b) EXCEPT !.reg = Reg(ModRM(b))]

(* SIB byte and displacement are looked for by the extended rm. *)
DecodeLeaFast(b) ==
  LET mod == Mod(ModRM(b))
      rm == RmX(FastRex(b), ModRM(b))
      sib == IF rm = 4 /\ mod # 3 THEN 1 ELSE 0
      disp == IF mod = 1 THEN 1
              ELSE IF mod = 2 \/ (mod = 0 /\ rm = 5) THEN 4 ELSE 0
  IN [DecodeRegisters(b) EXCEPT !.length = @ + sib + disp]

DecodeFast(b) ==
  LET op == At(b, 0) IN
  CASE IsSimplePushPop(b) -> [NoOperand(1, op, 0) EXCEPT !.reg = op % 8]
    [] IsSimpleMemoryInsn(b) \/ IsRegToRegAlu(b) -> DecodeRegisters(b)
    [] IsSimpleLea(b) -> DecodeLeaFast(b)
    [] IsSimpleIncDec(b) -> DecodeIncDecFast(b)
    [] IsSimpleRet(b) -> NoOperand(IF op = \hC2 THEN 3 ELSE 1, op, 0)
    [] IsSimpleJcc(b) -> IF op = \h0F THEN NoOperand(6, op, At(b, 1)) ELSE NoOperand(2, op, 0)
    [] IsSimpleJmpCall(b) -> NoOperand(IF op = \hEB THEN 2 ELSE 5, op, 0)

IsFast(b) ==
  \/ IsSimplePushPop(b) \/ IsSimpleMemoryInsn(b) \/ IsRegToRegAlu(b) \/ IsSimpleLea(b)
  \/ IsSimpleIncDec(b) \/ IsSimpleRet(b) \/ IsSimpleJcc(b) \/ IsSimpleJmpCall(b)

-----------------------------------------------------------------------------
(* The general path.                                                        *)

IsPrefix(x) == IsRex(x) \/ x \in \h60 .. \h67 \/ x \in {\hF0, \hF2, \hF3}

Prefixes(b) ==
  CHOOSE k \in 0 .. Len(b) :
    ~IsPrefix(At(b, k)) /\ \A i \in 0 .. k - 1 : IsPrefix(At(b, i))

(* The first REX prefix counts, wherever it stands. *)
Rex(b) ==
  LET rexes == {i \in 0 .. Prefixes(b) - 1 : IsRex(At(b, i))} IN
  IF rexes = {} THEN 0 ELSE At(b, CHOOSE i \in rexes : \A j \in rexes : i <= j)

(* opcode, opcode2 and opcode3, and the offset of what follows them.        *)
Codes(op, op2, op3, next) == [op |-> op, op2 |-> op2, op3 |-> op3, next |-> next]

Opcode(b) ==
  LET k == Prefixes(b)
      c == At(b, k)
  IN CASE c = \hC5 -> Codes(0, At(b, k + 2), 0, k + 3)
       [] c = \hC4 -> IF At(b, k + 1) % 32 \in 1 .. 3
                      THEN Codes(0, At(b, k + 3), 0, k + 4)
                      ELSE Codes(At(b, k + 3), 0, 0, k + 4)
       [] c = \h0F -> IF At(b, k + 1) \in {\h38, \h3A}
                      THEN Codes(0, At(b, k + 1), At(b, k + 2), k + 3)
                      ELSE Codes(0, At(b, k + 1), 0, k + 2)
       [] OTHER -> Codes(c, 0, 0, k + 1)

(* modrm_lookup and modrm_0f_lookup, where they are 1.  A row of the second *)
(* is 8 entries short, so that all entries from 0x48 on stand 8 too low.    *)
ModRMLookup ==
  (0 .. \h3F) \union {\h61, \h69} \union (\h80 .. \h8F) \union {\hC0, \hC1}
  \union (\hC4 .. \hC7) \union (\hD0 .. \hD7) \union (\hF1 .. \hF7) \union {\hFF}
ModRM0FLookup ==
  (\h10 .. \h2F) \union (\h38 .. \h97) \union (\h9D .. \hA0) \union (\hA3 .. \hA9)
  \union (\hAB .. \hAF) \union (\hB1 .. \hF7)

HasModRM(c) == IF c.op2 = 0 THEN c.op \in ModRMLookup ELSE c.op2 \in ModRM0FLookup

(* ModR/M byte, SIB byte and displacement. *)
AddressSize(m) ==
  1 + (IF Mod(m) # 3 /\ Rm(m) = 4 THEN 1 ELSE 0)
    + CASE Mod(m) = 0 -> IF Rm(m) = 5 THEN 4 ELSE 0
        [] Mod(m) = 1 -> 1
        [] Mod(m) = 2 -> 4
        [] Mod(m) = 3 -> 0

(* Mutant: the shifts and rotates by an immediate are forgotten. *)
Imm8OpsNoShift == {\h82, \h83, \hCD, \h6A, \h6B, \hEB, \hD4, \hD5}
                  \union (\hE0 .. \hE7) \union (\h70 .. \h7F)

Imm8Ops == {\h82, \h83, \hC0, \hC1, \hCD, \h6A, \h6B, \hEB, \hD4, \hD5}
           \union (\hE0 .. \hE7) \union (\h70 .. \h7F)
Imm8Ops2 == (\h80 .. \h8F) \union {\hBA, \hC2, \h70, \hC5, \hC4, \h0D, \hC6}
Imm32Ops == {\h80, \h81, \hA9, \h69, \h68, \hE8, \hE9}

IsEaxImm(op) == op <= \h3C /\ Bit(op, 3) = 0 /\ Bit(op, 2) = 1

ImmSize(c, rex) ==
  LET wide == Bit(rex, 3) = 1 IN
  CASE c.op \in \hB8 .. \hBF -> IF wide THEN 8 ELSE 4
    [] IsEaxImm(c.op) -> IF c.op % 2 = 1 THEN 4 ELSE 1
    [] c.op \in Imm32Ops -> 4
    [] c.op \in Imm8Ops -> 1
    [] c.op \in {\hC2, \hCA} -> 2
    [] c.op \in \hB0 .. \hB7 -> IF wide THEN 0 ELSE 1
    [] OTHER -> IF c.op2 \in Imm8Ops2 \/ (c.op2 = \h3A /\ c.op3 # 0) THEN 1 ELSE 0

(* The operations with AL or EAX and an immediate set rm to 0.  Behind the  *)
(* prefixes is_64bit is 1, whatever they made of it.                        *)
DecodeGeneral(b) ==
  LET c == Opcode(b)
      rex == Rex(b)
      m == At(b, c.next)
      imm == ImmSize(c, rex)
  IN IF HasModRM(c)
     THEN Insn(c.next + AddressSize(m) + imm, c.op, c.op2, Mod(m), RegX(rex, m),
               IF IsEaxImm(c.op) THEN 0 ELSE RmX(rex, m))
     ELSE NoOperand(c.next + imm, c.op, c.op2)

Decode(b) == IF IsFast(b) THEN DecodeFast(b) ELSE DecodeGeneral(b)
=============================================================================
