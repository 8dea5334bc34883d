----------------------------- MODULE DecodeCheck -----------------------------
(***************************************************************************)
(* The decoder against the encoding of x86-64: an instruction is put        *)
(* together from its parts, whose sizes the architecture gives (the opcode  *)
(* maps of the Intel manual, 64-bit mode), and its bytes are decoded.       *)
(***************************************************************************)
EXTENDS X86Decode

CONSTANTS
  Legacies,   \* sequences of legacy prefixes
  Rexes,      \* empty, or one REX prefix
  ModRMs,     \* ModR/M bytes, and what follows an instruction without
  Sibs        \* SIB bytes, and what follows an instruction without

(* The prefixes are bytes, and so is the rest. *)
ASSUME DecodeAssumption ==
  /\ Legacies \subseteq Seq({\h64, \h65, \h66, \h67, \hF0, \hF2, \hF3})
  /\ Rexes \subseteq {<<>>} \union {<<x>> : x \in \h40 .. \h4F}
  /\ ModRMs \subseteq 0 .. \hFF /\ Sibs \subseteq 0 .. \hFF

VARIABLES
  code,       \* the instruction
  insn        \* what it was decoded to

checkVars == <<code, insn>>

-----------------------------------------------------------------------------
(* The opcode maps.  A map is the bytes in front of its opcodes.            *)

OneByte ==
  {x \in 0 .. \hFF :
    /\ x <= \h3F => x % 8 < 6
    /\ x \notin (\h40 .. \h4F) \union (\h60 .. \h62) \union (\h64 .. \h67)
    /\ x \notin {\h82, \h9A, \hC4, \hC5, \hCE, \hD4, \hD5, \hD6, \hEA, \hF0, \hF2, \hF3}}
TwoByte ==
  (0 .. \hFF) \ ({\h04, \h0A, \h0C, \h0E, \h0F, \h36, \h78, \h79, \h7A, \h7B, \hA6, \hA7, \hFF}
                 \union (\h20 .. \h27) \union (\h38 .. \h3F))

Opcodes ==
  {[map |-> <<>>, op |-> x] : x \in OneByte}
  \union {[map |-> <<\h0F>>, op |-> x] : x \in TwoByte}
  \union {[map |-> <<\h0F, \h38>>, op |-> x] : x \in {\h00, \hF0}}
  \union {[map |-> <<\h0F, \h3A>>, op |-> x] : x \in {\h0F, \h63}}
VexOpcodes ==
  {[map |-> <<\hC5, \hF8>>, op |-> x] : x \in {\h10, \h58, \h77, \hC6, \hEF}}
  \union {[map |-> <<\hC4, \hE1, \h78>>, op |-> x] : x \in {\h10, \h58, \hC6, \hEF}}
  \union {[map |-> <<\hC4, \hE2, \h79>>, op |-> x] : x \in {\h00, \h0C, \h18}}
  \union {[map |-> <<\hC4, \hE3, \h79>>, op |-> x] : x \in {\h0F, \h4A}}

Instructions ==
  [legacy : Legacies, rex : Rexes, opcode : Opcodes, modrm : ModRMs, sib : Sibs]
  \union
  [legacy : {<<>>}, rex : {<<>>}, opcode : VexOpcodes, modrm : ModRMs, sib : Sibs]

(* As many bytes follow as an instruction has at most.                      *)
BytesOf(i) ==
  i.legacy \o i.rex \o i.opcode.map \o <<i.opcode.op, i.modrm, i.sib>>
    \o [k \in 1 .. 15 |-> \h90]

OperandSize16(i) == \E k \in DOMAIN i.legacy : i.legacy[k] = \h66
Wide(i) == i.rex # <<>> /\ Bit(i.rex[1], 3) = 1

(* "z" of the manual: an immediate of 16 or 32 bits. *)
Z(i) == IF OperandSize16(i) /\ ~Wide(i) THEN 2 ELSE 4

NeedsModRM(i) ==
  LET x == i.opcode.op IN
  CASE i.opcode.map = <<>> ->
         \/ (x <= \h3F /\ x % 8 < 4)
         \/ x \in (\h80 .. \h8F) \union (\hD0 .. \hD3) \union (\hD8 .. \hDF)
         \/ x \in {\h63, \h69, \h6B, \hC0, \hC1, \hC6, \hC7, \hF6, \hF7, \hFE, \hFF}
    [] i.opcode.map = <<\h0F>> ->
         x \notin (\h05 .. \h0B) \union (\h30 .. \h37) \union (\h80 .. \h8F)
                  \union (\hA0 .. \hA2) \union (\hA8 .. \hAA) \union (\hC8 .. \hCF) \union {\h77}
    [] OTHER -> ~(i.opcode.map[1] = \hC5 /\ x = \h77)

Immediate(i) ==
  LET x == i.opcode.op IN
  CASE i.opcode.map = <<>> ->
      (CASE x <= \h3F -> IF x % 8 = 4 THEN 1 ELSE IF x % 8 = 5 THEN Z(i) ELSE 0
         [] x \in {\h68, \h69, \h81, \hA9, \hC7} -> Z(i)
         [] x \in {\h6A, \h6B, \h80, \h83, \hA8, \hC0, \hC1, \hC6, \hCD, \hEB} -> 1
         [] x \in (\h70 .. \h7F) \union (\hB0 .. \hB7) \union (\hE0 .. \hE7) -> 1
         [] x \in \hA0 .. \hA3 -> 8
         [] x \in \hB8 .. \hBF -> IF Wide(i) THEN 8 ELSE Z(i)
         [] x \in {\hC2, \hCA} -> 2
         [] x = \hC8 -> 3
         [] x \in {\hE8, \hE9} -> 4
         [] x = \hF6 /\ Reg(i.modrm) < 2 -> 1
         [] x = \hF7 /\ Reg(i.modrm) < 2 -> Z(i)
         [] OTHER -> 0)
    [] i.opcode.map[1] = \h0F /\ Len(i.opcode.map) = 1 ->
         IF x \in \h80 .. \h8F THEN 4
         ELSE IF x \in (\h70 .. \h73) \union {\hA4, \hAC, \hBA, \hC2, \hC4, \hC5, \hC6} THEN 1 ELSE 0
    [] i.opcode.map \in {<<\h0F, \h3A>>, <<\hC4, \hE3, \h79>>} -> 1
    [] OTHER -> IF x = \hC6 THEN 1 ELSE 0

(* ModR/M byte, SIB byte and displacement. *)
HasSib(i) == Mod(i.modrm) # 3 /\ Rm(i.modrm) = 4
Operand(i) ==
  1 + (IF HasSib(i) THEN 1 ELSE 0)
    + (IF Mod(i.modrm) = 1 THEN 1
       ELSE IF \/ Mod(i.modrm) = 2
               \/ Mod(i.modrm) = 0 /\ Rm(i.modrm) = 5
               \/ Mod(i.modrm) = 0 /\ HasSib(i) /\ i.sib % 8 = 5
            THEN 4 ELSE 0)

Size(i) ==
  Len(i.legacy) + Len(i.rex) + Len(i.opcode.map) + 1
    + (IF NeedsModRM(i) THEN Operand(i) ELSE 0) + Immediate(i)

-----------------------------------------------------------------------------
NotDecoded == NoOperand(0, 0, 0)

CheckInit == code \in Instructions /\ insn = NotDecoded

CheckStep ==
  /\ insn = NotDecoded
  /\ insn' = Decode(BytesOf(code))
  /\ UNCHANGED code

CheckSpec == CheckInit /\ [][CheckStep]_checkVars

-----------------------------------------------------------------------------
(* What the decoder is known to get wrong.                                  *)

BaseR12R13(i) ==
  /\ i.opcode = [map |-> <<>>, op |-> \h8D] /\ i.legacy = <<>>
  /\ i.rex # <<>> /\ Bit(i.rex[1], 0) = 1
  /\ HasSib(i) \/ (Mod(i.modrm) = 0 /\ Rm(i.modrm) = 5)

(* The opcodes of two bytes that lose their ModR/M byte to the short row of *)
(* modrm_0f_lookup.                                                         *)
ShiftedOut == (\h98 .. \h9C) \union {\hB0} \union (\hF8 .. \hFE)

Mishandled(i) ==
  LET x == i.opcode.op IN
  \/ NeedsModRM(i) /\ Mod(i.modrm) = 0 /\ HasSib(i) /\ i.sib % 8 = 5    \* [index * s + disp32]
  \/ BaseR12R13(i)
  \/ /\ i.opcode.map = <<>>
     /\ \/ (x <= \h3F /\ x % 8 \in {4, 5}) \/ x \in {\hD7, \hF1, \hF4, \hF5}  \* have no ModR/M
        \/ x \in {\h63, \h6B, \hFE} \union (\hD8 .. \hDF)                     \* have one
        \/ x \in {\h80, \hA8, \hC6, \hC7, \hC8} \union (\hA0 .. \hA3)         \* immediates
        \/ x \in {\hF6, \hF7} /\ Reg(i.modrm) < 2
        \/ x \in \hB0 .. \hB7 /\ Wide(i)
        \/ x \in {\h68, \h69, \h81, \hA9} \union (\hB8 .. \hBF) /\ Z(i) = 2
  \/ /\ i.opcode.map = <<\h0F>>
     /\ \/ x \in (\h01 .. \h03) \union {\h0D}                                 \* have a ModR/M
        \/ x \in ShiftedOut                                                   \* have one as well
        \/ x \in {\hA0, \hA8, \hA9, \h77} \union (\hC8 .. \hCF)               \* have none
        \/ x \in {\hA4, \hAC} \union (\h71 .. \h73)                           \* immediates
        \/ x \in \h80 .. \h8F /\ (i.legacy # <<>> \/ i.rex # <<>>)
  \/ i.opcode.map = <<\hC5, \hF8>> /\ x = \h77
  \/ i.opcode.map = <<\hC4, \hE2, \h79>> /\ x = \h0C
  \/ i.opcode.map = <<\hC4, \hE3, \h79>>

Decoded == insn # NotDecoded

(* decode_x86_insn returns the number of bytes the instruction takes: the   *)
(* translators advance by it, and whatever is wrong once is wrong for the   *)
(* rest of the block.                                                       *)
LengthsRight == Decoded /\ ~Mishandled(code) => insn.length = Size(code)

(* A fast path makes of an instruction what the general path would, but for *)
(* bases r12 and r13 of LEA, the near conditional jumps, and two fields:    *)
(* is_64bit is bit 3 of the REX prefix, if there is one, where the general  *)
(* path always has 1, and reg is the register of a PUSH or POP, which the   *)
(* general path leaves at 0, and does without REX.R for an INC or DEC.      *)
(* Length, opcode, opcode2, mod and rm are the same.                        *)
FastPathsAgree ==
  LET b == BytesOf(code)
      general == DecodeGeneral(b)
  IN Decoded /\ IsFast(b) /\ ~BaseR12R13(code) /\ code.opcode.map # <<\h0F>> =>
       insn = [general EXCEPT !.is64 = IF code.rex = <<>> THEN 1 ELSE Bit(code.rex[1], 3),
                              !.reg = IF IsSimplePushPop(b) THEN code.opcode.op % 8
                                      ELSE IF IsSimpleIncDec(b) THEN @ % 8 ELSE @]

(* The fast paths look at two bytes behind the first before it is known     *)
(* whether they belong to the instruction.  What is decoded depends on the  *)
(* bytes of the instruction and on none behind it.                          *)
LooksNoFurther ==
  Decoded => insn = Decode(SubSeq(BytesOf(code), 1, insn.length) \o <<\hFF, \hFF, \hFF>>)

-----------------------------------------------------------------------------
(* Claims of a test and of a comment that the code does not keep.           *)

(* An operation of AL with an immediate takes two bytes, as                 *)
(* test_decoder_robustness.c has it for each of them.                       *)
AlImmediateLength ==
  Decoded /\ code.opcode \in {[map |-> <<>>, op |-> 8 * k + 4] : k \in 0 .. 7}
    => insn.length = Size(code)

(* SETcc, CMPXCHG and the packed additions and subtractions have a ModR/M   *)
(* byte, as the comments on the rows 0x90, 0xB0 and 0xF0 of                 *)
(* modrm_0f_lookup have it.                                                 *)
RowsComplete ==
  Decoded /\ code.opcode \in [map : {<<\h0F>>}, op : ShiftedOut] => insn.length = Size(code)

(* decode_x86_insn returns the length of the instruction, also of LEA with  *)
(* a base of r12 or r13.                                                    *)
LeaLength == Decoded /\ BaseR12R13(code) => insn.length = Size(code)
=============================================================================
