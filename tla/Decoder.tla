------------------------------- MODULE Decoder -------------------------------
(***************************************************************************)
(* The instruction decoder (DriverShared/Disassembler/libudis86/decode.c)  *)
(* as EasyHook uses it: how many bytes an instruction has, where its       *)
(* displacement lies and whether that is relative to RIP.  Code is a       *)
(* sequence of bytes; `mode` is 32 or 64, the mode of the build.           *)
(*                                                                         *)
(* The map of the one-byte opcodes in itab.c is kept whole, up to the      *)
(* shape of an instruction; of the others the integer instructions and one *)
(* of each sort.  A byte that is left out leads to Invalid, as INVALID     *)
(* does there.                                                             *)
(***************************************************************************)
EXTENDS Integers, Sequences, FiniteSets, SequencesExt, Functions

----------------------------------------------------------------------------
(* Prefixes. *)

LegacyPrefixes == {\h2E, \h36, \h3E, \h26, \h64, \h65, \h67, \hF0, \h66, \hF2, \hF3}
IsRex(mode, b) == mode = 64 /\ b \in \h40..\h4F
IsPrefixByte(mode, b) == b \in LegacyPrefixes \/ IsRex(mode, b)

Bit(b, n) == (b \div 2^n) % 2
RexW(rex) == Bit(rex, 3)
RexB(rex) == Bit(rex, 0)

\* inp_next: the n-th byte, or 0 behind the end of the input.
Byte(code, n) == IF n \in DOMAIN code THEN code[n] ELSE 0

\* What the prefixes at the front of the code select.  A REX byte counts only as the last of them;
\* of the string prefixes the last one counts.
decode_prefixes(mode, code) ==
  LET n == CHOOSE k \in 0..Len(code) : /\ \A i \in 1..k : IsPrefixByte(mode, code[i])
                                       /\ ~ IsPrefixByte(mode, Byte(code, k + 1))
      seen == {code[i] : i \in 1..n}
      strings == {i \in 1..n : code[i] \in {\hF2, \hF3}}
  IN [mode |-> mode, code |-> code, at |-> n, error |-> n + 1 >= 15,
      adr |-> \h67 \in seen, opr |-> \h66 \in seen,
      str |-> IF strings = {} THEN 0 ELSE code[CHOOSE i \in strings : \A j \in strings : j <= i],
      rex |-> IF n > 0 /\ IsRex(mode, code[n]) THEN code[n] ELSE 0,
      vex |-> <<>>, modrmAt |-> 0]

eff_opr_mode(u) ==
  CASE u.mode = 64 /\ RexW(u.rex) = 1 -> 64
    [] ~ (u.mode = 64 /\ RexW(u.rex) = 1) /\ u.opr -> 16
    [] OTHER -> 32

eff_adr_mode(u) == IF u.adr THEN u.mode \div 2 ELSE u.mode

----------------------------------------------------------------------------
(* The opcode map. *)

Insn(operands, flags) == [type |-> "insn", operands |-> operands, flags |-> flags]
Node(type, table) == [type |-> type, table |-> table]
Invalid == Insn(<<>>, {})
Entry(table, i) == IF i \in DOMAIN table THEN table[i] ELSE Invalid

\* Operands by code and size, as "Ev" in itab.c; register operands that take no byte are left out.
Op(code, size) == <<code, size>>
Ib == Op("I", "b")
Iz == Op("I", "z")
Jb == Op("J", "b")
M == Op("M", "v")
ModRM(more) == Insn(<<Op("E", "v"), Op("G", "v")>> \o more, {"rexw"})
Unary(more) == Insn(<<Op("E", "v")>> \o more, {"rexw"})
Imm(op) == Insn(<<op>>, {})
Alone == Insn(<<>>, {})

\* Only in 32-bit mode, at index 0.
Mode32(insn) == Node("MODE", [i \in {0} |-> insn])
Reg(fields, insn) == Node("REG", [i \in fields |-> insn])

\* The two-byte opcodes: the integer instructions, and of the others one of each sort.
Group7 ==
  Node("MOD",
       [m \in {0, 1} |->
          IF m = 0 THEN Reg(0..7 \ {5}, Insn(<<M>>, {}))
          ELSE Node("REG", [r \in {0, 4, 6} |->
                              IF r = 0 THEN Node("RM", [k \in 1..4 |-> Node("VENDOR", [v \in {1} |-> Alone])])
                              ELSE Unary(<<>>)])])

TwoBytes ==
  [b \in {\h01, \h05, \h0B, \h0D, \h0F, \h19, \h1F, \h2E, \h31, \hA2, \hBA, \hC2}
         \cup \h40..\h4F \cup \h80..\h9F \cup \hA3..\hA5 \cup \hAB..\hAD \cup \hAF..\hB7
         \cup \hBB..\hBF \cup {\hC0, \hC1} \cup \hC8..\hCF |->
     CASE b = \h01                              -> Group7
       [] b \in {\h05, \h0B, \h31, \hA2}       -> Alone
       [] b = \h0D                              -> Reg(0..7, Insn(<<M>>, {"rexw"}))
       [] b = \h0F                              -> Node("3DNOW", <<>>)
       [] b \in {\h19, \h1F}                    -> Insn(<<M>>, {})
       [] b = \h2E                              -> Node("SSE", [i \in {0, 3} |-> ModRM(<<>>)])
       [] b \in \h80..\h8F                      -> Insn(<<Op("J", "z")>>, {"def64"})
       [] b \in {\hA4, \hAC}                    -> ModRM(<<Ib>>)
       [] b = \hBA                              -> Reg(4..7, Unary(<<Ib>>))
       [] b = \hC2                              -> Node("SSE", [i \in 0..3 |-> ModRM(<<Ib>>)])
       [] b \in \hC8..\hCF                      -> Insn(<<>>, {"rexw"})
       [] b \in {\hB2, \hB4, \hB5}              -> Insn(<<Op("G", "v"), M>>, {"rexw"})
       [] OTHER                                 -> ModRM(<<>>)]

\* Behind C4 and C5: the map of 0F with no further prefix.
TableVex ==
  [b \in {\h58, \h77} |->
     IF b = \h58 THEN Insn(<<Op("V", "x"), Op("H", "x"), Op("W", "x")>>, {})
     ELSE Node("VEX_L", [l \in {0, 1} |-> Alone])]
LesOrVex == Node("VEX", [i \in {0, 1} |-> IF i = 0 THEN Mode32(Insn(<<Op("G", "v"), M>>, {}))
                                          ELSE Node("TABLE", TableVex)])

\* 60 and 61, 9C and 9D: by operand size, then by mode.
PushAll == Node("OSIZE", [i \in {0, 1} |-> Mode32(Alone)])
PushFlags == Node("OSIZE", [i \in 0..2 |-> Node("MODE", [m \in {0, 1} |-> Alone])])

Immediates80 ==
  [b \in \h80..\h83 |->
     IF b = \h82 THEN Node("REG", [i \in 0..7 |-> Mode32(Unary(<<Ib>>))])
     ELSE Reg(0..7, Unary(<<IF b = \h81 THEN Iz ELSE Ib>>))]

\* D8 to DF: memory by the register field, or a register of the stack; the gaps are not kept.
Coprocessor == Node("MOD", [m \in {0, 1} |-> IF m = 0 THEN Reg(0..7, Insn(<<M>>, {}))
                                             ELSE Node("X87", [i \in 0..63 |-> Alone])])

Group3(immediate) == Node("REG", [i \in 0..7 |-> Unary(IF i < 2 THEN <<immediate>> ELSE <<>>)])
Group5 ==
  Node("REG",
       [i \in 0..6 |->
          CASE i = 2            -> Node("MODE", [m \in {0, 1} |->
                                     Insn(<<Op("E", "v")>>, {"rexw"} \cup (IF m = 1 THEN {"def64"} ELSE {}))])
            [] i \in {3, 5}     -> Insn(<<Op("F", "v")>>, {"rexw"})
            [] i \in {4, 6}     -> Insn(<<Op("E", "v")>>, {"rexw", "def64"})
            [] OTHER            -> Unary(<<>>)])

\* The eight rows of arithmetic: register and memory both ways, an immediate, and what is left over.
Arithmetic(b) ==
  CASE b % 8 \in 0..3 -> ModRM(<<>>)
    [] b % 8 = 4      -> Imm(Ib)
    [] b % 8 = 5      -> Insn(<<Iz>>, {"rexw"})
    [] b % 8 \in 6..7 -> Mode32(Alone)

OneByte ==
  [b \in 0..255 \ LegacyPrefixes |->
     CASE b = \h0F                                  -> Node("TABLE", TwoBytes)
       [] b \in \h00..\h3F \ {\h0F}               -> Arithmetic(b)
       [] b \in {\h60, \h61}                        -> PushAll
       [] b = \h62                                  -> Mode32(Insn(<<Op("G", "v"), M>>, {}))
       [] b = \h63                                  -> Node("MODE", [i \in {0, 1} |-> ModRM(<<>>)])
       [] b = \h68                                  -> Insn(<<Iz>>, {"def64"})
       [] b = \h69                                  -> ModRM(<<Iz>>)
       [] b = \h6A                                  -> Insn(<<Ib>>, {"def64"})
       [] b = \h6B                                  -> ModRM(<<Ib>>)
       [] b \in \h70..\h7F \cup \hE0..\hE2         -> Imm(Jb)
       [] b \in \h80..\h83                          -> Immediates80[b]
       [] b \in \h84..\h8B                          -> ModRM(<<>>)
       [] b \in {\h8C, \h8E}                        -> Insn(<<Op("MR", "v"), Op("S", "w")>>, {"rexw"})
       [] b = \h8D                                  -> Insn(<<Op("G", "v"), M>>, {"rexw"})
       [] b = \h8F                                  -> Reg({0}, Insn(<<Op("E", "v")>>, {"rexw", "def64"}))
       [] b \in {\h9A, \hEA}                        -> Mode32(Imm(Op("A", "v")))
       [] b \in {\h9C, \h9D}                        -> PushFlags
       [] b \in \hA0..\hA3                          -> Insn(<<Op("O", "v")>>, {"rexw"})
       [] b \in {\hA8, \hCD} \cup \hB0..\hB7 \cup \hE4..\hE7 -> Imm(Ib)
       [] b = \hA9                                  -> Insn(<<Iz>>, {"rexw"})
       [] b \in \hB8..\hBF                          -> Insn(<<Op("I", "v")>>, {"rexw"})
       [] b \in {\hC0, \hC1}                        -> Reg(0..7, Unary(<<Ib>>))
       [] b \in {\hC2, \hCA}                        -> Imm(Op("I", "w"))
       [] b \in {\hC4, \hC5}                        -> LesOrVex
       [] b \in {\hC6, \hC7}                        -> Reg({0}, Unary(<<IF b = \hC6 THEN Ib ELSE Iz>>))
       [] b = \hC8                                  -> Insn(<<Op("I", "w"), Ib>>, {"def64"})
       [] b \in {\hCE, \hD6}                        -> Mode32(Alone)
       [] b \in \hD0..\hD3                          -> Reg(0..7, Unary(<<>>))
       [] b \in {\hD4, \hD5}                        -> Mode32(Imm(Ib))
       [] b \in \hD8..\hDF                          -> Coprocessor
       [] b = \hE3                                  -> Node("ASIZE", [i \in 0..2 |-> Imm(Jb)])
       [] b \in {\hE8, \hE9}                        -> Insn(<<Op("J", "z")>>, {"def64"})
       [] b = \hEB                                  -> Insn(<<Jb>>, {"def64"})
       [] b \in {\hF6, \hF7}                        -> Group3(IF b = \hF6 THEN Ib ELSE Iz)
       [] b = \hFE                                  -> Reg({0, 1}, Unary(<<>>))
       [] b = \hFF                                  -> Group5
       [] OTHER                                     -> Alone]

----------------------------------------------------------------------------
(* From the prefixes to the instruction. *)

\* The ModRM byte is read once, by whoever needs it first.
ReadModrm(u) == IF u.modrmAt # 0 THEN u ELSE [u EXCEPT !.at = @ + 1, !.modrmAt = u.at + 1]
Modrm(u) == Byte(u.code, u.modrmAt)
ModOf(m) == m \div 64
RegOf(m) == (m \div 8) % 8
RmOf(m) == m % 8

\* The index of a "SSE" table: F2 and F3 go before 66; a prefix is consumed if it selects an entry.
SseIndex(u) == CASE u.str = \hF2 -> 1 [] u.str = \hF3 -> 2 [] u.str = 0 /\ u.opr -> 3 [] OTHER -> 0

decode_ssepfx(u, node) ==
  LET i == SseIndex(u)
      taken == i \in DOMAIN node.table /\ i # 0
  IN [state |-> IF taken THEN [u EXCEPT !.str = 0, !.opr = @ /\ u.str # 0] ELSE u,
      next |-> Entry(node.table, IF taken THEN i ELSE 0)]

\* C4 and C5 are LES and LDS in 32-bit mode unless a byte follows that no ModRM of theirs can be.
decode_vex(u, node) ==
  LET op == Byte(u.code, u.at)
      b1 == Byte(u.code, u.at + 1)
      b2 == Byte(u.code, u.at + 2)
  IN IF u.mode # 64 /\ ModOf(b1) # 3 THEN [state |-> u, next |-> Entry(node.table, 0)]
     ELSE IF op = \hC5
     THEN [state |-> [u EXCEPT !.at = @ + 1, !.vex = <<b1>>],
           next |-> Entry(node.table, 1 + 4 * (b1 % 4))]
     ELSE IF b1 % 32 \notin 1..3
     THEN [state |-> [u EXCEPT !.at = @ + 2, !.error = TRUE], next |-> Invalid]
     ELSE [state |-> [u EXCEPT !.at = @ + 2, !.vex = <<b1, b2>>],
           next |-> Entry(node.table, (b1 % 32) + 4 * (b2 % 4))]

\* One level of decode_ext.
Descend(u, node) ==
  LET v == ReadModrm(u)
      Select(state, i) == [state |-> state, next |-> Entry(node.table, i)]
  IN CASE node.type = "MODE"   -> Select(u, IF u.mode = 64 THEN 1 ELSE 0)
       [] node.type = "ASIZE"  -> Select(u, eff_adr_mode(u) \div 32)
       [] node.type = "OSIZE"  -> Select(u, eff_opr_mode(u) \div 32)
       [] node.type = "MOD"    -> Select(v, (ModOf(Modrm(v)) + 1) \div 4)
       [] node.type = "REG"    -> Select(v, RegOf(Modrm(v)))
       [] node.type = "RM"     -> Select(v, RmOf(Modrm(v)))
       [] node.type = "X87"    -> Select(v, Modrm(v) - \hC0)
       [] node.type = "VENDOR" -> Select(u, IF 0 \in DOMAIN node.table THEN 0 ELSE 1)
       [] node.type = "VEX_L"  -> Select(u, Bit(Last(u.vex), 2))
       [] node.type = "VEX_W"  -> Select(u, IF Len(u.vex) = 2 THEN Bit(u.vex[2], 7) ELSE 0)
       [] node.type = "TABLE"  -> Select([u EXCEPT !.at = @ + 1], Byte(u.code, u.at + 1))
       [] node.type = "SSE"    -> decode_ssepfx(u, node)
       [] node.type = "VEX"    -> decode_vex(u, node)

\* Down to an entry that is no table any more; the tables nest no deeper than Depth, as 0F 01 does.
Depth == 5
Level(d) == IF d.next.type \in {"insn", "3DNOW"} THEN d ELSE Descend(d.state, d.next)
decode_ext(d) == FoldLeft(LAMBDA e, k : Level(e), d, [k \in 1..Depth |-> k])

----------------------------------------------------------------------------
(* Operands. *)

\* resolve_mode: operand and address size of the instruction.
resolve_mode(u, insn) ==
  [opr |-> CASE u.mode = 64 /\ "rexw" \in insn.flags /\ RexW(u.rex) = 1 -> 64
             [] u.opr /\ ~ (u.mode = 64 /\ "rexw" \in insn.flags /\ RexW(u.rex) = 1) -> 16
             [] OTHER -> IF u.mode = 64 /\ "def64" \in insn.flags THEN 64 ELSE 32,
   adr |-> eff_adr_mode(u)]

\* Bytes of an immediate.
ImmediateSize(size, opr) ==
  CASE size = "b" -> 1
    [] size = "w" -> 2
    [] size = "v" -> opr \div 8
    [] size = "z" -> IF opr = 16 THEN 2 ELSE 4

\* decode_modrm_rm: the bytes behind ModRM, and whether the displacement is relative to RIP.
MemoryOperand(u, adr) ==
  LET m == Modrm(u)
      mod == ModOf(m)
      rm == RmOf(m) + 8 * RexB(u.rex)
      hasSib == adr # 16 /\ rm % 8 = 4
      base == Byte(u.code, u.modrmAt + 1) % 8
      frame == base = 5 /\ (adr = 64 \/ RexB(u.rex) = 0)
      disp == CASE mod = 1 -> 1
                [] adr = 16 /\ (mod = 2 \/ (mod = 0 /\ rm % 8 = 6)) -> 2
                [] adr # 16 /\ mod = 2 -> 4
                [] adr = 64 /\ mod = 0 /\ rm % 8 = 5 -> 4
                [] adr = 32 /\ mod = 0 /\ rm = 5 -> 4
                [] hasSib /\ mod = 0 /\ frame -> 4
                [] OTHER -> 0
  IN IF mod = 3 THEN [sib |-> 0, disp |-> 0, rip |-> FALSE]
     ELSE [sib |-> IF hasSib THEN 1 ELSE 0, disp |-> disp,
           rip |-> adr = 64 /\ mod = 0 /\ rm % 8 = 5]

\* decode_operand: which codes read ModRM, which address through it, which must be memory or not.
Memory == {"E", "M", "F", "MR", "MU", "N", "Q", "U", "W", "R"}
NeedsModrm == Memory \cup {"G", "P", "V", "S", "C", "D"}
MustBeMemory == {"M", "F"}
MustBeRegister == {"N", "U", "R"}

\* A decode error: the wrong kind of ModRM.
OperandError(u, insn) ==
  \E i \in DOMAIN insn.operands :
    \/ insn.operands[i][1] \in MustBeMemory /\ ModOf(Modrm(u)) = 3
    \/ insn.operands[i][1] \in MustBeRegister /\ ModOf(Modrm(u)) # 3

\* Bytes of an operand that is part of the instruction.
OperandSize(op, size) ==
  CASE op[1] \in {"I", "J"} -> ImmediateSize(op[2], size.opr)
    [] op[1] = "O"          -> size.adr \div 8
    [] op[1] = "L"          -> 1
    [] op[1] = "A"          -> IF size.opr = 16 THEN 4 ELSE 6
    [] OTHER                -> 0

OperandCodes(insn) == {insn.operands[i][1] : i \in DOMAIN insn.operands}

\* What the parts of an instruction come to, u being behind its ModRM byte.
Measured(u, insn, size, mem, error) ==
  [length |-> u.at + mem.sib + mem.disp + FoldSeq(LAMBDA op, n : n + OperandSize(op, size), 0, insn.operands),
   error |-> error, rip |-> mem.rip /\ ~ error,
   dispAt |-> IF mem.disp = 0 THEN 0 ELSE u.at + mem.sib]

decode_operands(u, insn) ==
  Measured(u, insn, resolve_mode(u, insn),
           IF OperandCodes(insn) \cap Memory # {} THEN MemoryOperand(u, eff_adr_mode(u))
           ELSE [sib |-> 0, disp |-> 0, rip |-> FALSE],
           u.error \/ OperandError(u, insn))

\* A 3DNow! instruction ends with a byte that tells which it is.
decode_entry(d) ==
  IF d.next.type = "3DNOW"
  THEN decode_operands(ReadModrm(d.state), Insn(<<Op("V", "q"), Op("W", "q"), Ib>>, {}))
  ELSE decode_operands(IF OperandCodes(d.next) \cap NeedsModrm # {} THEN ReadModrm(d.state) ELSE d.state, d.next)

decode_opcode(u) ==
  IF u.error THEN [length |-> 15, error |-> TRUE, rip |-> FALSE, dispAt |-> 0]
  ELSE decode_entry(decode_ext([state |-> [u EXCEPT !.at = @ + 1],
                         next |-> Entry(OneByte, Byte(u.code, u.at + 1))]))

\* ud_decode: the bytes read, also when decoding failed, and the place of the displacement (counted
\* from 0, 0 for none).
ud_decode(mode, code) == decode_opcode(decode_prefixes(mode, code))

=============================================================================
