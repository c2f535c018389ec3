------------------------------ MODULE Relocation ------------------------------
(***************************************************************************)
(* The relocation of an entry point (DriverShared/LocalHook/reloc.c): the  *)
(* instructions the jumper will overwrite are copied into the page of the  *)
(* hook, with calls, jumps and RIP-relative operands adjusted.             *)
(*                                                                         *)
(* Addresses count from the entry point, which is 0; code[n + 1] is the    *)
(* byte at n.  A number of 32 bits is one in -Reach..Reach-1.              *)
(***************************************************************************)
EXTENDS Decoder, Instructions

CONSTANTS
  Reach,    \* bound: 2^31 in the code
  Distance  \* from the entry point to the buffer that receives it

ASSUME ReachIsPositive == Reach \in Nat \ {0} /\ Distance \in Nat

From(code, offset) == SubSeq(code, offset + 1, Len(code))
JumperSize == 5
Fits32(v) == v \in -Reach .. (Reach - 1)

LhGetInstructionLength(mode, code, offset) == ud_decode(mode, From(code, offset)).length

----------------------------------------------------------------------------
(* RIP-relative operands. *)

\* Variant: the distance from the entry point, whatever instruction is moved.
MemDelta_FromEntry(target, offset) == target
\* How far the instruction moves.
MemDelta(target, offset) == target - offset

Quiet == [status |-> "success", relocated |-> FALSE, distance |-> 0]
Thrown == [status |-> "thrown", relocated |-> FALSE, distance |-> 0]

\* The distance in the four bytes of a displacement.
Distance32(field) == Signed32(field[1], field[2], field[3], field[4])

\* The displacement is looked for among the bytes of the instruction, and replaced if it is found
\* once and the new one fits.
Readjust(bytes, field, moved) ==
  LET matches == {p \in 2..(Len(bytes) - 3) : SubSeq(bytes, p, p + 3) = field} IN
  IF Cardinality(matches) # 1 \/ ~ Fits32(moved) THEN Thrown
  ELSE [Quiet EXCEPT !.relocated = TRUE, !.distance = moved]

\* A distance of 0 is not printed in the disassembly, from which it is read.
ReadjustInsn(mode, bytes, field, delta) ==
  CASE mode = 32 \/ field = <<>> \/ Distance32(field) = 0 -> Quiet
    [] OTHER -> Readjust(bytes, field, Distance32(field) - delta)

RipInsn(mode, insn, rest, delta) ==
  ReadjustInsn(mode, SubSeq(rest, 1, insn.length),
               IF insn.rip THEN SubSeq(rest, insn.dispAt + 1, insn.dispAt + 4) ELSE <<>>, delta)

LhRelocateRIPRelativeInstruction(mode, code, offset, target) ==
  RipInsn(mode, ud_decode(mode, From(code, offset)), From(code, offset), MemDelta(target, offset))

----------------------------------------------------------------------------
(* The loop of LhRelocateEntryPoint, one turn at a time. *)

\* What the branch at offset goes to, as an address, and the length of its encoding; a length of 0
\* is no branch that is converted.
Branch(code, offset, a16) ==
  LET b1 == code[offset + 1]
      b2 == code[offset + 2]
      near == Signed32(b2, code[offset + 3], code[offset + 4], code[offset + 5])
      word == Signed16(b2, code[offset + 3])
  IN CASE b1 \in {\hE8, \hE9} /\ a16   -> [length |-> 3, target |-> word + offset + 3]
       [] b1 \in {\hE8, \hE9} /\ ~ a16 -> [length |-> 5, target |-> near + offset + 5]
       [] b1 = \hEB                    -> [length |-> 2, target |-> Signed8(b2) + offset + 2]
       [] OTHER                        -> [length |-> 0, target |-> 0]

\* The branches that are refused; a far jump on x86 unless it comes first.
Refused(mode, code, offset) ==
  LET b1 == code[offset + 1]
      b2 == code[offset + 2]
  IN \/ b1 = \hE3 \/ b1 \in \h70..\h7F
     \/ b1 = \h0F /\ b2 \in \h80..\h8F
     \/ b1 = \hE9 /\ mode = 32 /\ offset # 0

\* "mov rax, target" and "call rax" or "jmp rax".
ConvertedSize(mode) == IF mode = 64 THEN 12 ELSE 7

\* `code` is what is read, `at` the instructions that stand there.
NoEntryPoint == [mode |-> 64, code |-> <<>>, at |-> <<>>, size |-> 0, old |-> 0, new |-> 0,
                 a16 |-> FALSE, moved |-> <<>>, status |-> "none"]

BeginRelocation(mode, program) ==
  [NoEntryPoint EXCEPT !.mode = mode, !.code = program.code, !.at = program.at, !.status = "rounding"]

\* Variant: the bytes of the jumper, wherever an instruction ends.
LhRoundToNextInstruction_AsIs(ep) == [ep EXCEPT !.size = JumperSize, !.status = "running"]

\* One turn of LhRoundToNextInstruction: one instruction more until there is room for the jumper.
LhRoundToNextInstruction(ep) ==
  IF ep.size < JumperSize
  THEN [ep EXCEPT !.size = @ + LhGetInstructionLength(ep.mode, ep.code, ep.size)]
  ELSE [ep EXCEPT !.status = "running"]

Throw(ep) == [ep EXCEPT !.status = "thrown"]

\* A piece of the result: how it came about, from which offset, to which address, and the distance
\* or target it was given.  `width` is what pRes advances by, `written` what was written.
Piece(how, from, to, value, width, written) ==
  [how |-> how, from |-> from, to |-> to, value |-> value, width |-> width, written |-> written]

\* A piece is added, and the loop goes on behind the instruction.
Add(ep, next, piece) ==
  [ep EXCEPT !.moved = Append(@, piece), !.new = @ + piece.width, !.old = next, !.a16 = FALSE]

\* A branch becomes absolute, unless it leads into the code that is moved.
Convert(ep, start, next, target) ==
  IF target \in 0..(ep.size - 1) THEN Throw(ep)
  ELSE Add(ep, next, Piece("converted", start, Distance + ep.new, target,
                           ConvertedSize(ep.mode), ConvertedSize(ep.mode)))

\* Anything else is copied, after the prefix 67 if its operand was adjusted.
Copy(ep, start, next, rip) ==
  CASE rip.status = "thrown" -> Throw(ep)
    [] rip.relocated         -> Add(ep, next, Piece("adjusted", start, Distance + ep.new, rip.distance,
                                                    next - start, next - ep.old))
    [] OTHER                 -> Add(ep, next, Piece("copied", start, Distance + ep.new, 0,
                                                    next - start, next - start))

Move(ep, start, next, branch) ==
  IF branch.length > 0 THEN Convert(ep, start, next, branch.target)
  ELSE Copy(ep, start, next, LhRelocateRIPRelativeInstruction(ep.mode, ep.code, ep.old, Distance + ep.new))

\* One turn at an instruction that begins at start: at the prefix 67, if one was skipped.
TurnInstruction(ep, start) ==
  IF Refused(ep.mode, ep.code, ep.old) THEN Throw(ep)
  ELSE Move(ep, start, start + LhGetInstructionLength(ep.mode, ep.code, start),
            Branch(ep.code, ep.old, ep.a16))

Turn(ep) ==
  CASE ep.old >= ep.size -> [ep EXCEPT !.status = "success"]
    [] ep.old < ep.size /\ ep.code[ep.old + 1] = \h67 -> [ep EXCEPT !.a16 = TRUE, !.old = @ + 1]
    [] ep.old < ep.size /\ ep.code[ep.old + 1] # \h67 ->
         TurnInstruction(ep, IF ep.a16 THEN ep.old - 1 ELSE ep.old)

----------------------------------------------------------------------------
(* What a relocation should be. *)

\* Instructions the relocation does not look at: loops, a distance of 0, and prefixes before a
\* branch or, if they change the size of addresses, before a RIP-relative operand.
Overlooked(i) ==
  \/ i.kind = "loop"
  \/ i.kind = "rip" /\ (i.distance = 0 \/ i.head[1] = \h67)
  \/ i.kind \in {"call", "jump", "condition"} /\ Prefixed(i)

\* The piece does what the instruction at its origin did.
SameMeaning(piece, i) ==
  CASE piece.how = "copied"    -> i.kind = "plain" /\ piece.width = Length(i)
    [] piece.how = "adjusted"  -> /\ i.kind = "rip" /\ piece.written = Length(i)
                                  /\ piece.to + Length(i) + piece.value = Target(i, piece.from)
    [] piece.how = "converted" -> /\ i.kind \in {"call", "jump"}
                                  /\ piece.value = Target(i, piece.from)

\* The decoder reads the instructions of a program as the processor does: their lengths, and which
\* operands are relative to RIP, also when it is asked about one without its prefix 67.
IsDecoded(mode, p) ==
  \A b \in DOMAIN p.at :
    LET i == p.at[b]
        insn == ud_decode(mode, From(p.code, b))
        behind == ud_decode(mode, From(p.code, b + 1))
    IN /\ insn.length = Length(i)
       /\ mode = 64 /\ i.head[1] # \h67 => /\ i.kind = "plain" => ~ insn.rip
                                           /\ i.kind = "rip" => insn.rip /\ insn.dispAt = Len(i.head)
       /\ mode = 64 /\ i.head[1] = \h67 /\ i.kind = "plain" => ~ behind.rip

=============================================================================
