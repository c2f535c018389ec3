----------------------------- MODULE Instructions -----------------------------
(***************************************************************************)
(* Instructions as the processor defines them: the reference that the      *)
(* decoder and the relocation of entry points are checked against.         *)
(* Nothing here is EasyHook's code.                                        *)
(***************************************************************************)
EXTENDS Integers, Sequences, SequencesExt

Bytes == 0..255

\* A 32-bit and an 8-bit number, low byte first.
LE32(v) ==
  LET q == v \div 256
      r == q \div 256
      s == r \div 256
  IN <<v % 256, q % 256, r % 256, s % 256>>
LE8(v) == <<v % 256>>

\* What 8, 16 and 32 bits hold, and which numbers they can hold.
Signed8(a) == IF a < 128 THEN a ELSE a - 256
Signed16(a, b) == a + 256 * Signed8(b)
Signed32(a, b, c, d) == a + 256 * (b + 256 * Signed16(c, d))
Is8(v) == v \in -128..127
Is32(v) == v \in Int /\ Is8(((v \div 256) \div 256) \div 256)

\* kind: "plain" if it means the same anywhere, "rip" if it addresses memory relative to the next
\* instruction, else the kind of branch.  The field of a "rip" or a branch that holds the distance
\* lies between head and tail.
Plain(bytes) == [kind |-> "plain", head |-> bytes, field |-> <<>>, tail |-> <<>>, distance |-> 0]
Rip(head, d, tail) == [kind |-> "rip", head |-> head, field |-> LE32(d), tail |-> tail, distance |-> d]
Near(kind, head, d) == [kind |-> kind, head |-> head, field |-> LE32(d), tail |-> <<>>, distance |-> d]
Short(kind, head, d) == [kind |-> kind, head |-> head, field |-> LE8(d), tail |-> <<>>, distance |-> d]

Encode(i) == i.head \o i.field \o i.tail
Length(i) == Len(Encode(i))

\* Where a branch at address `at` goes, or what memory a "rip" there addresses.
Target(i, at) == at + Length(i) + i.distance

----------------------------------------------------------------------------
(* What an instruction is. *)

Kinds == {"plain", "rip", "call", "jump", "condition", "loop"}
PrefixBytes == {\h66, \h67, \h2E}
Prefixed(i) == i.head[1] \in PrefixBytes

\* The first byte behind a prefix 67.
Opcode(i) == i.head[IF i.head[1] = \h67 THEN 2 ELSE 1]

\* The field of four bytes or of one that holds the distance.
HasField32(i) == Is32(i.distance) /\ i.field = LE32(i.distance)
HasField8(i) == Is8(i.distance) /\ i.field = LE8(i.distance)

\* How a branch without prefix is encoded.
IsBranch(i) ==
  CASE i.kind = "call"      -> i.head = <<\hE8>> /\ HasField32(i) /\ i.tail = <<>>
    [] i.kind = "jump"      -> /\ \/ i.head = <<\hE9>> /\ HasField32(i)
                                  \/ i.head = <<\hEB>> /\ HasField8(i)
                               /\ i.tail = <<>>
    [] i.kind = "condition" -> \/ i.head[1] \in {\hE3} \cup \h70..\h7F
                               \/ i.head[1] = \h0F /\ Len(i.head) > 1 /\ i.head[2] \in \h80..\h8F
    [] OTHER                -> TRUE

\* An instruction of 32-bit or 64-bit code; only the latter addresses memory relative to RIP.  The
\* prefix 67 comes once and first, if at all.
IsInstruction(mode, i) ==
  /\ i \in [kind : Kinds, head : Seq(Bytes), field : Seq(Bytes), tail : Seq(Bytes),
            distance : Int]
  /\ i.head # <<>>
  /\ i.head[1] = \h67 => Len(i.head) > 1 /\ i.head[2] # \h67
  /\ i.kind \in {"plain", "rip"} => Opcode(i) \notin {\hE8, \hE9, \hEB}
  /\ i.kind = "rip" => mode = 64 /\ HasField32(i)
  /\ ~ Prefixed(i) => IsBranch(i)

----------------------------------------------------------------------------
(* A program: its bytes, and the instruction that begins at each of its offsets. *)

\* The offsets at which the instructions of a program begin or end.
Boundaries(at) == DOMAIN at \cup {b + Length(at[b]) : b \in DOMAIN at}

\* The instructions lie one behind the other from offset 0 on, and fill `size` bytes or more; a few
\* bytes can be read behind the last one.
IsProgram(mode, size, p) ==
  /\ 0 \in DOMAIN p.at /\ DOMAIN p.at \subseteq Nat
  /\ p.code \in Seq(Bytes)
  /\ \A b \in DOMAIN p.at :
       LET next == b + Length(p.at[b]) IN
       /\ IsInstruction(mode, p.at[b])
       /\ next + 4 <= Len(p.code)
       /\ \A k \in 1..Length(p.at[b]) : p.code[b + k] = Encode(p.at[b])[k]
       /\ \A c \in DOMAIN p.at : c > b => c >= next
       /\ next \in DOMAIN p.at \/ next >= size

\* A sequence of instructions as a program, followed by the rest of the function.
Rest == [k \in 1..16 |-> \h90]
Offset(s, k) == FoldSeq(LAMBDA i, n : n + Length(i), 0, SubSeq(s, 1, k - 1))
Place(s) ==
  [code |-> FlattenSeq([k \in DOMAIN s |-> Encode(s[k])]) \o Rest,
   at |-> [b \in {Offset(s, k) : k \in DOMAIN s} |-> s[CHOOSE k \in DOMAIN s : Offset(s, k) = b]]]

=============================================================================
