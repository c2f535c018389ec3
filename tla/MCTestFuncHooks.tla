---------------------------- MODULE MCTestFuncHooks ----------------------------
(* An instance of TestFuncHooks for TLC. *)
EXTENDS TestFuncHooks

MCLower(name) == IF name = "F" THEN "f" ELSE IF name = "G" THEN "g" ELSE name

Image(names, ordinals, functions, end) ==
  [names |-> names, ordinals |-> ordinals, functions |-> functions, end |-> end]

\* A forwards to B and B to C: names in the order of the ordinals and not, an ordinal beyond the
\* names, a forwarder that leads nowhere, code that begins where the directory ends.
Order == <<0, 1>>
Swapped == <<1, 0>>

MCImages(m) ==
  CASE m = "A" -> {Image(<<"f", "g">>, Order, <<Forward("B", "f", 91), Code(2)>>, 99),
                   Image(<<"f", "g">>, Order, <<Forward("B", "h", 92), Forward("B", "g", 94)>>, 99),
                   Image(<<"f", "g">>, Order, <<Forward("D", "f", 93), Code(2)>>, 2),
                   Image(<<"f", "g">>, Swapped, <<Code(1), Code(2)>>, 99),
                   Image(<<"f", "g">>, Swapped, <<Forward("B", "f", 91), Code(2)>>, 99),
                   Image(<<"f", "g">>, <<0, 2>>, <<Code(1), Code(2), Code(3)>>, 99)}
    [] m = "B" -> {Image(<<"f", "g">>, Order, <<Forward("C", "f", 95), Code(12)>>, 99),
                   Image(<<"F", "f">>, Order, <<Code(13), Code(11)>>, 99),
                   Image(<<"f">>, <<0>>, <<Code(11)>>, 11)}
    [] m = "C" -> {Image(<<"f">>, <<0>>, <<Code(21)>>, 99)}

\* One instruction of each sort, and the pairs and triples that fill an entry point.
Short32 == {Plain(<<\h55>>), Plain(<<\h8B, \hEC>>), Plain(<<\h8D, \h44, \h24, 4>>), Plain(<<\hC8, 8, 0, 0>>), Plain(<<\hC4, \h45, 8>>),
            Plain(<<\h66, \hB8, 1, 0>>), Short("jump", <<\hEB>>, 20), Short("condition", <<\h74>>, 9)}
Long32 == {Plain(<<\hB8, 1, 0, 0, 0>>), Plain(<<\h66, \h81, \hEC, 0, 1>>), Plain(<<\h8B, \h80, 1, 0, 0, 0>>),
           Plain(<<\h8B, \h05, 1, 0, 0, 0>>), Plain(<<\hA1, 1, 0, 0, 0>>), Plain(<<\h67, \h8B, \h06, 1, 0>>),
           Plain(<<\hEA, 1, 0, 0, 0, 8, 0>>), Plain(<<\hF7, \hC1, 1, 0, 0, 0>>),
           Near("call", <<\hE8>>, 30), Near("jump", <<\hE9>>, -40000), Near("call", <<\hE8>>, -5)}
Short64 == {Plain(<<\h55>>), Plain(<<\h48, \h89, \hE5>>), Plain(<<\h89, \h44, \h24, 8>>),
            Plain(<<\hC5, \hF8, \h77>>), Plain(<<\hD9, \h40, 8>>),
            Short("jump", <<\hEB>>, -1), Short("loop", <<\hE2>>, -20)}
Long64 == {Plain(<<\h48, \hB8, 1, 2, 3, 4, 5, 6, 7, 8>>), Plain(<<\h48, \hA1, 1, 2, 3, 4, 5, 6, 7, 8>>),
           Plain(<<\h8B, \h84, \h24, 8, 0, 0, 0>>), Plain(<<\h42, \h8B, \h04, \h25, 9, 0, 0, 0>>),
           Plain(<<\h0F, \h1F, \h44, 0, 0>>), Plain(<<\h0F, \h0F, \h40, 8, \h9E>>), Rip(<<\h0F, \h01, \h15>>, 16, <<>>),
           Rip(<<\h48, \h8B, \h05>>, 16, <<>>), Rip(<<\h48, \h8B, \h05>>, -60, <<>>),
           Rip(<<\h83, \h3D>>, 16, <<0>>), Rip(<<\h81, \h3D>>, 16, <<16, 0, 0, 0>>),
           Rip(<<\h81, \h3D>>, 16, <<17, 0, 0, 0>>), Rip(<<\h66, \h0F, \h2E, \h05>>, 16, <<>>),
           Rip(<<\hC4, \hE1, \hF0, \h58, \h05>>, 16, <<>>), Rip(<<\hFF, \h25>>, 16, <<>>), Rip(<<\h8B, \h05>>, 0, <<>>),
           Near("call", <<\hE8>>, 70000), Near("jump", <<\hE9>>, -40), Near("condition", <<\h0F, \h84>>, 9)}

Fill(short, long) ==
  {<<i>> : i \in long} \cup {<<i, j>> : i \in short, j \in long}
    \cup {p \in {<<i, j, k>> : i \in short, j \in short, k \in short} : p[1] # p[2] /\ Offset(p, 4) >= 5}

MCPrograms(m) ==
  {Place(p) : p \in {q \in (IF m = 64 THEN Fill(Short64, Long64) ELSE Fill(Short32, Long32)) :
                       Offset(q, Len(q)) < JumperSize}}

\* Where the question is what is exported: an entry point that can be relocated and one that cannot.
MCFewPrograms(m) == {Place(<<Near("call", <<\hE8>>, 30)>>), Place(<<Near("call", <<\hE8>>, 70000)>>)}

=============================================================================
