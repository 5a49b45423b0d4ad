--------------------------- MODULE MCSymbolEdits ---------------------------
(***************************************************************************)
(* Two plain files, a test and a generated file of one package; of the last*)
(* three one has a text. Symbols 1 to 3 are private, 4 is exported. The    *)
(* first file has up to three declarations of up to four lines together.   *)
(***************************************************************************)
EXTENDS SymbolEdits, TLC

MCFile == 1..4
MCTestFile == {3}
MCGeneratedFile == {4}
MCName == 1..4
MCPrivate == 1..3

D(names, kind, size, refs) ==
  [names |-> names, kind |-> kind, size |-> size, refs |-> refs, fields |-> {}]

F1 == D({1}, "func", 2, {})
F1Calls == D({1}, "func", 1, {<<2, "call">>})
F2 == D({2}, "func", 1, {})
F3Reads == D({3}, "func", 1, {<<1, "read">>})
V2 == D({2}, "var", 1, {})
V3 == D({3}, "var", 1, {})
V23 == D({2, 3}, "var", 1, {})
V3Calls == D({3}, "init", 1, {<<1, "call">>})
T3 == [D({3}, "type", 2, {}) EXCEPT !.fields = {2}]
I2 == D({2}, "iota", 1, {})
C3 == D({3}, "const", 1, {})
C1 == D({1}, "const", 1, {})
X == D({4}, "func", 2, {<<1, "call">>})
XKey == D({4}, "func", 1, {<<3, "skipped">>})
XReads == D({4}, "func", 1, {<<2, "read">>})

Pool == {F1, F1Calls, F2, F3Reads, V2, V3, V23, V3Calls, T3, I2, C3, C1, X, XKey, XReads}

Firsts ==
  {Lines(d) : d \in Pool} \cup {Lines(d) \o Lines(e) : d, e \in Pool}
  \cup {Lines(I2) \o Lines(c) \o Lines(e) : c \in {C1, C3}, e \in {C1, C3, X, XKey}}
  \cup {Lines(F1) \o Lines(e) \o Lines(F2) : e \in {F3Reads, XReads, C1}}

Seconds == {<<>>, Lines(X), Lines(XReads), Lines(F2)}

MCStart ==
  {ws \in {[f \in MCFile |-> IF f = 1 THEN t ELSE IF f = g THEN u ELSE <<>>]
             : t \in Firsts, u \in Seconds, g \in 2..4} : Resolved(ws, MCFile)}

MCChanged ==
  [f \in MCFile |->
     CASE f = 1 -> {Lines(F2) \o Lines(F1), Lines(F1) \o Lines(F2), Lines(F2)}
       [] f = 2 -> {Lines(XReads)}
       [] OTHER -> {}]

MCSource == {F1Calls, F2}
=============================================================================
