--------------------------- MODULE MCGoValidation ---------------------------
(***************************************************************************)
(* Small Go modules for GoValidation: three directories that import each   *)
(* other in every direction, one of them with a second file that may hold  *)
(* external tests, be generated or not parse.                              *)
(***************************************************************************)
EXTENDS GoValidation

MCFile == 1..4
MCDir == 1..3
MCDirOf == <<1, 2, 1, 3>>
Other == 9
MCExternal == {Other}
MCName == {"n"}

T(pkg, imports, blank, uses, decls) ==
  [ok |-> TRUE, gen |-> FALSE, pkg |-> pkg, imports |-> imports, blank |-> blank,
   uses |-> {<<q, "n">> : q \in uses}, decls |-> decls, relies |-> {}]

(* Uses a field that another module's type gives a type of its package, or *)
(* of one it imports.                                                      *)
Relying(t) == [t EXCEPT !.relies = {Other}]

Bad(t) == [t EXCEPT !.ok = FALSE]
Gen(t) == [t EXCEPT !.gen = TRUE]

Plain(D) == T("p", {}, {}, {}, D)

First ==
  {T("p", {2}, {}, {2}, {"n"}), T("p", {2, 3}, {}, {2, 3}, {"n"}),
   T("p", {2, Other}, {}, {2, Other}, {"n"}), T("p", {2}, {2}, {}, {"n"}),
   T("p", {2}, {}, {}, {"n"}), T("p", {}, {}, {1, 2}, {}), Bad(Plain({"n"})),
   T("p", {Other}, {}, {}, {"n"}), Relying(T("p", {Other}, {}, {Other}, {"n"}))}

Second ==
  {Plain({"n"}), Plain({}), T("p", {3}, {}, {3}, {"n"}), T("p", {1, 3}, {1}, {3}, {"n"}),
   T("p", {1}, {}, {1}, {"n"}), T("p", {1}, {1}, {}, {"n"}),
   Relying(T("p", {1}, {}, {1}, {"n"}))}

Third ==
  {NoText, T("p_test", {1}, {}, {1}, {"n"}), Gen(Plain({"n"})), Gen(Bad(Plain({}))),
   T("p", {2}, {}, {1, 2}, {})}

Fourth == {NoText, Plain({"n"}), T("p", {1}, {1}, {}, {}), T("p", {2}, {}, {2}, {"n"})}

(* Two packages in every combination, and some with more files.            *)
MCStart ==
  {<<a, b, NoText, NoText>> : a \in First, b \in Second}
  \cup {<<a, b, c, d>> : a \in First, b \in {Plain({"n"}), T("p", {3}, {}, {3}, {"n"})},
                        c \in Third, d \in Fourth}
  \cup {<<Plain({}), T("p", {1}, {}, {1}, {"n"}), T("p_test", {}, {}, {}, {"n"}), NoText>>,
         <<T("p", {2}, {}, {2}, {"n"}), T("p_test", {}, {}, {}, {"n"}), NoText, NoText>>}

Pinned(f, t) == [Nowhere EXCEPT ![f] = t]

MCPending == {Nowhere, Pinned(2, T("p", {1}, {}, {1}, {"n"})), Pinned(1, Plain({"n"}))}

R(kinds_, generated_, installed_) ==
  [kinds |-> kinds_, generated |-> generated_, installed |-> installed_]

MCRequest ==
  {R({"parse", "typecheck"}, FALSE, TRUE), R({"typecheck"}, TRUE, FALSE),
   R({"parse", "typecheck"}, FALSE, FALSE), R({"parse"}, FALSE, TRUE)}

MCChanged == <<{Plain({})}, {Bad(Plain({})), Plain({"n"})}, {Bad(Plain({}))}, {}>>
=============================================================================
