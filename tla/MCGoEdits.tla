----------------------------- MODULE MCGoEdits ------------------------------
(***************************************************************************)
(* Workspaces of one module m with a unit u of two files (function f,      *)
(* struct T, method m2 and interface I, variable x), and beside them a     *)
(* test, a generated file or another unit that uses f.  The variants turn  *)
(* on what the edits may trip over, one at a time.                         *)
(***************************************************************************)
EXTENDS GoEdits

Import(path, name, rank) == [path |-> path, alias |-> "", pkg |-> name, guess |-> name, rank |-> rank]
ImpS == Import(<<"x", "s">>, "s", 2)
ImpT == Import(<<"y", "t">>, "t", 3)
ImpU == Import(<<"m", "u">>, "u", 1)

Param(p) == [id |-> p, name |-> p, tied |-> FALSE, type |-> "t"]

Leaf(form, name) == [form |-> form, base |-> "", name |-> name, owner |-> None, args |-> <<>>, aligned |-> FALSE]
Two(form, base, name, owner) == [Leaf(form, name) EXCEPT !.base = base, !.owner = owner]
Call(name, args) == [Leaf("call", name) EXCEPT !.args = args]

Plain(id, kind, name) ==
  [id |-> id, kind |-> kind, name |-> name, recv |-> "", self |-> "", params |-> <<>>, results |-> <<Param("")>>,
   variadic |-> FALSE, members |-> <<>>, tags |-> {}, doc |-> FALSE, body |-> <<>>]

File(unit, imports, decls) ==
  [unit |-> unit, test |-> FALSE, generated |-> FALSE, package |-> unit[Len(unit)], loose |-> FALSE, torn |-> FALSE, imports |-> imports, literals |-> {}, decls |-> decls]

\* The variants.
Plainly == {"plain", "local", "tied", "unsorted", "misnamed", "initial", "method", "keyed",
            "value", "aligned", "alias", "named", "source", "target"}
Users == {"test", "generated", "unit"}

DeclF(v) ==
  [Plain("F", "function", "f") EXCEPT
     !.params = IF v = "tied" THEN <<[Param("p") EXCEPT !.tied = TRUE], Param("q")>> ELSE <<Param("p"), Param("q")>>,
     !.body = <<Leaf("use", "p"), Two("sel", "s", "K", None), Leaf("define", "v"), Leaf("use", "v")>>]

DeclT == [Plain("T", "struct", "T") EXCEPT !.members = <<"a", "b">>]

DeclM(v) ==
  [Plain("M", "method", "m2") EXCEPT !.recv = "T", !.self = "r", !.params = <<Param("p")>>,
     !.body = <<Two("selset", "r", "a", <<"decl", "T">>), Call("f", <<"p", "q">>), Leaf("use", "p")>>
              \o (CASE v = "local"  -> <<Leaf("define", "f"), Leaf("use", "f")>>
                    [] v = "method" -> <<Two("selcall", "s", "f", None), Two("sel", "r", "p", <<"decl", "T">>)>>
                    [] v = "keyed"  -> <<Two("lit", "T", "b", <<"decl", "T">>), Leaf("use", "x")>>
                    [] v = "value"  -> <<Leaf("use", "f")>>
                    [] v = "aligned" -> <<[Leaf("use", "f") EXCEPT !.aligned = TRUE], Two("sel", "r", "b", <<"decl", "T">>)>>
                    [] v = "alias"  -> <<Two("sel", "z", "K", None)>>
                    [] OTHER        -> <<>>)]

DeclI == [Plain("I", "interface", "I") EXCEPT !.members = <<"m2">>]

DeclX(v) == [Plain("X", "var", "x") EXCEPT !.body = IF v = "initial" THEN <<Call("f", <<"p", "q">>)>> ELSE <<>>]

\* Files of a package called like the function; files that are not formatted.
Varied(file, v, part) ==
  [file EXCEPT !.package = IF v = "named" THEN "f" ELSE @, !.loose = (v = part)]

FileA(v) ==
  Varied(File(<<"u">>,
       CASE v = "unsorted" -> <<ImpT, ImpS>>
         [] v = "misnamed" -> <<[ImpS EXCEPT !.guess = "other"]>>
         [] OTHER -> <<ImpS>>,
       <<DeclF(v), [DeclT EXCEPT !.members = IF v = "method" THEN <<"a", "b", "p">> ELSE @]>>
         \o (IF v = "unsorted" THEN <<[Plain("H", "function", "h") EXCEPT !.body = <<Two("sel", "t", "L", None)>>]>> ELSE <<>>)), v, "source")

FileB(v) ==
  Varied(File(<<"u">>, IF v = "method" THEN <<ImpS>> ELSE IF v = "alias" THEN <<[ImpS EXCEPT !.alias = "z"]>> ELSE <<>>, <<DeclM(v), DeclI, DeclX(v)>>), v, "target")

User(v) ==
  LET g == [Plain("G", "function", "g") EXCEPT !.body = <<Call("f", <<"p", "q">>)>>]
  IN  IF v = "unit"
      THEN [File(<<"s">>, <<ImpU>>, <<[g EXCEPT !.body = <<[Two("selcall", "u", "f", None) EXCEPT !.args = <<"p", "q">>]>>]>>)
              EXCEPT !.literals = {<<"m", "u">>, <<"m2">>}]
      ELSE [File(<<"u">>, <<>>, <<g>>) EXCEPT !.test = (v = "test"), !.generated = (v = "generated")]

MCWorkspaces ==
       {[module |-> <<"m">>, files |-> <<FileA(v), FileB(v)>>] : v \in Plainly}
  \cup {[module |-> <<"m">>, files |-> <<FileA("plain"), FileB("plain"), User(v)>>] : v \in Users}

Sel(name) == [name |-> name, kind |-> "", container |-> "", path |-> 0, tests |-> FALSE]
Of(kind, name) == [Sel(name) EXCEPT !.kind = kind]
SelF == Sel("f")
SelM == Of("method", "m2")
SelMT == [SelM EXCEPT !.container = "T"]
SelMI == [SelM EXCEPT !.container = "I"]
AllF == [SelF EXCEPT !.tests = TRUE]

Renames ==
       {[kind |-> "RenameSymbol", sel |-> s, new |-> n] : s \in {SelF, AllF}, n \in {"y", "p"}}
  \cup {[kind |-> "RenameSymbol", sel |-> s, new |-> "y"] : s \in {Sel("T"), SelMT, SelMI, Sel("x"), [SelF EXCEPT !.path = 1]}}
  \cup {[kind |-> "RenameGoParameter", sel |-> s, old |-> "p", new |-> n] : s \in {SelF, SelMT}, n \in {"y", "q", "x"}}
  \cup {[kind |-> "RenameGoReceiver", sel |-> SelMT, new |-> n] : n \in {"y", "p"}}
  \cup {[kind |-> "RenameGoStructField", sel |-> Sel("T"), old |-> o, new |-> "y", selectors |-> b] : o \in {"a", "b"}, b \in BOOLEAN}

Signatures ==
       {[kind |-> "AddGoParameter", sel |-> s, new |-> "n", position |-> k] : s \in {SelF, AllF}, k \in {0, 1, 5}}
  \cup {[kind |-> "RemoveGoParameter", sel |-> s, old |-> o] : s \in {SelF, AllF, SelMT}, o \in {"p", "q"}}
  \cup {[kind |-> "ChangeGoParameterType", sel |-> SelF, old |-> "p"], [kind |-> "ChangeGoResultType", sel |-> SelF, old |-> "", position |-> 0]}

Declarations ==
  {[kind |-> "ReplaceSymbol", sel |-> SelF, source |-> [DeclF("plain") EXCEPT !.body = <<Call("g", <<>>)>>]],
   [kind |-> "ReplaceFunction", sel |-> Sel("m2"), source |-> DeclM("local")],
   [kind |-> "ReplaceMethod", sel |-> SelMT, source |-> DeclM("keyed")],
   [kind |-> "AppendSymbol", path |-> 0, unit |-> <<"u">>, source |-> Plain("N", "function", "f2")],
   [kind |-> "AppendSymbol", path |-> 3, unit |-> <<>>, source |-> Plain("N", "function", "f2")],
   [kind |-> "DeleteSymbol", sel |-> Sel("x")],
   [kind |-> "DeleteFunction", sel |-> Sel("h")],
   [kind |-> "DeleteMethod", sel |-> SelMI],
   [kind |-> "ReplaceComment", sel |-> Sel("T")],
   [kind |-> "ExtractGoFunction", path |-> 2, at |-> 1, from |-> 2, to |-> 2, new |-> "y", call |-> TRUE],
   [kind |-> "ExtractGoFunction", path |-> 2, at |-> 1, from |-> 2, to |-> 2, new |-> "x", call |-> FALSE]}
  \cup {[kind |-> "MoveSymbol", sel |-> SelF, to |-> t, reconcile |-> b] : t \in {1, 2}, b \in BOOLEAN}

MembersAndImports ==
       {[kind |-> "AddGoStructField", sel |-> Sel("T"), new |-> n, position |-> 1] : n \in {"a", "c"}}
  \cup {[kind |-> "RemoveGoStructField", sel |-> Sel("T"), old |-> n] : n \in {"a", "b"}}
  \cup {[kind |-> "EnsureGoStructTag", sel |-> Sel("T"), old |-> "a", key |-> "json"],
        [kind |-> "RemoveGoStructTag", sel |-> Sel("T"), old |-> "a", key |-> "json"],
        [kind |-> "AddGoInterfaceMethod", sel |-> Sel("I"), new |-> "c", position |-> 0],
        [kind |-> "RemoveGoInterfaceMethod", sel |-> Sel("I"), old |-> "m2"],
        [kind |-> "EnsureGoImport", path |-> 0, unit |-> <<"u">>, import |-> ImpT],
        [kind |-> "RemoveGoImport", path |-> 1, unit |-> <<>>, import |-> ImpT],
        [kind |-> "RenameGoImport", path |-> 1, unit |-> <<>>, import |-> [ImpS EXCEPT !.alias = "f"]]}
  \cup {[kind |-> "RenameGoModulePath", old |-> <<"m">>, new |-> n] : n \in {<<"m", "v2">>, <<"n">>, <<"x">>}}

MCRequests == Renames \cup Signatures \cup Declarations \cup MembersAndImports
=============================================================================
