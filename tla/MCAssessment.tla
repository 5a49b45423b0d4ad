---------------------------- MODULE MCAssessment ----------------------------
(* A module m with a package c of one file and one test file, which may    *)
(* import a package of the module and one from outside.                    *)
EXTENDS Assessment

Module == <<"m">>

Files == {[dir |-> <<"c">>, name |-> "f", test |-> FALSE],
          [dir |-> <<"c">>, name |-> "t", test |-> TRUE]}

Targets == {[to |-> <<"m", "u">>, symbol |-> ""],
            [to |-> <<"o">>, symbol |-> ""], [to |-> <<"o">>, symbol |-> "G"]}

Plain == [imports |-> <<>>, testImports |-> <<>>, layers |-> <<>>, dependencies |-> <<>>,
          effects |-> <<>>, threshold |-> 0, couplingLayers |-> {}, reviewed |-> {},
          exceptions |-> {}]

Effect(name, layers) ==
  [name |-> name, severity |-> "error", action |-> "", layers |-> layers, packages |-> {},
   paths |-> {}, imports |-> {<<"o">>}, calls |-> {[import |-> <<"o">>, symbol |-> ""]}]

(* Core may use neither u nor anything outside; several rules say so.      *)
Strict ==
  [Plain EXCEPT
     !.imports = <<[from |-> <<"c">>, to |-> <<>>, action |-> "deny"]>>,
     !.layers = <<[name |-> "core", prefixes |-> {<<"c">>}],
                  [name |-> "ui", prefixes |-> {<<"u">>}]>>,
     !.dependencies = <<[from |-> "core", to |-> "core", action |-> ""]>>,
     !.effects = <<Effect("host_io", {"core"}), Effect("file_io", {"core"})>>]

(* Core is in no layer; fan-out is limited; nothing may use u.             *)
Loose ==
  [Plain EXCEPT
     !.testImports = <<[from |-> <<>>, to |-> <<"m", "u">>, action |-> "deny"]>>,
     !.layers = <<[name |-> "ui", prefixes |-> {<<"u">>}]>>,
     !.effects = <<[Effect("fan_out", {}) EXCEPT !.severity = "warning"], Effect("", {})>>,
     !.threshold = 1]

Small == [loc |-> 4, functions |-> 1, documents |-> 1, headings |-> 2, lines |-> 3]
Large == [loc |-> 20000, functions |-> 500, documents |-> 0, headings |-> 0, lines |-> 0]

Ask(r, g, l, s) == [rules |-> r, gates |-> g, languages |-> l, size |-> s]

Both == {"go", "markdown"}

Setups == {Ask(NoRules, {"all"}, Both, Small), Ask(Strict, {"all"}, Both, Small),
           Ask(Strict, {"architecture"}, {"go"}, Large),
           Ask(Loose, {"architecture", "safety"}, Both \cup {"other"}, Large),
           Ask(Loose, {"maintainability", "coverage"}, Both, Small),
           Ask(NoRules, {"safety"}, {}, Small)}

Rules == {s.rules : s \in Setups}

Exceptions == {[kind |-> "", package |-> <<"c">>, import |-> <<"o">>, symbol |-> "G",
                fromLayer |-> "", toLayer |-> "", reason |-> TRUE]}
=============================================================================
