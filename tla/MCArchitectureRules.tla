------------------------ MODULE MCArchitectureRules -------------------------
(* A module m with a package c of one file and one test file, which may    *)
(* import two packages of the module, one of them below the other, and one *)
(* from outside.                                                           *)
EXTENDS ArchitectureRules

Module == <<"m">>

Files == {[dir |-> <<"c">>, name |-> "f", test |-> FALSE],
          [dir |-> <<"c">>, name |-> "t", test |-> TRUE]}

Targets == {[to |-> <<"m", "u">>, symbol |-> ""],
            [to |-> <<"m", "u", "x">>, symbol |-> ""],
            [to |-> <<"o">>, symbol |-> ""],
            [to |-> <<"o">>, symbol |-> "G"]}

(* Import rules, some of them equally specific.                            *)
Rule(from, to, action) == [from |-> from, to |-> to, action |-> action]

ImportRule == {Rule(<<"c">>, <<"m", "u">>, "deny"), Rule(<<"c">>, <<"m", "u">>, "allow"),
               Rule(<<>>, <<"m", "u", "x">>, "allow"), Rule(<<"c", "t">>, <<>>, ""),
               Rule(<<"c">>, <<"m", "u", "x">>, "forbid")}

ImportLists == UNION {[1..n -> ImportRule] : n \in 0..2}
               \cup {<<Rule(<<"c">>, <<>>, "deny"), Rule(<<"c">>, <<"m", "u">>, "allow"),
                       Rule(<<"c">>, <<"m", "u">>, "deny")>>}

Plain == [imports |-> <<>>, testImports |-> <<>>, layers |-> <<>>, dependencies |-> <<>>,
          effects |-> <<>>, threshold |-> 0, couplingLayers |-> {}, reviewed |-> {},
          exceptions |-> {}]

Layers == <<[name |-> "inner", prefixes |-> {<<"u", "x">>}],
            [name |-> "core", prefixes |-> {<<"m", "c">>}],
            [name |-> "ui", prefixes |-> {<<"u">>, <<"o">>}]>>

Effect(name, severity, action) ==
  [name |-> name, severity |-> severity, action |-> action, layers |-> {"core"},
   packages |-> {}, paths |-> {}, imports |-> {<<"o">>},
   calls |-> {[import |-> <<"o">>, symbol |-> "G"]}]

Policies ==
  {[Plain EXCEPT !.layers = l, !.dependencies = d, !.effects = e] :
     l \in {Layers, <<Layers[1]>>},
     d \in {<<>>, <<[from |-> "core", to |-> "inner", action |-> ""],
                    [from |-> "*", to |-> "ui", action |-> "deny"]>>},
     e \in {<<>>, <<Effect("architecture_host", "", ""), Effect("", "warning", "deny")>>,
            <<Effect("", "error", ""), Effect("io", "error", "allow")>>}}

Rules == {NoRules} \cup Policies
         \cup {[Plain EXCEPT !.imports = l] : l \in ImportLists}
         \cup {[Plain EXCEPT !.testImports = l, !.layers = Layers] :
                 l \in [1..1 -> ImportRule]}

Excuse(kind, package, import, reason) ==
  [kind |-> kind, package |-> package, import |-> import, symbol |-> "",
   fromLayer |-> "", toLayer |-> "", reason |-> reason]

Exceptions == {Excuse("", <<"c">>, <<>>, FALSE),
               Excuse("architecture_boundary_violation", <<"m", "c">>, <<>>, TRUE),
               Excuse("", <<>>, <<"o">>, TRUE)}
=============================================================================
