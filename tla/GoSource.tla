------------------------------ MODULE GoSource ------------------------------
(***************************************************************************)
(* Go source as the Go backend sees it, and the index it builds of it.     *)
(*                                                                         *)
(* A workspace is a sequence of files in the order of their paths, a file  *)
(* a record [unit, test, generated, package, loose, torn, imports,         *)
(* literals, decls], an import a record [path, alias, pkg, guess, rank], a *)
(* declaration a record [id, kind, name, recv, self, params, results,      *)
(* variadic, members, tags, doc, body] and a body a sequence of nodes      *)
(* [form, base, name, owner, args, aligned].  A unit is the path of its    *)
(* directory, a sequence of segments, and so is the path of the module, of *)
(* an import, or of a string literal that names a package; package is the  *)
(* name in the file's package clause.  A file is loose when its text is    *)
(* not laid out as gofmt would, and torn when text was put into it or cut  *)
(* out of it at a place meant for another state of it.  An identifier is   *)
(* found at a position <<node, part>> of its declaration; node 0 is the    *)
(* declaration's head.  Two kinds stand in the head of the file:           *)
(* <<0, "package">> and <<k, "alias">>, the name given to its k-th import. *)
(*                                                                         *)
(* Some fields are no text of the program but known to the Go compiler     *)
(* only: id names a declaration (or a parameter) through renames and       *)
(* moves, so that what a position refers to can be compared before and     *)
(* after an edit; owner is the type whose member a selector selects; args  *)
(* are the ids of the parameters the arguments of a call are meant for;    *)
(* pkg is the name in the package clause of what is imported from other    *)
(* modules, guess what the program takes it to be from the path.           *)
(*                                                                         *)
(* The first part is Go's own scoping (external to the program), the       *)
(* second the index of internal/lang/goast/index.go, which goes by names.  *)
(***************************************************************************)
EXTENDS Integers, Sequences, FiniteSets
LOCAL INSTANCE SequencesExt

None == <<"none">>

TwoPart == {"method", "sel", "selset", "selcall", "lit"}
Calls == {"call", "selcall"}
Declares == {"define", "vardecl"}

DeclHead(d) == [form |-> IF d.recv = "" THEN "decl" ELSE "method", name |-> d.name,
                base |-> d.recv, owner |-> None, args |-> <<>>, aligned |-> FALSE]

Node(d, n) == IF n = 0 THEN DeclHead(d) ELSE d.body[n]

Positions(d) == {<<n, part>> \in (0..Len(d.body)) \X {"name", "base"} :
                   part = "name" \/ Node(d, n).form \in TwoPart}

Text(d, pos) == Node(d, pos[1])[pos[2]]

Heads(file) == {<<0, "package">>} \cup {<<k, "alias">> : k \in {i \in DOMAIN file.imports : file.imports[i].alias # ""}}

HeadText(file, pos) == IF pos[2] = "package" THEN file.package ELSE file.imports[pos[1]].alias

\* The declarations of a workspace, each with the number of its file.
Placed(files) == UNION {{<<f, files[f].decls[i]>> : i \in DOMAIN files[f].decls} : f \in DOMAIN files}

-----------------------------------------------------------------------------
(* Go's scoping. *)

\* What is imported is called: the name in its package clause, when it is a unit
\* of the module that in the files of the unit.
PackageName(files, module, import) ==
  LET own == {f \in DOMAIN files : module \o files[f].unit = import.path}
  IN  IF own = {} THEN import.pkg ELSE files[CHOOSE f \in own : TRUE].package

BoundName(files, module, import) ==
  IF import.alias = "" THEN PackageName(files, module, import) ELSE import.alias

\* What x can mean at node n of declaration d, with the depth of its scope:
\* local variables, parameters and the receiver, the unit, the file's imports.
Candidates(files, module, f, d, n, x) ==
       {<<2 + m, <<"local", d.id, m>>>> : m \in {k \in 1..n : d.body[k].form \in Declares /\ d.body[k].name = x}}
  \cup {<<2, <<"param", d.id, p.id>>>> : p \in {q \in ToSet(d.params) : n > 0 /\ q.name = x}}
  \cup {<<2, <<"receiver", d.id>>>> : k \in {j \in {1} : n > 0 /\ d.recv # "" /\ d.self = x}}
  \cup {<<1, <<"decl", p[2].id>>>> :
           p \in {q \in Placed(files) : files[q[1]].unit = files[f].unit /\ q[2].recv = "" /\ q[2].name = x}}
  \cup {<<0, <<"import", i.path>>>> : i \in {j \in ToSet(files[f].imports) : BoundName(files, module, j) = x}}

Scoped(files, module, f, d, n, x) ==
  LET found == Candidates(files, module, f, d, n, x)
  IN  IF found = {} THEN None ELSE (CHOOSE c \in found : \A k \in found : k[1] <= c[1])[2]

\* The member x of the type declared as owner: a field or an interface method
\* of its declaration, or a method whose receiver is of that type.
Member(files, module, owner, x) ==
  LET inside  == {<<"member", owner, k>> : k \in UNION {{j \in DOMAIN p[2].members : p[2].members[j] = x} :
                                                        p \in {q \in Placed(files) : q[2].id = owner}}}
      methods == {<<"decl", p[2].id>> : p \in {q \in Placed(files) :
                    /\ q[2].kind = "method" /\ q[2].name = x
                    /\ Scoped(files, module, q[1], q[2], 0, q[2].recv) = <<"decl", owner>>}}
      found   == inside \cup methods
  IN  IF found = {} THEN None ELSE CHOOSE e \in found : TRUE

\* What the path of an import leads to: a unit of the module or a package elsewhere.
Target(files, module, path) ==
  IF \E f \in DOMAIN files : module \o files[f].unit = path
  THEN <<"unit", SubSeq(path, Len(module) + 1, Len(path))>> ELSE <<"package", path>>

Exported(files, target, x) ==
  LET found == {q \in Placed(files) : files[q[1]].unit = target[2] /\ q[2].recv = "" /\ q[2].name = x}
  IN  IF target[1] = "package" THEN <<"external", target[2], x>>
      ELSE IF found = {} THEN None ELSE <<"decl", (CHOOSE q \in found : TRUE)[2].id>>

\* What the identifier at a position refers to.
Bound(files, module, f, d, pos) ==
  LET node == Node(d, pos[1])
      scope == Scoped(files, module, f, d, pos[1], IF node.form \in TwoPart THEN node.base ELSE node.name)
      base  == IF scope[1] = "import" THEN Target(files, module, scope[2]) ELSE scope
  IN  IF pos = <<0, "name">> THEN <<"decl", d.id>>
      ELSE IF pos[2] = "base" \/ node.form \notin TwoPart THEN base
      ELSE IF scope[1] = "import" THEN Exported(files, base, node.name)
      ELSE IF node.owner = None THEN None ELSE Member(files, module, node.owner[2], node.name)

\* What every identifier refers to, and what every file says its package is.
Meaning(files, module) ==
       UNION {{<<p[2].id, pos, Bound(files, module, p[1], p[2], pos)>> : pos \in Positions(p[2])} : p \in Placed(files)}
  \cup {<<"package", <<f>>, <<"name", files[f].package>>>> : f \in DOMAIN files}

ParamIds(d) == [i \in DOMAIN d.params |-> d.params[i].id]

\* Every call of a declaration in the workspace passes each parameter its
\* argument; calls of other packages' functions take none.
ArgumentsMatch(files, module) ==
  \A p \in Placed(files) : \A n \in DOMAIN p[2].body : p[2].body[n].form \in Calls =>
    LET callee == Bound(files, module, p[1], p[2], <<n, "name">>)
    IN  /\ callee[1] = "external" => p[2].body[n].args = <<>>
        /\ \A q \in Placed(files) :
             (~q[2].variadic /\ callee = <<"decl", q[2].id>>) => p[2].body[n].args = ParamIds(q[2])

\* The Go compiler accepts the workspace.
Compiles(files, module) ==
  /\ \A m \in Meaning(files, module) : m[3] # None
  /\ ArgumentsMatch(files, module)
  /\ \A f, g \in DOMAIN files : files[f].unit = files[g].unit => files[f].package = files[g].package
  /\ \A f \in DOMAIN files : ~files[f].torn
  /\ \A p, q \in Placed(files) :
       (p # q /\ files[p[1]].unit = files[q[1]].unit /\ p[2].recv = q[2].recv) => p[2].name # q[2].name
  /\ \A p \in Placed(files) :
       /\ Cardinality({q.name : q \in ToSet(p[2].params)}) = Len(p[2].params)
       /\ p[2].recv = "" \/ p[2].self \notin {q.name : q \in ToSet(p[2].params)}
       /\ Cardinality(ToSet(p[2].members)) = Len(p[2].members)
       /\ \A n \in DOMAIN p[2].body : p[2].body[n].form \in Declares =>
            \E k \in (n + 1)..Len(p[2].body) : \E pos \in Positions(p[2]) :
               pos[1] = k /\ Bound(files, module, p[1], p[2], pos) = <<"local", p[2].id, n>>
  /\ \A f \in DOMAIN files : \A i \in ToSet(files[f].imports) : \E p \in Placed(files) :
       p[1] = f /\ \E pos \in Positions(p[2]) :
         pos[1] > 0 /\ Scoped(files, module, f, p[2], pos[1], Text(p[2], pos)) = <<"import", i.path>>

-----------------------------------------------------------------------------
(* The index. *)

\* The files a selector's scope lets the index see: generated files never, test
\* files only when asked for, one file when the selector names a path.
Seen(files, sel) == {f \in DOMAIN files : /\ ~files[f].generated
                                          /\ files[f].test => sel.tests
                                          /\ sel.path # 0 => f = sel.path}

\* A declaration's symbol and those of its fields or interface methods.
DeclSymbols(files, f, d) ==
  LET entry(k, kind, name, container) ==
        [id |-> <<d.id, k>>, kind |-> kind, name |-> name, container |-> container, file |-> f, unit |-> files[f].unit]
  IN  <<entry(0, d.kind, d.name, d.recv)>>
        \o [k \in DOMAIN d.members |->
              entry(k, IF d.kind = "struct" THEN "field" ELSE "method", d.members[k], d.name)]

Symbols(files, seen) ==
  FlattenSeq([f \in DOMAIN files |->
    IF f \in seen THEN FlattenSeq([i \in DOMAIN files[f].decls |-> DeclSymbols(files, f, files[f].decls[i])])
    ELSE <<>>])

FirstId(symbols) == IF symbols = <<>> THEN None ELSE symbols[1].id

\* symbolForIdent: the first symbol of the unit with the name, of whatever kind.
\* A read passes over the symbol declared at its own offset; the comparison
\* ignores the file, so a node that happens to be aligned with the declaration
\* of that symbol in another file is not its occurrence.
FirstNamed(index, unit, x, aligned, self) ==
  LET hits == SelectSeq(index, LAMBDA s : s.unit = unit /\ s.name = x /\ s.id # self)
  IN  FirstId(IF aligned /\ hits # <<>> THEN Tail(hits) ELSE hits)

CallTarget(index, unit, node) ==
  LET kinds == IF node.form = "call" THEN {"function"} ELSE {"function", "method"}
  IN  FirstId(SelectSeq(index, LAMBDA s : s.unit = unit /\ s.name = node.name /\ s.kind \in kinds))

Writes(d, pos) == /\ pos[2] = "name"
                  /\ Node(d, pos[1]).form \in {"define", "set", "selset"} \/ (pos[1] = 0 /\ d.kind \in {"var", "const"})

\* The symbol the index records an occurrence of at a position: names of calls
\* only inside functions, declared names and keys of literals not at all.
Indexed(index, unit, d, pos) ==
  LET node == Node(d, pos[1])
      byName == FirstNamed(index, unit, Text(d, pos), node.aligned /\ ~Writes(d, pos),
                           IF node.form = "method" THEN <<d.id, 0>> ELSE None)
  IN  IF pos[2] = "base" THEN byName
      ELSE IF node.form \in Calls THEN IF d.kind \in {"function", "method"} THEN CallTarget(index, unit, node) ELSE None
      ELSE IF node.form \in {"vardecl", "lit"} \/ (node.form = "decl" /\ ~Writes(d, pos)) THEN None
      ELSE byName

\* The walk starts at the file, so the package clause and the names of imports
\* are reads like any other.
HeadIndexed(index, file, pos) == FirstNamed(index, file.unit, HeadText(file, pos), FALSE, None)

OccurrenceKind(d, pos) ==
  IF Writes(d, pos) THEN "write"
  ELSE IF pos[2] = "name" /\ Node(d, pos[1]).form \in Calls THEN "call" ELSE "read"

Occurrences(files, seen) ==
  LET index == Symbols(files, seen)
  IN       UNION {{[symbol |-> Indexed(index, files[p[1]].unit, p[2], pos), kind |-> OccurrenceKind(p[2], pos),
                    file |-> p[1], decl |-> p[2].id, pos |-> pos] : pos \in Positions(p[2])} :
                  p \in {q \in Placed(files) : q[1] \in seen}}
      \cup UNION {{[symbol |-> HeadIndexed(index, files[f], pos), kind |-> "read",
                    file |-> f, decl |-> "", pos |-> pos] : pos \in Heads(files[f])} : f \in seen}

\* The symbols a selector matches.
Matches(files, sel) ==
  {s \in ToSet(Symbols(files, Seen(files, sel))) : /\ s.name = sel.name
                                                   /\ sel.kind # "" => s.kind = sel.kind
                                                   /\ sel.container # "" => s.container = sel.container}

\* The one symbol a selector must match, or nothing.
Exactly(files, sel) == IF Cardinality(Matches(files, sel)) = 1 THEN Matches(files, sel) ELSE {}
=============================================================================
