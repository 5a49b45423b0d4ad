------------------------------ MODULE GoEdits ------------------------------
(***************************************************************************)
(* The symbol edits of the Go backend (internal/lang/goast/edits.go): an   *)
(* operation selects its target in the index, checks what it can, and      *)
(* turns into edits of the files, each of which is formatted afterwards.   *)
(* An operation is an operator that yields the set of workspaces it may    *)
(* leave behind, none when it returns an error.  Positions of the source   *)
(* are those of module GoSource; how edits meet files that change under    *)
(* them is the subject of ChangeSets and of SymbolEdits.                   *)
(***************************************************************************)
EXTENDS GoSource
LOCAL INSTANCE SequencesExt
LOCAL INSTANCE FiniteSetsExt

CONSTANTS
  Workspaces,  \* the workspaces the first operation may meet
  Requests,    \* the operations that may be asked for, each with its kind
  MaxEdits     \* bounds the operations of one behaviour

\* What an operation's request carries besides its kind.
Wants(kind) ==
  CASE kind \in {"RenameSymbol", "RenameGoReceiver"} -> {"sel", "new"}
    [] kind \in {"ReplaceSymbol", "ReplaceFunction", "ReplaceMethod"} -> {"sel", "source"}
    [] kind \in {"DeleteSymbol", "DeleteFunction", "DeleteMethod", "ReplaceComment"} -> {"sel"}
    [] kind = "AppendSymbol" -> {"path", "unit", "source"}
    [] kind = "MoveSymbol" -> {"sel", "to", "reconcile"}
    [] OTHER -> {}

GoWants(kind) ==
  CASE kind \in {"EnsureGoStructTag", "RemoveGoStructTag"} -> {"sel", "old", "key"}
    [] kind \in {"EnsureGoImport", "RemoveGoImport", "RenameGoImport"} -> {"path", "unit", "import"}
    [] kind = "RenameGoModulePath" -> {"old", "new"}
    [] kind \in {"AddGoParameter", "AddGoStructField", "AddGoInterfaceMethod"} -> {"sel", "new", "position"}
    [] kind \in {"RemoveGoParameter", "RemoveGoStructField", "RemoveGoInterfaceMethod", "ChangeGoParameterType"} -> {"sel", "old"}
    [] kind = "RenameGoParameter" -> {"sel", "old", "new"}
    [] kind = "RenameGoStructField" -> {"sel", "old", "new", "selectors"}
    [] kind = "ChangeGoResultType" -> {"sel", "old", "position"}
    [] kind = "ExtractGoFunction" -> {"path", "at", "from", "to", "new", "call"}
    [] OTHER -> {}

ASSUME RequestsAssumption == \A o \in Requests : DOMAIN o = {"kind"} \cup Wants(o.kind) \cup GoWants(o.kind)

ASSUME MaxEditsAssumption == MaxEdits \in Nat

VARIABLES
  files,   \* the workspace
  module,  \* the module path in go.mod
  edits,   \* operations so far
  last     \* the last operation asked for and whether it was done (history)

vars == <<files, module, edits, last>>

-----------------------------------------------------------------------------
(* Edits of the text. *)

Format(file) == [file EXCEPT !.imports = SortSeq(@, LAMBDA a, b : a.rank < b.rank), !.loose = FALSE]

WithDecls(fs, f, decls) == [fs EXCEPT ![f] = Format([@ EXCEPT !.decls = decls])]

\* The workspace with every declaration d that differs from Image[d.id] replaced by it.
WithImages(fs, image) ==
  [f \in DOMAIN fs |->
     LET decls == [i \in DOMAIN fs[f].decls |-> image[fs[f].decls[i].id]]
     IN  IF decls = fs[f].decls THEN fs[f] ELSE Format([fs[f] EXCEPT !.decls = decls])]

Decls(fs) == {p[2] : p \in Placed(fs)}
DeclOf(fs, id) == CHOOSE d \in Decls(fs) : d.id = id
FileOf(fs, id) == (CHOOSE p \in Placed(fs) : p[2].id = id)[1]
Images(fs) == [id \in {d.id : d \in Decls(fs)} |-> DeclOf(fs, id)]

Replaced(fs, new) == WithImages(fs, [Images(fs) EXCEPT ![new.id] = new])

\* y written at the given positions of d; a member's own position is <<k, "member">>.
Rewritten(d, positions, y) ==
  LET at(pos, x) == IF pos \in positions THEN y ELSE x
  IN  [d EXCEPT !.name = at(<<0, "name">>, @), !.recv = at(<<0, "base">>, @),
                !.members = [k \in DOMAIN @ |-> at(<<k, "member">>, @[k])],
                !.body = [n \in DOMAIN @ |-> [@[n] EXCEPT !.name = at(<<n, "name">>, @), !.base = at(<<n, "base">>, @)]]]

Declaration(s) == <<s.id[1], IF s.id[2] = 0 THEN <<0, "name">> ELSE <<s.id[2], "member">>>>

\* The files of a symbol's unit that its index has seen: what call sites and
\* usages are looked for in.
UnitFiles(fs, s, sel) == {f \in Seen(fs, sel) : fs[f].unit = s.unit}
UnitPositions(fs, s, sel) ==
  UNION {{<<p[2], n>> : n \in DOMAIN p[2].body} : p \in {q \in Placed(fs) : q[1] \in UnitFiles(fs, s, sel)}}

-----------------------------------------------------------------------------
(* Operations on declarations. *)

Kinds == {"function", "method", "type", "struct", "interface", "const", "var"}

\* y written at the given positions in the head of a file.
HeadRewritten(file, positions, y) ==
  IF positions = {} THEN file
  ELSE Format([file EXCEPT !.package = IF <<0, "package">> \in positions THEN y ELSE @,
                           !.imports = [k \in DOMAIN @ |-> IF <<k, "alias">> \in positions THEN [@[k] EXCEPT !.alias = y] ELSE @[k]]])

RenamedSymbol(fs, sel, new) ==
  {LET found    == {o \in Occurrences(fs, Seen(fs, sel)) : o.symbol = s.id}
       heads(f) == {o.pos : o \in {k \in found : k.file = f /\ k.decl = ""}}
   IN  WithImages([f \in DOMAIN fs |-> HeadRewritten(fs[f], heads(f), new)],
                  [id \in DOMAIN Images(fs) |->
                     Rewritten(DeclOf(fs, id), {o.pos : o \in {k \in found : k.decl = id}}
                                                 \cup {p \in {Declaration(s)[2]} : id = s.id[1]}, new)]) :
   s \in {t \in Exactly(fs, sel) : t.kind \in Kinds}}

\* ReplaceFunction takes a method when no function matches.
FunctionSelector(fs, sel) ==
  LET function == [sel EXCEPT !.kind = "function"]
  IN  IF sel.kind \notin {"", "function"} THEN sel
      ELSE IF Matches(fs, function) = {} THEN [sel EXCEPT !.kind = "method"] ELSE function

\* ReplaceMethod, DeleteFunction and DeleteMethod insist on their kind.
OfItsKind(sel, kind) == {[sel EXCEPT !.kind = kind] : k \in {sel.kind} \cap {"", kind}}

\* In the place of a field or an interface method a declaration does not parse.
ReplacedSymbol(fs, sel, source) ==
  {WithImages(fs, [Images(fs) EXCEPT ![s.id[1]] = source]) : s \in {t \in Exactly(fs, sel) : t.kind \in Kinds /\ t.id[2] = 0}}

\* The path given, or the first file of the unit in the index.
SelectedFile(fs, path, unit) ==
  LET found == {f \in DOMAIN fs : fs[f].unit = unit /\ ~fs[f].test /\ ~fs[f].generated}
  IN  IF path # 0 THEN {path} \cap DOMAIN fs ELSE IF found = {} THEN {} ELSE {Min(found)}

DeletedSymbol(fs, sel) ==
  {IF s.id[2] = 0
   THEN WithDecls(fs, s.file, SelectSeq(fs[s.file].decls, LAMBDA d : d.id # s.id[1]))
   ELSE Replaced(fs, [DeclOf(fs, s.id[1]) EXCEPT !.members = RemoveAt(@, s.id[2])]) :
   s \in {t \in Exactly(fs, sel) : t.kind # "field"}}

Appended(fs, path, unit, source) ==
  {WithDecls(fs, f, Append(fs[f].decls, source)) : f \in SelectedFile(fs, path, unit)}

\* Comments go to functions by qualified name and to types by name.
Commented(fs, sel) ==
  {Replaced(fs, [d EXCEPT !.doc = TRUE]) :
   d \in {e \in Decls(fs) : \E s \in Exactly(fs, sel) :
            /\ FileOf(fs, e.id) = s.file /\ e.name = s.name
            /\ \/ e.kind \in {"function", "method"} /\ e.recv = s.container
               \/ e.kind \in {"struct", "interface", "type"}}}

-----------------------------------------------------------------------------
(* MoveSymbol: the declaration goes to the end of another file; then, by a   *)
(* second edit of each file, imports are added to the one and removed from   *)
(* the other.  The second edits are spliced into text that has been edited   *)
(* and formatted meanwhile, at the places they had in the text before.       *)

Qualifiers(decls) ==
  {d.body[n].base : <<d, n>> \in {<<e, m>> \in decls \X (1..10) : m \in DOMAIN e.body /\ e.body[m].form \in {"sel", "selset", "selcall"}}}

\* An import of the path; without an alias asked for, under any name.
HasImport(file, path, alias) == \E i \in ToSet(file.imports) : i.path = path /\ (alias # "" => i.alias = alias)

\* Fault: whatever the moved declaration needs is removed where it was.
ImportsTorn(fs, f, to, d) ==
  LET local(k) == IF fs[f].imports[k].alias = "" THEN fs[f].imports[k].guess ELSE fs[f].imports[k].alias
      moved    == {k \in DOMAIN fs[f].imports : local(k) \in Qualifiers({d})}
      needed   == {k \in moved : ~HasImport(fs[to], fs[f].imports[k].path, fs[f].imports[k].alias)}
  IN  [added |-> SetToSortSeq({fs[f].imports[k] : k \in needed}, LAMBDA a, b : a.rank < b.rank), removed |-> moved]

ImportsMoved(fs, f, to, d) ==
  LET local(k) == IF fs[f].imports[k].alias = "" THEN fs[f].imports[k].guess ELSE fs[f].imports[k].alias
      rest    == Qualifiers({e \in ToSet(fs[f].decls) : e.id # d.id})
      moved   == {k \in DOMAIN fs[f].imports : local(k) \in Qualifiers({d})}
      needed  == {k \in moved : ~HasImport(fs[to], fs[f].imports[k].path, fs[f].imports[k].alias)}
      removed == {k \in moved : local(k) \notin rest}
  IN  [added |-> SetToSortSeq({fs[f].imports[k] : k \in needed}, LAMBDA a, b : a.rank < b.rank), removed |-> removed]

\* The k-th lines of the import block, as it is now, are cut out.
WithoutImports(file, removed) ==
  [file EXCEPT !.imports = LET kept == SetToSortSeq(DOMAIN file.imports \ removed, <)
                           IN  [i \in DOMAIN kept |-> file.imports[kept[i]]]]

Movable(fs, sel, to) ==
  {s \in Exactly(fs, sel) : s.kind \in Kinds /\ s.id[2] = 0 /\ s.file # to /\ to \in DOMAIN fs}

\* Formatting moved what the second edit of a file was computed from: where the
\* import block ends in the one file, which lines it has in the other.
Misplaced(fs, s, to) ==
  LET moves == ImportsMoved(fs, s.file, to, DeclOf(fs, s.id[1]))
  IN  {f \in DOMAIN fs : \/ f = to /\ moves.added # <<>> /\ fs[f].loose
                         \/ f = s.file /\ moves.removed # {} /\ Format(fs[f]) # fs[f]}

\* The imports of a file a second edit of which is misplaced may all the same
\* come out as meant, or its text goes elsewhere in the file.
MovedSymbol(fs, sel, to, reconcile) ==
  UNION {LET d     == DeclOf(fs, s.id[1])
             moves == ImportsMoved(fs, s.file, to, d)
             cut   == WithDecls(fs, s.file, SelectSeq(fs[s.file].decls, LAMBDA e : e.id # d.id))
             put   == WithDecls(cut, to, Append(cut[to].decls, d))
             done  == [put EXCEPT ![to] = Format([@ EXCEPT !.imports = @ \o moves.added]),
                                  ![s.file] = Format(WithoutImports(@, moves.removed))]
         IN  IF ~reconcile THEN {put}
             ELSE {[f \in DOMAIN fs |-> IF f \in torn THEN [put[f] EXCEPT !.torn = TRUE] ELSE done[f]] :
                   torn \in SUBSET Misplaced(fs, s, to)} :
         s \in Movable(fs, sel, to)}

\* What a misplaced edit leaves may be no Go source, and then nothing is changed.
MoveMayFail(fs, sel, to, reconcile) == reconcile /\ \E s \in Movable(fs, sel, to) : Misplaced(fs, s, to) # {}

-----------------------------------------------------------------------------
(* Signatures. *)

Declared(d) == {d.body[n].name : n \in {m \in DOMAIN d.body : d.body[m].form \in Declares}}
ParamNames(d) == {p.name : p \in ToSet(d.params)}

\* resolveFunctionDecl: interface methods have no function declaration.
Functions(fs, sel) == {s \in Exactly(fs, sel) : s.kind \in {"function", "method"} /\ s.id[2] = 0}

\* ensureFunctionSignatureSafe.
SignatureSafe(fs, sel, s, allowVariadic) ==
  LET index == Symbols(fs, Seen(fs, sel))
  IN  /\ allowVariadic \/ ~DeclOf(fs, s.id[1]).variadic
      /\ \A o \in Occurrences(fs, Seen(fs, sel)) : o.symbol = s.id => o.kind = "call"
      /\ s.kind = "method" => \A t \in ToSet(index) : (t.unit = s.unit /\ t.kind = "method" /\ t.name = s.name) => t = s
      /\ \A c \in UnitPositions(fs, s, sel) :
           LET node   == c[1].body[c[2]]
               target == CallTarget(index, s.unit, node)
           IN  (node.form \in Calls /\ node.name = s.name) => /\ target # None
                                                              /\ s.kind = "method" => target = s.id

\* insertListItemEdit: before the item at a position counted from zero, or last.
Inserted(list, position, item) ==
  IF position < 0 \/ position > Len(list) THEN Append(list, item) ELSE InsertAt(list, position + 1, item)

\* The calls of s, wherever they are in the unit, with an argument more or less.
WithCalls(fs, sel, s, new, position, value) ==
  LET index == Symbols(fs, Seen(fs, sel))
      changed(args) == IF value = "" THEN RemoveAt(args, position + 1) ELSE Inserted(args, position, value)
      image(d) == [d EXCEPT !.body = [n \in DOMAIN @ |->
                     IF @[n].form \in Calls /\ CallTarget(index, s.unit, @[n]) = s.id
                     THEN [@[n] EXCEPT !.args = changed(@)] ELSE @[n]]]
      current == [Images(fs) EXCEPT ![new.id] = new]
  IN  WithImages(fs, [id \in DOMAIN current |->
        IF FileOf(fs, id) \in UnitFiles(fs, s, sel) THEN image(current[id]) ELSE current[id]])

\* Fault: the parameter goes behind the group that stands at the position.
GroupEnd(d, position) == IF position < Len(d.params) THEN position + 1 ELSE Len(d.params)

\* In the declaration positions count groups of names that share a type.
GroupStart(d, position) ==
  LET starts == {i \in DOMAIN d.params : i = 1 \/ ~d.params[i - 1].tied}
      group  == {i \in starts : Cardinality({j \in starts : j < i}) = position}
  IN  IF group = {} THEN Len(d.params) ELSE Min(group) - 1

AddedParameter(fs, sel, new, position) ==
  {LET d == DeclOf(fs, s.id[1])
   IN  WithCalls(fs, sel, s,
         [d EXCEPT !.params = Inserted(@, GroupStart(d, position), [id |-> new, name |-> new, tied |-> FALSE, type |-> "t"])],
         position, new) :
   s \in {t \in Functions(fs, sel) : /\ new \notin ParamNames(DeclOf(fs, t.id[1])) \cup Declared(DeclOf(fs, t.id[1]))
                                     /\ SignatureSafe(fs, sel, t, FALSE)}}

\* A call with too few arguments is an error of the whole operation.
RemovedParameter(fs, sel, old) ==
  {LET d == DeclOf(fs, c[1].id[1]) IN WithCalls(fs, sel, c[1], [d EXCEPT !.params = RemoveAt(@, c[2])], c[2] - 1, "") :
   c \in {<<t, i>> \in Functions(fs, sel) \X (1..9) : LET d == DeclOf(fs, t.id[1]) IN
            /\ i \in DOMAIN d.params /\ d.params[i].name = old
            /\ SignatureSafe(fs, sel, t, FALSE)
            /\ \A p \in UnitPositions(fs, t, sel) : LET node == p[1].body[p[2]] IN
                 (node.form \in Calls /\ CallTarget(Symbols(fs, Seen(fs, sel)), t.unit, node) = t.id) => Len(node.args) >= i}}

\* Fault: only names standing alone are renamed.
WrittenAlone(d, x) == {pos \in Positions(d) : pos[1] > 0 /\ pos[2] = "name" /\ Text(d, pos) = x}

\* Every identifier of the body with the text x: selected names and keys too.
Written(d, x) == {pos \in Positions(d) : pos[1] > 0 /\ Text(d, pos) = x}

RenamedParameter(fs, sel, old, new) ==
  {LET d == DeclOf(fs, s.id[1])
   IN  Replaced(fs, [Rewritten(d, Written(d, old), new) EXCEPT
                       !.params = [i \in DOMAIN @ |-> IF @[i].name = old THEN [@[i] EXCEPT !.name = new] ELSE @[i]]]) :
   s \in {t \in Functions(fs, sel) : LET d == DeclOf(fs, t.id[1]) IN
            /\ old \in ParamNames(d) /\ (new \in ParamNames(d) => new = old)
            /\ {old, new} \cap Declared(d) = {}}}

RenamedReceiver(fs, sel, new) ==
  {LET d == DeclOf(fs, s.id[1])
   IN  Replaced(fs, [Rewritten(d, Written(d, d.self), new) EXCEPT !.self = new]) :
   s \in {t \in Functions(fs, sel) : t.kind = "method" /\ DeclOf(fs, t.id[1]).self # ""}}

\* The type of a parameter or a result that shares it with no other; a result
\* without a name is found by its position.
Ungrouped(list, i) == ~list[i].tied /\ (i > 1 => ~list[i - 1].tied)

ChangedParameterType(fs, sel, name) ==
  {Replaced(fs, [DeclOf(fs, c[1].id[1]) EXCEPT !.params[c[2]].type = "u"]) :
   c \in {<<t, i>> \in Functions(fs, sel) \X (1..9) : LET d == DeclOf(fs, t.id[1]) IN
            i \in DOMAIN d.params /\ d.params[i].name = name /\ Ungrouped(d.params, i) /\ SignatureSafe(fs, sel, t, TRUE)}}

ChangedResultType(fs, sel, name, position) ==
  {Replaced(fs, [DeclOf(fs, c[1].id[1]) EXCEPT !.results[c[2]].type = "u"]) :
   c \in {<<t, i>> \in Functions(fs, sel) \X (1..9) : LET d == DeclOf(fs, t.id[1]) IN
            /\ i \in DOMAIN d.results
            /\ IF name = "" THEN i = position + 1 ELSE d.results[i].name = name
            /\ Ungrouped(d.results, i) /\ SignatureSafe(fs, sel, t, TRUE)}}

-----------------------------------------------------------------------------
(* Structs and interfaces. *)

OfKind(fs, sel, kind) == {s \in Exactly(fs, IF sel.kind = "" THEN [sel EXCEPT !.kind = kind] ELSE sel) : s.kind = kind}

MemberAt(d, x) == {k \in DOMAIN d.members : d.members[k] = x}

AddedMember(fs, sel, kind, new, position) ==
  {LET d == DeclOf(fs, s.id[1]) IN Replaced(fs, [d EXCEPT !.members = Inserted(@, position, new)]) :
   s \in {t \in OfKind(fs, sel, kind) : MemberAt(DeclOf(fs, t.id[1]), new) = {}}}

FieldAmbiguous(fs, sel, s, x) ==
  Cardinality({t \in ToSet(Symbols(fs, Seen(fs, sel))) : t.unit = s.unit /\ t.kind = "field" /\ t.name = x}) > 1

SelectorUse(fs, sel, s, x) ==
  \E c \in UnitPositions(fs, s, sel) : c[1].body[c[2]].form \in {"sel", "selset", "selcall"} /\ c[1].body[c[2]].name = x

\* Fault: references are not looked for.
RemovedBlindly(fs, sel, kind, x) ==
  UNION {{Replaced(fs, [DeclOf(fs, s.id[1]) EXCEPT !.members = RemoveAt(@, k)]) : k \in MemberAt(DeclOf(fs, s.id[1]), x)} :
         s \in OfKind(fs, sel, kind)}

RemovedMember(fs, sel, kind, x) ==
  UNION {{Replaced(fs, [DeclOf(fs, s.id[1]) EXCEPT !.members = RemoveAt(@, k)]) :
          k \in {j \in MemberAt(DeclOf(fs, s.id[1]), x) :
                   \A o \in Occurrences(fs, Seen(fs, sel)) : o.symbol # <<s.id[1], j>>}} :
         s \in {t \in OfKind(fs, sel, kind) :
                  kind = "struct" => ~(FieldAmbiguous(fs, sel, t, x) /\ SelectorUse(fs, sel, t, x))}}

\* Keys of literals of a type of that name, and all selectors when asked.
RenamedField(fs, sel, old, new, selectors) ==
  {LET uses(d) == {<<n, "name">> : n \in {m \in DOMAIN d.body : /\ d.body[m].name = old
                     /\ \/ d.body[m].form = "lit" /\ d.body[m].base = s.name
                        \/ selectors /\ d.body[m].form \in {"sel", "selset", "selcall"}}}
   IN  WithImages(fs, [id \in DOMAIN Images(fs) |->
         Rewritten(DeclOf(fs, id),
                   (IF FileOf(fs, id) \in UnitFiles(fs, s, sel) THEN uses(DeclOf(fs, id)) ELSE {})
                     \cup (IF id = s.id[1] THEN {<<k, "member">> : k \in MemberAt(DeclOf(fs, id), old)} ELSE {}), new)]) :
   s \in {t \in OfKind(fs, sel, "struct") : LET d == DeclOf(fs, t.id[1]) IN
            /\ selectors => ~FieldAmbiguous(fs, sel, t, old)
            /\ MemberAt(d, new) = {} /\ MemberAt(d, old) # {}}}

\* Tags of a field, by key.
WithTag(fs, sel, field, key) ==
  {LET d == DeclOf(fs, s.id[1]) IN Replaced(fs, [d EXCEPT !.tags = @ \cup {<<field, key>>}]) :
   s \in {t \in OfKind(fs, sel, "struct") : MemberAt(DeclOf(fs, t.id[1]), field) # {}}}

WithoutTag(fs, sel, field, key) ==
  {LET d == DeclOf(fs, s.id[1]) IN Replaced(fs, [d EXCEPT !.tags = @ \ {<<field, key>>}]) :
   s \in {t \in OfKind(fs, sel, "struct") : MemberAt(DeclOf(fs, t.id[1]), field) # {}}}

-----------------------------------------------------------------------------
(* Extraction: nodes i to j of a declaration become a function of the file.  *)

Extracted(fs, f, at, i, j, new, call) ==
  LET d    == fs[f].decls[at]
      fn   == [d EXCEPT !.id = new, !.kind = "function", !.name = new, !.recv = "", !.self = "", !.params = <<>>,
                        !.results = <<>>, !.variadic = FALSE, !.members = <<>>, !.tags = {}, !.doc = FALSE,
                        !.body = SubSeq(d.body, i, j)]
      jump == [form |-> "call", base |-> "", name |-> new, owner |-> None, args |-> <<>>, aligned |-> FALSE]
      rest == IF call THEN [d EXCEPT !.body = SubSeq(@, 1, i - 1) \o <<jump>> \o SubSeq(@, j + 1, Len(@))] ELSE d
      index == Symbols(fs, {f} \cap {g \in DOMAIN fs : ~fs[g].test /\ ~fs[g].generated})
      after == IF index = <<>> THEN Len(fs[f].decls) ELSE at
  IN  {WithDecls(fs, f, InsertAt([fs[f].decls EXCEPT ![at] = rest], after + 1, fn)) :
       k \in {m \in {1} : at \in DOMAIN fs[f].decls /\ i \in 1..j /\ j <= Len(d.body) /\ \A s \in ToSet(index) : s.name # new}}

-----------------------------------------------------------------------------
(* Imports and the module path. *)

ImportAt(file, path, alias) ==
  LET hits == {k \in DOMAIN file.imports : file.imports[k].path = path /\ (alias # "" => file.imports[k].alias = alias)}
  IN  IF hits = {} THEN {} ELSE {Min(hits)}

EnsuredImport(fs, path, unit, import) ==
  {IF HasImport(fs[f], import.path, "") THEN fs
   ELSE [fs EXCEPT ![f] = Format([@ EXCEPT !.imports = Append(@, import)])] : f \in SelectedFile(fs, path, unit)}

RemovedImport(fs, path, unit, import) ==
  {IF ~HasImport(fs[f], import.path, import.alias) THEN fs
   ELSE [fs EXCEPT ![f] = Format(WithoutImports(@, ImportAt(@, import.path, import.alias)))] : f \in SelectedFile(fs, path, unit)}

RenamedImport(fs, path, unit, import) ==
  UNION {{[fs EXCEPT ![f] = Format([@ EXCEPT !.imports[k].alias = import.alias])] : k \in ImportAt(fs[f], import.path, "")} :
         f \in SelectedFile(fs, path, unit)}

\* Fault: only the module's own path is rewritten.
RewriteExact(path, old, new) == IF path = old THEN new ELSE path

\* rewriteModuleImportPath, segment by segment.
Rewrite(path, old, new) == IF IsPrefix(old, path) THEN new \o SubSeq(path, Len(old) + 1, Len(path)) ELSE path

\* Every file, test or generated; an error when two imports would become one.
RenamedModule(fs, old, new) ==
  LET moved(f) == [k \in DOMAIN fs[f].imports |-> [fs[f].imports[k] EXCEPT !.path = Rewrite(@, old, new)]]
      clash(f) == \E j, k \in DOMAIN fs[f].imports :
                    /\ moved(f)[j].path # fs[f].imports[j].path /\ j # k
                    /\ moved(f)[j].path = fs[f].imports[k].path
      literals(f) == {Rewrite(l, old, new) : l \in fs[f].literals}
      result == [f \in DOMAIN fs |->
                  IF moved(f) = fs[f].imports /\ literals(f) = fs[f].literals THEN fs[f]
                  ELSE Format([fs[f] EXCEPT !.imports = moved(f), !.literals = literals(f)])]
  IN  {result : k \in {j \in {1} : \A f \in DOMAIN fs : ~clash(f)}}

-----------------------------------------------------------------------------
(* The operations. *)

Init == /\ \E w \in Workspaces : files = w.files /\ module = w.module
        /\ edits = 0
        /\ last = [op |-> [kind |-> "None"], done |-> FALSE]

Asked(kind) == {o \in Requests : o.kind = kind}

\* Generated files are refused once the edits are known.
Accepted(fs, results) == {r \in results : \A f \in DOMAIN fs : r[f] # fs[f] => ~fs[f].generated}

Perform(o, results) ==
  LET accepted == Accepted(files, results)
  IN  /\ edits < MaxEdits
      /\ edits' = edits + 1
      /\ files' \in IF accepted = {} THEN {files} ELSE accepted
      /\ module' = IF o.kind = "RenameGoModulePath" /\ accepted # {} THEN o.new ELSE module
      /\ last' = [op |-> o, done |-> accepted # {}]

RenameSymbol == \E o \in Asked("RenameSymbol") : Perform(o, RenamedSymbol(files, o.sel, o.new))
ReplaceSymbol == \E o \in Asked("ReplaceSymbol") : Perform(o, ReplacedSymbol(files, o.sel, o.source))
ReplaceFunction == \E o \in Asked("ReplaceFunction") : Perform(o, ReplacedSymbol(files, FunctionSelector(files, o.sel), o.source))
ReplaceMethod == \E o \in Asked("ReplaceMethod") :
  Perform(o, UNION {ReplacedSymbol(files, sel, o.source) : sel \in OfItsKind(o.sel, "method")})
AppendSymbol == \E o \in Asked("AppendSymbol") : Perform(o, Appended(files, o.path, o.unit, o.source))
DeleteSymbol == \E o \in Asked("DeleteSymbol") : Perform(o, DeletedSymbol(files, o.sel))
DeleteFunction == \E o \in Asked("DeleteFunction") :
  Perform(o, UNION {DeletedSymbol(files, sel) : sel \in OfItsKind(o.sel, "function")})
DeleteMethod == \E o \in Asked("DeleteMethod") :
  Perform(o, UNION {DeletedSymbol(files, sel) : sel \in OfItsKind(o.sel, "method")})
ReplaceComment == \E o \in Asked("ReplaceComment") : Perform(o, Commented(files, o.sel))
MoveSymbol == \E o \in Asked("MoveSymbol") :
  \/ Perform(o, MovedSymbol(files, o.sel, o.to, o.reconcile))
  \/ MoveMayFail(files, o.sel, o.to, o.reconcile) /\ Perform(o, {})
AddGoParameter == \E o \in Asked("AddGoParameter") : Perform(o, AddedParameter(files, o.sel, o.new, o.position))
RemoveGoParameter == \E o \in Asked("RemoveGoParameter") : Perform(o, RemovedParameter(files, o.sel, o.old))
RenameGoParameter == \E o \in Asked("RenameGoParameter") : Perform(o, RenamedParameter(files, o.sel, o.old, o.new))
RenameGoReceiver == \E o \in Asked("RenameGoReceiver") : Perform(o, RenamedReceiver(files, o.sel, o.new))
ChangeGoParameterType == \E o \in Asked("ChangeGoParameterType") : Perform(o, ChangedParameterType(files, o.sel, o.old))
ChangeGoResultType == \E o \in Asked("ChangeGoResultType") : Perform(o, ChangedResultType(files, o.sel, o.old, o.position))
AddGoStructField == \E o \in Asked("AddGoStructField") : Perform(o, AddedMember(files, o.sel, "struct", o.new, o.position))
RemoveGoStructField == \E o \in Asked("RemoveGoStructField") : Perform(o, RemovedMember(files, o.sel, "struct", o.old))
RenameGoStructField == \E o \in Asked("RenameGoStructField") : Perform(o, RenamedField(files, o.sel, o.old, o.new, o.selectors))
EnsureGoStructTag == \E o \in Asked("EnsureGoStructTag") : Perform(o, WithTag(files, o.sel, o.old, o.key))
RemoveGoStructTag == \E o \in Asked("RemoveGoStructTag") : Perform(o, WithoutTag(files, o.sel, o.old, o.key))
AddGoInterfaceMethod == \E o \in Asked("AddGoInterfaceMethod") : Perform(o, AddedMember(files, o.sel, "interface", o.new, o.position))
RemoveGoInterfaceMethod == \E o \in Asked("RemoveGoInterfaceMethod") : Perform(o, RemovedMember(files, o.sel, "interface", o.old))
ExtractGoFunction == \E o \in Asked("ExtractGoFunction") : Perform(o, Extracted(files, o.path, o.at, o.from, o.to, o.new, o.call))
EnsureGoImport == \E o \in Asked("EnsureGoImport") : Perform(o, EnsuredImport(files, o.path, o.unit, o.import))
RemoveGoImport == \E o \in Asked("RemoveGoImport") : Perform(o, RemovedImport(files, o.path, o.unit, o.import))
RenameGoImport == \E o \in Asked("RenameGoImport") : Perform(o, RenamedImport(files, o.path, o.unit, o.import))
RenameGoModulePath == \E o \in Asked("RenameGoModulePath") :
  Perform(o, UNION {RenamedModule(files, o.old, o.new) : k \in {module} \cap ({o.old} \ {o.new})})

Next ==
  \/ RenameSymbol \/ ReplaceSymbol \/ ReplaceFunction \/ ReplaceMethod \/ AppendSymbol
  \/ DeleteSymbol \/ DeleteFunction \/ DeleteMethod \/ ReplaceComment \/ MoveSymbol
  \/ AddGoParameter \/ RemoveGoParameter \/ RenameGoParameter \/ RenameGoReceiver
  \/ ChangeGoParameterType \/ ChangeGoResultType
  \/ AddGoStructField \/ RemoveGoStructField \/ RenameGoStructField
  \/ EnsureGoStructTag \/ RemoveGoStructTag \/ AddGoInterfaceMethod \/ RemoveGoInterfaceMethod
  \/ ExtractGoFunction \/ EnsureGoImport \/ RemoveGoImport \/ RenameGoImport \/ RenameGoModulePath

Spec == Init /\ [][Next]_vars

-----------------------------------------------------------------------------
(* What the edits keep.  Each property says under what conditions, and they  *)
(* are conditions on the source the operation does not check itself.         *)

Entity(s) == IF s.id[2] = 0 THEN <<"decl", s.id[1]>> ELSE <<"member", s.id[1], s.id[2]>>

\* Names a declaration brings along besides its own, and those of imports.
Minor(d) == ParamNames(d) \cup Declared(d) \cup {d.self}
Members(fs, unit) == UNION {ToSet(p[2].members) : p \in {q \in Placed(fs) : fs[q[1]].unit = unit}}
Imported(fs, unit) == UNION {{BoundName(fs, module, i) : i \in ToSet(fs[f].imports)} : f \in {g \in DOMAIN fs : fs[g].unit = unit}}

Packages(fs, unit) == {fs[f].package : f \in {g \in DOMAIN fs : fs[g].unit = unit}}

\* Where x is written in a unit, or a member or declaration x is meant anywhere.
Places(fs, unit, x, entity) ==
  {<<p, pos>> \in UNION {{p} \X Positions(p[2]) : p \in Placed(fs)} :
     \/ fs[p[1]].unit = unit /\ Text(p[2], pos) = x
     \/ Bound(fs, module, p[1], p[2], pos) = entity}

\* A symbol's name means the symbol wherever it is written in its unit, nothing
\* else is called that, the package neither, and the index takes every such place in: it lies in a
\* file of the unit within scope, and not in a form the index passes over.
Distinct(fs, sel, s) ==
  /\ \A c \in Places(fs, s.unit, s.name, Entity(s)) :
       LET node == Node(c[1][2], c[2][1])
       IN  /\ c[1][1] \in UnitFiles(fs, s, sel)
           /\ Bound(fs, module, c[1][1], c[1][2], c[2]) = Entity(s)
           /\ ~node.aligned /\ node.form # "lit"
           /\ node.form \in Calls => c[1][2].kind \in {"function", "method"}
  /\ \A p \in Placed(fs) : fs[p[1]].unit = s.unit => s.name \notin Minor(p[2])
  /\ s.id[2] = 0 => s.name \notin Members(fs, s.unit)
  /\ s.name \notin Imported(fs, s.unit) \cup Packages(fs, s.unit)

Fresh(fs, unit, x) ==
  /\ Places(fs, unit, x, None) = {}
  /\ \A p \in Placed(fs) : fs[p[1]].unit = unit => x \notin Minor(p[2])
  /\ x \notin Members(fs, unit) \cup Imported(fs, unit)

\* In one function's body x is never written but for the parameter or receiver
\* it names, and y not at all.
Private(fs, id, entity, x, y) ==
  LET d == DeclOf(fs, id)
  IN  /\ \A pos \in Written(d, x) : Bound(fs, module, FileOf(fs, id), d, pos) = entity
      /\ Written(d, y) = {} /\ y \notin Minor(d)

\* A literal or selector use of a field that a rename of the field would miss.
FieldInSight(fs, sel, s, k, selectors) ==
  \A c \in Places(fs, s.unit, DeclOf(fs, s.id[1]).members[k], <<"member", s.id[1], k>>) :
     LET node == Node(c[1][2], c[2][1])
         own  == Bound(fs, module, c[1][1], c[1][2], c[2]) = <<"member", s.id[1], k>>
     IN  own => c[1][1] \in UnitFiles(fs, s, sel) /\ (node.form = "lit" \/ selectors)

Hygienic(fs, o) ==
  CASE o.kind = "RenameSymbol" ->
         \E s \in Exactly(fs, o.sel) : Distinct(fs, o.sel, s) /\ Fresh(fs, s.unit, o.new)
    [] o.kind = "RenameGoParameter" ->
         \E s \in Functions(fs, o.sel) : \E p \in ToSet(DeclOf(fs, s.id[1]).params) :
            p.name = o.old /\ Private(fs, s.id[1], <<"param", s.id[1], p.id>>, o.old, o.new)
    [] o.kind = "RenameGoReceiver" ->
         \E s \in Functions(fs, o.sel) :
            Private(fs, s.id[1], <<"receiver", s.id[1]>>, DeclOf(fs, s.id[1]).self, o.new)
    [] o.kind = "RenameGoStructField" ->
         \E s \in OfKind(fs, o.sel, "struct") : \E k \in MemberAt(DeclOf(fs, s.id[1]), o.old) :
            /\ FieldInSight(fs, o.sel, s, k, o.selectors)
            /\ Fresh(fs, s.unit, o.new)
    [] OTHER -> FALSE

\* A rename changes no other name's meaning and leaves no use behind: whatever
\* the position of a name referred to before, it refers to after (edits.go
\* goes by the text of names, so it holds where the text is unambiguous).
RenamesKeepMeaning ==
  [][(last'.done /\ Hygienic(files, last'.op)) => Meaning(files', module) = Meaning(files, module)]_vars

\* Adding or removing a parameter changes the arguments of every call with it,
\* in the same place (positions count groups in the declaration, arguments in
\* the calls), when all calls are in the unit and in scope.
CallsKeepTheirArguments ==
  [][(/\ last'.done /\ last'.op.kind \in {"AddGoParameter", "RemoveGoParameter"}
      /\ ArgumentsMatch(files, module)
      /\ \E s \in Functions(files, last'.op.sel) :
           \A c \in Places(files, s.unit, s.name, Entity(s)) :
              /\ Bound(files, module, c[1][1], c[1][2], c[2]) = Entity(s)
              /\ c[1][1] \in UnitFiles(files, s, last'.op.sel)
              /\ ~Node(c[1][2], c[2][1]).aligned
              /\ last'.op.kind = "AddGoParameter" =>
                   \A i \in DOMAIN DeclOf(files, s.id[1]).params : i <= last'.op.position => ~DeclOf(files, s.id[1]).params[i].tied)
     => ArgumentsMatch(files', module)]_vars

\* A declaration moved within its unit means what it meant, and so does the rest
\* of both files, of which none is torn, when imports are reconciled, the
\* packages imported are called what their paths suggest, each by one name in
\* both files, and both were formatted before (of the target only the layout
\* matters, of the source the order of its imports too): each is edited twice,
\* the second time at places computed in the text before the first.
MoveKeepsMeaning ==
  [][(/\ last'.done /\ last'.op.kind = "MoveSymbol" /\ last'.op.reconcile
      /\ \E s \in Exactly(files, last'.op.sel) :
           LET both == ToSet(files[s.file].imports) \cup ToSet(files[last'.op.to].imports)
           IN  /\ files[last'.op.to].unit = s.unit
               /\ \A i \in both : i.alias # "" \/ i.guess = i.pkg
               /\ \A i, j \in both : i.path = j.path <=> BoundName(files, module, i) = BoundName(files, module, j)
               /\ Format(files[s.file]) = files[s.file] /\ ~files[last'.op.to].loose)
     => /\ {m \in Meaning(files, module) : m[3] # None} \subseteq Meaning(files', module)
        /\ \A f \in DOMAIN files : files'[f].torn => files[f].torn]_vars

\* After the module is renamed every import still leads where it led, and no
\* string that named a package of the module names it under the old path, when
\* nothing was imported from under the new path before.
ModuleRenameKeepsImports ==
  [][(/\ last'.done /\ last'.op.kind = "RenameGoModulePath"
      /\ \A f \in DOMAIN files : \A i \in ToSet(files[f].imports) : IsPrefix(last'.op.new, i.path) => IsPrefix(last'.op.old, i.path))
     => /\ Meaning(files', module') = Meaning(files, module)
        /\ \A f \in DOMAIN files' : \A l \in files'[f].literals :
             IsPrefix(last'.op.old, l) => IsPrefix(last'.op.new, l)]_vars

\* A field or interface method is removed only when nothing in sight selects it:
\* uses left behind are keys of literals, lie out of the selector's scope, or go
\* by a name that the index takes for an earlier symbol's.
RemovedMembersWereUnused ==
  [][\A o \in {last'.op} : (last'.done /\ o.kind \in {"RemoveGoStructField", "RemoveGoInterfaceMethod"}) =>
       \E s \in OfKind(files, o.sel, IF o.kind = "RemoveGoStructField" THEN "struct" ELSE "interface") :
       \E k \in MemberAt(DeclOf(files, s.id[1]), o.old) :
       \A c \in Places(files, s.unit, o.old, <<"member", s.id[1], k>>) :
          Bound(files, module, c[1][1], c[1][2], c[2]) = <<"member", s.id[1], k>> =>
             \/ Node(c[1][2], c[2][1]).form = "lit"
             \/ c[1][1] \notin UnitFiles(files, s, o.sel)
             \/ \E t \in ToSet(Symbols(files, Seen(files, o.sel))) : t.unit = s.unit /\ t.name = o.old /\ t.id # <<s.id[1], k>>]_vars

Refactorings == {"RenameSymbol", "RenameGoParameter", "RenameGoReceiver", "AddGoParameter", "RemoveGoParameter",
                 "RemoveGoStructField", "RemoveGoInterfaceMethod", "MoveSymbol"}

\* The design of the refactoring tools (go_refactor_tooling_design.md) lists among
\* its goals that they preserve buildability and type correctness: an operation
\* that takes care of the uses of what it changes leaves a workspace that
\* compiled compiling.
RefactoringKeepsTheBuild ==
  [][(last'.done /\ last'.op.kind \in Refactorings /\ (last'.op.kind = "MoveSymbol" => last'.op.reconcile) /\ Compiles(files, module))
     => Compiles(files', module)]_vars
=============================================================================
