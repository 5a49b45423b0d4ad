-------------------------- MODULE ArchitectureRules --------------------------
(***************************************************************************)
(* What the Go assessment makes of the caller's architecture rules         *)
(* (internal/lang/goast/architecture.go, and the import rules of           *)
(* assess.go): the violations and findings of a workspace whose imports    *)
(* and calls come and go, under rules to which reasoned exceptions are     *)
(* added.                                                                  *)
(*                                                                         *)
(* A path is a sequence of segments of one character each; the empty       *)
(* sequence stands for an absent pattern.  A directory holds one package.  *)
(***************************************************************************)
EXTENDS Integers, Sequences, SequencesExt, FiniteSets

CONSTANTS
  ModulePath,    \* the module's import path
  File,          \* the Go files: [dir, name, test], test for *_test.go
  Target,        \* what they may use: [to, symbol], symbol "" for the import
  RuleSet,       \* the rules callers bring, none of them with exceptions
  Exception,     \* the exceptions that may be added to them
  NoRules, NoRule, NoLayer, NoUse

Path == Seq(STRING)

PathRule == [from : Path, to : Path, action : STRING]

Policy ==
  [imports : Seq(PathRule), testImports : Seq(PathRule),
   layers : Seq([name : STRING, prefixes : SUBSET Path]),
   dependencies : Seq([from : STRING, to : STRING, action : STRING]),
   effects : Seq([name : STRING, severity : STRING, action : STRING, layers : SUBSET STRING,
                  packages : SUBSET Path, paths : SUBSET Path, imports : SUBSET Path,
                  calls : SUBSET [import : Path, symbol : STRING]]),
   threshold : Nat, couplingLayers : SUBSET STRING, reviewed : SUBSET Path,
   exceptions : SUBSET Exception]

ASSUME FileAssumption ==
  /\ File \subseteq [dir : Path \ {<<>>}, name : STRING, test : BOOLEAN]
  /\ IsFiniteSet(File) /\ IsFiniteSet(Target)
ASSUME RulesAssumption ==
  /\ RuleSet \subseteq Policy \cup {NoRules}
  /\ \A r \in RuleSet : r = NoRules \/ r.exceptions = {}
  /\ NoRules \notin Policy /\ NoRule \notin PathRule

VARIABLES
  uses,          \* idx.imports and the selector calls of the parsed files
  rules          \* AssessmentOptions.Architecture

(* The directories are those of files that are always there.               *)
Package == {ModulePath \o f.dir : f \in File}

Use == [file : File, to : {t.to : t \in Target}, symbol : {t.symbol : t \in Target}]
Imports == {u \in uses : u.symbol = ""}
Calls == uses \ Imports
PackageOf(u) == ModulePath \o u.file.dir

-----------------------------------------------------------------------------
(* Patterns.                                                               *)
InModule(path) == IsPrefix(ModulePath, path)

Trimmed(path) ==
  IF InModule(path) /\ path # ModulePath
  THEN SubSeq(path, Len(ModulePath) + 1, Len(path)) ELSE path

(* architecturePatternMatches: by the whole path or by the path within the *)
(* module.                                                                 *)
Matches(pattern, path) == IsPrefix(pattern, path) \/ IsPrefix(pattern, Trimmed(path))

(* architecturePackagePatternMatches: only the module's own packages.      *)
PackageMatches(pattern, path) == pattern = <<>> \/ (InModule(path) /\ Matches(pattern, path))

(* The first of the list's entries at these places, or none.               *)
FirstOf(list, places, none) == IF places = {} THEN none ELSE list[Min(places)]

(* architectureLayerForPackage.                                            *)
LayerIn(layers, path) ==
  LET holding == {i \in DOMAIN layers : \E p \in layers[i].prefixes : PackageMatches(p, path)}
  IN FirstOf(layers, holding, [name |-> NoLayer]).name

Layer(path) == LayerIn(rules.layers, path)

-----------------------------------------------------------------------------
(* Import rules: the most specific one decides.                            *)
Action(r, default) == IF r.action = "" THEN default ELSE r.action

(* architectureRuleMatches: the importing directory or file, the import.   *)
ImportRuleMatches(u, r) ==
  /\ IsPrefix(r.from, Append(u.file.dir, u.file.name))
  /\ IsPrefix(r.to, u.to)

(* The number of characters of a path, separators included.                *)
Size(path) == IF path = <<>> THEN 0 ELSE 2 * Len(path) - 1
Specificity(r) == Size(r.from) + Size(r.to)

(* A rule with another action than these is skipped.                       *)
Decides(u, r) == ImportRuleMatches(u, r) /\ Action(r, "deny") \in {"allow", "deny"}

(* Fault: of equally specific rules the last one decides.                  *)
BetterOrLater(u, r, best) ==
  Decides(u, r) /\ (best = NoRule \/ Specificity(r) >= Specificity(best))

(* A rule takes the place of the best one before it.                       *)
Better(u, r, best) ==
  /\ Decides(u, r)
  /\ \/ best = NoRule
     \/ Specificity(r) > Specificity(best)
     \/ /\ Specificity(r) = Specificity(best)
        /\ Action(r, "deny") = "deny" /\ best.action # "deny"

(* selectedArchitectureRule: Best(u, list)[n] is the best of the first n.  *)
Best(u, list) ==
  LET best[n \in 0..Len(list)] ==
        IF n = 0 THEN NoRule
        ELSE IF Better(u, list[n], best[n - 1]) THEN list[n] ELSE best[n - 1]
  IN best

Selected(u, list) == Best(u, list)[Len(list)]

(* deniedArchitectureImport.                                               *)
Denied(u, list) == Selected(u, list) # NoRule /\ Action(Selected(u, list), "deny") = "deny"

-----------------------------------------------------------------------------
(* Exceptions: one without a reason is void; an empty field leaves open    *)
(* what it is about.                                                       *)

(* Fault: the kind an exception names is not looked at.                    *)
ExceptedAnyKind(kind, package, to, symbol, from, into) ==
  \E e \in rules.exceptions :
    /\ e.reason
    /\ Matches(e.package, package)
    /\ IsPrefix(e.import, to)
    /\ e.symbol \in {"", symbol}
    /\ e.fromLayer \in {"", from} /\ e.toLayer \in {"", into}

(* architectureExceptionMatches.                                           *)
Excepted(kind, package, to, symbol, from, into) ==
  \E e \in rules.exceptions :
    /\ e.reason
    /\ e.kind \in {"", kind}
    /\ Matches(e.package, package)
    /\ IsPrefix(e.import, to)
    /\ e.symbol \in {"", symbol}
    /\ e.fromLayer \in {"", from} /\ e.toLayer \in {"", into}

-----------------------------------------------------------------------------
Violation(kind, severity, package, at, rule) ==
  [kind |-> kind, severity |-> severity, package |-> package, at |-> at, rule |-> rule]

(* goArchitectureViolations, from the rules' imports and test_imports.     *)
ImportViolations ==
  {Violation("architecture_denied_import", "error", PackageOf(u), u, 0) :
     u \in {v \in Imports : Denied(v, rules.imports)}}
  \cup
  {Violation("architecture_test_boundary_import", "error", PackageOf(u), u, 0) :
     u \in {v \in Imports : Denied(v, rules.testImports)}}

(* architectureDependencyAllowed: the first rule that matches, else no.    *)
DependencyAllowed(dependencies, from, into) ==
  LET fitting == {i \in DOMAIN dependencies : /\ dependencies[i].from \in {"*", from}
                                              /\ dependencies[i].to \in {"*", into}}
  IN Action(FirstOf(dependencies, fitting, [action |-> "deny"]), "allow") = "allow"

BoundaryKind(u) ==
  IF u.file.test THEN "architecture_test_boundary_violation"
  ELSE "architecture_boundary_violation"

BoundarySeverity(u) == IF u.file.test THEN "warning" ELSE "error"

(* An import from one layer into another that no dependency rule allows.   *)
Forbidden(u) ==
  /\ rules.dependencies # <<>>
  /\ Layer(PackageOf(u)) # NoLayer /\ Layer(u.to) # NoLayer
  /\ ~DependencyAllowed(rules.dependencies, Layer(PackageOf(u)), Layer(u.to))
  /\ ~Excepted(BoundaryKind(u), PackageOf(u), u.to, "", Layer(PackageOf(u)), Layer(u.to))

(* architectureDependencyViolations.                                       *)
DependencyViolations ==
  {Violation(BoundaryKind(u), BoundarySeverity(u), PackageOf(u), u, 0) :
     u \in {v \in Imports : Forbidden(v)}}

(* architectureUnknownPackageViolations.                                   *)
UnknownPackages ==
  {Violation("architecture_unknown_package", "error", p, NoUse, 0) :
     p \in {q \in Package : /\ rules.layers # <<>> /\ Layer(q) = NoLayer
                            /\ ~Excepted("architecture_unknown_package", q, <<>>, "", "", "")}}

(* architectureEffectKind: a name may bring the prefix with it.            *)
Prefixed(name) == Len(name) >= 13 /\ SubSeq(name, 1, 13) = "architecture_"

EffectKind(name, fallback) ==
  IF name = "" THEN fallback ELSE IF Prefixed(name) THEN name ELSE "architecture_" \o name

EffectSeverity(r) == IF r.severity = "" THEN "error" ELSE r.severity

(* architectureScopeMatches.                                               *)
InScope(u, r) ==
  \/ r.layers = {} /\ r.packages = {} /\ r.paths = {}
  \/ Layer(PackageOf(u)) \in r.layers
  \/ \E p \in r.packages : Matches(p, PackageOf(u))
  \/ \E p \in r.paths : IsPrefix(p, Append(u.file.dir, u.file.name))

(* The use is one the effect rule is about: an import, or a call.          *)
Effected(u, r) ==
  IF u.symbol = "" THEN \E p \in r.imports : Matches(p, u.to)
  ELSE \E c \in r.calls : Matches(c.import, u.to) /\ c.symbol \in {"", u.symbol}

EffectKindOf(u, r) ==
  EffectKind(r.name, IF u.symbol = "" THEN "architecture_effect_import"
                     ELSE "architecture_effect_call")

(* The rule with this index forbids the use, and no exception excuses it.  *)
EffectDenied(u, i) ==
  LET r == rules.effects[i] IN
  /\ InScope(u, r) /\ Effected(u, r)
  /\ r.action # "allow"
  /\ ~Excepted(EffectKindOf(u, r), PackageOf(u), u.to, u.symbol, Layer(PackageOf(u)), "")

(* architectureEffectImportViolations, architectureEffectCallViolations.   *)
EffectViolations ==
  {Violation(EffectKindOf(x[1], rules.effects[x[2]]), EffectSeverity(rules.effects[x[2]]),
             PackageOf(x[1]), x[1], x[2]) :
     x \in {y \in uses \X DOMAIN rules.effects : EffectDenied(y[1], y[2])}}

(* architectureCouplingFindings: the packages with too many imports of     *)
(* layered packages, unless their fan-out has been reviewed.               *)
FanOut(p) == Cardinality({u \in Imports : PackageOf(u) = p /\ Layer(u.to) # NoLayer})

CoupledPackages ==
  {p \in Package : /\ rules.threshold > 0 /\ FanOut(p) > rules.threshold
                   /\ rules.couplingLayers = {} \/ Layer(p) \in rules.couplingLayers
                   /\ ~ \E q \in rules.reviewed : Matches(q, p)}

-----------------------------------------------------------------------------
PolicyViolations == DependencyViolations \cup UnknownPackages \cup EffectViolations

(* architectureDemoteWarningViolations: what is not an error becomes a     *)
(* finding of the same kind.                                               *)
DemotedFindings ==
  IF rules = NoRules THEN {} ELSE {v \in PolicyViolations : v.severity # "error"}

(* Fault: warnings stay among the violations.                              *)
ViolationsAndWarnings ==
  IF rules = NoRules THEN {} ELSE ImportViolations \cup PolicyViolations

(* The violations the assessment reports when its architecture gate is on. *)
ArchitectureViolations ==
  IF rules = NoRules THEN {}
  ELSE ImportViolations \cup {v \in PolicyViolations : v.severity = "error"}

-----------------------------------------------------------------------------
RulesInit ==
  /\ uses = {}
  /\ rules \in RuleSet

(* A file gains an import, or a call through one of its imports.           *)
AddUse(u) ==
  /\ u \notin uses
  /\ u.symbol # "" => [u EXCEPT !.symbol = ""] \in uses
  /\ uses' = uses \cup {u}
  /\ UNCHANGED rules

(* A file loses a call, or an import and the calls through it.             *)
RemoveUse(u) ==
  /\ u \in uses
  /\ uses' = IF u.symbol # "" THEN uses \ {u}
             ELSE {v \in uses : v.file # u.file \/ v.to # u.to}
  /\ UNCHANGED rules

(* The caller adds an exception to the rules.                              *)
Exempt(e) ==
  /\ rules # NoRules
  /\ e \notin rules.exceptions
  /\ rules' = [rules EXCEPT !.exceptions = @ \cup {e}]
  /\ UNCHANGED uses

(* The uses that files may have: the targets, seen from every file.        *)
PossibleUses == {[file |-> f, to |-> t.to, symbol |-> t.symbol] : f \in File, t \in Target}

RulesNext ==
  \/ \E u \in PossibleUses : AddUse(u) \/ RemoveUse(u)
  \/ \E e \in Exception : Exempt(e)

RulesSpec == RulesInit /\ [][RulesNext]_<<uses, rules>>

-----------------------------------------------------------------------------
(* Whatever the rules, an assessment reports violations about the          *)
(* workspace's packages only, each of them an error.                       *)
RulesTypeOK ==
  /\ uses \subseteq Use
  /\ rules \in RuleSet \/ [rules EXCEPT !.exceptions = {}] \in RuleSet
  /\ \A v \in ArchitectureViolations : v.package \in Package /\ v.severity = "error"

(* README: "More specific rules win, so a narrow allow can override a      *)
(* broader deny."  Whatever the order of the list, an import is denied if  *)
(* and only if a rule against it matches and no rule for it is more        *)
(* specific.                                                               *)
MostSpecificRuleDecides ==
  rules # NoRules =>
    \A u \in Imports, list \in {rules.imports, rules.testImports} :
      LET fitting == {r \in ToSet(list) : Decides(u, r)}
          against == {r \in fitting : Action(r, "deny") = "deny"}
      IN Denied(u, list) <=>
           \E d \in against : \A a \in fitting \ against : Specificity(d) >= Specificity(a)

(* An exception takes away violations, adds none, and takes away none of   *)
(* another kind, package or import than it names; without a reason it      *)
(* takes away nothing.                                                     *)
ExceptionsOnlyExcuse ==
  [][rules' # rules =>
       \E e \in rules'.exceptions \ rules.exceptions :
         /\ ArchitectureViolations' \subseteq ArchitectureViolations
         /\ \A v \in ArchitectureViolations \ ArchitectureViolations' :
              /\ e.reason
              /\ e.kind \in {"", v.kind}
              /\ Matches(e.package, v.package)
              /\ v.at # NoUse => IsPrefix(e.import, v.at.to)]_<<uses, rules>>
=============================================================================
