----------------------------- MODULE Assessment -----------------------------
(***************************************************************************)
(* The assessment: the Go backend's and the Markdown backend's scores      *)
(* (internal/lang/goast/assess.go, internal/lang/markdown/assess.go), the  *)
(* engine's aggregate of them (engine.go), and whether `codegate assess    *)
(* --fail-on` fails (cmd/codegate/main.go).  The workspace gains and loses *)
(* imports and issues; an assessment of it can be made in every state.     *)
(***************************************************************************)
EXTENDS ArchitectureRules

CONSTANTS
  Setup,        \* what an assessment may be asked: [rules, gates, languages, size]
  MaxIssues     \* bounds the issues of a workspace

WorkspaceSize == [loc : Nat, functions : Nat, documents : Nat, headings : Nat, lines : Nat]

ASSUME SetupAssumption ==
  /\ Setup \subseteq [rules : RuleSet, gates : SUBSET STRING, languages : SUBSET STRING,
                      size : WorkspaceSize]
  /\ MaxIssues \in Nat

VARIABLES
  gates,        \* AssessmentOptions.Gates, normalised
  languages,    \* the backends selectedBackends returns
  size,         \* what penalties are relative to
  issues        \* issues[k]: how often the workspace has issue k

vars == <<uses, rules, gates, languages, size, issues>>

(* Go: compile errors, and findings by the prefix of their kind            *)
(* (performance_ ones taken to be "info", the others warnings); pressure   *)
(* in hundreds.  Markdown: structural findings of either severity.         *)
GoIssue == {"diagnostic", "quality", "performance", "safety", "coverage", "debt",
            "suggestion", "pressure", "highFanOut"}
MarkdownIssue == {"structure", "section", "markdownDebt", "unreadable"}
Issue == GoIssue \cup MarkdownIssue

GateOn(gate) == "all" \in gates \/ gate \in gates

(* A finding of the kind is reported only if the gate is on.               *)
Reported(kind, gate) == IF GateOn(gate) THEN issues[kind] ELSE 0

LessOf(a, b) == IF a < b THEN a ELSE b
MoreOf(a, b) == IF a > b THEN a ELSE b

(* Fault: ceilAssessmentDiv rounds down.                                   *)
FloorDiv(n, d) == n \div d

CeilDiv(n, d) == IF n <= 0 THEN 0 ELSE (n + d - 1) \div d

(* normalizedWeightedRatePenalty.                                          *)
Penalty(cap, events, opportunities, scale, unit) ==
  IF events = 0 THEN 0
  ELSE CeilDiv(cap * events * 1000,
               events * 1000 + scale * unit * MoreOf(opportunities, 1))

InfoWeight == 1
WarningWeight == 4
ErrorWeight == 8

-----------------------------------------------------------------------------
(* The Go backend; found stands for the violations it reports.             *)
GoViolations == IF GateOn("architecture") THEN ArchitectureViolations ELSE {}

CountViolations(found, kinds) == Cardinality({v \in found : v.kind \in kinds})

BoundaryKinds == {"architecture_denied_import", "architecture_boundary_violation"}
TestBoundaryKinds ==
  {"architecture_test_boundary_import", "architecture_test_boundary_violation"}

(* countArchitectureEffectViolations: the kinds of the effect rules.       *)
EffectKinds ==
  {"architecture_effect_import", "architecture_effect_call"} \cup
  {EffectKind(rules.effects[i].name, "architecture_effect_import") : i \in DOMAIN rules.effects}

(* Fault: nothing stops the boundary score at zero.                        *)
BoundaryUncapped(found) ==
  IF rules = NoRules THEN 100 ELSE 100 - 25 * CountViolations(found, BoundaryKinds)

Boundary(found) ==
  IF rules = NoRules THEN 100
  ELSE 100 - LessOf(100, 25 * CountViolations(found, BoundaryKinds))

TestBoundary(found) ==
  IF rules = NoRules THEN 100
  ELSE 100 - LessOf(100, 10 * CountViolations(found, TestBoundaryKinds))

FanOutFindings ==
  IF ~GateOn("architecture") THEN 0
  ELSE Cardinality(CoupledPackages) +
       Cardinality({v \in DemotedFindings : v.kind = "architecture_fan_out"})

(* With a threshold of the caller's own, the built-in one does not count.  *)
Coupling ==
  IF rules # NoRules /\ rules.threshold > 0
  THEN 100 - Penalty(40, FanOutFindings, size.loc, 2, 1)
  ELSE 100 - Penalty(35, Reported("highFanOut", "architecture"), size.loc, 2, 1)

Coverage(found) ==
  LET tests == 100 - LessOf(50, 25 * Reported("coverage", "coverage"))
      unknown == CountViolations(found, {"architecture_unknown_package"})
  IN LessOf(tests, 100 - Penalty(100, unknown, size.loc, 250, 1))

Passed == issues["diagnostic"] = 0

EffectScore(found) ==
  IF rules = NoRules THEN 100
  ELSE 100 - Penalty(60, CountViolations(found, EffectKinds), size.loc, 300, 1)

SafetyScore ==
  100 - Penalty(40, WarningWeight * Reported("safety", "safety"), size.loc, 5, WarningWeight)

(* Fault: a failed validation sets the score instead of limiting it.       *)
SideEffectSet(found) ==
  LessOf(IF GateOn("safety") /\ ~Passed THEN 50 ELSE EffectScore(found), SafetyScore)

SideEffect(found) ==
  LET limit == IF GateOn("safety") /\ ~Passed THEN 50 ELSE 100
  IN LessOf(LessOf(EffectScore(found), limit), SafetyScore)

(* weightedAssessmentScore of four components, rounded to the nearest.     *)
Maintainability ==
  LET suggestion == 100 - Penalty(25, issues["suggestion"], size.functions, 20, 1)
      pressure == 100 - Penalty(20, 100 * issues["pressure"], size.loc, 1000, 1)
      debt == 100 - Penalty(20, Reported("debt", "maintainability"), size.loc, 2, 1)
      units == WarningWeight * Reported("quality", "maintainability")
               + InfoWeight * Reported("performance", "maintainability")
      quality == 100 - Penalty(25, units, size.loc, 50, WarningWeight)
  IN MoreOf(50, (suggestion + pressure + debt + 2 * quality + 2) \div 5)

(* Each violation is an error; the safety gate adds the diagnostics.       *)
ViolationCount(found) == Cardinality(found) + Reported("diagnostic", "safety")

ViolationPenalty(found) ==
  Penalty(30, ErrorWeight * ViolationCount(found), size.loc, 2, ErrorWeight)

(* goAssessmentScores: under the architecture gate alone, the boundary     *)
(* score counts and the others can take away ten points together.          *)
OnlyArchitecture == gates = {"architecture"} /\ rules # NoRules

SoftImpact(s) ==
  CeilDiv(100 - s.coupling, 10) + CeilDiv(100 - s.sideEffect, 20)
  + CeilDiv(100 - s.coverage, 20) + CeilDiv(100 - s.testBoundary, 20)

Weakest(s) ==
  LessOf(LessOf(LessOf(s.boundary, s.maintainability), LessOf(s.coverage, s.coupling)),
         s.testBoundary)

GoOverall(found, s) ==
  IF OnlyArchitecture
  THEN IF s.boundary = 100 THEN 100 - LessOf(10, SoftImpact(s)) ELSE s.boundary
  ELSE MoreOf(0, Weakest(s) - ViolationPenalty(found))

GoComponents(found) ==
  [overall |-> 100, boundary |-> Boundary(found), testBoundary |-> TestBoundary(found),
   coupling |-> Coupling, sideEffect |-> SideEffect(found), coverage |-> Coverage(found),
   maintainability |-> Maintainability]

(* The scores of the backend's one report; a set, so that TLC computes     *)
(* what they have in common once.                                          *)
GoReports ==
  {[x[2] EXCEPT !.overall = GoOverall(x[1], x[2])] :
     x \in {<<found, GoComponents(found)>> : found \in {GoViolations}}}

-----------------------------------------------------------------------------
(* The Markdown backend: markdownScores.                                   *)
MarkdownCoverage == IF size.documents = 0 /\ GateOn("coverage") THEN 50 ELSE 100

MarkdownMaintainability ==
  LET units == WarningWeight * Reported("structure", "maintainability")
               + InfoWeight * Reported("section", "maintainability")
      structure == 100 - Penalty(50, units, size.documents + size.headings, 4, WarningWeight)
      debt == 100 - Penalty(20, Reported("markdownDebt", "maintainability"), size.lines, 2, 1)
  IN MoreOf(50, (2 * structure + debt + 1) \div 3)

MarkdownOverall ==
  MoreOf(0, LessOf(MarkdownMaintainability, MarkdownCoverage)
            - Penalty(30, ErrorWeight * Reported("unreadable", "safety"),
                      size.lines, 2, ErrorWeight))

MarkdownReports ==
  {[overall |-> MarkdownOverall, boundary |-> 100, testBoundary |-> 100, coupling |-> 100,
    sideEffect |-> IF issues["unreadable"] = 0 THEN 100 ELSE 50,
    coverage |-> MarkdownCoverage, maintainability |-> MarkdownMaintainability]}

-----------------------------------------------------------------------------
(* The engine.                                                             *)

Score == {"overall", "boundary", "testBoundary", "coupling", "sideEffect", "coverage",
          "maintainability"}

(* unsupportedAssessmentReport, of a backend that cannot assess.           *)
UnsupportedReports ==
  {[overall |-> 50, boundary |-> 0, testBoundary |-> 0, coupling |-> 0, sideEffect |-> 0,
    coverage |-> 50, maintainability |-> 50]}

(* engine.Assess: the reports of the selected backends.                    *)
Reports ==
  (IF "go" \in languages THEN GoReports ELSE {})
  \cup (IF "markdown" \in languages THEN MarkdownReports ELSE {})
  \cup (IF languages \subseteq {"go", "markdown"} THEN {} ELSE UnsupportedReports)

(* minScoreSet, over all the reports: a zero stands for no score.          *)
LeastScore(reports, score) ==
  LET given == ({r[score] : r \in reports} \ {0}) \cup {100}
  IN CHOOSE n \in given : \A m \in given : n <= m

(* aggregateAssessmentReports: with no backend the workspace is uncovered. *)
Aggregate(reports) ==
  [score \in Score |->
     IF reports = {} /\ score \in {"overall", "coverage"} THEN 0
     ELSE LeastScore(reports, score)]

-----------------------------------------------------------------------------
(* The command line.                                                       *)

(* Fault: effect rules with a name of their own are not looked for.        *)
FailureKindsUnnamed(category) ==
  CASE category = "boundary" -> BoundaryKinds
    [] category = "test-boundary" -> TestBoundaryKinds
    [] category = "effects" -> {"architecture_effect_import", "architecture_effect_call"}
    [] category = "unknown" -> {"architecture_unknown_package"}

(* violationMatchesFailureCategory, isArchitectureEffectViolation.         *)
FailureKinds(category) ==
  CASE category = "boundary" -> BoundaryKinds
    [] category = "test-boundary" -> TestBoundaryKinds
    [] category = "effects" ->
         {"architecture_effect_import", "architecture_effect_call"} \cup
         {EffectKind(rules.effects[i].name, "architecture_effect_call") : i \in DOMAIN rules.effects}
    [] category = "unknown" -> {"architecture_unknown_package"}

(* assessmentHasFailures.                                                  *)
Fails(found, category) ==
  \E v \in found : v.severity = "error" /\ v.kind \in FailureKinds(category)

-----------------------------------------------------------------------------
Init ==
  /\ uses = {}
  /\ \E s \in Setup :
       rules = s.rules /\ gates = s.gates /\ languages = s.languages /\ size = s.size
  /\ issues = [k \in Issue |-> 0]

Edit(step) == step /\ UNCHANGED <<gates, languages, size, issues>>

IssueCount == issues["diagnostic"] + issues["quality"] + issues["performance"]
  + issues["safety"] + issues["coverage"] + issues["debt"] + issues["suggestion"]
  + issues["pressure"] + issues["highFanOut"] + issues["structure"] + issues["section"]
  + issues["markdownDebt"] + issues["unreadable"]

(* The workspace gets one more issue; only documents have Markdown issues. *)
Introduce(k) ==
  /\ IssueCount < MaxIssues
  /\ k \in MarkdownIssue => size.documents > 0
  /\ issues' = [issues EXCEPT ![k] = @ + 1]
  /\ UNCHANGED <<uses, rules, gates, languages, size>>

Resolve(k) ==
  /\ issues[k] > 0
  /\ issues' = [issues EXCEPT ![k] = @ - 1]
  /\ UNCHANGED <<uses, rules, gates, languages, size>>

Next ==
  \/ \E u \in PossibleUses : Edit(AddUse(u))
  \/ \E u \in PossibleUses : Edit(RemoveUse(u))
  \/ \E e \in Exception : Edit(Exempt(e))
  \/ \E k \in Issue : Introduce(k) \/ Resolve(k)

Spec == Init /\ [][Next]_vars

-----------------------------------------------------------------------------
IsScores(s) == \A score \in Score : s[score] \in 0..100

(* Every score any report shows lies between 0 and 100.                    *)
TypeOK ==
  /\ uses \subseteq PossibleUses
  /\ issues \in [Issue -> 0..MaxIssues]
  /\ \A reports \in {Reports} :
       \A s \in reports \cup {Aggregate(reports)} : IsScores(s)

(* No issue, import or call that a workspace of the same size gains raises *)
(* any score of a backend, whichever way the penalties interact.           *)
NothingBadHelps ==
  [][/\ rules' = rules
     /\ uses \subseteq uses' /\ \A k \in Issue : issues[k] <= issues'[k]
     => /\ \A s \in GoReports, t \in GoReports' : \A score \in Score : t[score] <= s[score]
        /\ \A s \in MarkdownReports, t \in MarkdownReports' :
             \A score \in Score : t[score] <= s[score]]_vars

(* The command line and the backend each sort the violations into          *)
(* categories: --fail-on fails exactly when the category's score has paid  *)
(* for a violation.                                                        *)
FailOnAgreesWithScores ==
  rules # NoRules =>
    \A found \in {GoViolations} :
      /\ Fails(found, "boundary") <=> Boundary(found) < 100
      /\ Fails(found, "test-boundary") <=> TestBoundary(found) < 100
      /\ Fails(found, "effects") <=> EffectScore(found) < 100
      /\ Fails(found, "unknown") => Coverage(found) < 100

(* README: "`overall` ... is further reduced by hard violations".  A Go    *)
(* report with a violation is never a perfect one, however large the       *)
(* workspace and whatever the gates.                                       *)
ViolationsAlwaysShow ==
  ViolationCount(GoViolations) > 0 => \A s \in GoReports : s.overall < 100

(* README: "it follows the weakest active gate".  The aggregate is no      *)
(* better than any report it is made of.                                   *)
AggregateFollowsWeakest ==
  \A s \in Reports : Aggregate(Reports).overall <= s.overall

(* README: "Boundary, test-boundary, side-effect, and unknown-package      *)
(* failures become hard signals when callers provide architecture rules."  *)
(* An import that the rules forbid a test file lowers the score.           *)
TestBoundaryIsHard ==
  rules # NoRules /\ GateOn("architecture") =>
    ((\E u \in Imports : u.file.test /\ Forbidden(u)) => TestBoundary(GoViolations) < 100)
=============================================================================
