----------------------- MODULE ArchitectureRulesProofs -----------------------
(***************************************************************************)
(* Proofs about ArchitectureRules, for any finite set of files and targets *)
(* and any rules: which import rule decides, what an exception may take    *)
(* away, and of what the violations are.                                   *)
(***************************************************************************)
EXTENDS ArchitectureRules, Minima

-----------------------------------------------------------------------------
(* The selection of import rules.                                          *)

(* Best is what its recursion says: for every length there is such a       *)
(* function, for the shortest without one would extend the one before it.  *)
LEMMA BestIsDefined ==
  ASSUME NEW u, NEW list, Len(list) \in Nat
  PROVE  LET best == Best(u, list) IN
         best = [n \in 0..Len(list) |->
                   IF n = 0 THEN NoRule
                   ELSE IF Better(u, list[n], best[n - 1]) THEN list[n] ELSE best[n - 1]]
  <1> DEFINE Follows(f, m) ==
               f = [n \in 0..m |->
                      IF n = 0 THEN NoRule
                      ELSE IF Better(u, list[n], f[n - 1]) THEN list[n] ELSE f[n - 1]]
             missing == {m \in Nat : ~ \E f : Follows(f, m)}
  <1>1. \E f : Follows(f, 0)
    <2>1. Follows([n \in 0..0 |-> NoRule], 0)
      OBVIOUS
    <2> QED
      BY <2>1
  <1>2. ASSUME NEW m \in Nat, NEW f, Follows(f, m)
        PROVE  \E g : Follows(g, m + 1)
    <2> DEFINE last == IF Better(u, list[m + 1], f[m]) THEN list[m + 1] ELSE f[m]
               g == [n \in 0..(m + 1) |-> IF n = m + 1 THEN last ELSE f[n]]
    <2>1. \A n \in 0..m : g[n] = f[n]
      OBVIOUS
    <2>2. g[m + 1] = last /\ g[m] = f[m]
      OBVIOUS
    <2>3. \A n \in 0..m :
            f[n] = IF n = 0 THEN NoRule
                   ELSE IF Better(u, list[n], f[n - 1]) THEN list[n] ELSE f[n - 1]
      BY <1>2
    <2> HIDE DEF last
    <2>4. \A n \in 0..(m + 1) :
            g[n] = IF n = 0 THEN NoRule
                   ELSE IF Better(u, list[n], g[n - 1]) THEN list[n] ELSE g[n - 1]
      <3> TAKE n \in 0..(m + 1)
      <3>1. CASE n = m + 1
        <4>1. g[n - 1] = f[m] /\ n # 0
          BY <3>1, <2>2
        <4> QED
          BY <3>1, <4>1, <2>2 DEF last
      <3>2. CASE n \in 0..m
        <4>1. n # 0 => g[n - 1] = f[n - 1]
          BY <3>2, <2>1
        <4> QED
          BY <3>2, <4>1, <2>1, <2>3
      <3> QED
        BY <3>1, <3>2
    <2>5. Follows(g, m + 1)
      <3>1. g = [n \in 0..(m + 1) |-> g[n]]
        OBVIOUS
      <3> HIDE DEF g
      <3> QED
        BY <3>1, <2>4
    <2> QED
      BY <2>5
  <1>3. missing = {}
    <2> SUFFICES ASSUME missing # {}
                 PROVE  FALSE
      OBVIOUS
    <2>1. missing \in SUBSET Nat
      OBVIOUS
    <2>2. PICK m \in missing : \A k \in missing : m <= k
      <3> HIDE DEF missing
      <3> QED
        BY <2>1, HasLeast
    <2> HIDE DEF Follows
    <2>3. m \in Nat /\ ~ \E f : Follows(f, m)
      OBVIOUS
    <2>4. m # 0
      BY <1>1, <2>3
    <2>5. m - 1 \in Nat /\ ~(m <= m - 1)
      BY <2>3, <2>4
    <2>6. PICK f : Follows(f, m - 1)
      BY <2>2, <2>5
    <2>7. \E g : Follows(g, (m - 1) + 1)
      BY <2>5, <2>6, <1>2
    <2>8. (m - 1) + 1 = m
      BY <2>3
    <2> QED
      BY <2>3, <2>7, <2>8
  <1>4. \E f : Follows(f, Len(list))
    BY <1>3
  <1>5. Best(u, list) = CHOOSE f : Follows(f, Len(list))
    BY DEF Best
  <1>6. Follows(Best(u, list), Len(list))
    <2> HIDE DEF Follows
    <2> QED
      BY <1>4, <1>5
  <1> QED
    BY <1>6

LEMMA SpecificityIsNumber ==
  ASSUME NEW r \in PathRule
  PROVE  Specificity(r) \in Int
  <1>1. \A path \in Path : Size(path) \in Int
    <2> TAKE path \in Path
    <2>1. Len(path) \in Nat
      BY DEF Path
    <2> QED
      BY <2>1 DEF Size
  <1>2. r.from \in Path /\ r.to \in Path
    BY DEF PathRule
  <1> QED
    BY <1>1, <1>2 DEF Specificity

(* What the selection has of the first n entries: none of them decides, or *)
(* the best one is one of them that does, none is more specific, and if one*)
(* as specific denies, so does the best.                                   *)
BestOf(u, list, n) ==
  LET b == Best(u, list)[n]
      deciding == {k \in 1..n : Decides(u, list[k])}
  IN  IF deciding = {} THEN b = NoRule
      ELSE /\ \E k \in deciding : b = list[k]
           /\ \A k \in deciding :
                /\ Specificity(list[k]) <= Specificity(b)
                /\ Specificity(list[k]) = Specificity(b) /\ Action(list[k], "deny") = "deny" =>
                     Action(b, "deny") = "deny"

LEMMA BestStep ==
  ASSUME NEW u, NEW list \in Seq(PathRule), NEW n \in Nat, n + 1 <= Len(list), BestOf(u, list, n)
  PROVE  BestOf(u, list, n + 1)
  <1> DEFINE old == Best(u, list)[n]
             new == Best(u, list)[n + 1]
             r == list[n + 1]
             D(m) == {k \in 1..m : Decides(u, list[k])}
  <1>1. Len(list) \in Nat /\ \A k \in 1..(n + 1) : list[k] \in PathRule
    OBVIOUS
  <1>2. new = IF Better(u, r, old) THEN r ELSE old
    <2> DEFINE best == Best(u, list)
    <2>1. best = [m \in 0..Len(list) |->
                    IF m = 0 THEN NoRule
                    ELSE IF Better(u, list[m], best[m - 1]) THEN list[m] ELSE best[m - 1]]
      BY <1>1, BestIsDefined
    <2>2. n + 1 \in 0..Len(list) /\ n + 1 # 0 /\ (n + 1) - 1 = n
      BY <1>1
    <2> HIDE DEF best
    <2>3. best[n + 1] = IF Better(u, list[n + 1], best[n]) THEN list[n + 1] ELSE best[n]
      BY <2>1, <2>2
    <2> QED
      BY <2>3 DEF best
  <1>3. D(n + 1) = IF Decides(u, r) THEN D(n) \cup {n + 1} ELSE D(n)
    OBVIOUS
  <1>4. r \in PathRule /\ \A k \in D(n) : list[k] \in PathRule
    BY <1>1
  <1>5. /\ D(n) = {} => old = NoRule
        /\ D(n) # {} =>
             /\ \E k \in D(n) : old = list[k]
             /\ \A k \in D(n) :
                  /\ Specificity(list[k]) <= Specificity(old)
                  /\ Specificity(list[k]) = Specificity(old) /\ Action(list[k], "deny") = "deny" =>
                       Action(old, "deny") = "deny"
    BY DEF BestOf
  <1>6. /\ D(n + 1) = {} => new = NoRule
        /\ D(n + 1) # {} =>
             /\ \E k \in D(n + 1) : new = list[k]
             /\ \A k \in D(n + 1) :
                  /\ Specificity(list[k]) <= Specificity(new)
                  /\ Specificity(list[k]) = Specificity(new) /\ Action(list[k], "deny") = "deny" =>
                       Action(new, "deny") = "deny"
    <2>1. Specificity(r) \in Int /\ \A k \in D(n) : Specificity(list[k]) \in Int
      BY <1>4, SpecificityIsNumber
    <2>2. \A k \in D(n) : k # n + 1
      OBVIOUS
    <2> HIDE DEF new, old, D
    <2>3. CASE ~Decides(u, r)
      <3>1. new = old /\ D(n + 1) = D(n)
        BY <2>3, <1>2, <1>3 DEF Better
      <3> QED
        BY <3>1, <1>5
    <2>4. CASE Decides(u, r) /\ D(n) = {}
      <3>1. new = r /\ D(n + 1) = {n + 1}
        BY <2>4, <1>2, <1>3, <1>5 DEF Better
      <3> QED
        BY <3>1, <2>1
    <2>5. CASE Decides(u, r) /\ D(n) # {}
      <3>1. D(n + 1) = D(n) \cup {n + 1}
        BY <2>5, <1>3
      <3>2. PICK j \in D(n) : old = list[j]
        BY <2>5, <1>5
      <3>3. old \in PathRule /\ old # NoRule /\ Specificity(old) \in Int
        BY <3>2, <1>4, <2>1, RulesAssumption
      <3>4. Action(old, "deny") # "deny" => old.action # "deny"
        BY DEF Action
      <3>5. Action(old, "deny") = "deny" <=> old.action \in {"", "deny"}
        BY DEF Action
      <3>6. CASE Better(u, r, old)
        <4>1. new = r
          BY <3>6, <1>2
        <4>2. \/ Specificity(r) > Specificity(old)
              \/ Specificity(r) = Specificity(old) /\ Action(r, "deny") = "deny"
          BY <3>3, <3>6 DEF Better
        <4>3. \A k \in D(n) :
                /\ Specificity(list[k]) <= Specificity(r)
                /\ Specificity(list[k]) = Specificity(r) => Action(r, "deny") = "deny"
          BY <4>2, <2>1, <2>5, <1>5, <3>3
        <4> QED
          BY <4>1, <4>3, <3>1, <2>1
      <3>7. CASE ~Better(u, r, old)
        <4>1. new = old
          BY <3>7, <1>2
        <4>2. /\ Specificity(r) <= Specificity(old)
              /\ Specificity(r) = Specificity(old) /\ Action(r, "deny") = "deny" =>
                   Action(old, "deny") = "deny"
          <5>1. /\ ~(Specificity(r) > Specificity(old))
                /\ ~(/\ Specificity(r) = Specificity(old)
                     /\ Action(r, "deny") = "deny" /\ old.action # "deny")
            BY <2>5, <3>3, <3>7 DEF Better
          <5>2. old.action = "deny" => Action(old, "deny") = "deny"
            BY <3>5
          <5>3. Specificity(r) <= Specificity(old)
            BY <2>1, <3>3, <5>1
          <5> QED
            BY <5>1, <5>2, <5>3
        <4> QED
          BY <4>1, <4>2, <3>1, <3>2, <2>5, <1>5
      <3> QED
        BY <3>6, <3>7
    <2> QED
      BY <2>3, <2>4, <2>5
  <1> QED
    BY <1>6 DEF BestOf

LEMMA BestIsBest ==
  ASSUME NEW u, NEW list \in Seq(PathRule)
  PROVE  BestOf(u, list, Len(list))
  <1> DEFINE wrong == {n \in 0..Len(list) : ~BestOf(u, list, n)}
  <1>1. Len(list) \in Nat
    OBVIOUS
  <1>2. BestOf(u, list, 0)
    <2> DEFINE best == Best(u, list)
    <2>1. best = [m \in 0..Len(list) |->
                    IF m = 0 THEN NoRule
                    ELSE IF Better(u, list[m], best[m - 1]) THEN list[m] ELSE best[m - 1]]
      BY <1>1, BestIsDefined
    <2> HIDE DEF best
    <2>2. best[0] = NoRule
      BY <1>1, <2>1
    <2>3. {k \in 1..0 : Decides(u, list[k])} = {}
      OBVIOUS
    <2> QED
      BY <2>2, <2>3 DEF BestOf, best
  <1>3. wrong = {}
    <2> SUFFICES ASSUME wrong # {}
                 PROVE  FALSE
      OBVIOUS
    <2>1. wrong \in SUBSET Nat
      BY <1>1
    <2>2. PICK n \in wrong : \A k \in wrong : n <= k
      <3> HIDE DEF wrong
      <3> QED
        BY <2>1, HasLeast
    <2>3. n \in 0..Len(list) /\ ~BestOf(u, list, n)
      OBVIOUS
    <2>4. n # 0
      BY <1>2, <2>3
    <2>5. n - 1 \in Nat /\ (n - 1) + 1 = n /\ n <= Len(list) /\ n - 1 \in 0..Len(list) /\ ~(n <= n - 1)
      BY <1>1, <2>3, <2>4
    <2>6. BestOf(u, list, n - 1)
      BY <2>2, <2>5
    <2>7. BestOf(u, list, (n - 1) + 1)
      BY <2>5, <2>6, BestStep
    <2> QED
      BY <2>3, <2>5, <2>7
  <1> QED
    BY <1>1, <1>3

(* So the import is denied if and only if a deciding rule denies it and no *)
(* rule that allows it is more specific.                                   *)
LEMMA MostSpecificDecides ==
  ASSUME NEW u, NEW list \in Seq(PathRule)
  PROVE  LET fitting == {r \in ToSet(list) : Decides(u, r)}
             against == {r \in fitting : Action(r, "deny") = "deny"}
         IN  Denied(u, list) <=>
               \E d \in against : \A a \in fitting \ against : Specificity(d) >= Specificity(a)
  <1> DEFINE fitting == {r \in ToSet(list) : Decides(u, r)}
             against == {r \in fitting : Action(r, "deny") = "deny"}
             b == Selected(u, list)
             places == {k \in 1..Len(list) : Decides(u, list[k])}
  <1>1. \A r : r \in fitting <=> \E k \in places : r = list[k]
    BY DEF ToSet
  <1>2. \A r \in fitting : Specificity(r) \in Int
    <2>1. \A k \in places : list[k] \in PathRule
      OBVIOUS
    <2> QED
      BY <1>1, <2>1, SpecificityIsNumber
  <1>3. /\ places = {} => b = NoRule
        /\ places # {} =>
             /\ b \in fitting
             /\ \A r \in fitting :
                  /\ Specificity(r) <= Specificity(b)
                  /\ Specificity(r) = Specificity(b) /\ Action(r, "deny") = "deny" =>
                       Action(b, "deny") = "deny"
    <2>1. BestOf(u, list, Len(list))
      BY BestIsBest
    <2>2. b = Best(u, list)[Len(list)]
      BY DEF Selected
    <2> HIDE DEF fitting, b
    <2> QED
      BY <1>1, <2>1, <2>2 DEF BestOf
  <1>4. \A r \in fitting : r # NoRule
    <2>1. \A k \in places : list[k] \in PathRule
      OBVIOUS
    <2> QED
      BY <1>1, <2>1, RulesAssumption
  <1>5. Denied(u, list) <=> b # NoRule /\ Action(b, "deny") = "deny"
    BY DEF Denied
  <1> HIDE DEF fitting, places, b
  <1>6. ASSUME Denied(u, list)
        PROVE  \E d \in against : \A a \in fitting \ against : Specificity(d) >= Specificity(a)
    <2>1. b \in against
      BY <1>3, <1>5, <1>6
    <2>2. \A a \in fitting : Specificity(b) >= Specificity(a)
      BY <1>2, <1>3, <1>5, <1>6, <2>1
    <2> QED
      BY <2>1, <2>2
  <1>7. ASSUME NEW d \in against, \A a \in fitting \ against : Specificity(d) >= Specificity(a)
        PROVE  Denied(u, list)
    <2>1. d \in fitting /\ places # {}
      BY <1>1, <1>7
    <2>2. b \in fitting /\ b # NoRule
      BY <1>3, <1>4, <2>1
    <2>3. b \in against
      <3> SUFFICES ASSUME b \notin against
                   PROVE  FALSE
        OBVIOUS
      <3>1. Specificity(d) >= Specificity(b) /\ Specificity(d) <= Specificity(b)
        BY <1>3, <1>7, <2>1, <2>2
      <3>2. Specificity(d) = Specificity(b)
        BY <3>1, <1>2, <2>1, <2>2
      <3> QED
        BY <3>2, <1>3, <2>1, <2>2, <1>7
    <2> QED
      BY <1>5, <2>2, <2>3
  <1> QED
    BY <1>6, <1>7 DEF fitting

-----------------------------------------------------------------------------
(* The inductive invariant: the uses are of the workspace's files, and the *)
(* rules are a caller's, perhaps with exceptions.                          *)
RulesAreACallers ==
  /\ rules \in Policy \cup {NoRules}
  /\ rules \in RuleSet \/ [rules EXCEPT !.exceptions = {}] \in RuleSet

RulesInv == uses \subseteq Use /\ RulesAreACallers

(* An exception is added to the rules, and nothing else of them changes.   *)
LEMMA ExemptAdds ==
  ASSUME RulesAreACallers, NEW e \in Exception, Exempt(e)
  PROVE  /\ rules \in Policy /\ rules' \in Policy
         /\ rules'.imports = rules.imports /\ rules'.testImports = rules.testImports
         /\ rules'.layers = rules.layers /\ rules'.dependencies = rules.dependencies
         /\ rules'.effects = rules.effects
         /\ rules'.exceptions = rules.exceptions \cup {e}
         /\ [rules' EXCEPT !.exceptions = {}] = [rules EXCEPT !.exceptions = {}]
         /\ rules.exceptions = {} => [rules EXCEPT !.exceptions = {}] = rules
         /\ uses' = uses
  <1>1. rules \in Policy
    BY DEF Exempt, RulesAreACallers
  <1>2. rules' = [rules EXCEPT !.exceptions = rules.exceptions \cup {e}] /\ uses' = uses
    BY DEF Exempt
  <1>3. rules.exceptions \cup {e} \in SUBSET Exception
    BY <1>1 DEF Policy
  <1>4. rules' \in Policy
    BY <1>1, <1>2, <1>3 DEF Policy
  <1>5. /\ rules'.imports = rules.imports /\ rules'.testImports = rules.testImports
        /\ rules'.layers = rules.layers /\ rules'.dependencies = rules.dependencies
        /\ rules'.effects = rules.effects
        /\ rules'.exceptions = rules.exceptions \cup {e}
    BY <1>1, <1>2 DEF Policy
  <1>6. [rules' EXCEPT !.exceptions = {}] = [rules EXCEPT !.exceptions = {}]
    BY <1>1, <1>2 DEF Policy
  <1>7. rules.exceptions = {} => [rules EXCEPT !.exceptions = {}] = rules
    BY <1>1 DEF Policy
  <1> QED
    BY <1>1, <1>2, <1>4, <1>5, <1>6, <1>7

LEMMA RulesInvInductive ==
  /\ RulesInit => RulesInv
  /\ RulesInv /\ [RulesNext]_<<uses, rules>> => RulesInv'
  <1>1. RulesInit => RulesInv
    BY RulesAssumption DEF RulesInit, RulesInv, RulesAreACallers
  <1>2. ASSUME RulesInv, [RulesNext]_<<uses, rules>>
        PROVE  RulesInv'
    <2>1. ASSUME NEW u \in PossibleUses, AddUse(u)
          PROVE  RulesInv'
      <3>1. u \in Use
        BY DEF PossibleUses, Use
      <3> QED
        BY <1>2, <2>1, <3>1 DEF RulesInv, RulesAreACallers, AddUse
    <2>2. ASSUME NEW u \in PossibleUses, RemoveUse(u)
          PROVE  RulesInv'
      <3>1. uses' \subseteq uses /\ rules' = rules
        BY <2>2 DEF RemoveUse
      <3> QED
        BY <1>2, <3>1 DEF RulesInv, RulesAreACallers
    <2>3. ASSUME NEW e \in Exception, Exempt(e)
          PROVE  RulesInv'
      <3>1. RulesAreACallers
        BY <1>2 DEF RulesInv
      <3>2. /\ rules \in Policy /\ rules' \in Policy /\ uses' = uses
            /\ [rules' EXCEPT !.exceptions = {}] = [rules EXCEPT !.exceptions = {}]
            /\ rules.exceptions = {} => [rules EXCEPT !.exceptions = {}] = rules
        BY <2>3, <3>1, ExemptAdds
      <3>3. [rules EXCEPT !.exceptions = {}] \in RuleSet
        <4>1. CASE rules \in RuleSet
          <5>1. rules.exceptions = {}
            BY <4>1, <3>2, RulesAssumption
          <5> QED
            BY <4>1, <5>1, <3>2
        <4> QED
          BY <4>1, <3>1 DEF RulesAreACallers
      <3>4. [rules' EXCEPT !.exceptions = {}] \in RuleSet
        BY <3>2, <3>3
      <3> QED
        BY <1>2, <3>2, <3>4 DEF RulesInv, RulesAreACallers
    <2>4. CASE UNCHANGED <<uses, rules>>
      BY <1>2, <2>4 DEF RulesInv, RulesAreACallers
    <2> QED
      BY <1>2, <2>1, <2>2, <2>3, <2>4 DEF RulesNext
  <1> QED
    BY <1>1, <1>2

LEMMA RulesInvHolds == RulesSpec => []RulesInv
  BY RulesInvInductive, PTL DEF RulesSpec

-----------------------------------------------------------------------------
LEMMA ViolationFields ==
  \A kind, severity, package, at, rule :
    LET v == Violation(kind, severity, package, at, rule) IN
    /\ v.kind = kind /\ v.severity = severity /\ v.package = package
    /\ v.at = at /\ v.rule = rule
  BY DEF Violation

(* Every violation an assessment reports under architecture rules is an    *)
(* error about a package of the workspace (goArchitectureViolations).      *)
LEMMA ViolationsAreErrors ==
  ASSUME RulesInv
  PROVE  \A v \in ArchitectureViolations : v.package \in Package /\ v.severity = "error"
  <1>1. \A u \in uses : PackageOf(u) \in Package
    <2> TAKE u \in uses
    <2>1. u.file \in File
      BY DEF RulesInv, Use
    <2> QED
      BY <2>1 DEF PackageOf, Package
  <1>2. \A v \in ImportViolations : v.package \in Package /\ v.severity = "error"
    <2> TAKE v \in ImportViolations
    <2>1. PICK u \in Imports :
            \/ v = Violation("architecture_denied_import", "error", PackageOf(u), u, 0)
            \/ v = Violation("architecture_test_boundary_import", "error", PackageOf(u), u, 0)
      BY DEF ImportViolations
    <2>2. v.package = PackageOf(u) /\ v.severity = "error"
      BY <2>1, ViolationFields
    <2> QED
      BY <1>1, <2>2 DEF Imports
  <1>3. \A v \in DependencyViolations : v.package \in Package
    <2> TAKE v \in DependencyViolations
    <2>1. PICK u \in Imports :
            v = Violation(BoundaryKind(u), BoundarySeverity(u), PackageOf(u), u, 0)
      BY DEF DependencyViolations
    <2>2. v.package = PackageOf(u)
      BY <2>1, ViolationFields
    <2> QED
      BY <1>1, <2>2 DEF Imports
  <1>4. \A v \in UnknownPackages : v.package \in Package
    <2> TAKE v \in UnknownPackages
    <2>1. \E p \in Package : v = Violation("architecture_unknown_package", "error", p, NoUse, 0)
      BY DEF UnknownPackages
    <2> QED
      BY <2>1, ViolationFields
  <1>5. \A v \in EffectViolations : v.package \in Package
    BY <1>1 DEF EffectViolations, Violation
  <1> QED
    BY <1>2, <1>3, <1>4, <1>5 DEF ArchitectureViolations, PolicyViolations

(* The types hold, for any workspace and any rules.                        *)
THEOREM RulesTypeCorrect == RulesSpec => []RulesTypeOK
  <1>1. RulesInv => RulesTypeOK
    BY ViolationsAreErrors DEF RulesInv, RulesAreACallers, RulesTypeOK
  <1> QED
    BY <1>1, RulesInvHolds, PTL

(* Whatever the order and the number of the import rules, an import is     *)
(* denied if and only if a rule against it matches and no rule that allows *)
(* it is more specific (selectedArchitectureRule of assess.go).            *)
THEOREM NarrowRulesWin == RulesSpec => []MostSpecificRuleDecides
  <1>1. RulesInv => MostSpecificRuleDecides
    <2> SUFFICES ASSUME RulesInv, rules # NoRules,
                        NEW u \in Imports, NEW list \in {rules.imports, rules.testImports}
                 PROVE  LET fitting == {r \in ToSet(list) : Decides(u, r)}
                            against == {r \in fitting : Action(r, "deny") = "deny"}
                        IN  Denied(u, list) <=>
                              \E d \in against : \A a \in fitting \ against :
                                Specificity(d) >= Specificity(a)
      BY Zenon DEF MostSpecificRuleDecides
    <2>1. list \in Seq(PathRule)
      BY DEF RulesInv, RulesAreACallers, Policy
    <2> QED
      BY <2>1, MostSpecificDecides, Zenon
  <1> QED
    BY <1>1, RulesInvHolds, PTL

-----------------------------------------------------------------------------
(* What an exception excuses (architectureExceptionMatches).               *)
Excuses(e, kind, package, to, symbol, from, into) ==
  /\ e.reason
  /\ e.kind \in {"", kind}
  /\ Matches(e.package, package)
  /\ IsPrefix(e.import, to)
  /\ e.symbol \in {"", symbol}
  /\ e.fromLayer \in {"", from} /\ e.toLayer \in {"", into}

(* With one exception more, what it excuses is excused too, and no more.   *)
LEMMA OneMoreExcuses ==
  ASSUME RulesAreACallers, NEW e \in Exception, Exempt(e),
         NEW kind, NEW package, NEW to, NEW symbol, NEW from, NEW into
  PROVE  Excepted(kind, package, to, symbol, from, into)' <=>
           \/ Excepted(kind, package, to, symbol, from, into)
           \/ Excuses(e, kind, package, to, symbol, from, into)
  <1>1. rules'.exceptions = rules.exceptions \cup {e}
    BY ExemptAdds
  <1>2. Excepted(kind, package, to, symbol, from, into)' <=>
          \E x \in rules'.exceptions : Excuses(x, kind, package, to, symbol, from, into)
    BY Zenon DEF Excepted, Excuses
  <1>3. Excepted(kind, package, to, symbol, from, into) <=>
          \E x \in rules.exceptions : Excuses(x, kind, package, to, symbol, from, into)
    BY Zenon DEF Excepted, Excuses
  <1> QED
    BY <1>1, <1>2, <1>3

(* The violation is of the kind, the package and the import that the       *)
(* exception names, and the exception has a reason.                        *)
Within(e, v) ==
  /\ e.reason
  /\ e.kind \in {"", v.kind}
  /\ Matches(e.package, v.package)
  /\ v.at # NoUse => IsPrefix(e.import, v.at.to)

(* The layers, the dependencies and the effects the rules speak of stay.   *)
LEMMA RestStays ==
  ASSUME RulesAreACallers, NEW e \in Exception, Exempt(e)
  PROVE  /\ Imports' = Imports
         /\ ImportViolations' = ImportViolations
         /\ \A p : Layer(p)' = Layer(p)
         /\ \A u, i : InScope(u, rules.effects[i])' <=> InScope(u, rules.effects[i])
  <1>1. /\ rules'.imports = rules.imports /\ rules'.testImports = rules.testImports
        /\ rules'.layers = rules.layers /\ rules'.effects = rules.effects
        /\ uses' = uses
    BY ExemptAdds
  <1>2. Imports' = Imports
    BY <1>1 DEF Imports
  <1>3. ImportViolations' = ImportViolations
    BY <1>1, <1>2 DEF ImportViolations
  <1>4. \A p : Layer(p)' = Layer(p)
    BY <1>1 DEF Layer
  <1>5. \A u, i : InScope(u, rules.effects[i])' <=> InScope(u, rules.effects[i])
    BY <1>1, <1>4 DEF InScope
  <1> QED
    BY <1>2, <1>3, <1>4, <1>5

(* Each of the other kinds of violation: an exception takes away those     *)
(* within it, and adds none.                                               *)
LEMMA BoundariesExcused ==
  ASSUME RulesAreACallers, NEW e \in Exception, Exempt(e)
  PROVE  /\ DependencyViolations' \subseteq DependencyViolations
         /\ \A v \in DependencyViolations \ DependencyViolations' : Within(e, v)
  <1>1. \A u : Forbidden(u)' <=>
                 /\ Forbidden(u)
                 /\ ~Excuses(e, BoundaryKind(u), PackageOf(u), u.to, "", Layer(PackageOf(u)), Layer(u.to))
    <2> TAKE u
    <2>1. Layer(PackageOf(u))' = Layer(PackageOf(u)) /\ Layer(u.to)' = Layer(u.to)
      BY RestStays
    <2>2. rules'.dependencies = rules.dependencies
      BY ExemptAdds
    <2>3. Excepted(BoundaryKind(u), PackageOf(u), u.to, "", Layer(PackageOf(u)), Layer(u.to))' <=>
            \/ Excepted(BoundaryKind(u), PackageOf(u), u.to, "", Layer(PackageOf(u)), Layer(u.to))
            \/ Excuses(e, BoundaryKind(u), PackageOf(u), u.to, "", Layer(PackageOf(u)), Layer(u.to))
      BY <2>1, OneMoreExcuses
    <2> QED
      BY <2>1, <2>2, <2>3 DEF Forbidden

  <1> DEFINE V(u) == Violation(BoundaryKind(u), BoundarySeverity(u), PackageOf(u), u, 0)
  <1>2. Imports' = Imports
    BY RestStays
  <1>3. /\ DependencyViolations = {V(u) : u \in {v \in Imports : Forbidden(v)}}
        /\ DependencyViolations' = {V(u) : u \in {v \in Imports : Forbidden(v)'}}
    BY <1>2 DEF DependencyViolations
  <1>4. \A u : V(u).kind = BoundaryKind(u) /\ V(u).package = PackageOf(u) /\ V(u).at = u
    BY ViolationFields
  <1> HIDE DEF V
  <1>5. DependencyViolations' \subseteq DependencyViolations
    BY <1>1, <1>3
  <1>6. ASSUME NEW v \in DependencyViolations \ DependencyViolations'
        PROVE  Within(e, v)
    <2>1. PICK u \in Imports : v = V(u) /\ Forbidden(u)
      BY <1>3
    <2>2. ~(Forbidden(u)')
      BY <1>3, <2>1
    <2>3. Excuses(e, BoundaryKind(u), PackageOf(u), u.to, "", Layer(PackageOf(u)), Layer(u.to))
      BY <1>1, <2>1, <2>2
    <2> QED
      BY <1>4, <2>1, <2>3 DEF Excuses, Within
  <1> QED
    BY <1>5, <1>6

LEMMA UnknownExcused ==
  ASSUME RulesAreACallers, NEW e \in Exception, Exempt(e)
  PROVE  /\ UnknownPackages' \subseteq UnknownPackages
         /\ \A v \in UnknownPackages \ UnknownPackages' : Within(e, v)
  <1> DEFINE kind == "architecture_unknown_package"
             V(p) == Violation(kind, "error", p, NoUse, 0)
             Known(p) == /\ rules.layers # <<>> /\ Layer(p) = NoLayer
                         /\ ~Excepted(kind, p, <<>>, "", "", "")
  <1>1. \A p : Known(p)' <=> Known(p) /\ ~Excuses(e, kind, p, <<>>, "", "", "")
    <2> TAKE p
    <2>1. Layer(p)' = Layer(p) /\ rules'.layers = rules.layers
      BY RestStays, ExemptAdds
    <2>2. Excepted(kind, p, <<>>, "", "", "")' <=>
            Excepted(kind, p, <<>>, "", "", "") \/ Excuses(e, kind, p, <<>>, "", "", "")
      BY OneMoreExcuses
    <2> QED
      BY <2>1, <2>2
  <1>2. /\ UnknownPackages = {V(p) : p \in {q \in Package : Known(q)}}
        /\ UnknownPackages' = {V(p) : p \in {q \in Package : Known(q)'}}
    BY DEF UnknownPackages
  <1>3. \A p : V(p).kind = kind /\ V(p).package = p /\ V(p).at = NoUse
    BY ViolationFields
  <1> HIDE DEF V, Known
  <1>4. UnknownPackages' \subseteq UnknownPackages
    BY <1>1, <1>2
  <1>5. ASSUME NEW v \in UnknownPackages \ UnknownPackages'
        PROVE  Within(e, v)
    <2>1. PICK p \in Package : v = V(p) /\ Known(p)
      BY <1>2
    <2>2. ~(Known(p)')
      BY <1>2, <2>1
    <2>3. Excuses(e, kind, p, <<>>, "", "", "")
      BY <1>1, <2>1, <2>2
    <2> QED
      BY <1>3, <2>1, <2>3 DEF Excuses, Within
  <1> QED
    BY <1>4, <1>5

LEMMA EffectsExcused ==
  ASSUME RulesAreACallers, NEW e \in Exception, Exempt(e)
  PROVE  /\ EffectViolations' \subseteq EffectViolations
         /\ \A v \in EffectViolations \ EffectViolations' : Within(e, v)
  <1> DEFINE kind(u, i) == EffectKindOf(u, rules.effects[i])
             V(u, i) == Violation(kind(u, i), EffectSeverity(rules.effects[i]), PackageOf(u), u, i)
             Excused(u, i) == Excuses(e, kind(u, i), PackageOf(u), u.to, u.symbol,
                                      Layer(PackageOf(u)), "")
  <1>1. rules'.effects = rules.effects /\ uses' = uses
    BY ExemptAdds
  <1>2. \A u, i : EffectDenied(u, i)' <=> EffectDenied(u, i) /\ ~Excused(u, i)
    <2> TAKE u, i
    <2>1. Layer(PackageOf(u))' = Layer(PackageOf(u))
      BY RestStays
    <2>2. InScope(u, rules.effects[i])' <=> InScope(u, rules.effects[i])
      BY RestStays
    <2>3. Excepted(kind(u, i), PackageOf(u), u.to, u.symbol, Layer(PackageOf(u)), "")' <=>
            \/ Excepted(kind(u, i), PackageOf(u), u.to, u.symbol, Layer(PackageOf(u)), "")
            \/ Excused(u, i)
      BY <1>1, <2>1, OneMoreExcuses
    <2> QED
      BY <1>1, <2>1, <2>2, <2>3 DEF EffectDenied
  <1>3. /\ \A v : v \in EffectViolations <=>
                    \E u \in uses, i \in DOMAIN rules.effects : v = V(u, i) /\ EffectDenied(u, i)
        /\ \A v : v \in EffectViolations' <=>
                    \E u \in uses, i \in DOMAIN rules.effects : v = V(u, i) /\ EffectDenied(u, i)'
    <2> DEFINE D == DOMAIN rules.effects
               On(x) == EffectDenied(x[1], x[2])
    <2>1. /\ EffectViolations = {V(x[1], x[2]) : x \in {y \in uses \X D : On(y)}}
          /\ EffectViolations' = {V(x[1], x[2]) : x \in {y \in uses \X D : On(y)'}}
      BY <1>1 DEF EffectViolations
    <2>2. \A u \in uses, i \in D : \E x \in uses \X D : x[1] = u /\ x[2] = i
      <3> TAKE u \in uses, i \in D
      <3>1. <<u, i>> \in uses \X D
        OBVIOUS
      <3> QED
        BY <3>1, Zenon
    <2>3. \A x \in uses \X D : x[1] \in uses /\ x[2] \in D
      OBVIOUS
    <2>4. \A x : /\ On(x) <=> EffectDenied(x[1], x[2])
                 /\ On(x)' <=> EffectDenied(x[1], x[2])'
      OBVIOUS
    <2> HIDE DEF V, D, On
    <2>5. \A v : v \in EffectViolations <=>
                   \E x \in uses \X D : v = V(x[1], x[2]) /\ On(x)
      BY <2>1
    <2>6. \A v : v \in EffectViolations' <=>
                   \E x \in uses \X D : v = V(x[1], x[2]) /\ On(x)'
      BY <2>1
    <2> QED
      BY <2>2, <2>3, <2>4, <2>5, <2>6 DEF D
  <1>4. \A u, i : V(u, i).kind = kind(u, i) /\ V(u, i).package = PackageOf(u) /\ V(u, i).at = u
    BY ViolationFields
  <1> HIDE DEF V, Excused
  <1>5. EffectViolations' \subseteq EffectViolations
    BY <1>2, <1>3
  <1>6. ASSUME NEW v \in EffectViolations \ EffectViolations'
        PROVE  Within(e, v)
    <2>1. PICK u \in uses, i \in DOMAIN rules.effects : v = V(u, i) /\ EffectDenied(u, i)
      BY <1>3
    <2>2. ~(EffectDenied(u, i)')
      BY <1>3, <2>1
    <2>3. Excused(u, i)
      BY <1>2, <2>1, <2>2
    <2> QED
      BY <1>4, <2>1, <2>3 DEF Excuses, Excused, Within
  <1> QED
    BY <1>5, <1>6

(* An exception takes away violations, adds none, and takes away none of   *)
(* another kind, package or import than it names; without a reason it      *)
(* takes away nothing.                                                     *)
THEOREM ExceptionsAreNarrow == RulesSpec => ExceptionsOnlyExcuse
  <1> DEFINE Narrow(e) ==
               /\ ArchitectureViolations' \subseteq ArchitectureViolations
               /\ \A v \in ArchitectureViolations \ ArchitectureViolations' : Within(e, v)
  <1>1. ASSUME RulesInv, NEW e \in Exception, Exempt(e)
        PROVE  Narrow(e)
    <2>1. RulesAreACallers
      BY <1>1 DEF RulesInv
    <2>2. rules # NoRules /\ rules' # NoRules
      BY <1>1, <2>1, ExemptAdds, RulesAssumption DEF Exempt
    <2>3. /\ ArchitectureViolations =
               ImportViolations \cup {v \in PolicyViolations : v.severity = "error"}
          /\ ArchitectureViolations' =
               ImportViolations' \cup {v \in PolicyViolations' : v.severity = "error"}
      BY <2>2 DEF ArchitectureViolations
    <2>4. /\ PolicyViolations' \subseteq PolicyViolations
          /\ \A v \in PolicyViolations \ PolicyViolations' : Within(e, v)
      BY <1>1, <2>1, BoundariesExcused, UnknownExcused, EffectsExcused DEF PolicyViolations
    <2>5. ImportViolations' = ImportViolations
      BY <1>1, <2>1, RestStays
    <2> QED
      BY <2>3, <2>4, <2>5
  <1>2. ASSUME RulesInv, [RulesNext]_<<uses, rules>>, rules' # rules
        PROVE  \E e \in rules'.exceptions \ rules.exceptions : Narrow(e)
    <2>1. PICK e \in Exception : Exempt(e)
      BY <1>2 DEF RulesNext, AddUse, RemoveUse
    <2>2. e \in rules'.exceptions \ rules.exceptions
      BY <1>2, <2>1, ExemptAdds DEF RulesInv, Exempt
    <2> QED
      BY <1>1, <1>2, <2>1, <2>2
  <1>3. RulesInv /\ [RulesNext]_<<uses, rules>> =>
          [rules' # rules =>
             \E e \in rules'.exceptions \ rules.exceptions : Narrow(e)]_<<uses, rules>>
    BY <1>2
  <1> QED
    BY <1>3, RulesInvHolds, PTL DEF RulesSpec, ExceptionsOnlyExcuse, Within
=============================================================================
