--------------------------- MODULE AssessmentProofs ---------------------------
(***************************************************************************)
(* Proofs about Assessment, for any workspace, rules, gates and sizes: the *)
(* scores stay between their bounds, a violation always costs a score, and *)
(* nothing bad that a workspace gains raises one.                          *)
(***************************************************************************)
EXTENDS Assessment, ArchitectureRulesProofs

-----------------------------------------------------------------------------
(* The arithmetic of the penalties.                                        *)

(* ceilAssessmentDiv: the least number k such that n <= k * d.             *)
LEMMA CeilDivIsLeast ==
  ASSUME NEW n \in Nat, NEW d \in Nat, d > 0
  PROVE  /\ CeilDiv(n, d) \in Nat
         /\ \A k \in Nat : CeilDiv(n, d) <= k <=> n <= k * d
  <1>1. CASE n = 0
    <2>1. \A k \in Nat : 0 <= k * d
      OBVIOUS
    <2> QED
      BY <1>1, <2>1 DEF CeilDiv
  <1>2. CASE n > 0
    <2> DEFINE m == n + d - 1
               q == m \div d
    <2>1. m \in Int /\ q \in Int /\ q * d <= m /\ m < q * d + d
      OBVIOUS
    <2>2. CeilDiv(n, d) = q
      BY <1>2 DEF CeilDiv
    <2> HIDE DEF q
    <2>3. q \in Nat
      <3> SUFFICES ASSUME q <= -1
                   PROVE  FALSE
        BY <2>1
      <3>1. q * d <= -d
        BY <2>1
      <3> QED
        BY <3>1, <2>1, <1>2
    <2>4. ASSUME NEW k \in Nat, q <= k
          PROVE  n <= k * d
      <3>1. q * d <= k * d
        BY <2>3, <2>4
      <3>2. q * d \in Int /\ k * d \in Int
        BY <2>3
      <3> QED
        BY <3>1, <3>2, <2>1
    <2>5. ASSUME NEW k \in Nat, q > k
          PROVE  ~(n <= k * d)
      <3>1. (k + 1) * d <= q * d
        BY <2>3, <2>5
      <3>2. (k + 1) * d = k * d + d /\ k * d \in Int /\ q * d \in Int
        BY <2>3
      <3> QED
        BY <3>1, <3>2, <2>1
    <2> QED
      BY <2>2, <2>3, <2>4, <2>5
  <1> QED
    BY <1>1, <1>2

LEMMA CeilDivGrows ==
  ASSUME NEW n \in Nat, NEW m \in Nat, NEW d \in Nat, d > 0, n <= m
  PROVE  /\ CeilDiv(n, d) \in Nat /\ CeilDiv(m, d) \in Nat
         /\ CeilDiv(n, d) <= CeilDiv(m, d)
         /\ CeilDiv(n, d) > 0 <=> n > 0
  <1> DEFINE a == CeilDiv(n, d)
             b == CeilDiv(m, d)
  <1>1. a \in Nat /\ \A k \in Nat : a <= k <=> n <= k * d
    BY CeilDivIsLeast
  <1>2. b \in Nat /\ \A k \in Nat : b <= k <=> m <= k * d
    BY CeilDivIsLeast
  <1> HIDE DEF a, b
  <1>3. m <= b * d
    BY <1>2
  <1>4. a <= b
    <2>1. b * d \in Nat
      BY <1>2
    <2> QED
      BY <1>1, <1>2, <1>3, <2>1
  <1>5. a > 0 <=> n > 0
    <2>1. 0 * d = 0
      OBVIOUS
    <2>2. a <= 0 <=> n <= 0
      BY <1>1, <2>1
    <2> QED
      BY <1>1, <2>2
  <1> QED
    BY <1>1, <1>2, <1>4, <1>5 DEF a, b

(* A penalty is at most its cap, and nothing for nothing only; more events *)
(* never cost less (normalizedWeightedRatePenalty).                        *)
Weight(opportunities, scale, unit) == scale * unit * MoreOf(opportunities, 1)

IsPenalty(p, cap, events, w) ==
  /\ w \in Nat /\ w > 0
  /\ p \in Nat
  /\ \A k \in Nat : p <= k <=> (events = 0 \/ cap * events * 1000 <= k * (events * 1000 + w))

LEMMA PenaltyIsLeast ==
  ASSUME NEW cap \in Nat, NEW events \in Nat, NEW opportunities \in Nat,
         NEW scale \in Nat, NEW unit \in Nat, scale > 0, unit > 0
  PROVE  IsPenalty(Penalty(cap, events, opportunities, scale, unit), cap, events,
                   Weight(opportunities, scale, unit))
  <1> DEFINE w == Weight(opportunities, scale, unit)
             p == Penalty(cap, events, opportunities, scale, unit)
             more == MoreOf(opportunities, 1)
  <1>1. more \in Nat /\ more > 0
    BY DEF MoreOf
  <1>2. w \in Nat /\ w > 0
    <2>1. scale * unit \in Nat /\ scale * unit > 0
      OBVIOUS
    <2>2. w = (scale * unit) * more
      BY DEF Weight
    <2> HIDE DEF w, more
    <2>3. \A a, b \in Nat : a > 0 /\ b > 0 => a * b \in Nat /\ a * b > 0
      OBVIOUS
    <2> QED
      BY <1>1, <2>1, <2>2, <2>3
  <1>3. p = IF events = 0 THEN 0 ELSE CeilDiv(cap * events * 1000, events * 1000 + w)
    BY DEF Penalty, Weight
  <1>4. cap * events * 1000 \in Nat /\ events * 1000 + w \in Nat /\ events * 1000 + w > 0
    <2> HIDE DEF w
    <2>1. cap * events \in Nat
      OBVIOUS
    <2> QED
      BY <1>2, <2>1
  <1> HIDE DEF w, p
  <1>5. /\ CeilDiv(cap * events * 1000, events * 1000 + w) \in Nat
        /\ \A k \in Nat : CeilDiv(cap * events * 1000, events * 1000 + w) <= k <=>
                            cap * events * 1000 <= k * (events * 1000 + w)
    <2> DEFINE n == cap * events * 1000
               d == events * 1000 + w
    <2>1. n \in Nat /\ d \in Nat /\ d > 0
      BY <1>4
    <2> HIDE DEF n, d
    <2>2. CeilDiv(n, d) \in Nat /\ \A k \in Nat : CeilDiv(n, d) <= k <=> n <= k * d
      BY <2>1, CeilDivIsLeast
    <2> QED
      BY <2>2 DEF n, d
  <1>6. IsPenalty(p, cap, events, w)
    <2>1. p \in Nat
      BY <1>3, <1>5
    <2>2. \A k \in Nat : p <= k <=> (events = 0 \/ cap * events * 1000 <= k * (events * 1000 + w))
      <3>1. CASE events = 0
        BY <3>1, <1>3
      <3>2. CASE events # 0
        BY <3>2, <1>3, <1>5
      <3> QED
        BY <3>1, <3>2
    <2> QED
      BY <1>2, <2>1, <2>2 DEF IsPenalty
  <1> QED
    BY <1>6 DEF p, w

CostsWithin(p, cap, events) == p \in 0..cap /\ (cap > 0 => (p > 0 <=> events > 0))

LEMMA PenaltyBounds ==
  ASSUME NEW cap \in Nat, NEW events \in Nat, NEW opportunities \in Nat,
         NEW scale \in Nat, NEW unit \in Nat, scale > 0, unit > 0
  PROVE  CostsWithin(Penalty(cap, events, opportunities, scale, unit), cap, events)
  <1> DEFINE w == Weight(opportunities, scale, unit)
             p == Penalty(cap, events, opportunities, scale, unit)
  <1>1. /\ w \in Nat /\ w > 0 /\ p \in Nat
        /\ \A k \in Nat : p <= k <=> (events = 0 \/ cap * events * 1000 <= k * (events * 1000 + w))
    <2>1. IsPenalty(p, cap, events, w)
      BY PenaltyIsLeast
    <2> QED
      BY <2>1 DEF IsPenalty
  <1> HIDE DEF w, p
  <1>2. p <= cap
    <2>1. cap * (events * 1000 + w) = cap * events * 1000 + cap * w
      BY <1>1
    <2>2. cap * w \in Nat /\ cap * events * 1000 \in Nat
      BY <1>1
    <2>3. cap * events * 1000 <= cap * (events * 1000 + w)
      BY <2>1, <2>2
    <2> QED
      BY <1>1, <2>3
  <1>3. cap > 0 /\ events > 0 => cap * events * 1000 > 0
    <2>1. cap > 0 /\ events > 0 => cap * events \in Nat /\ cap * events > 0
      OBVIOUS
    <2> QED
      BY <2>1
  <1>4. 0 * (events * 1000 + w) = 0
    BY <1>1
  <1>5. p <= 0 <=> (events = 0 \/ cap * events * 1000 <= 0)
    BY <1>1, <1>4
  <1>6. cap > 0 => (p > 0 <=> events > 0)
    BY <1>1, <1>3, <1>5
  <1> QED
    BY <1>1, <1>2, <1>6 DEF p, CostsWithin

LEMMA PenaltyGrows ==
  ASSUME NEW cap \in Nat, NEW events \in Nat, NEW more \in Nat, NEW opportunities \in Nat,
         NEW scale \in Nat, NEW unit \in Nat, scale > 0, unit > 0, events <= more
  PROVE  Penalty(cap, events, opportunities, scale, unit)
           <= Penalty(cap, more, opportunities, scale, unit)
  <1> DEFINE w == Weight(opportunities, scale, unit)
             p == Penalty(cap, events, opportunities, scale, unit)
             q == Penalty(cap, more, opportunities, scale, unit)
  <1>1. /\ w \in Nat /\ w > 0 /\ p \in Nat /\ q \in 0..cap
        /\ \A k \in Nat : p <= k <=> (events = 0 \/ cap * events * 1000 <= k * (events * 1000 + w))
        /\ \A k \in Nat : q <= k <=> (more = 0 \/ cap * more * 1000 <= k * (more * 1000 + w))
    <2>1. IsPenalty(p, cap, events, w)
      BY PenaltyIsLeast
    <2>2. IsPenalty(q, cap, more, w)
      BY PenaltyIsLeast
    <2>3. q \in 0..cap
      BY PenaltyBounds DEF CostsWithin
    <2> QED
      BY <2>1, <2>2, <2>3 DEF IsPenalty
  <1> HIDE DEF w, p, q
  <1>2. ASSUME more = 0
        PROVE  p <= q
    <2>1. events = 0
      BY <1>2
    <2> QED
      BY <1>1, <2>1
  <1>3. ASSUME more # 0
        PROVE  p <= q
    <2> DEFINE rest == cap - q
    <2>1. q \in Nat /\ rest \in Nat /\ cap = rest + q
      BY <1>1
    <2>2. cap * more * 1000 <= q * (more * 1000 + w)
      BY <1>1, <1>3, <2>1
    <2> HIDE DEF rest
    <2>3. \A n \in Nat : cap * n * 1000 <= q * (n * 1000 + w) <=> rest * n * 1000 <= q * w
      <3> TAKE n \in Nat
      <3>1. cap * n = rest * n + q * n
        BY <2>1
      <3>2. rest * n \in Nat /\ q * n \in Nat /\ q * w \in Nat
        BY <1>1, <2>1
      <3>3. q * (n * 1000 + w) = q * n * 1000 + q * w
        BY <1>1, <2>1
      <3> QED
        BY <3>1, <3>2, <3>3
    <2>4. rest * events <= rest * more /\ rest * events \in Nat /\ rest * more \in Nat
      BY <2>1
    <2>5. rest * events * 1000 <= q * w
      <3>1. q * w \in Nat
        BY <1>1, <2>1
      <3> QED
        BY <2>2, <2>3, <2>4, <3>1
    <2> QED
      BY <1>1, <2>1, <2>3, <2>5
  <1> QED
    BY <1>2, <1>3 DEF p, q

(* So with as many events or more a penalty rises, up to its cap.          *)
Rises(p, q, cap) == p \in 0..cap /\ q \in 0..cap /\ p <= q

Charged(cap, events, more, opportunities, scale, unit) ==
  /\ cap \in Nat /\ events \in Nat /\ more \in Nat /\ opportunities \in Nat
  /\ scale \in Nat /\ unit \in Nat
  /\ scale > 0 /\ unit > 0 /\ events <= more

LEMMA PenaltyRises ==
  \A cap, events, more, opportunities, scale, unit :
    Charged(cap, events, more, opportunities, scale, unit) =>
      /\ CostsWithin(Penalty(cap, events, opportunities, scale, unit), cap, events)
      /\ Rises(Penalty(cap, events, opportunities, scale, unit),
               Penalty(cap, more, opportunities, scale, unit), cap)
  <1> SUFFICES ASSUME NEW cap, NEW events, NEW more, NEW opportunities, NEW scale, NEW unit,
                      Charged(cap, events, more, opportunities, scale, unit)
               PROVE  /\ CostsWithin(Penalty(cap, events, opportunities, scale, unit), cap, events)
                      /\ Rises(Penalty(cap, events, opportunities, scale, unit),
                               Penalty(cap, more, opportunities, scale, unit), cap)
    OBVIOUS
  <1> DEFINE p == Penalty(cap, events, opportunities, scale, unit)
             q == Penalty(cap, more, opportunities, scale, unit)
  <1>1. /\ cap \in Nat /\ events \in Nat /\ more \in Nat /\ opportunities \in Nat
        /\ scale \in Nat /\ unit \in Nat /\ scale > 0 /\ unit > 0 /\ events <= more
    BY DEF Charged
  <1>2. CostsWithin(p, cap, events)
    BY <1>1, PenaltyBounds
  <1>3. CostsWithin(q, cap, more)
    BY <1>1, PenaltyBounds
  <1>4. p <= q
    BY <1>1, PenaltyGrows
  <1>5. Rises(p, q, cap)
    BY <1>2, <1>3, <1>4 DEF CostsWithin, Rises
  <1> QED
    BY <1>2, <1>5

-----------------------------------------------------------------------------
(* The inductive invariant: the uses are those that files may have, the    *)
(* rules are a caller's, the sizes and the issues are numbers.             *)
AssessInv ==
  /\ uses \subseteq PossibleUses
  /\ RulesAreACallers
  /\ size \in WorkspaceSize
  /\ issues \in [Issue -> 0..MaxIssues]

LEMMA AssessIsRules == AssessInv => RulesInv
  BY DEF AssessInv, RulesInv, PossibleUses, Use

LEMMA IssuesStayBounded ==
  ASSUME AssessInv, NEW k \in Issue, Introduce(k) \/ Resolve(k)
  PROVE  issues' \in [Issue -> 0..MaxIssues]
  <1>1. issues \in [Issue -> 0..MaxIssues] /\ MaxIssues \in Nat
    BY SetupAssumption DEF AssessInv
  <1>2. \A i \in Issue : issues[i] \in Nat /\ issues[i] <= MaxIssues
    BY <1>1
  <1>3. CASE Resolve(k)
    <2>1. issues[k] - 1 \in 0..MaxIssues
      BY <1>1, <1>2, <1>3 DEF Resolve
    <2> QED
      BY <1>1, <1>3, <2>1 DEF Resolve
  <1>4. CASE Introduce(k)
    <2>0. /\ issues["diagnostic"] \in Nat /\ issues["quality"] \in Nat
          /\ issues["performance"] \in Nat /\ issues["safety"] \in Nat
          /\ issues["coverage"] \in Nat /\ issues["debt"] \in Nat
          /\ issues["suggestion"] \in Nat /\ issues["pressure"] \in Nat
          /\ issues["highFanOut"] \in Nat /\ issues["structure"] \in Nat
          /\ issues["section"] \in Nat /\ issues["markdownDebt"] \in Nat
          /\ issues["unreadable"] \in Nat
      BY <1>2 DEF Issue, GoIssue, MarkdownIssue
    <2>1. issues[k] <= IssueCount
      <3>1. \/ k \in {"diagnostic", "quality", "performance", "safety", "coverage", "debt"}
            \/ k \in {"suggestion", "pressure", "highFanOut", "structure", "section"}
            \/ k \in {"markdownDebt", "unreadable"}
        BY DEF Issue, GoIssue, MarkdownIssue
      <3>2. \/ issues[k] \in {issues["diagnostic"], issues["quality"], issues["performance"],
                              issues["safety"], issues["coverage"], issues["debt"]}
            \/ issues[k] \in {issues["suggestion"], issues["pressure"], issues["highFanOut"],
                              issues["structure"], issues["section"]}
            \/ issues[k] \in {issues["markdownDebt"], issues["unreadable"]}
        BY <3>1
      <3> QED
        BY <2>0, <3>2 DEF IssueCount
    <2>2. IssueCount \in Int
      BY <2>0 DEF IssueCount
    <2>3. issues[k] + 1 \in 0..MaxIssues
      BY <1>1, <1>2, <1>4, <2>1, <2>2 DEF Introduce
    <2> QED
      BY <1>1, <1>4, <2>3 DEF Introduce
  <1> QED
    BY <1>3, <1>4

LEMMA AssessInvInductive ==
  /\ Init => AssessInv
  /\ AssessInv /\ [Next]_vars => AssessInv'
  <1>1. ASSUME Init
        PROVE  AssessInv
    <2>1. PICK s \in Setup : rules = s.rules /\ size = s.size
      BY <1>1 DEF Init
    <2>2. rules \in RuleSet /\ size \in WorkspaceSize
      BY <2>1, SetupAssumption
    <2>3. RulesAreACallers
      BY <2>2, RulesAssumption DEF RulesAreACallers
    <2>4. issues \in [Issue -> 0..MaxIssues]
      BY <1>1, SetupAssumption DEF Init
    <2>5. uses \subseteq PossibleUses
      BY <1>1 DEF Init
    <2> QED
      BY <2>2, <2>3, <2>4, <2>5 DEF AssessInv
  <1>2. ASSUME AssessInv, [Next]_vars
        PROVE  AssessInv'
    <2>1. ASSUME NEW u \in PossibleUses, Edit(AddUse(u)) \/ Edit(RemoveUse(u))
          PROVE  AssessInv'
      <3>1. /\ uses' \subseteq uses \cup {u}
            /\ rules' = rules /\ size' = size /\ issues' = issues
        BY <2>1 DEF Edit, AddUse, RemoveUse
      <3> QED
        BY <1>2, <2>1, <3>1 DEF AssessInv, RulesAreACallers
    <2>2. ASSUME NEW e \in Exception, Edit(Exempt(e))
          PROVE  AssessInv'
      <3>1. RulesNext
        BY <2>2 DEF Edit, RulesNext
      <3>2. RulesInv'
        BY <1>2, <3>1, AssessIsRules, RulesInvInductive
      <3>3. uses' = uses /\ size' = size /\ issues' = issues
        BY <2>2 DEF Edit, Exempt
      <3> QED
        BY <1>2, <3>2, <3>3 DEF AssessInv, RulesInv
    <2>3. ASSUME NEW k \in Issue, Introduce(k) \/ Resolve(k)
          PROVE  AssessInv'
      <3>1. uses' = uses /\ rules' = rules /\ size' = size
        BY <2>3 DEF Introduce, Resolve
      <3>2. issues' \in [Issue -> 0..MaxIssues]
        BY <1>2, <2>3, IssuesStayBounded
      <3> QED
        BY <1>2, <3>1, <3>2 DEF AssessInv, RulesAreACallers
    <2>4. CASE UNCHANGED vars
      BY <1>2, <2>4 DEF vars, AssessInv, RulesAreACallers
    <2> QED
      BY <1>2, <2>1, <2>2, <2>3, <2>4 DEF Next
  <1> QED
    BY <1>1, <1>2

LEMMA AssessInvHolds == Spec => []AssessInv
  BY AssessInvInductive, PTL DEF Spec

-----------------------------------------------------------------------------
(* There are finitely many violations.                                     *)
LEMMA UsesAreFinite == AssessInv => IsFiniteSet(uses)
  <1> DEFINE f == [x \in File \X Target |-> [file |-> x[1], to |-> x[2].to, symbol |-> x[2].symbol]]
             pairs == File \X Target
  <1>1. IsFiniteSet(pairs)
    BY FileAssumption, FS_Product
  <1> HIDE DEF f, pairs
  <1>2. IsFiniteSet({f[x] : x \in pairs})
    BY <1>1, FiniteImage
  <1>3. PossibleUses \subseteq {f[x] : x \in pairs}
    <2> SUFFICES ASSUME NEW a \in File, NEW b \in Target
                 PROVE  [file |-> a, to |-> b.to, symbol |-> b.symbol] \in {f[x] : x \in pairs}
      BY DEF PossibleUses
    <2>1. PICK x \in pairs : x = <<a, b>>
      BY DEF pairs
    <2>2. f[x] = [file |-> a, to |-> b.to, symbol |-> b.symbol]
      BY <2>1 DEF f, pairs
    <2> QED
      BY <2>1, <2>2
  <1> QED
    BY <1>2, <1>3, FS_Subset DEF AssessInv

LEMMA PackagesAreFinite == IsFiniteSet(Package)
  <1> DEFINE f == [x \in File |-> ModulePath \o x.dir]
  <1>1. IsFiniteSet({f[x] : x \in File})
    BY FileAssumption, FiniteImage
  <1>2. Package = {f[x] : x \in File}
    BY DEF Package
  <1> QED
    BY <1>1, <1>2

LEMMA ImportViolationsAreFinite == AssessInv => IsFiniteSet(ImportViolations)
  <1> SUFFICES ASSUME AssessInv
               PROVE  IsFiniteSet(ImportViolations)
    OBVIOUS
  <1> DEFINE one == {v \in Imports : Denied(v, rules.imports)}
             two == {v \in Imports : Denied(v, rules.testImports)}
             f == [u \in one |-> Violation("architecture_denied_import", "error", PackageOf(u), u, 0)]
             g == [u \in two |->
                     Violation("architecture_test_boundary_import", "error", PackageOf(u), u, 0)]
  <1>1. one \in SUBSET uses /\ two \in SUBSET uses
    BY DEF Imports
  <1>2. IsFiniteSet(one) /\ IsFiniteSet(two)
    BY <1>1, UsesAreFinite, FS_Subset
  <1>3. ImportViolations = {f[u] : u \in one} \cup {g[u] : u \in two}
    BY DEF ImportViolations
  <1> HIDE DEF one, two, f, g
  <1>4. IsFiniteSet({f[u] : u \in one}) /\ IsFiniteSet({g[u] : u \in two})
    BY <1>2, FiniteImage
  <1> QED
    BY <1>3, <1>4, FS_Union

LEMMA PolicyViolationsAreFinite == AssessInv /\ rules # NoRules => IsFiniteSet(PolicyViolations)
  <1> SUFFICES ASSUME AssessInv, rules # NoRules
               PROVE  IsFiniteSet(PolicyViolations)
    OBVIOUS
  <1>1. IsFiniteSet(DependencyViolations)
    <2> DEFINE S == {v \in Imports : Forbidden(v)}
               f == [u \in S |-> Violation(BoundaryKind(u), BoundarySeverity(u), PackageOf(u), u, 0)]
    <2>1. S \in SUBSET uses
      BY DEF Imports
    <2>2. DependencyViolations = {f[u] : u \in S}
      BY DEF DependencyViolations
    <2> HIDE DEF S, f
    <2>3. IsFiniteSet(S)
      BY <2>1, UsesAreFinite, FS_Subset
    <2>4. IsFiniteSet({f[x] : x \in S})
      BY <2>3, FiniteImage
    <2> QED
      BY <2>2, <2>4
  <1>2. IsFiniteSet(UnknownPackages)
    <2> DEFINE S == {q \in Package : /\ rules.layers # <<>> /\ Layer(q) = NoLayer
                                     /\ ~Excepted("architecture_unknown_package", q, <<>>, "", "", "")}
               f == [p \in S |-> Violation("architecture_unknown_package", "error", p, NoUse, 0)]
    <2>1. S \in SUBSET Package
      OBVIOUS
    <2>2. UnknownPackages = {f[p] : p \in S}
      BY DEF UnknownPackages
    <2> HIDE DEF S, f
    <2>3. IsFiniteSet(S)
      BY <2>1, PackagesAreFinite, FS_Subset
    <2>4. IsFiniteSet({f[x] : x \in S})
      BY <2>3, FiniteImage
    <2> QED
      BY <2>2, <2>4
  <1>3. IsFiniteSet(EffectViolations)
    <2> DEFINE D == DOMAIN rules.effects
               S == {y \in uses \X D : EffectDenied(y[1], y[2])}
               f == [x \in S |->
                       Violation(EffectKindOf(x[1], rules.effects[x[2]]),
                                 EffectSeverity(rules.effects[x[2]]), PackageOf(x[1]), x[1], x[2])]
    <2>1. IsFiniteSet(D)
      <3>1. Len(rules.effects) \in Int /\ D = 1..Len(rules.effects)
        BY DEF AssessInv, RulesAreACallers, Policy
      <3> QED
        BY <3>1, FS_Interval
    <2>2. EffectViolations = {f[x] : x \in S}
      BY DEF EffectViolations
    <2>3. IsFiniteSet(uses \X D)
      BY <2>1, UsesAreFinite, FS_Product
    <2>4. S \in SUBSET (uses \X D)
      OBVIOUS
    <2> HIDE DEF S, f, D
    <2>5. IsFiniteSet(S)
      BY <2>3, <2>4, FS_Subset
    <2>6. IsFiniteSet({f[x] : x \in S})
      BY <2>5, FiniteImage
    <2> QED
      BY <2>2, <2>6
  <1> QED
    BY <1>1, <1>2, <1>3, FS_Union DEF PolicyViolations

LEMMA ViolationsAreFinite ==
  AssessInv => IsFiniteSet(GoViolations) /\ IsFiniteSet(DemotedFindings)
               /\ IsFiniteSet(CoupledPackages) /\ \A p : FanOut(p) \in Nat
  <1> SUFFICES ASSUME AssessInv
               PROVE  /\ IsFiniteSet(GoViolations) /\ IsFiniteSet(DemotedFindings)
                      /\ IsFiniteSet(CoupledPackages) /\ \A p : FanOut(p) \in Nat
    OBVIOUS
  <1>1. IsFiniteSet(ArchitectureViolations) /\ IsFiniteSet(DemotedFindings)
    <2>1. CASE rules = NoRules
      BY <2>1, FS_EmptySet DEF ArchitectureViolations, DemotedFindings
    <2>2. CASE rules # NoRules
      <3> DEFINE errors == {v \in PolicyViolations : v.severity = "error"}
                 rest == {v \in PolicyViolations : v.severity # "error"}
      <3>1. errors \in SUBSET PolicyViolations /\ rest \in SUBSET PolicyViolations
        OBVIOUS
      <3>2. ArchitectureViolations = ImportViolations \cup errors /\ DemotedFindings = rest
        BY <2>2 DEF ArchitectureViolations, DemotedFindings
      <3> HIDE DEF errors, rest
      <3>3. IsFiniteSet(errors) /\ IsFiniteSet(rest)
        BY <2>2, <3>1, PolicyViolationsAreFinite, FS_Subset
      <3> QED
        BY <3>2, <3>3, ImportViolationsAreFinite, FS_Union
    <2> QED
      BY <2>1, <2>2
  <1>2. IsFiniteSet(GoViolations)
    BY <1>1, FS_EmptySet DEF GoViolations
  <1>3. IsFiniteSet(CoupledPackages)
    <2>1. CoupledPackages \in SUBSET Package
      BY DEF CoupledPackages
    <2> QED
      BY <2>1, PackagesAreFinite, FS_Subset
  <1>4. \A p : FanOut(p) \in Nat
    <2> TAKE p
    <2> DEFINE S == {u \in Imports : PackageOf(u) = p /\ Layer(u.to) # NoLayer}
    <2>1. S \in SUBSET uses
      BY DEF Imports
    <2>2. FanOut(p) = Cardinality(S)
      BY DEF FanOut
    <2> HIDE DEF S
    <2> QED
      BY <2>1, <2>2, UsesAreFinite, FS_Subset, FS_CardinalityType
  <1> QED
    BY <1>1, <1>2, <1>3, <1>4

LEMMA CountBounds ==
  ASSUME NEW found, IsFiniteSet(found), NEW kinds
  PROVE  /\ CountViolations(found, kinds) \in Nat
         /\ CountViolations(found, kinds) > 0 <=> \E v \in found : v.kind \in kinds
  <1> DEFINE S == {v \in found : v.kind \in kinds}
  <1>1. S \in SUBSET found /\ CountViolations(found, kinds) = Cardinality(S)
    BY DEF CountViolations
  <1>2. S = {} <=> ~ \E v \in found : v.kind \in kinds
    OBVIOUS
  <1> HIDE DEF S
  <1>3. IsFiniteSet(S)
    BY <1>1, FS_Subset
  <1>4. Cardinality(S) \in Nat /\ (Cardinality(S) = 0 <=> S = {})
    BY <1>3, FS_CardinalityType, FS_EmptySet
  <1> QED
    BY <1>1, <1>2, <1>4

LEMMA CountGrows ==
  ASSUME NEW more, IsFiniteSet(more), NEW found \in SUBSET more, NEW kinds
  PROVE  CountViolations(found, kinds) <= CountViolations(more, kinds)
  <1> DEFINE S == {v \in found : v.kind \in kinds}
             T == {v \in more : v.kind \in kinds}
  <1>1. /\ CountViolations(found, kinds) = Cardinality(S)
        /\ CountViolations(more, kinds) = Cardinality(T)
    BY DEF CountViolations
  <1>2. S \in SUBSET T /\ T \in SUBSET more
    OBVIOUS
  <1> HIDE DEF S, T
  <1>3. IsFiniteSet(T)
    BY <1>2, FS_Subset
  <1>4. Cardinality(S) <= Cardinality(T)
    BY <1>2, <1>3, FS_Subset
  <1> QED
    BY <1>1, <1>4

-----------------------------------------------------------------------------
(* The scores: between which bounds they stay, and what they pay for.      *)
LEMMA Numbers ==
  AssessInv => /\ \A k \in Issue : \A gate : Reported(k, gate) \in Nat
               /\ \A k \in Issue : issues[k] \in Nat
               /\ size.loc \in Nat /\ size.functions \in Nat /\ size.documents \in Nat
               /\ size.headings \in Nat /\ size.lines \in Nat
  <1> SUFFICES ASSUME AssessInv
               PROVE  /\ \A k \in Issue : \A gate : Reported(k, gate) \in Nat
                      /\ \A k \in Issue : issues[k] \in Nat
                      /\ size.loc \in Nat /\ size.functions \in Nat /\ size.documents \in Nat
                      /\ size.headings \in Nat /\ size.lines \in Nat
    OBVIOUS
  <1>1. \A k \in Issue : issues[k] \in Nat
    BY SetupAssumption DEF AssessInv
  <1>2. \A k \in Issue : \A gate : Reported(k, gate) \in Nat
    BY <1>1 DEF Reported
  <1>3. /\ size.loc \in Nat /\ size.functions \in Nat /\ size.documents \in Nat
        /\ size.headings \in Nat /\ size.lines \in Nat
    BY DEF AssessInv, WorkspaceSize
  <1> QED
    BY <1>1, <1>2, <1>3

Pays(found, kinds) == \E v \in found : v.kind \in kinds

LEMMA ArchitectureScores ==
  AssessInv =>
    \A found : IsFiniteSet(found) =>
      /\ Boundary(found) \in 0..100 /\ TestBoundary(found) \in 0..100
      /\ EffectScore(found) \in 0..100
      /\ rules # NoRules =>
           /\ Boundary(found) < 100 <=> Pays(found, BoundaryKinds)
           /\ TestBoundary(found) < 100 <=> Pays(found, TestBoundaryKinds)
           /\ EffectScore(found) < 100 <=> Pays(found, EffectKinds)
  <1> SUFFICES ASSUME AssessInv, NEW found, IsFiniteSet(found)
               PROVE  /\ Boundary(found) \in 0..100 /\ TestBoundary(found) \in 0..100
                      /\ EffectScore(found) \in 0..100
                      /\ rules # NoRules =>
                           /\ Boundary(found) < 100 <=> Pays(found, BoundaryKinds)
                           /\ TestBoundary(found) < 100 <=> Pays(found, TestBoundaryKinds)
                           /\ EffectScore(found) < 100 <=> Pays(found, EffectKinds)
    OBVIOUS
  <1>1. \A kinds : /\ CountViolations(found, kinds) \in Nat
                   /\ CountViolations(found, kinds) > 0 <=> Pays(found, kinds)
    BY CountBounds DEF Pays
  <1>2. /\ Boundary(found) \in 0..100
        /\ rules # NoRules => (Boundary(found) < 100 <=> Pays(found, BoundaryKinds))
    <2> DEFINE n == CountViolations(found, BoundaryKinds)
    <2>1. n \in Nat /\ (n > 0 <=> Pays(found, BoundaryKinds))
      BY <1>1
    <2>2. Boundary(found) = IF rules = NoRules THEN 100 ELSE 100 - LessOf(100, 25 * n)
      BY DEF Boundary
    <2> HIDE DEF n
    <2> QED
      BY <2>1, <2>2 DEF LessOf
  <1>3. /\ TestBoundary(found) \in 0..100
        /\ rules # NoRules => (TestBoundary(found) < 100 <=> Pays(found, TestBoundaryKinds))
    <2> DEFINE n == CountViolations(found, TestBoundaryKinds)
    <2>1. n \in Nat /\ (n > 0 <=> Pays(found, TestBoundaryKinds))
      BY <1>1
    <2>2. TestBoundary(found) = IF rules = NoRules THEN 100 ELSE 100 - LessOf(100, 10 * n)
      BY DEF TestBoundary
    <2> HIDE DEF n
    <2> QED
      BY <2>1, <2>2 DEF LessOf
  <1>4. /\ EffectScore(found) \in 0..100
        /\ rules # NoRules => (EffectScore(found) < 100 <=> Pays(found, EffectKinds))
    <2> DEFINE n == CountViolations(found, EffectKinds)
               p == Penalty(60, n, size.loc, 300, 1)
    <2>1. n \in Nat /\ (n > 0 <=> Pays(found, EffectKinds))
      BY <1>1
    <2>2. EffectScore(found) = IF rules = NoRules THEN 100 ELSE 100 - p
      BY DEF EffectScore
    <2>3. size.loc \in Nat
      BY Numbers
    <2> HIDE DEF n
    <2>4. p \in 0..60 /\ (p > 0 <=> n > 0)
      <3>1. CostsWithin(p, 60, n)
        <4>1. Charged(60, n, n, size.loc, 300, 1)
          BY <2>1, <2>3 DEF Charged
        <4> QED
          BY <4>1, PenaltyRises
      <3> QED
        BY <3>1 DEF CostsWithin
    <2> HIDE DEF p
    <2> QED
      BY <2>1, <2>2, <2>4
  <1> QED
    BY <1>2, <1>3, <1>4

LEMMA CoverageScore ==
  AssessInv =>
    \A found : IsFiniteSet(found) =>
      /\ Coverage(found) \in 0..100
      /\ Pays(found, {"architecture_unknown_package"}) => Coverage(found) < 100
  <1> SUFFICES ASSUME AssessInv, NEW found, IsFiniteSet(found)
               PROVE  /\ Coverage(found) \in 0..100
                      /\ Pays(found, {"architecture_unknown_package"}) => Coverage(found) < 100
    OBVIOUS
  <1> DEFINE n == CountViolations(found, {"architecture_unknown_package"})
             p == Penalty(100, n, size.loc, 250, 1)
             r == Reported("coverage", "coverage")
  <1>1. n \in Nat /\ (n > 0 <=> Pays(found, {"architecture_unknown_package"}))
    BY CountBounds DEF Pays
  <1>2. size.loc \in Nat /\ r \in Nat
    BY Numbers DEF Issue, GoIssue
  <1>3. Coverage(found) = LessOf(100 - LessOf(50, 25 * r), 100 - p)
    BY DEF Coverage
  <1> HIDE DEF n, r
  <1>4. p \in 0..100 /\ (p > 0 <=> n > 0)
    <2>1. CostsWithin(p, 100, n)
      <3>1. Charged(100, n, n, size.loc, 250, 1)
        BY <1>1, <1>2 DEF Charged
      <3> QED
        BY <3>1, PenaltyRises
    <2> QED
      BY <2>1 DEF CostsWithin
  <1> HIDE DEF p
  <1> QED
    BY <1>1, <1>2, <1>3, <1>4 DEF LessOf

LEMMA SideEffectScore ==
  AssessInv =>
    \A found : IsFiniteSet(found) =>
      SideEffect(found) \in 0..100 /\ SideEffect(found) <= EffectScore(found)
  <1> SUFFICES ASSUME AssessInv, NEW found, IsFiniteSet(found)
               PROVE  SideEffect(found) \in 0..100 /\ SideEffect(found) <= EffectScore(found)
    OBVIOUS
  <1> DEFINE events == WarningWeight * Reported("safety", "safety")
             p == Penalty(40, events, size.loc, 5, WarningWeight)
  <1>1. EffectScore(found) \in 0..100
    BY ArchitectureScores
  <1>2. size.loc \in Nat /\ Reported("safety", "safety") \in Nat
    BY Numbers DEF Issue, GoIssue
  <1>3. events \in Nat /\ WarningWeight \in Nat /\ WarningWeight > 0
    BY <1>2 DEF WarningWeight
  <1>4. SafetyScore = 100 - p
    BY DEF SafetyScore
  <1> HIDE DEF events
  <1>5. p \in 0..40
    <2>1. Charged(40, events, events, size.loc, 5, WarningWeight)
      BY <1>2, <1>3 DEF Charged
    <2> QED
      BY <2>1, PenaltyRises DEF CostsWithin
  <1> HIDE DEF p
  <1>6. SafetyScore \in 0..100
    BY <1>4, <1>5
  <1> QED
    BY <1>1, <1>6 DEF SideEffect, LessOf

LEMMA CouplingScore == AssessInv => Coupling \in 0..100
  <1> SUFFICES ASSUME AssessInv
               PROVE  Coupling \in 0..100
    OBVIOUS
  <1>1. size.loc \in Nat /\ Reported("highFanOut", "architecture") \in Nat
    BY Numbers DEF Issue, GoIssue
  <1>2. FanOutFindings \in Nat
    <2> DEFINE S == {v \in DemotedFindings : v.kind = "architecture_fan_out"}
    <2>1. S \in SUBSET DemotedFindings
      OBVIOUS
    <2>2. FanOutFindings = IF ~GateOn("architecture") THEN 0
                           ELSE Cardinality(CoupledPackages) + Cardinality(S)
      BY DEF FanOutFindings
    <2> HIDE DEF S
    <2>3. IsFiniteSet(S) /\ IsFiniteSet(CoupledPackages)
      BY <2>1, ViolationsAreFinite, FS_Subset
    <2>4. Cardinality(S) \in Nat /\ Cardinality(CoupledPackages) \in Nat
      BY <2>3, FS_CardinalityType
    <2> QED
      BY <2>2, <2>4
  <1>3. Penalty(40, FanOutFindings, size.loc, 2, 1) \in 0..40
    <2>1. Charged(40, FanOutFindings, FanOutFindings, size.loc, 2, 1)
      BY <1>1, <1>2 DEF Charged
    <2> QED
      BY <2>1, PenaltyRises DEF CostsWithin
  <1>4. Penalty(35, Reported("highFanOut", "architecture"), size.loc, 2, 1) \in 0..35
    <2>1. Charged(35, Reported("highFanOut", "architecture"),
                 Reported("highFanOut", "architecture"), size.loc, 2, 1)
      BY <1>1 DEF Charged
    <2> QED
      BY <2>1, PenaltyRises DEF CostsWithin
  <1> QED
    BY <1>3, <1>4 DEF Coupling

LEMMA MaintainabilityScore == AssessInv => Maintainability \in 0..100
  <1> SUFFICES ASSUME AssessInv
               PROVE  Maintainability \in 0..100
    OBVIOUS
  <1> DEFINE units == WarningWeight * Reported("quality", "maintainability")
                      + InfoWeight * Reported("performance", "maintainability")
             suggestion == Penalty(25, issues["suggestion"], size.functions, 20, 1)
             pressure == Penalty(20, 100 * issues["pressure"], size.loc, 1000, 1)
             debt == Penalty(20, Reported("debt", "maintainability"), size.loc, 2, 1)
             quality == Penalty(25, units, size.loc, 50, WarningWeight)
             score == ((100 - suggestion) + (100 - pressure) + (100 - debt) + 2 * (100 - quality) + 2) \div 5
  <1>1. /\ issues["suggestion"] \in Nat /\ 100 * issues["pressure"] \in Nat
        /\ Reported("debt", "maintainability") \in Nat
        /\ Reported("quality", "maintainability") \in Nat
        /\ Reported("performance", "maintainability") \in Nat
        /\ size.loc \in Nat /\ size.functions \in Nat
    BY Numbers DEF Issue, GoIssue
  <1>2. units \in Nat /\ WarningWeight \in Nat /\ WarningWeight > 0
    BY <1>1 DEF WarningWeight, InfoWeight
  <1>3. Maintainability = MoreOf(50, score)
    BY DEF Maintainability
  <1> HIDE DEF units
  <1>4. suggestion \in 0..25
    <2>1. Charged(25, issues["suggestion"], issues["suggestion"], size.functions, 20, 1)
      BY <1>1 DEF Charged
    <2> QED
      BY <2>1, PenaltyRises DEF CostsWithin
  <1>5. pressure \in 0..20
    <2> DEFINE n == 100 * issues["pressure"]
    <2>1. n \in Nat
      BY <1>1
    <2> HIDE DEF n
    <2>2. CostsWithin(Penalty(20, n, size.loc, 1000, 1), 20, n)
      <3>1. Charged(20, n, n, size.loc, 1000, 1)
        BY <1>1, <2>1 DEF Charged
      <3> QED
        BY <3>1, PenaltyRises
    <2> QED
      BY <2>2 DEF n, CostsWithin
  <1>6. debt \in 0..20
    <2>1. Charged(20, Reported("debt", "maintainability"),
                 Reported("debt", "maintainability"), size.loc, 2, 1)
      BY <1>1 DEF Charged
    <2> QED
      BY <2>1, PenaltyRises DEF CostsWithin
  <1>7. quality \in 0..25
    <2>1. Charged(25, units, units, size.loc, 50, WarningWeight)
      BY <1>1, <1>2 DEF Charged
    <2> QED
      BY <2>1, PenaltyRises DEF CostsWithin
  <1> HIDE DEF suggestion, pressure, debt, quality
  <1>8. score \in 0..100
    BY <1>4, <1>5, <1>6, <1>7
  <1> HIDE DEF score
  <1> QED
    BY <1>3, <1>8 DEF MoreOf

LEMMA MarkdownScores ==
  AssessInv => /\ MarkdownCoverage \in 0..100 /\ MarkdownMaintainability \in 0..100
               /\ MarkdownOverall \in 0..100
  <1> SUFFICES ASSUME AssessInv
               PROVE  /\ MarkdownCoverage \in 0..100 /\ MarkdownMaintainability \in 0..100
                      /\ MarkdownOverall \in 0..100
    OBVIOUS
  <1> DEFINE units == WarningWeight * Reported("structure", "maintainability")
                      + InfoWeight * Reported("section", "maintainability")
             places == size.documents + size.headings
             errors == ErrorWeight * Reported("unreadable", "safety")
             structure == Penalty(50, units, places, 4, WarningWeight)
             debt == Penalty(20, Reported("markdownDebt", "maintainability"), size.lines, 2, 1)
             hard == Penalty(30, errors, size.lines, 2, ErrorWeight)
             score == (2 * (100 - structure) + (100 - debt) + 1) \div 3
  <1>1. /\ Reported("structure", "maintainability") \in Nat
        /\ Reported("section", "maintainability") \in Nat
        /\ Reported("markdownDebt", "maintainability") \in Nat
        /\ Reported("unreadable", "safety") \in Nat
        /\ size.documents \in Nat /\ size.headings \in Nat /\ size.lines \in Nat
    BY Numbers DEF Issue, MarkdownIssue
  <1>2. /\ units \in Nat /\ places \in Nat /\ errors \in Nat
        /\ WarningWeight \in Nat /\ WarningWeight > 0 /\ ErrorWeight \in Nat /\ ErrorWeight > 0
    BY <1>1 DEF WarningWeight, InfoWeight, ErrorWeight
  <1>3. /\ MarkdownMaintainability = MoreOf(50, score)
        /\ MarkdownOverall = MoreOf(0, LessOf(MarkdownMaintainability, MarkdownCoverage) - hard)
    BY DEF MarkdownMaintainability, MarkdownOverall
  <1> HIDE DEF units, places, errors
  <1>4. structure \in 0..50
    <2>1. Charged(50, units, units, places, 4, WarningWeight)
      BY <1>2 DEF Charged
    <2> QED
      BY <2>1, PenaltyRises DEF CostsWithin
  <1>5. debt \in 0..20
    <2>1. Charged(20, Reported("markdownDebt", "maintainability"),
                 Reported("markdownDebt", "maintainability"), size.lines, 2, 1)
      BY <1>1 DEF Charged
    <2> QED
      BY <2>1, PenaltyRises DEF CostsWithin
  <1>6. hard \in 0..30
    <2>1. Charged(30, errors, errors, size.lines, 2, ErrorWeight)
      BY <1>1, <1>2 DEF Charged
    <2> QED
      BY <2>1, PenaltyRises DEF CostsWithin
  <1> HIDE DEF structure, debt, hard
  <1>7. score \in 0..100
    BY <1>4, <1>5
  <1> HIDE DEF score
  <1>8. MarkdownMaintainability \in 0..100
    BY <1>3, <1>7 DEF MoreOf
  <1>9. MarkdownCoverage \in 0..100
    BY DEF MarkdownCoverage
  <1>10. MarkdownOverall \in 0..100
    BY <1>3, <1>6, <1>8, <1>9 DEF MoreOf, LessOf
  <1> QED
    BY <1>8, <1>9, <1>10

(* Hard violations cost something as soon as there is one.                 *)
LEMMA HardViolations ==
  AssessInv =>
    \A found : IsFiniteSet(found) =>
      /\ ViolationCount(found) \in Nat
      /\ ViolationPenalty(found) \in 0..30
      /\ ViolationCount(found) > 0 <=> ViolationPenalty(found) > 0
  <1> SUFFICES ASSUME AssessInv, NEW found, IsFiniteSet(found)
               PROVE  /\ ViolationCount(found) \in Nat
                      /\ ViolationPenalty(found) \in 0..30
                      /\ ViolationCount(found) > 0 <=> ViolationPenalty(found) > 0
    OBVIOUS
  <1> DEFINE n == ErrorWeight * ViolationCount(found)
  <1>1. ViolationCount(found) \in Nat
    <2>1. Cardinality(found) \in Nat
      BY FS_CardinalityType
    <2>2. Reported("diagnostic", "safety") \in Nat
      BY Numbers DEF Issue, GoIssue
    <2> QED
      BY <2>1, <2>2 DEF ViolationCount
  <1>2. n \in Nat /\ (n > 0 <=> ViolationCount(found) > 0) /\ ErrorWeight \in Nat /\ ErrorWeight > 0
    BY <1>1 DEF ErrorWeight
  <1>3. size.loc \in Nat
    BY Numbers
  <1>4. ViolationPenalty(found) = Penalty(30, n, size.loc, 2, ErrorWeight)
    BY DEF ViolationPenalty
  <1> HIDE DEF n
  <1>5. CostsWithin(ViolationPenalty(found), 30, n)
    <2>1. Charged(30, n, n, size.loc, 2, ErrorWeight)
      BY <1>2, <1>3 DEF Charged
    <2> QED
      BY <2>1, <1>4, PenaltyRises
  <1> QED
    BY <1>1, <1>2, <1>5 DEF CostsWithin

-----------------------------------------------------------------------------
(* The backend's report.                                                   *)
Report ==
  [GoComponents(GoViolations) EXCEPT !.overall = GoOverall(GoViolations, GoComponents(GoViolations))]

LEMMA GoReportIs ==
  /\ GoReports = {Report}
  /\ Report = [overall |-> GoOverall(GoViolations, GoComponents(GoViolations)),
               boundary |-> Boundary(GoViolations), testBoundary |-> TestBoundary(GoViolations),
               coupling |-> Coupling, sideEffect |-> SideEffect(GoViolations),
               coverage |-> Coverage(GoViolations), maintainability |-> Maintainability]
  <1> DEFINE S == {<<found, GoComponents(found)>> : found \in {GoViolations}}
             f(x) == [x[2] EXCEPT !.overall = GoOverall(x[1], x[2])]
             y == <<GoViolations, GoComponents(GoViolations)>>
  <1>1. S = {y}
    OBVIOUS
  <1>2. GoReports = {f(x) : x \in S}
    BY DEF GoReports
  <1>3. y[1] = GoViolations /\ y[2] = GoComponents(GoViolations)
    OBVIOUS
  <1>4. f(y) = Report
    BY <1>3 DEF Report
  <1> HIDE DEF S, f, y
  <1>5. GoReports = {Report}
    BY <1>1, <1>2, <1>4
  <1>6. Report = [overall |-> GoOverall(GoViolations, GoComponents(GoViolations)),
                  boundary |-> Boundary(GoViolations), testBoundary |-> TestBoundary(GoViolations),
                  coupling |-> Coupling, sideEffect |-> SideEffect(GoViolations),
                  coverage |-> Coverage(GoViolations), maintainability |-> Maintainability]
    BY DEF Report, GoComponents
  <1> QED
    BY <1>5, <1>6

LEMMA ComponentScores ==
  AssessInv => /\ Boundary(GoViolations) \in 0..100 /\ TestBoundary(GoViolations) \in 0..100
               /\ Coupling \in 0..100 /\ SideEffect(GoViolations) \in 0..100
               /\ Coverage(GoViolations) \in 0..100 /\ Maintainability \in 0..100
  BY ViolationsAreFinite, ArchitectureScores, CoverageScore, SideEffectScore, CouplingScore,
     MaintainabilityScore

(* What a component can take away of the score, in tenths or twentieths.   *)
ShareFalls(x, y, d) ==
  /\ CeilDiv(100 - x, d) \in Nat /\ CeilDiv(100 - y, d) \in Nat
  /\ CeilDiv(100 - y, d) <= CeilDiv(100 - x, d)
  /\ CeilDiv(100 - y, d) > 0 <=> y < 100

LEMMA Share ==
  ASSUME NEW x \in 0..100, NEW y \in 0..100, x <= y, NEW d \in {10, 20}
  PROVE  ShareFalls(x, y, d)
  <1> DEFINE n == 100 - y
             m == 100 - x
  <1>1. n \in Nat /\ m \in Nat /\ n <= m /\ d \in Nat /\ d > 0 /\ (n > 0 <=> y < 100)
    OBVIOUS
  <1> HIDE DEF n, m
  <1>2. /\ CeilDiv(n, d) \in Nat /\ CeilDiv(m, d) \in Nat
        /\ CeilDiv(n, d) <= CeilDiv(m, d)
        /\ CeilDiv(n, d) > 0 <=> n > 0
    BY <1>1, CeilDivGrows
  <1> QED
    BY <1>1, <1>2 DEF n, m, ShareFalls

(* What the components beside the boundary take away (SoftImpact).         *)
LEMMA SoftImpactIs ==
  ASSUME NEW s, s.coupling \in 0..100, s.sideEffect \in 0..100, s.coverage \in 0..100,
         s.testBoundary \in 0..100
  PROVE  /\ SoftImpact(s) \in Nat
         /\ SoftImpact(s) > 0 <=> \/ s.coupling < 100 \/ s.sideEffect < 100
                                  \/ s.coverage < 100 \/ s.testBoundary < 100
  <1> DEFINE a == CeilDiv(100 - s.coupling, 10)
             b == CeilDiv(100 - s.sideEffect, 20)
             c == CeilDiv(100 - s.coverage, 20)
             e == CeilDiv(100 - s.testBoundary, 20)
  <1>1. \A x \in 0..100, d \in {10, 20} :
          CeilDiv(100 - x, d) \in Nat /\ (CeilDiv(100 - x, d) > 0 <=> x < 100)
    <2> TAKE x \in 0..100, d \in {10, 20}
    <2>1. x <= x
      OBVIOUS
    <2>2. ShareFalls(x, x, d)
      BY <2>1, Share
    <2> QED
      BY <2>2 DEF ShareFalls
  <1>2. a \in Nat /\ (a > 0 <=> s.coupling < 100)
    BY <1>1
  <1>3. b \in Nat /\ (b > 0 <=> s.sideEffect < 100)
    BY <1>1
  <1>4. c \in Nat /\ (c > 0 <=> s.coverage < 100)
    BY <1>1
  <1>5. e \in Nat /\ (e > 0 <=> s.testBoundary < 100)
    BY <1>1
  <1>6. SoftImpact(s) = a + b + c + e
    BY DEF SoftImpact
  <1> HIDE DEF a, b, c, e
  <1> QED
    BY <1>2, <1>3, <1>4, <1>5, <1>6

LEMMA OverallScore ==
  AssessInv => Report.overall \in 0..100 /\ MarkdownOverall \in 0..100
  <1> SUFFICES ASSUME AssessInv
               PROVE  Report.overall \in 0..100
    BY MarkdownScores
  <1> DEFINE s == GoComponents(GoViolations)
  <1>1. /\ s.boundary \in 0..100 /\ s.testBoundary \in 0..100 /\ s.coupling \in 0..100
        /\ s.sideEffect \in 0..100 /\ s.coverage \in 0..100 /\ s.maintainability \in 0..100
    BY ComponentScores DEF GoComponents
  <1>2. ViolationPenalty(GoViolations) \in 0..30
    BY ViolationsAreFinite, HardViolations
  <1>3. Report.overall = GoOverall(GoViolations, s)
    BY GoReportIs
  <1> HIDE DEF s
  <1>4. SoftImpact(s) \in Nat
    BY <1>1, SoftImpactIs
  <1>5. Weakest(s) \in 0..100
    BY <1>1 DEF Weakest, LessOf
  <1> QED
    BY <1>1, <1>2, <1>3, <1>4, <1>5 DEF GoOverall, LessOf, MoreOf

LEMMA ReportsAreScores == AssessInv => \A s \in Reports : IsScores(s)
  <1> SUFFICES ASSUME AssessInv
               PROVE  \A s \in Reports : IsScores(s)
    OBVIOUS
  <1>1. IsScores(Report)
    <2>1. Report.overall \in 0..100
      BY OverallScore
    <2>2. /\ Report.boundary \in 0..100 /\ Report.testBoundary \in 0..100
          /\ Report.coupling \in 0..100 /\ Report.sideEffect \in 0..100
          /\ Report.coverage \in 0..100 /\ Report.maintainability \in 0..100
      BY GoReportIs, ComponentScores
    <2> QED
      BY <2>1, <2>2 DEF IsScores, Score
  <1>2. \A s \in MarkdownReports : IsScores(s)
    <2>1. /\ MarkdownCoverage \in 0..100 /\ MarkdownMaintainability \in 0..100
          /\ MarkdownOverall \in 0..100
      BY MarkdownScores
    <2> QED
      BY <2>1 DEF MarkdownReports, IsScores, Score
  <1>3. \A s \in UnsupportedReports : IsScores(s)
    BY DEF UnsupportedReports, IsScores, Score
  <1> QED
    BY <1>1, <1>2, <1>3, GoReportIs DEF Reports

(* minScoreSet finds a least score, for there are only so many.            *)
LEMMA LeastScoreIs ==
  ASSUME NEW reports, NEW score, \A r \in reports : r[score] \in 0..100
  PROVE  LeastScore(reports, score) \in 0..100
  <1> DEFINE given == ({r[score] : r \in reports} \ {0}) \cup {100}
  <1>1. given \in SUBSET Nat /\ given # {} /\ \A n \in given : n \in 0..100
    OBVIOUS
  <1>2. LeastScore(reports, score) = CHOOSE n \in given : \A m \in given : n <= m
    BY DEF LeastScore
  <1> HIDE DEF given
  <1>3. \E n \in given : \A m \in given : n <= m
    BY <1>1, HasLeast
  <1>4. LeastScore(reports, score) \in given
    BY <1>2, <1>3
  <1> QED
    BY <1>1, <1>4

(* Whatever the workspace, its size and its rules, every score any report  *)
(* or the aggregate shows lies between 0 and 100.                          *)
THEOREM ScoresAreBounded == Spec => []TypeOK
  <1>1. AssessInv => TypeOK
    <2> SUFFICES ASSUME AssessInv
                 PROVE  \A s \in Reports \cup {Aggregate(Reports)} : IsScores(s)
      BY DEF TypeOK, AssessInv
    <2>1. \A s \in Reports : IsScores(s)
      BY ReportsAreScores
    <2>2. \A score \in Score : LeastScore(Reports, score) \in 0..100
      <3> TAKE score \in Score
      <3>1. \A r \in Reports : r[score] \in 0..100
        BY <2>1 DEF IsScores
      <3> QED
        BY <3>1, LeastScoreIs
    <2>3. IsScores(Aggregate(Reports))
      BY <2>2 DEF IsScores, Aggregate
    <2> QED
      BY <2>1, <2>3
  <1> QED
    BY <1>1, AssessInvHolds, PTL

-----------------------------------------------------------------------------
(* The kinds of the effect rules are the same for the score and for        *)
(* --fail-on, though they fall back to other kinds (violationMatches-      *)
(* FailureCategory, countArchitectureEffectViolations).                    *)
LEMMA EffectKindsAgree == FailureKinds("effects") = EffectKinds
  <1>1. \A name, one, two : EffectKind(name, one) = one \/ EffectKind(name, one) = EffectKind(name, two)
    BY DEF EffectKind
  <1>2. FailureKinds("effects") =
          {"architecture_effect_import", "architecture_effect_call"} \cup
          {EffectKind(rules.effects[i].name, "architecture_effect_call") : i \in DOMAIN rules.effects}
    BY DEF FailureKinds
  <1>3. EffectKinds =
          {"architecture_effect_import", "architecture_effect_call"} \cup
          {EffectKind(rules.effects[i].name, "architecture_effect_import") : i \in DOMAIN rules.effects}
    BY DEF EffectKinds
  <1> QED
    BY <1>1, <1>2, <1>3

LEMMA GoViolationsAreErrors == AssessInv => \A v \in GoViolations : v.severity = "error"
  BY AssessIsRules, ViolationsAreErrors DEF GoViolations

(* The command line fails on a category exactly when the score of that     *)
(* category has paid for a violation.                                      *)
THEOREM FailOnFollowsScores == Spec => []FailOnAgreesWithScores
  <1>1. AssessInv => FailOnAgreesWithScores
    <2> SUFFICES ASSUME AssessInv, rules # NoRules
                 PROVE  /\ Fails(GoViolations, "boundary") <=> Boundary(GoViolations) < 100
                        /\ Fails(GoViolations, "test-boundary") <=> TestBoundary(GoViolations) < 100
                        /\ Fails(GoViolations, "effects") <=> EffectScore(GoViolations) < 100
                        /\ Fails(GoViolations, "unknown") => Coverage(GoViolations) < 100
      BY DEF FailOnAgreesWithScores
    <2>1. \A category : Fails(GoViolations, category) <=> Pays(GoViolations, FailureKinds(category))
      BY GoViolationsAreErrors DEF Fails, Pays
    <2>2. /\ FailureKinds("boundary") = BoundaryKinds
          /\ FailureKinds("test-boundary") = TestBoundaryKinds
          /\ FailureKinds("unknown") = {"architecture_unknown_package"}
      BY DEF FailureKinds
    <2>3. IsFiniteSet(GoViolations)
      BY ViolationsAreFinite
    <2>4. /\ Boundary(GoViolations) < 100 <=> Pays(GoViolations, BoundaryKinds)
          /\ TestBoundary(GoViolations) < 100 <=> Pays(GoViolations, TestBoundaryKinds)
          /\ EffectScore(GoViolations) < 100 <=> Pays(GoViolations, EffectKinds)
      BY <2>3, ArchitectureScores
    <2>5. Pays(GoViolations, {"architecture_unknown_package"}) => Coverage(GoViolations) < 100
      BY <2>3, CoverageScore
    <2> QED
      BY <2>1, <2>2, <2>4, <2>5, EffectKindsAgree
  <1> QED
    BY <1>1, AssessInvHolds, PTL

(* Each violation is of a kind that some score pays for.                   *)
LEMMA KindsArePaidFor ==
  rules # NoRules =>
    \A v \in GoViolations : \/ v.kind \in BoundaryKinds \/ v.kind \in TestBoundaryKinds
                            \/ v.kind \in EffectKinds \/ v.kind = "architecture_unknown_package"
  <1> SUFFICES ASSUME rules # NoRules, NEW v \in ArchitectureViolations
               PROVE  \/ v.kind \in BoundaryKinds \/ v.kind \in TestBoundaryKinds
                      \/ v.kind \in EffectKinds \/ v.kind = "architecture_unknown_package"
    BY DEF GoViolations
  <1>1. CASE v \in ImportViolations
    <2>1. PICK u \in Imports :
            \/ v = Violation("architecture_denied_import", "error", PackageOf(u), u, 0)
            \/ v = Violation("architecture_test_boundary_import", "error", PackageOf(u), u, 0)
      BY <1>1 DEF ImportViolations
    <2>2. v.kind \in {"architecture_denied_import", "architecture_test_boundary_import"}
      BY <2>1, ViolationFields
    <2> QED
      BY <2>2 DEF BoundaryKinds, TestBoundaryKinds
  <1>2. CASE v \in DependencyViolations
    <2>1. PICK u \in Imports :
            v = Violation(BoundaryKind(u), BoundarySeverity(u), PackageOf(u), u, 0)
      BY <1>2 DEF DependencyViolations
    <2>2. v.kind = BoundaryKind(u)
      BY <2>1, ViolationFields
    <2> QED
      BY <2>2 DEF BoundaryKind, BoundaryKinds, TestBoundaryKinds
  <1>3. CASE v \in UnknownPackages
    <2>1. PICK p \in Package : v = Violation("architecture_unknown_package", "error", p, NoUse, 0)
      BY <1>3 DEF UnknownPackages
    <2> QED
      BY <2>1, ViolationFields
  <1>4. CASE v \in EffectViolations
    <2>1. PICK x \in uses \X DOMAIN rules.effects :
            v = Violation(EffectKindOf(x[1], rules.effects[x[2]]), EffectSeverity(rules.effects[x[2]]),
                          PackageOf(x[1]), x[1], x[2])
      BY <1>4 DEF EffectViolations
    <2> DEFINE i == x[2]
               name == rules.effects[i].name
    <2>2. v.kind = EffectKindOf(x[1], rules.effects[i])
      BY <2>1, ViolationFields
    <2>3. v.kind = EffectKind(name, "architecture_effect_import")
          \/ v.kind = EffectKind(name, "architecture_effect_call")
      BY <2>2 DEF EffectKindOf
    <2>4. \A one, two : EffectKind(name, one) = one \/ EffectKind(name, one) = EffectKind(name, two)
      BY DEF EffectKind
    <2>5. i \in DOMAIN rules.effects
      OBVIOUS
    <2> QED
      BY <2>3, <2>4, <2>5 DEF EffectKinds
  <1> QED
    BY <1>1, <1>2, <1>3, <1>4 DEF ArchitectureViolations, PolicyViolations

(* README: "`overall` ... is further reduced by hard violations."  However *)
(* large the workspace and whatever the gates, a report with a violation   *)
(* is never a perfect one: no rounding takes the penalty away              *)
(* (goAssessmentScores, ceilAssessmentDiv).                                *)
THEOREM ViolationsShow == Spec => []ViolationsAlwaysShow
  <1>1. AssessInv => ViolationsAlwaysShow
    <2> SUFFICES ASSUME AssessInv, ViolationCount(GoViolations) > 0
                 PROVE  Report.overall < 100
      BY GoReportIs DEF ViolationsAlwaysShow
    <2> DEFINE s == GoComponents(GoViolations)
    <2>1. /\ s.boundary \in 0..100 /\ s.testBoundary \in 0..100 /\ s.coupling \in 0..100
          /\ s.sideEffect \in 0..100 /\ s.coverage \in 0..100 /\ s.maintainability \in 0..100
      BY ComponentScores DEF GoComponents
    <2>2. Report.overall = GoOverall(GoViolations, s)
      BY GoReportIs
    <2>3. IsFiniteSet(GoViolations)
      BY ViolationsAreFinite
    <2>4. /\ s.boundary = Boundary(GoViolations) /\ s.testBoundary = TestBoundary(GoViolations)
          /\ s.sideEffect = SideEffect(GoViolations) /\ s.coverage = Coverage(GoViolations)
      BY DEF GoComponents
    <2> HIDE DEF s
    <2>5. CASE ~OnlyArchitecture
      <3>1. ViolationPenalty(GoViolations) \in 0..30 /\ ViolationPenalty(GoViolations) > 0
        BY <2>3, HardViolations
      <3>2. Weakest(s) \in 0..100
        BY <2>1 DEF Weakest, LessOf
      <3> QED
        BY <2>2, <2>5, <3>1, <3>2 DEF GoOverall, MoreOf
    <2>6. CASE OnlyArchitecture
      <3>1. rules # NoRules /\ ~GateOn("safety")
        BY <2>6 DEF OnlyArchitecture, GateOn
      <3>2. Cardinality(GoViolations) \in Nat /\ Cardinality(GoViolations) > 0
        BY <2>3, <3>1, FS_CardinalityType DEF ViolationCount, Reported
      <3>3. PICK v \in GoViolations : TRUE
        BY <2>3, <3>2, FS_EmptySet
      <3>4. CASE v.kind \in BoundaryKinds
        <4>1. s.boundary < 100
          BY <2>3, <2>4, <3>1, <3>4, ArchitectureScores DEF Pays
        <4> QED
          BY <2>1, <2>2, <2>6, <4>1 DEF GoOverall
      <3>5. CASE v.kind \notin BoundaryKinds
        <4>1. s.testBoundary < 100 \/ s.sideEffect < 100 \/ s.coverage < 100
          <5>1. CASE v.kind \in TestBoundaryKinds
            BY <2>3, <2>4, <3>1, <5>1, ArchitectureScores DEF Pays
          <5>2. CASE v.kind \in EffectKinds
            <6>1. EffectScore(GoViolations) \in 0..100 /\ EffectScore(GoViolations) < 100
              BY <2>3, <3>1, <5>2, ArchitectureScores DEF Pays
            <6>2. SideEffect(GoViolations) \in 0..100
                  /\ SideEffect(GoViolations) <= EffectScore(GoViolations)
              BY <2>3, SideEffectScore
            <6> QED
              BY <2>4, <6>1, <6>2
          <5>3. CASE v.kind = "architecture_unknown_package"
            BY <2>3, <2>4, <5>3, CoverageScore DEF Pays
          <5> QED
            BY <3>1, <3>5, <5>1, <5>2, <5>3, KindsArePaidFor
        <4>2. SoftImpact(s) \in Nat /\ SoftImpact(s) > 0
          BY <2>1, <4>1, SoftImpactIs
        <4> QED
          BY <2>1, <2>2, <2>6, <4>2 DEF GoOverall, LessOf
      <3> QED
        BY <3>4, <3>5
    <2> QED
      BY <2>5, <2>6
  <1> QED
    BY <1>1, AssessInvHolds, PTL

-----------------------------------------------------------------------------
(* When the workspace gains imports, calls or issues, under the same rules *)
(* and gates and at the same size.                                         *)
Worsens ==
  /\ rules' = rules /\ gates' = gates /\ size' = size
  /\ uses \subseteq uses'
  /\ \A k \in Issue : issues[k] <= issues'[k]

(* The lemmas about a state, in the next one.                              *)
LEMMA NextUsesAreFinite == AssessInv' => IsFiniteSet(uses)'
  BY UsesAreFinite, PTL

LEMMA NextViolationsAreFinite ==
  AssessInv' => (IsFiniteSet(GoViolations) /\ IsFiniteSet(DemotedFindings)
                 /\ IsFiniteSet(CoupledPackages) /\ \A p : FanOut(p) \in Nat)'
  BY ViolationsAreFinite, PTL

LEMMA PolicyStays ==
  ASSUME rules' = rules
  PROVE  /\ \A p : Layer(p)' = Layer(p)
         /\ \A u : Forbidden(u)' <=> Forbidden(u)
         /\ UnknownPackages' = UnknownPackages
         /\ \A u, i : EffectDenied(u, i)' <=> EffectDenied(u, i)
  <1>1. \A p : Layer(p)' = Layer(p)
    BY DEF Layer
  <1>2. \A kind, package, to, symbol, from, into :
          Excepted(kind, package, to, symbol, from, into)' <=>
            Excepted(kind, package, to, symbol, from, into)
    BY DEF Excepted
  <1>3. \A u : Forbidden(u)' <=> Forbidden(u)
    BY <1>1, <1>2 DEF Forbidden
  <1>4. UnknownPackages' = UnknownPackages
    BY <1>1, <1>2 DEF UnknownPackages
  <1>5. \A u, r : InScope(u, r)' <=> InScope(u, r)
    BY <1>1 DEF InScope
  <1>6. \A u, i : EffectDenied(u, i)' <=> EffectDenied(u, i)
    BY <1>1, <1>2, <1>5 DEF EffectDenied
  <1> QED
    BY <1>1, <1>3, <1>4, <1>6

LEMMA ViolationsGrow ==
  ASSUME Worsens
  PROVE  GoViolations \subseteq GoViolations' /\ DemotedFindings \subseteq DemotedFindings'
  <1>1. rules' = rules /\ uses \subseteq uses' /\ gates' = gates
    BY DEF Worsens
  <1>2. Imports \subseteq Imports'
    BY <1>1 DEF Imports
  <1>3. ImportViolations \subseteq ImportViolations'
    BY <1>1, <1>2 DEF ImportViolations
  <1>4. DependencyViolations \subseteq DependencyViolations'
    <2> DEFINE V(u) == Violation(BoundaryKind(u), BoundarySeverity(u), PackageOf(u), u, 0)
    <2>1. /\ DependencyViolations = {V(u) : u \in {v \in Imports : Forbidden(v)}}
          /\ DependencyViolations' = {V(u) : u \in {v \in Imports' : Forbidden(v)'}}
      BY DEF DependencyViolations
    <2> HIDE DEF V
    <2>2. \A u : Forbidden(u)' <=> Forbidden(u)
      BY <1>1, PolicyStays
    <2> QED
      BY <1>2, <2>1, <2>2
  <1>5. EffectViolations \subseteq EffectViolations'
    <2> DEFINE D == DOMAIN rules.effects
               On(x) == EffectDenied(x[1], x[2])
               V(x) == Violation(EffectKindOf(x[1], rules.effects[x[2]]),
                                 EffectSeverity(rules.effects[x[2]]), PackageOf(x[1]), x[1], x[2])
    <2>1. /\ EffectViolations = {V(x) : x \in {y \in uses \X D : On(y)}}
          /\ EffectViolations' = {V(x) : x \in {y \in uses' \X D : On(y)'}}
      BY <1>1 DEF EffectViolations
    <2>2. \A x : On(x)' <=> On(x)
      BY <1>1, PolicyStays
    <2>3. uses \X D \subseteq uses' \X D
      BY <1>1
    <2> HIDE DEF D, On, V
    <2> QED
      BY <2>1, <2>2, <2>3
  <1>6. PolicyViolations \subseteq PolicyViolations'
    BY <1>1, <1>4, <1>5, PolicyStays DEF PolicyViolations
  <1>7. ArchitectureViolations \subseteq ArchitectureViolations'
    BY <1>1, <1>3, <1>6 DEF ArchitectureViolations
  <1>8. DemotedFindings \subseteq DemotedFindings'
    BY <1>1, <1>6 DEF DemotedFindings
  <1>9. GoViolations \subseteq GoViolations'
    BY <1>1, <1>7 DEF GoViolations, GateOn
  <1> QED
    BY <1>8, <1>9

LEMMA CouplingGrows ==
  ASSUME Worsens, AssessInv, AssessInv', rules # NoRules
  PROVE  CoupledPackages \subseteq CoupledPackages'
  <1>1. rules' = rules /\ uses \subseteq uses'
    BY DEF Worsens
  <1>2. \A p : Layer(p)' = Layer(p)
    BY <1>1, PolicyStays
  <1>3. Imports \subseteq Imports'
    BY <1>1 DEF Imports
  <1>4. \A p : FanOut(p) \in Nat /\ FanOut(p)' \in Nat /\ FanOut(p) <= FanOut(p)'
    <2> TAKE p
    <2> DEFINE S == {u \in Imports : PackageOf(u) = p /\ Layer(u.to) # NoLayer}
               T == {u \in Imports' : PackageOf(u) = p /\ Layer(u.to) # NoLayer}
    <2>1. FanOut(p) = Cardinality(S) /\ FanOut(p)' = Cardinality(T)
      BY <1>2 DEF FanOut
    <2>2. S \in SUBSET T /\ T \in SUBSET uses'
      BY <1>3 DEF Imports
    <2> HIDE DEF S, T
    <2>3. IsFiniteSet(T)
      BY <2>2, NextUsesAreFinite, FS_Subset
    <2>4. IsFiniteSet(S) /\ Cardinality(S) <= Cardinality(T)
      BY <2>2, <2>3, FS_Subset
    <2> QED
      BY <2>1, <2>3, <2>4, FS_CardinalityType
  <1>5. rules.threshold \in Nat
    BY DEF AssessInv, RulesAreACallers, Policy
  <1> SUFFICES ASSUME NEW p \in CoupledPackages
               PROVE  p \in CoupledPackages'
    OBVIOUS
  <1>6. /\ p \in Package /\ rules.threshold > 0 /\ FanOut(p) > rules.threshold
        /\ rules.couplingLayers = {} \/ Layer(p) \in rules.couplingLayers
        /\ ~ \E q \in rules.reviewed : Matches(q, p)
    BY DEF CoupledPackages
  <1>7. FanOut(p)' > rules.threshold
    BY <1>4, <1>5, <1>6
  <1> QED
    BY <1>1, <1>2, <1>6, <1>7 DEF CoupledPackages

LEMMA NumbersGrow ==
  ASSUME Worsens, AssessInv, AssessInv'
  PROVE  /\ \A k \in Issue : \A gate :
              /\ Reported(k, gate) \in Nat /\ Reported(k, gate)' \in Nat
              /\ Reported(k, gate) <= Reported(k, gate)'
         /\ \A k \in Issue : issues[k] \in Nat /\ issues'[k] \in Nat /\ issues[k] <= issues'[k]
         /\ size' = size
         /\ size.loc \in Nat /\ size.functions \in Nat /\ size.documents \in Nat
         /\ size.headings \in Nat /\ size.lines \in Nat
  <1>1. \A k \in Issue : issues[k] \in Nat /\ issues'[k] \in Nat /\ issues[k] <= issues'[k]
    BY SetupAssumption DEF AssessInv, Worsens
  <1>2. \A k \in Issue : \A gate :
          /\ Reported(k, gate) \in Nat /\ Reported(k, gate)' \in Nat
          /\ Reported(k, gate) <= Reported(k, gate)'
    BY <1>1 DEF Reported, GateOn, Worsens
  <1>3. size' = size
    BY DEF Worsens
  <1> QED
    BY <1>1, <1>2, <1>3, Numbers

LEMMA CountsGrow ==
  ASSUME Worsens, AssessInv, AssessInv', NEW kinds
  PROVE  LET n == CountViolations(GoViolations, kinds)
             m == CountViolations(GoViolations', kinds)
         IN  n \in Nat /\ m \in Nat /\ n <= m
  <1>1. IsFiniteSet(GoViolations) /\ IsFiniteSet(GoViolations')
    BY ViolationsAreFinite, NextViolationsAreFinite
  <1>2. GoViolations \in SUBSET GoViolations'
    BY ViolationsGrow
  <1> QED
    BY <1>1, <1>2, CountBounds, CountGrows

LEMMA BoundariesFall ==
  ASSUME Worsens, AssessInv, AssessInv'
  PROVE  /\ Boundary(GoViolations)' <= Boundary(GoViolations)
         /\ TestBoundary(GoViolations)' <= TestBoundary(GoViolations)
  <1> DEFINE n(kinds) == CountViolations(GoViolations, kinds)
             m(kinds) == CountViolations(GoViolations', kinds)
  <1>1. \A kinds : n(kinds) \in Nat /\ m(kinds) \in Nat /\ n(kinds) <= m(kinds)
    BY CountsGrow
  <1>2. rules' = rules
    BY DEF Worsens
  <1>3. Boundary(GoViolations)' <= Boundary(GoViolations)
    <2>1. /\ Boundary(GoViolations) =
               IF rules = NoRules THEN 100 ELSE 100 - LessOf(100, 25 * n(BoundaryKinds))
          /\ Boundary(GoViolations)' =
               IF rules = NoRules THEN 100 ELSE 100 - LessOf(100, 25 * m(BoundaryKinds))
      BY <1>2 DEF Boundary
    <2> HIDE DEF n, m
    <2> QED
      BY <1>1, <2>1 DEF LessOf
  <1>4. TestBoundary(GoViolations)' <= TestBoundary(GoViolations)
    <2>1. /\ TestBoundary(GoViolations) =
               IF rules = NoRules THEN 100 ELSE 100 - LessOf(100, 10 * n(TestBoundaryKinds))
          /\ TestBoundary(GoViolations)' =
               IF rules = NoRules THEN 100 ELSE 100 - LessOf(100, 10 * m(TestBoundaryKinds))
      BY <1>2 DEF TestBoundary
    <2> HIDE DEF n, m
    <2> QED
      BY <1>1, <2>1 DEF LessOf
  <1> QED
    BY <1>3, <1>4

LEMMA CoverageFalls ==
  ASSUME Worsens, AssessInv, AssessInv'
  PROVE  Coverage(GoViolations)' <= Coverage(GoViolations)
  <1> DEFINE n == CountViolations(GoViolations, {"architecture_unknown_package"})
             m == CountViolations(GoViolations', {"architecture_unknown_package"})
             p == Penalty(100, n, size.loc, 250, 1)
             q == Penalty(100, m, size.loc, 250, 1)
             r == Reported("coverage", "coverage")
  <1>1. n \in Nat /\ m \in Nat /\ n <= m
    BY CountsGrow
  <1>2. size' = size /\ size.loc \in Nat /\ r \in Nat /\ r' \in Nat /\ r <= r'
    BY NumbersGrow DEF Issue, GoIssue
  <1>3. /\ Coverage(GoViolations) = LessOf(100 - LessOf(50, 25 * r), 100 - p)
        /\ Coverage(GoViolations)' = LessOf(100 - LessOf(50, 25 * r'), 100 - q)
    BY <1>2 DEF Coverage
  <1> HIDE DEF n, m, r
  <1>4. Rises(p, q, 100)
    <2>1. Charged(100, n, m, size.loc, 250, 1)
      BY <1>1, <1>2 DEF Charged
    <2> QED
      BY <2>1, PenaltyRises
  <1> HIDE DEF p, q
  <1>5. LessOf(100 - LessOf(50, 25 * r'), 100 - q) <= LessOf(100 - LessOf(50, 25 * r), 100 - p)
    <2> DEFINE a == r
               b == r'
    <2>1. a \in Nat /\ b \in Nat /\ a <= b
      BY <1>2
    <2> HIDE DEF a, b
    <2>2. LessOf(100 - LessOf(50, 25 * b), 100 - q) <= LessOf(100 - LessOf(50, 25 * a), 100 - p)
      BY <2>1, <1>4 DEF Rises, LessOf
    <2> QED
      BY <2>2 DEF a, b
  <1> QED
    BY <1>3, <1>5

LEMMA SideEffectFalls ==
  ASSUME Worsens, AssessInv, AssessInv'
  PROVE  SideEffect(GoViolations)' <= SideEffect(GoViolations)
  <1>1. /\ rules' = rules /\ gates' = gates /\ size' = size /\ size.loc \in Nat
        /\ issues["diagnostic"] \in Nat /\ issues'["diagnostic"] \in Nat
        /\ issues["diagnostic"] <= issues'["diagnostic"]
    BY NumbersGrow DEF Worsens, Issue, GoIssue
  <1>2. /\ EffectScore(GoViolations) \in 0..100 /\ EffectScore(GoViolations)' \in 0..100
        /\ EffectScore(GoViolations)' <= EffectScore(GoViolations)
    <2> DEFINE n == CountViolations(GoViolations, EffectKinds)
               m == CountViolations(GoViolations', EffectKinds)
               p == Penalty(60, n, size.loc, 300, 1)
               q == Penalty(60, m, size.loc, 300, 1)
    <2>1. n \in Nat /\ m \in Nat /\ n <= m
      BY CountsGrow
    <2>2. EffectKinds' = EffectKinds
      BY <1>1 DEF EffectKinds
    <2>3. /\ EffectScore(GoViolations) = IF rules = NoRules THEN 100 ELSE 100 - p
          /\ EffectScore(GoViolations)' = IF rules = NoRules THEN 100 ELSE 100 - q
      BY <1>1, <2>2 DEF EffectScore
    <2> HIDE DEF n, m
    <2>4. Rises(p, q, 60)
      <3>1. Charged(60, n, m, size.loc, 300, 1)
        BY <1>1, <2>1 DEF Charged
      <3> QED
        BY <3>1, PenaltyRises
    <2> HIDE DEF p, q
    <2> QED
      BY <2>3, <2>4 DEF Rises
  <1>3. SafetyScore \in 0..100 /\ SafetyScore' \in 0..100 /\ SafetyScore' <= SafetyScore
    <2> DEFINE n == WarningWeight * Reported("safety", "safety")
               m == WarningWeight * Reported("safety", "safety")'
               p == Penalty(40, n, size.loc, 5, WarningWeight)
               q == Penalty(40, m, size.loc, 5, WarningWeight)
    <2>1. n \in Nat /\ m \in Nat /\ n <= m /\ WarningWeight \in Nat /\ WarningWeight > 0
      BY NumbersGrow DEF Issue, GoIssue, WarningWeight
    <2>2. SafetyScore = 100 - p /\ SafetyScore' = 100 - q
      BY <1>1 DEF SafetyScore
    <2> HIDE DEF n, m
    <2>3. Rises(p, q, 40)
      <3>1. Charged(40, n, m, size.loc, 5, WarningWeight)
        BY <1>1, <2>1 DEF Charged
      <3> QED
        BY <3>1, PenaltyRises
    <2> HIDE DEF p, q
    <2> QED
      BY <2>2, <2>3 DEF Rises
  <1>4. ~Passed => ~Passed'
    BY <1>1 DEF Passed
  <1>5. GateOn("safety")' <=> GateOn("safety")
    BY <1>1 DEF GateOn
  <1> QED
    BY <1>2, <1>3, <1>4, <1>5 DEF SideEffect, LessOf

LEMMA CouplingFalls ==
  ASSUME Worsens, AssessInv, AssessInv'
  PROVE  Coupling' <= Coupling
  <1>1. rules' = rules /\ gates' = gates /\ size' = size /\ size.loc \in Nat
    BY NumbersGrow DEF Worsens
  <1>2. CASE rules # NoRules /\ rules.threshold > 0
    <2> DEFINE S == {v \in DemotedFindings : v.kind = "architecture_fan_out"}
               T == {v \in DemotedFindings' : v.kind = "architecture_fan_out"}
               n == FanOutFindings
               m == FanOutFindings'
               p == Penalty(40, n, size.loc, 2, 1)
               q == Penalty(40, m, size.loc, 2, 1)
    <2>1. n \in Nat /\ m \in Nat /\ n <= m
      <3>1. GateOn("architecture")' <=> GateOn("architecture")
        BY <1>1 DEF GateOn
      <3>2. /\ n = IF ~GateOn("architecture") THEN 0
                   ELSE Cardinality(CoupledPackages) + Cardinality(S)
            /\ m = IF ~GateOn("architecture") THEN 0
                   ELSE Cardinality(CoupledPackages') + Cardinality(T)
        BY <3>1 DEF FanOutFindings
      <3>3. S \in SUBSET T /\ T \in SUBSET DemotedFindings'
        BY ViolationsGrow
      <3> HIDE DEF S, T, n, m
      <3>4. IsFiniteSet(DemotedFindings') /\ IsFiniteSet(CoupledPackages')
        BY NextViolationsAreFinite
      <3>5. IsFiniteSet(T)
        BY <3>3, <3>4, FS_Subset
      <3>6. IsFiniteSet(S) /\ Cardinality(S) <= Cardinality(T)
        BY <3>3, <3>5, FS_Subset
      <3>7. CoupledPackages \in SUBSET CoupledPackages'
        BY <1>2, CouplingGrows
      <3>8. IsFiniteSet(CoupledPackages) /\ Cardinality(CoupledPackages) <= Cardinality(CoupledPackages')
        BY <3>4, <3>7, FS_Subset
      <3>9. /\ Cardinality(S) \in Nat /\ Cardinality(T) \in Nat
            /\ Cardinality(CoupledPackages) \in Nat /\ Cardinality(CoupledPackages') \in Nat
        BY <3>4, <3>5, <3>6, <3>8, FS_CardinalityType
      <3> QED
        BY <3>2, <3>6, <3>8, <3>9
    <2>2. Coupling = 100 - p /\ Coupling' = 100 - q
      BY <1>1, <1>2 DEF Coupling
    <2> HIDE DEF n, m
    <2>3. Rises(p, q, 40)
      <3>1. Charged(40, n, m, size.loc, 2, 1)
        BY <1>1, <2>1 DEF Charged
      <3> QED
        BY <3>1, PenaltyRises
    <2> HIDE DEF p, q
    <2> QED
      BY <2>2, <2>3 DEF Rises
  <1>3. CASE ~(rules # NoRules /\ rules.threshold > 0)
    <2> DEFINE n == Reported("highFanOut", "architecture")
               m == Reported("highFanOut", "architecture")'
               p == Penalty(35, n, size.loc, 2, 1)
               q == Penalty(35, m, size.loc, 2, 1)
    <2>1. n \in Nat /\ m \in Nat /\ n <= m
      BY NumbersGrow DEF Issue, GoIssue
    <2>2. Coupling = 100 - p /\ Coupling' = 100 - q
      BY <1>1, <1>3 DEF Coupling
    <2> HIDE DEF n, m
    <2>3. Rises(p, q, 35)
      <3>1. Charged(35, n, m, size.loc, 2, 1)
        BY <1>1, <2>1 DEF Charged
      <3> QED
        BY <3>1, PenaltyRises
    <2> HIDE DEF p, q
    <2> QED
      BY <2>2, <2>3 DEF Rises
  <1> QED
    BY <1>2, <1>3

LEMMA MaintainabilityFalls ==
  ASSUME Worsens, AssessInv, AssessInv'
  PROVE  Maintainability' <= Maintainability
  <1> DEFINE units == WarningWeight * Reported("quality", "maintainability")
                      + InfoWeight * Reported("performance", "maintainability")
             more == WarningWeight * Reported("quality", "maintainability")'
                     + InfoWeight * Reported("performance", "maintainability")'
             n == 100 * issues["pressure"]
             m == 100 * issues'["pressure"]
             a == Penalty(25, issues["suggestion"], size.functions, 20, 1)
             b == Penalty(20, n, size.loc, 1000, 1)
             c == Penalty(20, Reported("debt", "maintainability"), size.loc, 2, 1)
             d == Penalty(25, units, size.loc, 50, WarningWeight)
             aa == Penalty(25, issues'["suggestion"], size.functions, 20, 1)
             bb == Penalty(20, m, size.loc, 1000, 1)
             cc == Penalty(20, Reported("debt", "maintainability")', size.loc, 2, 1)
             dd == Penalty(25, more, size.loc, 50, WarningWeight)
  <1>1. /\ issues["suggestion"] \in Nat /\ issues'["suggestion"] \in Nat
        /\ issues["suggestion"] <= issues'["suggestion"]
        /\ issues["pressure"] \in Nat /\ issues'["pressure"] \in Nat
        /\ issues["pressure"] <= issues'["pressure"]
        /\ size' = size /\ size.loc \in Nat /\ size.functions \in Nat
    BY NumbersGrow DEF Issue, GoIssue
  <1>2. \A k \in {"debt", "quality", "performance"} : \A gate :
          /\ Reported(k, gate) \in Nat /\ Reported(k, gate)' \in Nat
          /\ Reported(k, gate) <= Reported(k, gate)'
    BY NumbersGrow DEF Issue, GoIssue
  <1>3. /\ units \in Nat /\ more \in Nat /\ units <= more
        /\ WarningWeight \in Nat /\ WarningWeight > 0
    BY <1>2 DEF WarningWeight, InfoWeight
  <1>4. n \in Nat /\ m \in Nat /\ n <= m
    BY <1>1
  <1>5. /\ Maintainability =
             MoreOf(50, ((100 - a) + (100 - b) + (100 - c) + 2 * (100 - d) + 2) \div 5)
        /\ Maintainability' =
             MoreOf(50, ((100 - aa) + (100 - bb) + (100 - cc) + 2 * (100 - dd) + 2) \div 5)
    BY <1>1 DEF Maintainability
  <1> HIDE DEF units, more, n, m
  <1>6. Rises(a, aa, 25)
    <2>1. Charged(25, issues["suggestion"], issues'["suggestion"], size.functions, 20, 1)
      BY <1>1 DEF Charged
    <2> QED
      BY <2>1, PenaltyRises
  <1>7. Rises(b, bb, 20)
    <2>1. Charged(20, n, m, size.loc, 1000, 1)
      BY <1>1, <1>4 DEF Charged
    <2> QED
      BY <2>1, PenaltyRises
  <1>8. Rises(c, cc, 20)
    <2>1. Charged(20, Reported("debt", "maintainability"),
                 Reported("debt", "maintainability")', size.loc, 2, 1)
      BY <1>1, <1>2 DEF Charged
    <2> QED
      BY <2>1, PenaltyRises
  <1>9. Rises(d, dd, 25)
    <2>1. Charged(25, units, more, size.loc, 50, WarningWeight)
      BY <1>1, <1>3 DEF Charged
    <2> QED
      BY <2>1, PenaltyRises
  <1> HIDE DEF a, b, c, d, aa, bb, cc, dd
  <1> DEFINE e == (100 - a) + (100 - b) + (100 - c) + 2 * (100 - d) + 2
             ee == (100 - aa) + (100 - bb) + (100 - cc) + 2 * (100 - dd) + 2
  <1>10. e \in Int /\ ee \in Int /\ ee <= e
    BY <1>6, <1>7, <1>8, <1>9 DEF Rises
  <1>11. Maintainability = MoreOf(50, e \div 5) /\ Maintainability' = MoreOf(50, ee \div 5)
    BY <1>5
  <1> HIDE DEF e, ee
  <1>12. e \div 5 \in Int /\ ee \div 5 \in Int /\ ee \div 5 <= e \div 5
    BY <1>10
  <1> QED
    BY <1>11, <1>12 DEF MoreOf

LEMMA MarkdownFalls ==
  ASSUME Worsens, AssessInv, AssessInv'
  PROVE  /\ MarkdownCoverage' = MarkdownCoverage
         /\ MarkdownMaintainability' <= MarkdownMaintainability
         /\ MarkdownOverall' <= MarkdownOverall
  <1> DEFINE units == WarningWeight * Reported("structure", "maintainability")
                      + InfoWeight * Reported("section", "maintainability")
             more == WarningWeight * Reported("structure", "maintainability")'
                     + InfoWeight * Reported("section", "maintainability")'
             places == size.documents + size.headings
             n == ErrorWeight * Reported("unreadable", "safety")
             m == ErrorWeight * Reported("unreadable", "safety")'
             a == Penalty(50, units, places, 4, WarningWeight)
             b == Penalty(20, Reported("markdownDebt", "maintainability"), size.lines, 2, 1)
             c == Penalty(30, n, size.lines, 2, ErrorWeight)
             aa == Penalty(50, more, places, 4, WarningWeight)
             bb == Penalty(20, Reported("markdownDebt", "maintainability")', size.lines, 2, 1)
             cc == Penalty(30, m, size.lines, 2, ErrorWeight)
  <1>1. /\ size' = size /\ size.documents \in Nat /\ size.headings \in Nat /\ size.lines \in Nat
        /\ gates' = gates
    BY NumbersGrow DEF Worsens
  <1>2. \A k \in MarkdownIssue : \A gate :
          /\ Reported(k, gate) \in Nat /\ Reported(k, gate)' \in Nat
          /\ Reported(k, gate) <= Reported(k, gate)'
    BY NumbersGrow DEF Issue
  <1>3. /\ units \in Nat /\ more \in Nat /\ units <= more /\ places \in Nat
        /\ n \in Nat /\ m \in Nat /\ n <= m
        /\ WarningWeight \in Nat /\ WarningWeight > 0 /\ ErrorWeight \in Nat /\ ErrorWeight > 0
    BY <1>1, <1>2 DEF WarningWeight, InfoWeight, ErrorWeight, MarkdownIssue
  <1>4. /\ MarkdownMaintainability = MoreOf(50, (2 * (100 - a) + (100 - b) + 1) \div 3)
        /\ MarkdownMaintainability' = MoreOf(50, (2 * (100 - aa) + (100 - bb) + 1) \div 3)
    BY <1>1 DEF MarkdownMaintainability
  <1>5. /\ MarkdownOverall = MoreOf(0, LessOf(MarkdownMaintainability, MarkdownCoverage) - c)
        /\ MarkdownOverall' = MoreOf(0, LessOf(MarkdownMaintainability', MarkdownCoverage') - cc)
    BY <1>1 DEF MarkdownOverall
  <1>6. MarkdownCoverage' = MarkdownCoverage /\ MarkdownCoverage \in 0..100
    BY <1>1 DEF MarkdownCoverage, GateOn
  <1> HIDE DEF units, more, places, n, m
  <1>7. Rises(a, aa, 50)
    <2>1. Charged(50, units, more, places, 4, WarningWeight)
      BY <1>3 DEF Charged
    <2> QED
      BY <2>1, PenaltyRises
  <1>8. Rises(b, bb, 20)
    <2>1. Charged(20, Reported("markdownDebt", "maintainability"),
                 Reported("markdownDebt", "maintainability")', size.lines, 2, 1)
      BY <1>1, <1>2 DEF Charged, MarkdownIssue
    <2> QED
      BY <2>1, PenaltyRises
  <1>9. Rises(c, cc, 30)
    <2>1. Charged(30, n, m, size.lines, 2, ErrorWeight)
      BY <1>1, <1>3 DEF Charged
    <2> QED
      BY <2>1, PenaltyRises
  <1> HIDE DEF a, b, c, aa, bb, cc
  <1> DEFINE e == 2 * (100 - a) + (100 - b) + 1
             ee == 2 * (100 - aa) + (100 - bb) + 1
  <1>10. e \in Int /\ ee \in Int /\ ee <= e
    BY <1>7, <1>8 DEF Rises
  <1>11. MarkdownMaintainability = MoreOf(50, e \div 3) /\ MarkdownMaintainability' = MoreOf(50, ee \div 3)
    BY <1>4
  <1> HIDE DEF e, ee
  <1>12. e \div 3 \in Int /\ ee \div 3 \in Int /\ ee \div 3 <= e \div 3
    BY <1>10
  <1>13. /\ MarkdownMaintainability' <= MarkdownMaintainability
         /\ MarkdownMaintainability' \in Int /\ MarkdownMaintainability \in Int
    BY <1>11, <1>12 DEF MoreOf
  <1>14. MarkdownOverall' <= MarkdownOverall
    <2>1. \A x, y, k, p, q \in Int :
            y <= x /\ p <= q => MoreOf(0, LessOf(y, k) - q) <= MoreOf(0, LessOf(x, k) - p)
      BY DEF MoreOf, LessOf
    <2>2. c \in Int /\ cc \in Int /\ c <= cc /\ MarkdownCoverage \in Int
      BY <1>6, <1>9 DEF Rises
    <2> QED
      BY <1>5, <1>6, <1>13, <2>1, <2>2
  <1> QED
    BY <1>6, <1>13, <1>14

LEMMA HardViolationsGrow ==
  ASSUME Worsens, AssessInv, AssessInv'
  PROVE  Rises(ViolationPenalty(GoViolations), ViolationPenalty(GoViolations)', 30)
  <1> DEFINE n == ErrorWeight * ViolationCount(GoViolations)
             m == ErrorWeight * ViolationCount(GoViolations)'
  <1>1. /\ ViolationCount(GoViolations) \in Nat /\ ViolationCount(GoViolations)' \in Nat
        /\ ViolationCount(GoViolations) <= ViolationCount(GoViolations)'
    <2>1. IsFiniteSet(GoViolations) /\ IsFiniteSet(GoViolations')
      BY ViolationsAreFinite, NextViolationsAreFinite
    <2>2. GoViolations \in SUBSET GoViolations'
      BY ViolationsGrow
    <2>3. /\ Cardinality(GoViolations) \in Nat /\ Cardinality(GoViolations') \in Nat
          /\ Cardinality(GoViolations) <= Cardinality(GoViolations')
      BY <2>1, <2>2, FS_CardinalityType, FS_Subset
    <2>4. /\ Reported("diagnostic", "safety") \in Nat /\ Reported("diagnostic", "safety")' \in Nat
          /\ Reported("diagnostic", "safety") <= Reported("diagnostic", "safety")'
      BY NumbersGrow DEF Issue, GoIssue
    <2> QED
      BY <2>3, <2>4 DEF ViolationCount
  <1>2. n \in Nat /\ m \in Nat /\ n <= m /\ ErrorWeight \in Nat /\ ErrorWeight > 0
    BY <1>1 DEF ErrorWeight
  <1>3. size' = size /\ size.loc \in Nat
    BY NumbersGrow
  <1>4. /\ ViolationPenalty(GoViolations) = Penalty(30, n, size.loc, 2, ErrorWeight)
        /\ ViolationPenalty(GoViolations)' = Penalty(30, m, size.loc, 2, ErrorWeight)
    BY <1>3 DEF ViolationPenalty
  <1> HIDE DEF n, m
  <1> QED
    <2>1. Charged(30, n, m, size.loc, 2, ErrorWeight)
      BY <1>2, <1>3 DEF Charged
    <2> QED
      BY <2>1, <1>4, PenaltyRises

LEMMA SoftImpactGrows ==
  ASSUME NEW s, s.coupling \in 0..100, s.sideEffect \in 0..100, s.coverage \in 0..100,
         s.testBoundary \in 0..100,
         NEW t, t.coupling \in 0..100, t.sideEffect \in 0..100, t.coverage \in 0..100,
         t.testBoundary \in 0..100,
         t.coupling <= s.coupling, t.sideEffect <= s.sideEffect, t.coverage <= s.coverage,
         t.testBoundary <= s.testBoundary
  PROVE  SoftImpact(s) <= SoftImpact(t)
  <1> DEFINE c(x, d) == CeilDiv(100 - x, d)
  <1>1. \A x, y \in 0..100, d \in {10, 20} :
          x <= y => c(x, d) \in Nat /\ c(y, d) \in Nat /\ c(y, d) <= c(x, d)
    <2> SUFFICES ASSUME NEW x \in 0..100, NEW y \in 0..100, NEW d \in {10, 20}, x <= y
                 PROVE  c(x, d) \in Nat /\ c(y, d) \in Nat /\ c(y, d) <= c(x, d)
      OBVIOUS
    <2>1. ShareFalls(x, y, d)
      BY Share
    <2> QED
      BY <2>1 DEF ShareFalls
  <1>2. /\ SoftImpact(s) = c(s.coupling, 10) + c(s.sideEffect, 20) + c(s.coverage, 20)
                           + c(s.testBoundary, 20)
        /\ SoftImpact(t) = c(t.coupling, 10) + c(t.sideEffect, 20) + c(t.coverage, 20)
                           + c(t.testBoundary, 20)
    BY DEF SoftImpact
  <1> HIDE DEF c
  <1> DEFINE Falls(x, y, d) == c(x, d) \in Nat /\ c(y, d) \in Nat /\ c(y, d) <= c(x, d)
  <1>3. Falls(t.coupling, s.coupling, 10)
    BY <1>1
  <1>4. Falls(t.sideEffect, s.sideEffect, 20)
    BY <1>1
  <1>5. Falls(t.coverage, s.coverage, 20)
    BY <1>1
  <1>6. Falls(t.testBoundary, s.testBoundary, 20)
    BY <1>1
  <1> QED
    BY <1>2, <1>3, <1>4, <1>5, <1>6

LEMMA NextComponentScores ==
  AssessInv' => (/\ Boundary(GoViolations) \in 0..100 /\ TestBoundary(GoViolations) \in 0..100
                 /\ Coupling \in 0..100 /\ SideEffect(GoViolations) \in 0..100
                 /\ Coverage(GoViolations) \in 0..100 /\ Maintainability \in 0..100)'
  BY ComponentScores, PTL

LEMMA NextGoReportIs ==
  (/\ GoReports = {Report}
   /\ Report = [overall |-> GoOverall(GoViolations, GoComponents(GoViolations)),
                boundary |-> Boundary(GoViolations), testBoundary |-> TestBoundary(GoViolations),
                coupling |-> Coupling, sideEffect |-> SideEffect(GoViolations),
                coverage |-> Coverage(GoViolations), maintainability |-> Maintainability])'
  BY GoReportIs, PTL

Below(a, b) == a \in Int /\ b \in Int /\ a <= b

LEMMA ScoresAreBelow == \A a, b \in 0..100 : a <= b => Below(a, b)
  BY DEF Below

LEMMA LesserIsBelow ==
  \A a, b, c, d : Below(a, c) /\ Below(b, d) => Below(LessOf(a, b), LessOf(c, d))
  BY DEF Below, LessOf

LEMMA OverallFalls ==
  ASSUME Worsens, AssessInv, AssessInv'
  PROVE  Report.overall' <= Report.overall
  <1> DEFINE s == GoComponents(GoViolations)
             t == GoComponents(GoViolations)'
  <1>1. /\ s.boundary \in 0..100 /\ s.testBoundary \in 0..100 /\ s.coupling \in 0..100
        /\ s.sideEffect \in 0..100 /\ s.coverage \in 0..100 /\ s.maintainability \in 0..100
    BY ComponentScores DEF GoComponents
  <1>2. /\ t.boundary \in 0..100 /\ t.testBoundary \in 0..100 /\ t.coupling \in 0..100
        /\ t.sideEffect \in 0..100 /\ t.coverage \in 0..100 /\ t.maintainability \in 0..100
    BY NextComponentScores DEF GoComponents
  <1>3. /\ t.boundary <= s.boundary /\ t.testBoundary <= s.testBoundary
        /\ t.coupling <= s.coupling /\ t.sideEffect <= s.sideEffect
        /\ t.coverage <= s.coverage /\ t.maintainability <= s.maintainability
    BY BoundariesFall, CoverageFalls, SideEffectFalls, CouplingFalls, MaintainabilityFalls
       DEF GoComponents
  <1>4. Report.overall = GoOverall(GoViolations, s) /\ Report.overall' = GoOverall(GoViolations, s)'
    BY GoReportIs, NextGoReportIs
  <1>5. OnlyArchitecture' <=> OnlyArchitecture
    BY DEF OnlyArchitecture, Worsens
  <1>6. s.boundary = 100 \/ s.boundary <= 90
    <2>1. CountViolations(GoViolations, BoundaryKinds) \in Nat
      BY ViolationsAreFinite, CountBounds
    <2> QED
      BY <2>1 DEF GoComponents, Boundary, LessOf
  <1>7. t.boundary = 100 \/ t.boundary <= 90
    <2>1. CountViolations(GoViolations', BoundaryKinds) \in Nat
      BY NextViolationsAreFinite, CountBounds
    <2> QED
      BY <2>1 DEF GoComponents, Boundary, LessOf
  <1>8. s' = t
    OBVIOUS
  <1> HIDE DEF s, t
  <1>9. CASE OnlyArchitecture
    <2>1. /\ Report.overall =
               IF s.boundary = 100 THEN 100 - LessOf(10, SoftImpact(s)) ELSE s.boundary
          /\ Report.overall' =
               IF t.boundary = 100 THEN 100 - LessOf(10, SoftImpact(t)) ELSE t.boundary
      BY <1>4, <1>5, <1>8, <1>9 DEF GoOverall
    <2>2. SoftImpact(s) \in Nat /\ SoftImpact(t) \in Nat
      BY <1>1, <1>2, SoftImpactIs
    <2>3. SoftImpact(s) <= SoftImpact(t)
      BY <1>1, <1>2, <1>3, SoftImpactGrows
    <2> QED
      BY <1>1, <1>2, <1>3, <1>7, <2>1, <2>2, <2>3 DEF LessOf
  <1>10. CASE ~OnlyArchitecture
    <2> DEFINE p == ViolationPenalty(GoViolations)
               q == ViolationPenalty(GoViolations)'
    <2>1. /\ Report.overall = MoreOf(0, Weakest(s) - p)
          /\ Report.overall' = MoreOf(0, Weakest(t) - q)
      BY <1>4, <1>5, <1>8, <1>10 DEF GoOverall
    <2>2. Rises(p, q, 30)
      BY HardViolationsGrow
    <2>3. Weakest(s) \in Int /\ Weakest(t) \in Int /\ Weakest(t) <= Weakest(s)
      <3> DEFINE one(x) == LessOf(x.boundary, x.maintainability)
                 two(x) == LessOf(x.coverage, x.coupling)
      <3>1. /\ Below(t.boundary, s.boundary) /\ Below(t.maintainability, s.maintainability)
            /\ Below(t.coverage, s.coverage) /\ Below(t.coupling, s.coupling)
            /\ Below(t.testBoundary, s.testBoundary)
        BY <1>1, <1>2, <1>3, ScoresAreBelow
      <3>2. Below(one(t), one(s)) /\ Below(two(t), two(s))
        BY <3>1, LesserIsBelow
      <3>3. /\ Weakest(s) = LessOf(LessOf(one(s), two(s)), s.testBoundary)
            /\ Weakest(t) = LessOf(LessOf(one(t), two(t)), t.testBoundary)
        BY DEF Weakest
      <3> HIDE DEF one, two
      <3>4. Below(Weakest(t), Weakest(s))
        BY <3>1, <3>2, <3>3, LesserIsBelow
      <3> QED
        BY <3>4 DEF Below
    <2> HIDE DEF p, q
    <2> QED
      BY <2>1, <2>2, <2>3 DEF Rises, MoreOf
  <1> QED
    BY <1>9, <1>10

(* No issue, import or call that a workspace of the same size gains raises *)
(* any score of a backend, whichever way the penalties interact            *)
(* (goAssessmentScores, markdownScores).                                   *)
THEOREM NothingBadRaisesScores == Spec => NothingBadHelps
  <1>1. ASSUME AssessInv, AssessInv', [Next]_vars, rules' = rules,
               uses \subseteq uses', \A k \in Issue : issues[k] <= issues'[k]
        PROVE  /\ \A s \in GoReports, t \in GoReports' : \A score \in Score : t[score] <= s[score]
               /\ \A s \in MarkdownReports, t \in MarkdownReports' :
                    \A score \in Score : t[score] <= s[score]
    <2>1. Worsens
      <3>1. gates' = gates /\ size' = size
        BY <1>1 DEF Next, Edit, Introduce, Resolve, vars
      <3> QED
        BY <1>1, <3>1 DEF Worsens
    <2>2. \A score \in Score : Report'[score] <= Report[score]
      <3>1. /\ Report.boundary' <= Report.boundary /\ Report.testBoundary' <= Report.testBoundary
            /\ Report.coupling' <= Report.coupling /\ Report.sideEffect' <= Report.sideEffect
            /\ Report.coverage' <= Report.coverage
            /\ Report.maintainability' <= Report.maintainability
        BY <1>1, <2>1, GoReportIs, NextGoReportIs, BoundariesFall, CoverageFalls, SideEffectFalls,
           CouplingFalls, MaintainabilityFalls
      <3>2. Report.overall' <= Report.overall
        BY <1>1, <2>1, OverallFalls
      <3> QED
        BY <3>1, <3>2 DEF Score
    <2>3. ASSUME NEW s \in MarkdownReports, NEW t \in MarkdownReports', NEW score \in Score
          PROVE  t[score] <= s[score]
      <3>1. /\ MarkdownCoverage' = MarkdownCoverage /\ MarkdownCoverage \in 0..100
            /\ MarkdownMaintainability' <= MarkdownMaintainability
            /\ MarkdownOverall' <= MarkdownOverall
        BY <1>1, <2>1, MarkdownFalls, MarkdownScores
      <3>2. issues["unreadable"] \in Nat /\ issues'["unreadable"] \in Nat
            /\ issues["unreadable"] <= issues'["unreadable"]
        BY <1>1, <2>1, NumbersGrow DEF Issue, MarkdownIssue
      <3> QED
        BY <3>1, <3>2 DEF MarkdownReports, Score
    <2> QED
      BY <2>2, <2>3, GoReportIs, NextGoReportIs
  <1>2. AssessInv /\ AssessInv' /\ [Next]_vars =>
          [/\ rules' = rules
           /\ uses \subseteq uses' /\ \A k \in Issue : issues[k] <= issues'[k]
           => /\ \A s \in GoReports, t \in GoReports' : \A score \in Score : t[score] <= s[score]
              /\ \A s \in MarkdownReports, t \in MarkdownReports' :
                   \A score \in Score : t[score] <= s[score]]_vars
    BY <1>1
  <1> QED
    BY <1>2, AssessInvHolds, PTL DEF Spec, NothingBadHelps
=============================================================================
