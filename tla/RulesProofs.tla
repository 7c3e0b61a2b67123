------------------------------ MODULE RulesProofs ------------------------------
(***************************************************************************)
(* What a learning run guarantees for any records, replies of the model,   *)
(* fields and tools.  The invariant says of every accepted rule that it is *)
(* well formed and counted by the records (Accountable), that no rule is   *)
(* redundant, and that what is staged is what the accepted rules render to *)
(* (Staged).  Its proof needs what the algorithms leave alone: fitting     *)
(* moves thresholds and adds conditions, but a rule keeps its event, tool  *)
(* and setting; and that the k-th element of an ordered set exists.  That  *)
(* nothing is unlearnt rests on verification being a fixed point: an       *)
(* accepted rule of one threshold is formed, tightened and fitted into     *)
(* itself, and of the rules for its setting a widest one is kept.          *)
(***************************************************************************)
EXTENDS LearnedRules, FiniteSetTheorems, NaturalsInduction, WellFoundedInduction, TLAPS

(* No step of the fitting moves the rule. *)
Settled(rule, items) == \A i \in DOMAIN rule.when : FitOne(rule, i, items) = rule

Accountable(k) ==
    /\ IsRule(k.rule) /\ WellFormed(k.rule, records)
    /\ Simple(k.rule) => Settled(k.rule, OfEvent(k.rule, records))
    /\ Counts(k) = Stats(k.rule, OfEvent(k.rule, records))
    /\ Supported(Counts(k))

(* What verify_rules returns. *)
Verified(kept) ==
    /\ kept \in Seq(Range(kept))
    /\ \A k \in Range(kept) : Accountable(k)
    /\ \A i, j \in DOMAIN kept :
         LET a == kept[i].rule
             b == kept[j].rule
         IN (i # j /\ SameEffect(a, b)) =>
              ~(MatchedBy(a, OfEvent(a, records)) \subseteq MatchedBy(b, OfEvent(b, records)))

Staged ==
    \/ skill = NoSkill
    \/ stage = "done" /\ skill = RenderSkill(accepted, existing)

RulesInv ==
    /\ records \in Journals /\ existing \in Existing
    /\ Verified(accepted)
    /\ Staged

-----------------------------------------------------------------------------
(* A set of numbers that is not empty has a least one. *)
LEMMA Least == ASSUME NEW S \in SUBSET Nat, S # {} PROVE \E i \in S : \A j \in S : i <= j
<1> DEFINE R == OpToRel(<, Nat)
<1>1. IsWellFoundedOn(R, Nat)
  BY NatLessThanWellFounded
<1>2. R = {ss \in Nat \X Nat : ss[1] < ss[2]}
  BY DEF OpToRel
<1> HIDE DEF R
<1>3. PICK i \in S : \A j \in S : <<j, i>> \notin R
  BY <1>1, WFMin
<1>4. ASSUME NEW j \in S PROVE i <= j
  <2>1. j \in Nat /\ i \in Nat /\ <<j, i>> \notin R
    BY <1>3
  <2>2. j < i => <<j, i>> \in R
    BY <1>2, <2>1
  <2>3. QED
    BY <2>1, <2>2
<1>5. QED
  BY <1>4

(* In a finite set with a total order, every place has its element. *)
LEMMA Ranked ==
    ASSUME NEW S, IsFiniteSet(S), NEW R,
           \A x \in S : <<x, x>> \notin R,
           \A x, y \in S : x # y => <<x, y>> \in R \/ <<y, x>> \in R,
           \A x, y, z \in S : <<x, y>> \in R /\ <<y, z>> \in R => <<x, z>> \in R
    PROVE  \A k \in 1..Cardinality(S) :
             \E x \in S : Cardinality({y \in S : <<y, x>> \in R}) = k - 1
<1> DEFINE n == Cardinality(S)
           Below(x) == {y \in S : <<y, x>> \in R}
           rank == [x \in S |-> Cardinality(Below(x)) + 1]
<1>1. n \in Nat
  BY FS_CardinalityType
<1>2. ASSUME NEW x \in S
      PROVE  IsFiniteSet(Below(x)) /\ Cardinality(Below(x)) \in Nat /\ Cardinality(Below(x)) < n
  <2>1. Below(x) \subseteq S /\ Below(x) # S
    OBVIOUS
  <2>2. IsFiniteSet(Below(x)) /\ Cardinality(Below(x)) <= n /\ Cardinality(Below(x)) # n
    BY <2>1, FS_Subset
  <2>3. QED
    BY <1>1, <2>2, FS_CardinalityType
<1>3. ASSUME NEW x \in S, NEW y \in S, <<x, y>> \in R
      PROVE  Cardinality(Below(x)) < Cardinality(Below(y))
  <2>1. Below(x) \subseteq Below(y) /\ x \in Below(y) /\ x \notin Below(x)
    BY <1>3
  <2>2. Cardinality(Below(x)) <= Cardinality(Below(y)) /\ Cardinality(Below(x)) # Cardinality(Below(y))
    BY <1>2, <2>1, FS_Subset
  <2>3. Cardinality(Below(x)) \in Nat /\ Cardinality(Below(y)) \in Nat
    BY <1>2
  <2> HIDE DEF Below
  <2>4. QED
    BY <2>2, <2>3
<1>4. rank \in [S -> 1..n]
  BY <1>1, <1>2
<1>5. \A x, y \in S : rank[x] = rank[y] => x = y
  <2> SUFFICES ASSUME NEW x \in S, NEW y \in S, x # y PROVE rank[x] # rank[y]
    OBVIOUS
  <2>1. Cardinality(Below(x)) < Cardinality(Below(y)) \/ Cardinality(Below(y)) < Cardinality(Below(x))
    BY <1>3
  <2>2. Cardinality(Below(x)) \in Nat /\ Cardinality(Below(y)) \in Nat
    BY <1>2
  <2>3. rank[x] = Cardinality(Below(x)) + 1 /\ rank[y] = Cardinality(Below(y)) + 1
    OBVIOUS
  <2> HIDE DEF Below, rank
  <2>4. QED
    BY <2>1, <2>2, <2>3
<1>6. IsFiniteSet(1..n) /\ Cardinality(1..n) = n
  BY <1>1, FS_Interval
<1>7. rank \in Injection(S, 1..n)
  BY <1>4, <1>5 DEF Injection, IsInjective
<1>8. rank \in Surjection(S, 1..n)
  BY <1>6, <1>7, FS_Injection
<1>9. ASSUME NEW k \in 1..n PROVE \E x \in S : Cardinality(Below(x)) = k - 1
  <2>1. PICK x \in S : rank[x] = k
    BY <1>8 DEF Surjection
  <2>2. Cardinality(Below(x)) \in Nat /\ rank[x] = Cardinality(Below(x)) + 1
    BY <1>2
  <2> HIDE DEF Below, rank
  <2>3. QED
    BY <2>1, <2>2
<1>10. QED
  BY <1>9

(* Pairs of numbers compared from the left. *)
LEMMA AbovePairs ==
    ASSUME NEW a \in Nat \X Nat, NEW b \in Nat \X Nat
    PROVE  Above(a, b) <=> a[1] > b[1] \/ (a[1] = b[1] /\ a[2] > b[2])
<1>1. /\ DOMAIN a = {1, 2} /\ a[1] \in Nat /\ a[2] \in Nat /\ b[1] \in Nat /\ b[2] \in Nat
      /\ 1..(1 - 1) = {} /\ 1..(2 - 1) = {1}
  OBVIOUS
<1>2. QED
  BY <1>1 DEF Above

-----------------------------------------------------------------------------
(* What fitting leaves alone. *)
SamePurpose(new, rule) ==
    /\ IsRule(new)
    /\ new.event = rule.event /\ new.any = rule.any /\ new.tool = rule.tool /\ new.set = rule.set
SameConditions(new, rule) ==
    /\ DOMAIN new.when = DOMAIN rule.when
    /\ \A i \in DOMAIN rule.when : /\ new.when[i].field = rule.when[i].field
                                   /\ new.when[i].op = rule.when[i].op

LEMMA SamePurposeChains ==
    ASSUME NEW a, NEW b, NEW c, SamePurpose(b, a), SamePurpose(c, b)
    PROVE  SamePurpose(c, a)
  BY DEF SamePurpose

LEMMA RangeSeq == ASSUME NEW S, NEW s \in Seq(S) PROVE s \in Seq(Range(s)) /\ Range(s) \subseteq S
<1>1. Len(s) \in Nat /\ DOMAIN s = 1..Len(s) /\ s = [i \in 1..Len(s) |-> s[i]]
  OBVIOUS
<1>2. \A i \in 1..Len(s) : s[i] \in Range(s) /\ s[i] \in S
  BY <1>1 DEF Range
<1>3. QED
  BY <1>1, <1>2 DEF Range

LEMMA Narrowed ==
    ASSUME NEW rule, IsRule(rule), NEW f, NEW op, NEW v
    PROVE  SamePurpose(When(rule, f, op, v), rule)
<1> DEFINE c == [field |-> f, op |-> op, value |-> v]
           w == Append(rule.when, c)
           new == [rule EXCEPT !.when = w]
<1>1. new = When(rule, f, op, v)
  BY DEF When
<1>2. w \in Seq(Range(w))
  <2>1. rule.when \in Seq(Range(rule.when) \cup {c})
    BY DEF IsRule
  <2> HIDE DEF c
  <2>2. w \in Seq(Range(rule.when) \cup {c})
    BY <2>1
  <2> HIDE DEF w
  <2>3. QED
    BY <2>2, RangeSeq
<1>2a. \A i \in DOMAIN w : IsCondition(w[i])
  <2>1. /\ rule.when \in Seq(Range(rule.when))
        /\ \A i \in DOMAIN rule.when : IsCondition(rule.when[i])
    BY DEF IsRule
  <2>2. IsCondition(c)
    BY DEF IsCondition
  <2> HIDE DEF c
  <2>3. \A i \in DOMAIN w : (i \in DOMAIN rule.when /\ w[i] = rule.when[i]) \/ w[i] = c
    BY <2>1
  <2> HIDE DEF w
  <2>4. QED
    BY <2>1, <2>2, <2>3
<1> HIDE DEF w
<1>3. /\ new = [event |-> new.event, when |-> new.when, any |-> new.any, tool |-> new.tool, set |-> new.set]
      /\ new.when = w /\ new.any = rule.any /\ new.set = rule.set
      /\ new.event = rule.event /\ new.tool = rule.tool
  BY DEF IsRule
<1> HIDE DEF new
<1>4. QED
  BY <1>1, <1>2, <1>2a, <1>3 DEF SamePurpose, IsRule

LEMMA Changed ==
    ASSUME NEW rule, IsRule(rule), NEW y
    PROVE  /\ [rule EXCEPT !.when = y] =
                [event |-> rule.event, when |-> y, any |-> rule.any, tool |-> rule.tool, set |-> rule.set]
           /\ [rule EXCEPT !.set = y] =
                [event |-> rule.event, when |-> rule.when, any |-> rule.any, tool |-> rule.tool, set |-> y]
           /\ [rule EXCEPT !.event = y] =
                [event |-> y, when |-> rule.when, any |-> rule.any, tool |-> rule.tool, set |-> rule.set]
<1>1. rule = [event |-> rule.event, when |-> rule.when, any |-> rule.any, tool |-> rule.tool, set |-> rule.set]
  BY DEF IsRule
<1>2. QED
  BY <1>1

LEMMA Moved ==
    ASSUME NEW rule, IsRule(rule), NEW i \in DOMAIN rule.when, NEW v
    PROVE  /\ SamePurpose([rule EXCEPT !.when[i].value = v], rule)
           /\ SameConditions([rule EXCEPT !.when[i].value = v], rule)
<1> DEFINE w == [rule.when EXCEPT ![i].value = v]
           new == [rule EXCEPT !.when[i].value = v]
<1>1. Len(rule.when) \in Nat /\ DOMAIN rule.when = 1..Len(rule.when)
  BY DEF IsRule
<1>2. DOMAIN w = 1..Len(rule.when) /\ w = [j \in 1..Len(rule.when) |-> w[j]]
  BY <1>1
<1>3. /\ new = [event |-> new.event, when |-> new.when, any |-> new.any, tool |-> new.tool, set |-> new.set]
      /\ new.when = w /\ new.any = rule.any /\ new.set = rule.set
      /\ new.event = rule.event /\ new.tool = rule.tool
  <2>1. new = [rule EXCEPT !.when = w]
    BY Changed
  <2> HIDE DEF w, new
  <2>2. [rule EXCEPT !.when = w] =
            [event |-> rule.event, when |-> w, any |-> rule.any, tool |-> rule.tool, set |-> rule.set]
    BY Changed
  <2>3. new = [event |-> rule.event, when |-> w, any |-> rule.any, tool |-> rule.tool, set |-> rule.set]
    BY <2>1, <2>2
  <2>4. QED
    BY <2>3
<1>3a. \A j \in DOMAIN w : IsCondition(w[j])
  <2>1. \A j \in DOMAIN rule.when : IsCondition(rule.when[j])
    BY DEF IsRule
  <2>2. \A j \in DOMAIN w : w[j] = rule.when[j] \/ w[j] = [rule.when[j] EXCEPT !.value = v]
    BY <1>1
  <2>3. DOMAIN w = DOMAIN rule.when
    OBVIOUS
  <2>4. ASSUME NEW c, IsCondition(c) PROVE IsCondition([c EXCEPT !.value = v])
    BY <2>4 DEF IsCondition
  <2> HIDE DEF w
  <2>5. QED
    BY <2>1, <2>2, <2>3, <2>4
<1>3b. /\ DOMAIN w = DOMAIN rule.when
       /\ \A j \in DOMAIN rule.when : w[j].field = rule.when[j].field /\ w[j].op = rule.when[j].op
  <2>1. \A j \in DOMAIN rule.when : IsCondition(rule.when[j])
    BY DEF IsRule
  <2>2. QED
    BY <1>1, <2>1 DEF IsCondition
<1> HIDE DEF w, new
<1>4. w \in Seq(Range(w))
  BY <1>1, <1>2 DEF Range
<1>5. SamePurpose(new, rule) /\ SameConditions(new, rule)
  BY <1>3, <1>3a, <1>3b, <1>4 DEF SamePurpose, SameConditions, IsRule
<1>6. QED
  BY <1>5 DEF new

LEMMA FitOneKeeps ==
    ASSUME NEW rule, IsRule(rule), NEW i \in DOMAIN rule.when, NEW items
    PROVE  SamePurpose(FitOne(rule, i, items), rule) /\ SameConditions(FitOne(rule, i, items), rule)
<1>1. \E v : FitOne(rule, i, items) = rule \/ FitOne(rule, i, items) = [rule EXCEPT !.when[i].value = v]
  BY Zenon DEF FitOne
<1>2. PICK v : FitOne(rule, i, items) = rule \/ FitOne(rule, i, items) = [rule EXCEPT !.when[i].value = v]
  BY <1>1
<1> DEFINE new == [rule EXCEPT !.when[i].value = v]
<1>3. SamePurpose(rule, rule) /\ SameConditions(rule, rule)
  BY DEF SamePurpose, SameConditions
<1>4. SamePurpose(new, rule) /\ SameConditions(new, rule)
  BY Moved
<1> HIDE DEF new
<1>5. FitOne(rule, i, items) = rule \/ FitOne(rule, i, items) = new
  BY <1>2 DEF new
<1>6. QED
  BY <1>3, <1>4, <1>5

(* Every prefix of the conditions can be fitted, one after the other ...   *)
FitSteps(rule, items, n, fitted) ==
    fitted = [i \in 0..n |-> IF i = 0 THEN rule ELSE FitOne(fitted[i - 1], i, items)]
LEMMA FitDefined ==
    ASSUME NEW rule, NEW items, NEW n \in Nat
    PROVE  \E fitted : FitSteps(rule, items, n, fitted)
<1> USE DEF FitSteps
<1> DEFINE Fits(m, f) == FitSteps(rule, items, m, f)
           bad == {m \in Nat : ~\E f : Fits(m, f)}
<1>1. SUFFICES ASSUME bad # {} PROVE FALSE
  OBVIOUS
<1>2. PICK m \in bad : \A j \in bad : m <= j
  <2> HIDE DEF Fits
  <2>1. bad \in SUBSET Nat
    OBVIOUS
  <2> HIDE DEF bad
  <2>2. QED
    BY <1>1, <2>1, Least
<1>3. m # 0
  <2>1. Fits(0, [i \in 0..0 |-> rule])
    OBVIOUS
  <2> HIDE DEF Fits
  <2>2. QED
    BY <2>1
<1>4. m - 1 \in Nat /\ m - 1 \notin bad
  BY <1>2, <1>3
<1>5. PICK f : Fits(m - 1, f)
  BY <1>4
<1> DEFINE g == [i \in 0..m |-> IF i = 0 THEN rule ELSE FitOne(f[i - 1], i, items)]
<1>6. \A i \in 0..(m - 1) : g[i] = f[i]
  BY <1>4, <1>5
<1>7. Fits(m, g)
  <2>1. ASSUME NEW i \in 0..m, i # 0 PROVE FitOne(g[i - 1], i, items) = FitOne(f[i - 1], i, items)
    <3>1. i - 1 \in 0..(m - 1)
      BY <1>4, <2>1
    <3> HIDE DEF g
    <3>2. g[i - 1] = f[i - 1]
      BY <1>6, <3>1
    <3>3. QED
      BY <3>2
  <2>2. QED
    BY <2>1
<1>8. QED
  <2> HIDE DEF Fits, g
  <2>1. QED
    BY <1>7

(* What holds at 0 and from each number to the next holds up to n. *)
LEMMA UpTo ==
    ASSUME NEW n \in Nat, NEW G, 0 \in G, \A i \in 1..n : i - 1 \in G => i \in G
    PROVE  \A i \in 0..n : i \in G
<1> DEFINE bad == {i \in 0..n : i \notin G}
<1>1. ASSUME bad # {} PROVE FALSE
  <2>1. PICK m \in bad : \A j \in bad : m <= j
    <3>1. bad \in SUBSET Nat
      OBVIOUS
    <3> HIDE DEF bad
    <3>2. QED
      BY <1>1, <3>1, Least
  <2>2. m \in 1..n /\ m - 1 \in 0..n /\ ~(m <= m - 1)
    OBVIOUS
  <2>3. m - 1 \in G
    BY <2>1, <2>2
  <2>4. QED
    BY <2>2, <2>3
<1>2. QED
  BY <1>1

LEMMA FitUnfolds ==
    ASSUME NEW rule, IsRule(rule), NEW items
    PROVE  \E fitted : /\ fitted[0] = rule
                       /\ \A i \in 1..Len(rule.when) : fitted[i] = FitOne(fitted[i - 1], i, items)
                       /\ Fit(rule, items) = fitted[Len(rule.when)]
<1> DEFINE n == Len(rule.when)
           fitted == CHOOSE f : FitSteps(rule, items, n, f)
<1>1. n \in Nat
  BY DEF IsRule
<1>2. \E f : FitSteps(rule, items, n, f)
  BY <1>1, FitDefined
<1>3. FitSteps(rule, items, n, fitted)
  BY <1>2
<1>4. Fit(rule, items) = fitted[n]
  BY DEF Fit, FitSteps
<1> HIDE DEF fitted
<1>5. fitted[0] = rule /\ \A i \in 1..n : fitted[i] = FitOne(fitted[i - 1], i, items)
  <2>1. 0 \in 0..n /\ \A i \in 1..n : i \in 0..n /\ i # 0
    BY <1>1
  <2> HIDE DEF n
  <2>2. QED
    BY <1>3, <2>1 DEF FitSteps
<1>6. fitted[0] = rule /\ (\A i \in 1..n : fitted[i] = FitOne(fitted[i - 1], i, items)) /\ Fit(rule, items) = fitted[n]
  BY <1>4, <1>5
<1>7. QED
  BY <1>6

(* ... and no step of it touches the purpose of the rule. *)
LEMMA FitKeeps ==
    ASSUME NEW rule, IsRule(rule), NEW items
    PROVE  SamePurpose(Fit(rule, items), rule) /\ SameConditions(Fit(rule, items), rule)
<1> DEFINE n == Len(rule.when)
<1>1. n \in Nat /\ DOMAIN rule.when = 1..n
  BY DEF IsRule
<1>2. PICK fitted : /\ fitted[0] = rule
                    /\ \A i \in 1..n : fitted[i] = FitOne(fitted[i - 1], i, items)
                    /\ Fit(rule, items) = fitted[n]
  BY FitUnfolds
<1> DEFINE G == {i \in 0..n : SamePurpose(fitted[i], rule) /\ SameConditions(fitted[i], rule)}
<1>3. 0 \in G
  BY <1>1, <1>2 DEF SamePurpose, SameConditions
<1>4. ASSUME NEW m \in 1..n, m - 1 \in G PROVE m \in G
  <2>1. IsRule(fitted[m - 1]) /\ m \in DOMAIN fitted[m - 1].when
    BY <1>1, <1>4 DEF SamePurpose, SameConditions
  <2>2. /\ SamePurpose(fitted[m], fitted[m - 1])
        /\ SameConditions(fitted[m], fitted[m - 1])
    BY <1>2, <2>1, FitOneKeeps
  <2>3. SamePurpose(fitted[m], rule)
    BY <1>4, <2>2, SamePurposeChains
  <2>4. SameConditions(fitted[m], rule)
    BY <1>4, <2>2 DEF SameConditions
  <2>5. QED
    BY <1>1, <2>3, <2>4
<1> HIDE DEF G
<1>5. \A i \in 0..n : i \in G
  BY <1>1, <1>3, <1>4, UpTo
<1>6. QED
  BY <1>1, <1>2, <1>5 DEF G

LEMMA SamePurposeHolds == ASSUME NEW rule, IsRule(rule) PROVE SamePurpose(rule, rule)
  BY DEF SamePurpose

LEMMA Chosen == ASSUME NEW S, NEW d PROVE OrElse(S, d) \in S \cup {d}
  BY DEF OrElse

LEMMA TightenKeeps ==
    ASSUME NEW rule, IsRule(rule), NEW items, NEW precision, NEW x \in Tighten(rule, items, precision)
    PROVE  SamePurpose(x, rule)
<1>1. \E f, v : x = When(rule, f, "==", v)
  BY Zenon DEF Tighten
<1>2. QED
  BY <1>1, Narrowed

LEMMA CategoricalKeeps ==
    ASSUME NEW rule, IsRule(rule), NEW items, NEW x \in Categorical(rule, items)
    PROVE  SamePurpose(x, rule)
<1>1. \E f, v : x = When(rule, f, "==", v)
  BY Zenon DEF Categorical
<1>2. QED
  BY <1>1, Narrowed

LEMMA AddThresholdKeeps ==
    ASSUME NEW rule, IsRule(rule), NEW items, NEW x \in AddThreshold(rule, items)
    PROVE  SamePurpose(x, rule)
<1>1. \E f, op, v : x = When(rule, f, op, v)
  BY Zenon DEF AddThreshold
<1>2. QED
  BY <1>1, Narrowed

LEMMA BestThresholdKeeps ==
    ASSUME NEW rule, IsRule(rule), NEW items, NEW x \in BestThreshold(rule, items)
    PROVE  SamePurpose(x, rule)
<1> DEFINE first == AddThreshold(rule, items)
           next == OrElse(first, rule)
<1>1. SamePurpose(next, rule)
  BY Chosen, AddThresholdKeeps, SamePurposeHolds
<1>2. x \in first \/ x \in AddThreshold(next, items)
  BY Zenon DEF BestThreshold
<1> HIDE DEF next
<1>3. x \in AddThreshold(next, items) => SamePurpose(x, rule)
  <2>1. IsRule(next)
    BY <1>1 DEF SamePurpose
  <2>2. QED
    BY <1>1, <2>1, AddThresholdKeeps, SamePurposeChains
<1>4. QED
  BY <1>2, <1>3, AddThresholdKeeps

LEMMA FittedKeeps ==
    ASSUME NEW rule, IsRule(rule), NEW items
    PROVE  SamePurpose(Fitted(rule, items), rule)
<1> DEFINE tight == OrElse(Tighten(rule, items, MinPrecision), rule)
<1>1. SamePurpose(tight, rule)
  BY Chosen, TightenKeeps, SamePurposeHolds
<1>2. Fitted(rule, items) = Fit(tight, items) \/ Fitted(rule, items) = Fit(rule, items)
  BY Zenon DEF Fitted
<1> HIDE DEF tight
<1>3. SamePurpose(Fit(tight, items), rule)
  <2>1. IsRule(tight)
    BY <1>1 DEF SamePurpose
  <2>2. QED
    BY <1>1, <2>1, FitKeeps, SamePurposeChains
<1>4. QED
  BY <1>2, <1>3, FitKeeps

-----------------------------------------------------------------------------
(* Fitting one threshold again moves it no further: a value that teaches   *)
(* most stays the best, being the nearest to itself.                       *)
Shifted(rule, i, v) == [rule EXCEPT !.when[i].value = v]
GoodValues(rule, i, items) ==
    LET c == rule.when[i]
        taught == With(Taught(items, RuleChange(rule)), c.field)
        Typical(v) == taught # {} => IF c.op \in {">=", ">"} THEN v >= Low(taught, c.field)
                                                             ELSE v <= High(taught, c.field)
        At(v) == Stats(Shifted(rule, i, v), items)
    IN {v \in {v \in {r.fields[c.field] : r \in With(items, c.field)} : Typical(v)} :
          Precision(At(v)) >= FitPrecision /\ At(v).rejected < AtLeast(At(v).support, 1)}
Score(rule, i, items, from, v) ==
    <<Stats(Shifted(rule, i, v), items).support, -AtLeast(v - from, from - v), -v>>
BestValues(rule, i, items, from) ==
    {v \in GoodValues(rule, i, items) : \A w \in GoodValues(rule, i, items) \ {v} :
        Above(Score(rule, i, items, from, v), Score(rule, i, items, from, w))}

LEMMA FitOneMoves ==
    ASSUME NEW rule, NEW i, NEW items
    PROVE  FitOne(rule, i, items) =
             IF rule.when[i].op \in {"==", "!="} \/ rule.when[i].field \notin Numeric THEN rule
             ELSE Shifted(rule, i, OrElse(BestValues(rule, i, items, rule.when[i].value), rule.when[i].value))
  BY DEF FitOne, BestValues, GoodValues, Score, Shifted, Best

LEMMA ShiftedTwice ==
    ASSUME NEW rule, IsRule(rule), NEW i \in DOMAIN rule.when, NEW v
    PROVE  /\ \A w : Shifted(Shifted(rule, i, v), i, w) = Shifted(rule, i, w)
           /\ Shifted(rule, i, rule.when[i].value) = rule
           /\ Shifted(rule, i, v).when[i].value = v
<1> DEFINE moved(w) == [rule.when EXCEPT ![i].value = w]
<1>1. /\ \A j \in DOMAIN rule.when : IsCondition(rule.when[j])
      /\ rule.when \in Seq(Range(rule.when))
      /\ rule = [event |-> rule.event, when |-> rule.when, any |-> rule.any, tool |-> rule.tool, set |-> rule.set]
  BY DEF IsRule
<1>2. \A w : Shifted(rule, i, w) = [rule EXCEPT !.when = moved(w)]
  BY <1>1 DEF Shifted
<1>3. moved(rule.when[i].value) = rule.when
  BY <1>1 DEF IsCondition
<1>4. \A w : [moved(v) EXCEPT ![i].value = w] = moved(w)
  BY <1>1 DEF IsCondition
<1>5. moved(v)[i].value = v
  BY <1>1 DEF IsCondition
<1>6. QED
  BY <1>1, <1>2, <1>3, <1>4, <1>5 DEF Shifted

LEMMA ShiftedKeepsGood ==
    ASSUME NEW rule, IsRule(rule), NEW i \in DOMAIN rule.when, NEW v, NEW items
    PROVE  /\ GoodValues(Shifted(rule, i, v), i, items) = GoodValues(rule, i, items)
           /\ \A from, w : Score(Shifted(rule, i, v), i, items, from, w) = Score(rule, i, items, from, w)
           /\ \A from : BestValues(Shifted(rule, i, v), i, items, from) = BestValues(rule, i, items, from)
<1> DEFINE new == Shifted(rule, i, v)
<1>1. \A w : Shifted(new, i, w) = Shifted(rule, i, w)
  BY ShiftedTwice
<1>2. /\ new.when[i].field = rule.when[i].field /\ new.when[i].op = rule.when[i].op
      /\ new.tool = rule.tool /\ new.set = rule.set
  BY Moved DEF Shifted, SamePurpose, SameConditions
<1>3. RuleChange(new) = RuleChange(rule)
  BY <1>2 DEF RuleChange
<1> HIDE DEF new
<1>4. GoodValues(new, i, items) = GoodValues(rule, i, items)
  BY <1>1, <1>2, <1>3 DEF GoodValues
<1>5. \A from, w : Score(new, i, items, from, w) = Score(rule, i, items, from, w)
  BY <1>1 DEF Score
<1>6. \A from : BestValues(new, i, items, from) = BestValues(rule, i, items, from)
  BY <1>4, <1>5 DEF BestValues
<1>7. QED
  BY <1>4, <1>5, <1>6 DEF new

Readable(items) == IsFiniteSet(items) /\ \A r \in items : \A f \in DOMAIN r.fields : r.fields[f] \in Int

LEMMA StatsType ==
    ASSUME NEW items, IsFiniteSet(items), NEW rule
    PROVE  /\ Stats(rule, items).support \in Nat /\ Stats(rule, items).rejected \in Nat
           /\ Stats(rule, items).matched \in Nat
           /\ Stats(rule, items).support <= Stats(rule, items).matched
<1> DEFINE M == MatchedBy(rule, items)
           T == {r \in M : RuleChange(rule) \in Changes(r)}
           N == {r \in M : RuleChange(rule) \in Rejected(r)}
<1>1. M \subseteq items
  BY DEF MatchedBy
<1>2. IsFiniteSet(M)
  BY <1>1, FS_Subset
<1>3. IsFiniteSet(T) /\ IsFiniteSet(N) /\ Cardinality(T) <= Cardinality(M)
  BY <1>2, FS_Subset
<1>4. Stats(rule, items) = [support |-> Cardinality(T), rejected |-> Cardinality(N), matched |-> Cardinality(M)]
  BY DEF Stats
<1> HIDE DEF M, T, N
<1>5. QED
  BY <1>2, <1>3, <1>4, FS_CardinalityType

LEMMA AboveTriples ==
    ASSUME NEW s, NEW t, NEW d, NEW e, NEW x, NEW y
    PROVE  Above(<<s, d, x>>, <<t, e, y>>) <=> s > t \/ (s = t /\ (d > e \/ (d = e /\ x > y)))
<1> DEFINE a == <<s, d, x>>
           b == <<t, e, y>>
<1>1. 1..(1 - 1) = {} /\ 1..(2 - 1) = {1} /\ 1..(3 - 1) = {1, 2}
  OBVIOUS
<1>2. DOMAIN a = {1, 2, 3} /\ a[1] = s /\ a[2] = d /\ a[3] = x /\ b[1] = t /\ b[2] = e /\ b[3] = y
  OBVIOUS
<1> HIDE DEF a, b
<1>3. Above(a, b) <=> \/ a[1] > b[1]
                      \/ a[2] > b[2] /\ a[1] = b[1]
                      \/ a[3] > b[3] /\ a[1] = b[1] /\ a[2] = b[2]
  BY <1>1, <1>2 DEF Above
<1>4. QED
  BY <1>2, <1>3 DEF a, b

LEMMA FitOneAgain ==
    ASSUME NEW rule, IsRule(rule), NEW i \in DOMAIN rule.when, NEW items, Readable(items)
    PROVE  FitOne(FitOne(rule, i, items), i, items) = FitOne(rule, i, items)
<1> DEFINE c == rule.when[i]
           best == BestValues(rule, i, items, c.value)
           v == OrElse(best, c.value)
           new == Shifted(rule, i, v)
<1>1. CASE c.op \in {"==", "!="} \/ c.field \notin Numeric
  BY <1>1, FitOneMoves
<1>2. CASE ~(c.op \in {"==", "!="} \/ c.field \notin Numeric)
  <2>1. FitOne(rule, i, items) = new
    BY <1>2, FitOneMoves
  <2>2. /\ new.when[i].field = c.field /\ new.when[i].op = c.op /\ new.when[i].value = v
        /\ \A w : Shifted(new, i, w) = Shifted(rule, i, w)
    <3> HIDE DEF v
    <3>1. SameConditions(new, rule)
      BY Moved DEF Shifted
    <3>2. QED
      BY <3>1, ShiftedTwice DEF SameConditions
  <2> DEFINE again == BestValues(new, i, items, v)
  <2>3. FitOne(new, i, items) = Shifted(rule, i, OrElse(again, v))
    <3>1. FitOne(new, i, items) = Shifted(new, i, OrElse(BestValues(new, i, items, new.when[i].value), new.when[i].value))
      <4> HIDE DEF new
      <4>1. QED
        BY <1>2, <2>2, FitOneMoves
    <3> HIDE DEF new, v
    <3>2. QED
      BY <2>2, <3>1
  <2>4. again = BestValues(rule, i, items, v)
    BY ShiftedKeepsGood
  <2>5. ASSUME best = {} PROVE new = rule /\ FitOne(new, i, items) = new
    <3>1. v = c.value
      BY <2>5 DEF OrElse
    <3>2. new = rule
      BY <3>1, ShiftedTwice
    <3> HIDE DEF new
    <3>3. QED
      BY <2>1, <3>2
  <2>6. ASSUME best # {} PROVE again = {v}
    <3> DEFINE good == GoodValues(rule, i, items)
               n(w) == Stats(Shifted(rule, i, w), items).support
    <3>1. v \in best
      BY <2>6 DEF OrElse
    <3> HIDE DEF v
    <3>2. v \in good /\ \A w \in good \ {v} : Above(Score(rule, i, items, c.value, v), Score(rule, i, items, c.value, w))
      BY <3>1 DEF BestValues
    <3>3. good \subseteq Int
      BY DEF GoodValues, With, Readable
    <3>4. \A w : n(w) \in Int
      BY StatsType DEF Readable
    <3>5. \A from, w : Score(rule, i, items, from, w) = <<n(w), -AtLeast(w - from, from - w), -w>>
      BY DEF Score
    <3> HIDE DEF n, good, c
    <3>6. ASSUME NEW w \in good \ {v} PROVE n(v) > n(w) \/ n(v) = n(w)
      <4> DEFINE d == -AtLeast(v - c.value, c.value - v)
                 e == -AtLeast(w - c.value, c.value - w)
      <4>1. Above(<<n(v), d, -v>>, <<n(w), e, -w>>)
        BY <3>2, <3>5
      <4> HIDE DEF d, e
      <4>2. QED
        BY <4>1, AboveTriples
    <3>7. ASSUME NEW w \in good \ {v}
          PROVE  /\ Above(Score(rule, i, items, v, v), Score(rule, i, items, v, w))
                 /\ ~Above(Score(rule, i, items, v, w), Score(rule, i, items, v, v))
      <4>1. w \in Int /\ v \in Int /\ w # v
        BY <3>2, <3>3
      <4>2. /\ AtLeast(v - v, v - v) = 0
            /\ AtLeast(w - v, v - w) \in Int /\ AtLeast(w - v, v - w) > 0
        BY <4>1 DEF AtLeast
      <4>3. n(v) \in Int /\ n(w) \in Int /\ (n(v) > n(w) \/ n(v) = n(w))
        BY <3>4, <3>6
      <4> DEFINE d == AtLeast(w - v, v - w)
      <4>4. /\ Score(rule, i, items, v, v) = <<n(v), 0, -v>>
            /\ Score(rule, i, items, v, w) = <<n(w), -d, -w>>
        BY <3>5, <4>1, <4>2
      <4>5. d \in Int /\ d > 0
        BY <4>2
      <4> HIDE DEF d
      <4>6. /\ Above(<<n(v), 0, -v>>, <<n(w), -d, -w>>) <=>
                 n(v) > n(w) \/ (n(v) = n(w) /\ (0 > -d \/ (0 = -d /\ -v > -w)))
            /\ Above(<<n(w), -d, -w>>, <<n(v), 0, -v>>) <=>
                 n(w) > n(v) \/ (n(w) = n(v) /\ (-d > 0 \/ (-d = 0 /\ -w > -v)))
        BY <4>3, AboveTriples
      <4>7. QED
        BY <4>3, <4>4, <4>5, <4>6
    <3>8. BestValues(rule, i, items, v) = {v}
      BY <3>2, <3>7 DEF BestValues, good
    <3>9. QED
      BY <2>4, <3>8
  <2>7. ASSUME again = {v} PROVE FitOne(new, i, items) = new
    <3>1. OrElse({v}, v) = v
      BY DEF OrElse
    <3>2. QED
      BY <2>3, <2>7, <3>1
  <2>8. QED
    BY <2>1, <2>5, <2>6, <2>7
<1>3. QED
  BY <1>1, <1>2

(* A rule that no step of the fitting moves stays as it is ... *)
LEMMA FitOfSettled ==
    ASSUME NEW rule, IsRule(rule), NEW items, Settled(rule, items)
    PROVE  Fit(rule, items) = rule
<1> DEFINE n == Len(rule.when)
<1>1. n \in Nat /\ DOMAIN rule.when = 1..n
  BY DEF IsRule
<1>2. PICK fitted : /\ fitted[0] = rule
                    /\ \A i \in 1..n : fitted[i] = FitOne(fitted[i - 1], i, items)
                    /\ Fit(rule, items) = fitted[n]
  BY FitUnfolds
<1> DEFINE G == {i \in 0..n : fitted[i] = rule}
<1>3. 0 \in G
  BY <1>1, <1>2
<1>4. \A m \in 1..n : m - 1 \in G => m \in G
  BY <1>1, <1>2 DEF Settled
<1> HIDE DEF G
<1>5. \A i \in 0..n : i \in G
  BY <1>1, <1>3, <1>4, UpTo
<1>6. QED
  BY <1>1, <1>2, <1>5 DEF G

(* ... and a rule of one threshold is such a rule once it is fitted. *)
LEMMA SameThresholds ==
    ASSUME NEW new, NEW rule, SameConditions(new, rule)
    PROVE  Thresholds(new) = Thresholds(rule) /\ (Simple(new) <=> Simple(rule))
  BY DEF SameConditions, Thresholds, Simple

LEMMA SimpleSettles ==
    ASSUME NEW rule, IsRule(rule), Simple(rule), NEW items, Readable(items)
    PROVE  Settled(Fit(rule, items), items)
<1> DEFINE n == Len(rule.when)
           T == Thresholds(rule)
<1>1. n \in Nat /\ DOMAIN rule.when = 1..n /\ T \subseteq 1..n
  BY DEF IsRule, Thresholds
<1>2. T = {} \/ \E t : T = {t}
  <2>1. IsFiniteSet(1..n)
    BY <1>1, FS_Interval
  <2>2. IsFiniteSet(T) /\ Cardinality(T) \in Nat
    BY <1>1, <2>1, FS_Subset, FS_CardinalityType
  <2>3. Cardinality(T) = 0 \/ Cardinality(T) = 1
    BY <2>2 DEF Simple
  <2>4. QED
    BY <2>2, <2>3, FS_EmptySet, FS_Singleton
<1>3. PICK fitted : /\ fitted[0] = rule
                    /\ \A i \in 1..n : fitted[i] = FitOne(fitted[i - 1], i, items)
                    /\ Fit(rule, items) = fitted[n]
  BY FitUnfolds
<1>4. ASSUME NEW x, SameConditions(x, rule), NEW i \in (1..n) \ T PROVE FitOne(x, i, items) = x
  <2>1. x.when[i].op \in {"==", "!="}
    BY <1>1, <1>4 DEF SameConditions, Thresholds
  <2>2. QED
    BY <2>1, FitOneMoves
<1>5. SameConditions(rule, rule)
  BY DEF SameConditions
<1>6. CASE T = {}
  <2>1. Settled(rule, items)
    BY <1>1, <1>4, <1>5, <1>6 DEF Settled
  <2>2. QED
    BY <2>1, FitOfSettled
<1>7. ASSUME NEW t, T = {t} PROVE Settled(Fit(rule, items), items)
  <2> DEFINE x == FitOne(rule, t, items)
             G == {i \in 0..n : fitted[i] = IF i < t THEN rule ELSE x}
  <2>1. t \in 1..n /\ t \in DOMAIN rule.when
    BY <1>1, <1>7
  <2>2. SameConditions(x, rule) /\ IsRule(x)
    BY <2>1, FitOneKeeps DEF SamePurpose
  <2>3. FitOne(x, t, items) = x
    BY <2>1, FitOneAgain
  <2> HIDE DEF x
  <2>4. 0 \in G
    BY <1>1, <1>3, <2>1
  <2>5. ASSUME NEW m \in 1..n, m - 1 \in G PROVE m \in G
    <3>1. fitted[m] = FitOne(fitted[m - 1], m, items)
      BY <1>3
    <3>2. CASE m = t
      <4>1. fitted[m - 1] = rule
        BY <1>1, <2>5, <3>2
      <4>2. QED
        BY <1>1, <3>1, <3>2, <4>1 DEF x
    <3>3. CASE m # t
      <4>1. m < t => m - 1 < t
        BY <1>1, <2>1
      <4>2. ~(m < t) => ~(m - 1 < t)
        BY <1>1, <2>1, <3>3
      <4>3. fitted[m - 1] = IF m < t THEN rule ELSE x
        BY <2>5, <4>1, <4>2
      <4>4. m \in (1..n) \ T
        BY <1>7, <3>3
      <4>5. QED
        BY <1>1, <1>4, <1>5, <2>2, <3>1, <4>3, <4>4
    <3>4. QED
      BY <3>2, <3>3
  <2> HIDE DEF G
  <2>6. \A i \in 0..n : i \in G
    BY <1>1, <2>4, <2>5, UpTo
  <2>7. Fit(rule, items) = x
    BY <1>1, <1>3, <2>1, <2>6 DEF G
  <2>8. Settled(x, items)
    <3>1. DOMAIN x.when = 1..n
      BY <1>1, <2>2 DEF SameConditions
    <3>2. QED
      BY <1>4, <1>7, <2>2, <2>3, <3>1 DEF Settled
  <2>9. QED
    BY <2>7, <2>8
<1>8. QED
  BY <1>2, <1>6, <1>7

(* A fitted rule that is supported passes the next verification unchanged, *)
(* if it has one threshold at most.                                        *)
LEMMA PrecisionType ==
    ASSUME NEW items, IsFiniteSet(items), NEW rule
    PROVE  Precision(Stats(rule, items)) \in Int
<1> DEFINE s == Stats(rule, items)
<1>1. s.support \in Nat /\ s.matched \in Nat
  BY StatsType
<1> HIDE DEF s
<1>2. s.matched # 0 => (Whole * s.support) \div s.matched \in Int
  BY <1>1 DEF Whole
<1>3. QED
  BY <1>2 DEF Precision, s

LEMMA FittedAgain ==
    ASSUME NEW rule, IsRule(rule), NEW items, Readable(items), Settled(rule, items),
           Supported(Stats(rule, items))
    PROVE  Fitted(rule, items) = rule
<1>1. Precision(Stats(rule, items)) \in Int /\ Precision(Stats(rule, items)) >= MinPrecision
  BY PrecisionType DEF Readable, Supported
<1>2. ~(Precision(Stats(rule, items)) < MinPrecision)
  BY <1>1 DEF MinPrecision
<1>3. Fitted(rule, items) = Fit(rule, items)
  BY <1>2 DEF Fitted
<1>4. QED
  BY <1>3, FitOfSettled

LEMMA NarrowedThresholds ==
    ASSUME NEW rule, IsRule(rule), NEW f, NEW v
    PROVE  Thresholds(When(rule, f, "==", v)) = Thresholds(rule)
<1> DEFINE c == [field |-> f, op |-> "==", value |-> v]
           w == Append(rule.when, c)
<1>1. When(rule, f, "==", v).when = w
  BY Changed DEF When
<1>2. /\ Len(rule.when) \in Nat /\ DOMAIN rule.when = 1..Len(rule.when) /\ DOMAIN w = 1..(Len(rule.when) + 1)
      /\ w[Len(rule.when) + 1] = c /\ \A i \in 1..Len(rule.when) : w[i] = rule.when[i]
  <2>1. rule.when \in Seq(Range(rule.when) \cup {c})
    BY DEF IsRule
  <2> HIDE DEF c
  <2>2. QED
    BY <2>1
<1>3. c.op = "=="
  OBVIOUS
<1> HIDE DEF w, c
<1>4. {i \in DOMAIN w : w[i].op \notin {"==", "!="}} = {i \in DOMAIN rule.when : rule.when[i].op \notin {"==", "!="}}
  BY <1>2, <1>3
<1>5. QED
  BY <1>1, <1>4 DEF Thresholds

TightOf(rule, items) ==
    LET s == Stats(rule, items)
    IN IF s.support >= MinSupport /\ Precision(s) < MinPrecision
       THEN OrElse(Tighten(rule, items, MinPrecision), rule) ELSE rule

LEMMA TightOfIs ==
    ASSUME NEW rule, IsRule(rule), NEW items
    PROVE  /\ Fitted(rule, items) = Fit(TightOf(rule, items), items)
           /\ IsRule(TightOf(rule, items)) /\ SamePurpose(TightOf(rule, items), rule)
           /\ \/ TightOf(rule, items) = rule
              \/ \E f, v : /\ TightOf(rule, items) = When(rule, f, "==", v)
                           /\ \E r \in items : f \in DOMAIN r.fields
<1>1. Fitted(rule, items) = Fit(TightOf(rule, items), items)
  BY DEF Fitted, TightOf
<1>2. TightOf(rule, items) = rule \/ TightOf(rule, items) \in Tighten(rule, items, MinPrecision)
  BY Chosen DEF TightOf
<1>3. ASSUME NEW x \in Tighten(rule, items, MinPrecision)
      PROVE  \E f, v : x = When(rule, f, "==", v) /\ \E r \in items : f \in DOMAIN r.fields
  <2> DEFINE supporting == Taught(MatchedBy(rule, items), RuleChange(rule))
  <2>1. PICK f, v : /\ x = When(rule, f, "==", v) /\ supporting # {}
                    /\ \A r \in supporting : f \in DOMAIN r.fields
    BY <1>3, Zenon DEF Tighten, Best
  <2>2. supporting \subseteq items
    BY DEF Taught, MatchedBy
  <2>3. QED
    BY <2>1, <2>2
<1>4. QED
  BY <1>1, <1>2, <1>3, Narrowed, SamePurposeHolds DEF SamePurpose

LEMMA FittedSettles ==
    ASSUME NEW rule, IsRule(rule), NEW items, Readable(items)
    PROVE  /\ Simple(Fitted(rule, items)) <=> Simple(rule)
           /\ Simple(rule) => Settled(Fitted(rule, items), items)
<1> DEFINE tight == TightOf(rule, items)
<1>1. Fitted(rule, items) = Fit(tight, items) /\ IsRule(tight)
  BY TightOfIs
<1>2. Thresholds(tight) = Thresholds(rule)
  BY TightOfIs, NarrowedThresholds
<1>3. Simple(tight) <=> Simple(rule)
  BY <1>2 DEF Simple
<1> HIDE DEF tight
<1>4. Simple(Fit(tight, items)) <=> Simple(tight)
  BY <1>1, FitKeeps, SameThresholds
<1>5. QED
  BY <1>1, <1>3, <1>4, SimpleSettles

LEMMA RangeConcat ==
    ASSUME NEW s, s \in Seq(Range(s)), NEW t, t \in Seq(Range(t))
    PROVE  /\ Range(s \o t) = Range(s) \cup Range(t)
           /\ s \o t = <<>> <=> Len(s) = 0 /\ Len(t) = 0
<1> DEFINE S == Range(s) \cup Range(t)
           u == s \o t
<1>1. s \in Seq(S) /\ t \in Seq(S)
  OBVIOUS
<1>2. /\ Len(s) \in Nat /\ Len(t) \in Nat /\ DOMAIN s = 1..Len(s) /\ DOMAIN t = 1..Len(t)
      /\ DOMAIN u = 1..(Len(s) + Len(t)) /\ Len(u) = Len(s) + Len(t)
      /\ \A i \in 1..(Len(s) + Len(t)) : u[i] = IF i <= Len(s) THEN s[i] ELSE t[i - Len(s)]
  <2> HIDE DEF S
  <2>1. QED
    BY <1>1
<1> HIDE DEF u, S
<1>3. \A x \in Range(u) : x \in Range(s) \cup Range(t)
  BY <1>2 DEF Range
<1>4. \A x \in Range(s) : x \in Range(u)
  BY <1>2 DEF Range
<1>5. ASSUME NEW x \in Range(t) PROVE x \in Range(u)
  <2>1. PICK i \in 1..Len(t) : t[i] = x
    BY <1>2 DEF Range
  <2>2. i + Len(s) \in DOMAIN u /\ u[i + Len(s)] = x
    BY <1>2, <2>1
  <2>3. QED
    BY <2>2 DEF Range
<1>6. u = <<>> <=> Len(u) = 0
  <2>1. u \in Seq(S)
    BY <1>1 DEF u
  <2>2. QED
    BY <2>1
<1>7. QED
  BY <1>2, <1>3, <1>4, <1>5, <1>6 DEF u

Known(c, rule, all) ==
    c.op \in Operators /\ c.field \in UNION {DOMAIN r.fields : r \in {q \in all : q.event = rule.event}}

LEMMA ConditionsKept ==
    ASSUME NEW new, NEW rule, IsRule(rule), NEW all, WellFormed(rule, all), SamePurpose(new, rule),
           \A c \in Range(new.when) : Known(c, rule, all), Len(new.when) >= Len(rule.when)
    PROVE  WellFormed(new, all)
<1>1. /\ rule.when \in Seq(Range(rule.when)) /\ rule.any \in Seq(Range(rule.any))
      /\ new.when \in Seq(Range(new.when)) /\ new.any = rule.any
      /\ new.event = rule.event /\ new.tool = rule.tool /\ new.set = rule.set
  BY DEF IsRule, SamePurpose
<1>2. /\ Range(new.when \o new.any) = Range(new.when) \cup Range(rule.any)
      /\ Range(rule.when \o rule.any) = Range(rule.when) \cup Range(rule.any)
      /\ new.when \o new.any = <<>> <=> Len(new.when) = 0 /\ Len(rule.any) = 0
      /\ rule.when \o rule.any = <<>> <=> Len(rule.when) = 0 /\ Len(rule.any) = 0
  BY <1>1, RangeConcat
<1>3. \A c \in Range(rule.when \o rule.any) : Known(c, rule, all)
  BY DEF WellFormed, Known
<1>4. \A c \in Range(new.when \o new.any) : Known(c, rule, all)
  BY <1>2, <1>3
<1>5. new.when \o new.any # <<>>
  <2>1. Len(new.when) \in Nat /\ Len(rule.when) \in Nat
    BY <1>1
  <2>2. rule.when \o rule.any # <<>>
    BY DEF WellFormed
  <2>3. QED
    BY <1>2, <2>1, <2>2
<1>6. QED
  BY <1>1, <1>4, <1>5 DEF WellFormed, Known

LEMMA FittedIsWellFormed ==
    ASSUME NEW rule, IsRule(rule), NEW all, WellFormed(rule, all)
    PROVE  WellFormed(Fitted(rule, OfEvent(rule, all)), all)
<1> DEFINE items == OfEvent(rule, all)
           tight == TightOf(rule, items)
           new == Fitted(rule, items)
<1>1. /\ new = Fit(tight, items) /\ IsRule(tight) /\ SamePurpose(tight, rule)
      /\ \/ tight = rule
         \/ \E f, v : tight = When(rule, f, "==", v) /\ \E r \in items : f \in DOMAIN r.fields
  BY TightOfIs
<1> HIDE DEF tight
<1>2. SamePurpose(new, tight) /\ SameConditions(new, tight)
  BY <1>1, FitKeeps
<1>3. SamePurpose(new, rule)
  BY <1>1, <1>2, SamePurposeChains
<1>4. \A c \in Range(rule.when) : Known(c, rule, all)
  <2>1. rule.when \in Seq(Range(rule.when)) /\ rule.any \in Seq(Range(rule.any))
    BY DEF IsRule
  <2>2. Range(rule.when \o rule.any) = Range(rule.when) \cup Range(rule.any)
    BY <2>1, RangeConcat
  <2>3. QED
    BY <2>2 DEF WellFormed, Known
<1>5. (\A c \in Range(tight.when) : Known(c, rule, all)) /\ Len(tight.when) >= Len(rule.when)
  <2>1. Len(rule.when) \in Nat
    BY DEF IsRule
  <2>2. CASE tight = rule
    BY <1>4, <2>1, <2>2
  <2>3. ASSUME NEW f, NEW v, tight = When(rule, f, "==", v), NEW r \in items, f \in DOMAIN r.fields
        PROVE  (\A c \in Range(tight.when) : Known(c, rule, all)) /\ Len(tight.when) >= Len(rule.when)
    <3> DEFINE d == [field |-> f, op |-> "==", value |-> v]
    <3>1. tight.when = Append(rule.when, d)
      BY <2>3, Changed DEF When
    <3>2. Known(d, rule, all)
      BY <2>3 DEF Known, OfEvent, Operators
    <3>3. rule.when \in Seq(Range(rule.when) \cup {d})
      BY DEF IsRule
    <3> HIDE DEF d
    <3>4. Len(Append(rule.when, d)) = Len(rule.when) + 1 /\ Range(Append(rule.when, d)) \subseteq Range(rule.when) \cup {d}
      BY <2>1, <3>3 DEF Range
    <3>5. QED
      BY <1>4, <2>1, <3>1, <3>2, <3>4
  <2>4. QED
    BY <1>1, <2>2, <2>3
<1>6. (\A c \in Range(new.when) : Known(c, rule, all)) /\ Len(new.when) >= Len(rule.when)
  <2>1. /\ new.when \in Seq(Range(new.when)) /\ tight.when \in Seq(Range(tight.when))
        /\ rule.when \in Seq(Range(rule.when))
    BY <1>1, <1>2 DEF SamePurpose, IsRule
  <2> HIDE DEF new
  <2>2. Len(new.when) = Len(tight.when)
    BY <1>2, <2>1 DEF SameConditions
  <2>3. ASSUME NEW c \in Range(new.when) PROVE Known(c, rule, all)
    <3>1. PICK i \in DOMAIN new.when : c = new.when[i]
      BY DEF Range
    <3>2. tight.when[i] \in Range(tight.when) /\ c.op = tight.when[i].op /\ c.field = tight.when[i].field
      BY <1>2, <3>1 DEF SameConditions, Range
    <3>3. QED
      BY <1>5, <3>2 DEF Known
  <2>4. QED
    BY <1>5, <2>2, <2>3
<1>7. QED
  BY <1>3, <1>6, ConditionsKept

-----------------------------------------------------------------------------
LEMMA FiniteImage ==
    ASSUME NEW S, IsFiniteSet(S), NEW f, S = DOMAIN f, f = [x \in S |-> f[x]]
    PROVE  IsFiniteSet({f[x] : x \in S})
<1> DEFINE T == {f[x] : x \in S}
<1>1. f \in Surjection(S, T)
  BY DEF Surjection
<1> HIDE DEF T
<1>2. IsFiniteSet(T)
  BY <1>1, FS_Surjection
<1>3. QED
  BY <1>2 DEF T

(* Verification: what is formed is well formed, and finite. *)
OneOf(rules, items, s) == Named([rules[s[1]] EXCEPT !.set = <<rules[s[1]].set[s[2]]>>], items)
LEMMA FormedAre ==
    ASSUME NEW rules, NEW items
    PROVE  /\ DOMAIN Formed(rules, items) = {t \in OneSettingEach(rules) : WellFormed(OneOf(rules, items, t), items)}
           /\ \A s \in DOMAIN Formed(rules, items) : Formed(rules, items)[s] = OneOf(rules, items, s)
  BY Zenon DEF Formed, OneOf

LEMMA FormedRules ==
    ASSUME NEW rules, IsRules(rules), NEW items
    PROVE  /\ IsFiniteSet(DOMAIN Formed(rules, items))
           /\ DOMAIN Formed(rules, items) \subseteq Nat \X Nat
           /\ \A s \in DOMAIN Formed(rules, items) :
                IsRule(Formed(rules, items)[s]) /\ WellFormed(Formed(rules, items)[s], items)
<1> DEFINE n == Len(rules)
           m(i) == Len(rules[i].set)
           One(s) == OneOf(rules, items, s)
           slots == OneSettingEach(rules)
<1>1. n \in Nat /\ DOMAIN rules = 1..n /\ \A i \in 1..n : IsRule(rules[i])
  BY DEF IsRules
<1>2. \A i \in 1..n : m(i) \in Nat /\ DOMAIN rules[i].set = 1..m(i)
  BY <1>1 DEF IsRule
<1>3. slots = UNION {{i} \X DOMAIN rules[i].set : i \in 1..n}
  BY <1>1 DEF OneSettingEach
<1>4. slots \subseteq Nat \X Nat
  BY <1>2, <1>3
<1>5. IsFiniteSet(slots)
  <2> DEFINE row == [i \in 1..n |-> {i} \X DOMAIN rules[i].set]
             rows == {row[i] : i \in 1..n}
  <2>1. IsFiniteSet(1..n)
    BY <1>1, FS_Interval
  <2>2. DOMAIN row = 1..n /\ row = [i \in 1..n |-> row[i]]
    OBVIOUS
  <2>3. IsFiniteSet(rows)
    <3> HIDE DEF row
    <3>1. QED
      BY <2>1, <2>2, FiniteImage
  <2>4. \A i \in 1..n : IsFiniteSet(row[i])
    <3> SUFFICES ASSUME NEW i \in 1..n PROVE IsFiniteSet({i} \X DOMAIN rules[i].set)
      OBVIOUS
    <3>1. IsFiniteSet({i})
      BY FS_Singleton
    <3>2. IsFiniteSet(1..m(i))
      <4>1. m(i) \in Nat
        BY <1>2
      <4> HIDE DEF m
      <4>2. QED
        BY <4>1, FS_Interval
    <3>3. QED
      BY <1>2, <3>1, <3>2, FS_Product
  <2>5. \A T \in rows : IsFiniteSet(T)
    BY <2>4
  <2>6. slots = UNION rows
    BY <1>3
  <2>7. QED
    BY <2>3, <2>5, <2>6, FS_UNION
<1>6. /\ DOMAIN Formed(rules, items) = {t \in slots : WellFormed(One(t), items)}
      /\ \A s \in DOMAIN Formed(rules, items) : Formed(rules, items)[s] = One(s)
  BY FormedAre
<1>7. ASSUME NEW s \in slots PROVE IsRule(One(s))
  <2>1. s[1] \in 1..n
    BY <1>3
  <2> DEFINE one == [rules[s[1]] EXCEPT !.set = <<rules[s[1]].set[s[2]]>>]
  <2>2. IsRule(rules[s[1]])
    BY <1>1, <2>1
  <2>3. IsRule(one)
    <3> DEFINE v == rules[s[1]].set[s[2]]
    <3>1. <<v>> \in Seq(Range(<<v>>))
      <4> HIDE DEF v
      <4>1. QED
        BY DEF Range
    <3> DEFINE set == <<v>>
    <3>2. one = [rules[s[1]] EXCEPT !.set = set]
      OBVIOUS
    <3> HIDE DEF v, set, one
    <3>3. QED
      BY <2>2, <3>1, <3>2, Changed DEF IsRule, set
  <2> HIDE DEF one
  <2>4. IsRule(Named(one, items))
    BY <2>3, Changed DEF Named, IsRule
  <2>5. QED
    BY <2>4 DEF one, OneOf
<1> HIDE DEF One, slots
<1>8. IsFiniteSet({t \in slots : WellFormed(One(t), items)})
  BY <1>5, FS_Subset
<1>9. QED
  BY <1>4, <1>6, <1>7, <1>8

(* Slots in order: each of them once. *)
SlotsInOrder(W) == InOrder(W, LAMBDA i, j : Above(j, i))
LEMMA SlotsListed ==
    ASSUME NEW W \in SUBSET (Nat \X Nat), IsFiniteSet(W), NEW list, list = SlotsInOrder(W)
    PROVE  /\ Cardinality(W) \in Nat /\ DOMAIN list = 1..Cardinality(W)
           /\ list \in Seq(W)
           /\ \A k, l \in DOMAIN list : list[k] = list[l] => k = l
           /\ \A x \in W : \E k \in DOMAIN list : list[k] = x
<1> DEFINE n == Cardinality(W)
           Before(x) == {y \in W : Above(x, y)}
           R == {p \in W \X W : Above(p[2], p[1])}
<1>1. n \in Nat
  BY FS_CardinalityType
<1>2. list = [k \in 1..n |-> CHOOSE x \in W : Cardinality(Before(x)) = k - 1]
  BY Zenon DEF SlotsInOrder, InOrder
<1>3. ASSUME NEW x \in W PROVE Before(x) = {y \in W : <<y, x>> \in R}
  OBVIOUS
<1>4. \A x, y \in W : Above(x, y) <=> x[1] > y[1] \/ (x[1] = y[1] /\ x[2] > y[2])
  BY AbovePairs
<1>5. \A x \in W : x = <<x[1], x[2]>> /\ x[1] \in Nat /\ x[2] \in Nat
  OBVIOUS
<1>6. \A x, y \in W : <<y, x>> \in R <=> Above(x, y)
  OBVIOUS
<1> HIDE DEF R
<1>7. \A x \in W : <<x, x>> \notin R
  BY <1>4, <1>5, <1>6
<1>8. \A x, y \in W : x # y => <<x, y>> \in R \/ <<y, x>> \in R
  <2> SUFFICES ASSUME NEW x \in W, NEW y \in W, x # y PROVE Above(x, y) \/ Above(y, x)
    BY <1>6
  <2>1. x[1] # y[1] \/ x[2] # y[2]
    BY <1>5
  <2>2. QED
    BY <1>4, <1>5, <2>1
<1>9. \A x, y, z \in W : <<x, y>> \in R /\ <<y, z>> \in R => <<x, z>> \in R
  BY <1>4, <1>5, <1>6
<1>10. \A k \in 1..n : \E x \in W : Cardinality({y \in W : <<y, x>> \in R}) = k - 1
  BY <1>7, <1>8, <1>9, Ranked
<1>11. \A k \in 1..n : \E x \in W : Cardinality(Before(x)) = k - 1
  <2> SUFFICES ASSUME NEW k \in 1..n PROVE \E x \in W : Cardinality(Before(x)) = k - 1
    OBVIOUS
  <2>1. PICK x \in W : Cardinality({y \in W : <<y, x>> \in R}) = k - 1
    BY <1>10
  <2>2. Cardinality(Before(x)) = k - 1
    BY <1>3, <2>1
  <2> HIDE DEF Before
  <2>3. QED
    BY <2>2
<1> HIDE DEF Before
<1>12. ASSUME NEW k \in 1..n PROVE list[k] \in W /\ Cardinality(Before(list[k])) = k - 1
  BY <1>2, <1>11
<1>13. DOMAIN list = 1..n /\ list = [k \in 1..n |-> list[k]]
  BY <1>2
<1>14. list \in Seq(W)
  BY <1>1, <1>12, <1>13
<1>15. ASSUME NEW k \in 1..n, NEW l \in 1..n, list[k] = list[l] PROVE k = l
  <2>1. k - 1 = l - 1
    BY <1>12, <1>15
  <2>2. QED
    BY <1>1, <2>1
<1>16. ASSUME NEW x \in W PROVE \E k \in 1..n : list[k] = x
  <2>1. list \in Injection(1..n, W)
    BY <1>12, <1>13, <1>15 DEF Injection, IsInjective
  <2>2. IsFiniteSet(1..n) /\ Cardinality(1..n) = n
    BY <1>1, FS_Interval
  <2>3. list \in Surjection(1..n, W)
    BY <2>1, <2>2, FS_Injection
  <2>4. QED
    BY <2>3 DEF Surjection
<1>17. QED
  BY <1>1, <1>13, <1>14, <1>15, <1>16

LEMMA RecordsAreReadable ==
    ASSUME records \in Journals, NEW rule
    PROVE  Readable(OfEvent(rule, records))
<1>1. OfEvent(rule, records) \subseteq records
  BY DEF OfEvent
<1>2. QED
  BY <1>1, JournalAssumption, FS_Subset DEF Readable

LEMMA VerifiedRules ==
    ASSUME records \in Journals,
           NEW rules, IsRules(rules), NEW kept, kept = VerifyRules(rules, records)
    PROVE  Verified(kept)
<1> DEFINE formed == Formed(rules, records)
           counted == [s \in DOMAIN formed |-> Counted(formed[s], OfEvent(formed[s], records))]
           ids == [s \in DOMAIN counted |-> MatchedBy(counted[s].rule, OfEvent(counted[s].rule, records))]
           W == Widest(counted, ids)
           order == SlotsInOrder(W)
<1>1. kept = [k \in DOMAIN order |-> counted[order[k]]]
  BY Zenon DEF VerifyRules, Kept, SlotsInOrder
<1>2. /\ IsFiniteSet(DOMAIN formed) /\ DOMAIN formed \subseteq Nat \X Nat
      /\ \A s \in DOMAIN formed : IsRule(formed[s]) /\ WellFormed(formed[s], records)
  BY FormedRules
<1> HIDE DEF formed
<1>3. /\ W \subseteq DOMAIN formed
      /\ \A s \in W : Supported(counted[s])
      /\ \A s, t \in W : (s # t /\ SameEffect(counted[s].rule, counted[t].rule)) => ~(ids[s] \subseteq ids[t])
  <2> HIDE DEF counted, ids
  <2> DEFINE sound == {s \in DOMAIN counted : Supported(counted[s])}
             Same(s, t) == SameEffect(counted[s].rule, counted[t].rule)
             unique == {s \in sound : ~\E t \in sound : Above(s, t) /\ Same(s, t) /\ ids[s] = ids[t]}
  <2>1. W = {s \in unique : ~\E t \in unique : Same(s, t) /\ ids[s] \subseteq ids[t] /\ ids[s] # ids[t]}
    BY Zenon DEF Widest
  <2>2. DOMAIN counted = DOMAIN formed
    BY DEF counted
  <2>3. W \subseteq unique /\ unique \subseteq sound /\ sound \subseteq DOMAIN formed
    BY <2>1, <2>2
  <2>4. ASSUME NEW s \in W, NEW t \in W, s # t, Same(s, t), ids[s] \subseteq ids[t] PROVE FALSE
    <3>1. ids[s] = ids[t]
      BY <2>1, <2>3, <2>4
    <3>2. Same(t, s)
      BY <2>4 DEF SameEffect
    <3>3. s \in Nat \X Nat /\ t \in Nat \X Nat
      BY <1>2, <2>3
    <3>4. Above(s, t) \/ Above(t, s)
      BY <2>4, <3>3, AbovePairs
    <3>5. s \in sound /\ t \in sound /\ s \in unique /\ t \in unique
      BY <2>3
    <3>6. QED
      BY <2>4, <3>1, <3>2, <3>4, <3>5
  <2>5. QED
    BY <2>3, <2>4
<1>4. IsFiniteSet(W) /\ W \in SUBSET (Nat \X Nat)
  <2> HIDE DEF W
  <2>1. QED
    BY <1>2, <1>3, FS_Subset
<1> HIDE DEF W
<1>5. /\ Cardinality(W) \in Nat /\ DOMAIN order = 1..Cardinality(W)
      /\ order \in Seq(W)
      /\ \A k, l \in DOMAIN order : order[k] = order[l] => k = l
  BY <1>4, SlotsListed
<1> HIDE DEF order
<1>6. \A k \in DOMAIN order : order[k] \in W /\ order[k] \in DOMAIN formed
  BY <1>3, <1>5
<1>7. kept \in Seq(Range(kept))
  <2>1. kept = [k \in 1..Cardinality(W) |-> kept[k]]
    BY <1>1, <1>5
  <2>2. QED
    BY <1>5, <2>1 DEF Range
<1>8. ASSUME NEW s \in W PROVE Accountable(counted[s])
  <2> DEFINE items == OfEvent(formed[s], records)
             f == Fitted(formed[s], items)
             st == Stats(f, items)
  <2>1. s \in DOMAIN formed /\ IsRule(formed[s]) /\ WellFormed(formed[s], records) /\ Supported(counted[s])
    BY <1>2, <1>3
  <2>2. SamePurpose(f, formed[s])
    BY <2>1, FittedKeeps
  <2>3. counted[s] = [rule |-> f, support |-> st.support, rejected |-> st.rejected, matched |-> st.matched]
    BY <2>1, Zenon DEF Counted, WithStats
  <2>4. st = [support |-> st.support, rejected |-> st.rejected, matched |-> st.matched]
    BY Zenon DEF Stats
  <2> HIDE DEF st, f, counted
  <2>5. counted[s].rule = f /\ Counts(counted[s]) = st
    BY <2>3, <2>4 DEF Counts
  <2>6. OfEvent(f, records) = items
    BY <2>2 DEF OfEvent, SamePurpose
  <2>7. Supported(Counts(counted[s]))
    BY <2>1 DEF Supported, Counts, Precision
  <2>8. st = Stats(f, items)
    BY DEF st
  <2>9. WellFormed(f, records)
    BY <2>1, FittedIsWellFormed DEF f
  <2>10. Readable(items)
    BY RecordsAreReadable
  <2>11. Simple(f) => Settled(f, items)
    <3> HIDE DEF items
    <3>1. QED
      BY <2>1, <2>10, FittedSettles DEF f
  <2>12. QED
    BY <2>2, <2>5, <2>6, <2>7, <2>8, <2>9, <2>11 DEF Accountable, SamePurpose
<1>9. \A k \in Range(kept) : Accountable(k)
  BY <1>1, <1>6, <1>8 DEF Range
<1>10. \A s \in W : ids[s] = MatchedBy(counted[s].rule, OfEvent(counted[s].rule, records))
  BY <1>3
<1> HIDE DEF ids, counted
<1>11. ASSUME NEW i \in DOMAIN kept, NEW j \in DOMAIN kept, i # j, SameEffect(kept[i].rule, kept[j].rule),
              MatchedBy(kept[i].rule, OfEvent(kept[i].rule, records))
                \subseteq MatchedBy(kept[j].rule, OfEvent(kept[j].rule, records))
       PROVE  FALSE
  <2>1. /\ order[i] \in W /\ order[j] \in W /\ order[i] # order[j]
        /\ kept[i] = counted[order[i]] /\ kept[j] = counted[order[j]]
    BY <1>1, <1>5, <1>6, <1>11
  <2>2. QED
    BY <1>3, <1>10, <1>11, <2>1
<1>12. QED
  BY <1>7, <1>9, <1>11 DEF Verified

(* Whatever a supported rule matches is matched by one of the widest rules *)
(* for the same setting.                                                   *)
LEMMA WidestCovers ==
    ASSUME NEW S, IsFiniteSet(S), NEW counted, DOMAIN counted \in SUBSET (Nat \X Nat),
           NEW ids, \A i \in DOMAIN counted : ids[i] \subseteq S,
           NEW s \in DOMAIN counted, Supported(counted[s])
    PROVE  \E u \in Widest(counted, ids) :
             SameEffect(counted[u].rule, counted[s].rule) /\ ids[s] \subseteq ids[u]
<1> DEFINE Same(i, j) == SameEffect(counted[i].rule, counted[j].rule)
           sound == {i \in DOMAIN counted : Supported(counted[i])}
           unique == {i \in sound : ~\E j \in sound : Above(i, j) /\ Same(i, j) /\ ids[i] = ids[j]}
           W == {i \in unique : ~\E j \in unique : Same(i, j) /\ ids[i] \subseteq ids[j] /\ ids[i] # ids[j]}
           wider == {i \in sound : Same(i, s) /\ ids[s] \subseteq ids[i]}
           n == Cardinality(S)
           left == {x \in Nat : \E i \in wider : x = n - Cardinality(ids[i])}
<1>1. Widest(counted, ids) = W
  BY Zenon DEF Widest
<1>2. \A i, j, l : /\ Same(i, i) /\ (Same(i, j) => Same(j, i))
                   /\ (Same(i, j) /\ Same(j, l) => Same(i, l))
  BY DEF SameEffect
<1>3. \A i \in sound : i = <<i[1], i[2]>> /\ i[1] \in Nat /\ i[2] \in Nat
  OBVIOUS
<1>4. ASSUME NEW i \in sound
      PROVE  /\ IsFiniteSet(ids[i]) /\ Cardinality(ids[i]) \in Nat /\ n \in Nat
             /\ n - Cardinality(ids[i]) \in Nat
  <2>1. IsFiniteSet(ids[i]) /\ Cardinality(ids[i]) <= n
    BY FS_Subset
  <2>2. Cardinality(ids[i]) \in Nat /\ n \in Nat
    BY <2>1, FS_CardinalityType
  <2>3. QED
    BY <2>1, <2>2
<1>5. s \in sound
  OBVIOUS
<1>6. \A i, j \in sound : Above(i, j) <=> i[1] > j[1] \/ (i[1] = j[1] /\ i[2] > j[2])
  BY AbovePairs
<1>7. wider \subseteq sound
  OBVIOUS
<1> HIDE DEF sound, Same, n
<1>8. s \in wider
  BY <1>2, <1>5
<1>9. PICK x \in left : \A y \in left : x <= y
  <2>1. n - Cardinality(ids[s]) \in left
    BY <1>4, <1>5, <1>8
  <2>2. left \in SUBSET Nat /\ left # {}
    BY <2>1
  <2> HIDE DEF left
  <2>3. QED
    BY <2>2, Least
<1>10. PICK t \in wider : x = n - Cardinality(ids[t])
  OBVIOUS
<1>11. ASSUME NEW j \in wider, ids[t] \subseteq ids[j] PROVE ids[j] = ids[t]
  <2>1. IsFiniteSet(ids[j]) /\ Cardinality(ids[j]) \in Nat /\ Cardinality(ids[t]) \in Nat /\ n \in Nat
    BY <1>4, <1>7
  <2>2. n - Cardinality(ids[j]) \in left
    BY <1>4, <1>7
  <2>3. x <= n - Cardinality(ids[j])
    BY <1>9, <2>2
  <2> HIDE DEF left
  <2>4. Cardinality(ids[j]) <= Cardinality(ids[t])
    BY <1>10, <2>1, <2>3
  <2>5. Cardinality(ids[t]) <= Cardinality(ids[j])
    BY <1>11, <2>1, FS_Subset
  <2>6. Cardinality(ids[j]) = Cardinality(ids[t])
    BY <2>1, <2>4, <2>5
  <2>7. QED
    BY <1>11, <2>1, <2>6, FS_Subset
<1> DEFINE equal == {i \in sound : Same(t, i) /\ ids[t] = ids[i]}
           rows == {i[1] : i \in equal}
<1>12. t \in equal
  BY <1>2, <1>7
<1>13. PICK a \in rows : \A b \in rows : a <= b
  <2>1. rows \in SUBSET Nat /\ rows # {}
    BY <1>3, <1>12
  <2> HIDE DEF rows
  <2>2. QED
    BY <2>1, Least
<1> DEFINE columns == {i[2] : i \in {j \in equal : j[1] = a}}
<1>14. PICK c \in columns : \A d \in columns : c <= d
  <2>1. columns \in SUBSET Nat /\ columns # {}
    BY <1>3
  <2> HIDE DEF columns
  <2>2. QED
    BY <2>1, Least
<1>15. PICK u \in equal : u[1] = a /\ u[2] = c
  OBVIOUS
<1>16. ASSUME NEW j \in equal PROVE ~Above(u, j)
  <2>1. j[1] \in rows /\ (j[1] = a => j[2] \in columns)
    OBVIOUS
  <2>2. a <= j[1] /\ (j[1] = a => c <= j[2])
    BY <1>13, <1>14, <2>1
  <2>3. u \in sound /\ j \in sound
    OBVIOUS
  <2>4. u[1] \in Nat /\ u[2] \in Nat /\ j[1] \in Nat /\ j[2] \in Nat
    BY <1>3, <2>3
  <2> HIDE DEF equal, rows, columns
  <2>5. QED
    BY <1>6, <1>15, <2>2, <2>3, <2>4
<1>17. u \in sound /\ Same(t, u) /\ ids[u] = ids[t] /\ Same(t, s) /\ ids[s] \subseteq ids[t]
  OBVIOUS
<1> HIDE DEF rows, columns, left
<1>18. u \in unique
  <2>1. ASSUME NEW j \in sound, Same(u, j), ids[u] = ids[j] PROVE ~Above(u, j)
    <3>1. j \in equal
      BY <1>2, <1>17, <2>1
    <3>2. QED
      BY <1>16, <3>1
  <2>2. QED
    BY <1>17, <2>1
<1>19. ASSUME NEW j \in unique, Same(u, j), ids[u] \subseteq ids[j] PROVE ids[u] = ids[j]
  <2>1. j \in wider
    BY <1>2, <1>17, <1>19
  <2>2. QED
    BY <1>11, <1>17, <1>19, <2>1
<1>20. u \in W /\ Same(u, s) /\ ids[s] \subseteq ids[u]
  BY <1>2, <1>17, <1>18, <1>19
<1> HIDE DEF W
<1>21. QED
  BY <1>1, <1>20 DEF Same

(* A verified rule of one threshold is formed again as it is ... *)
LEMMA FormedAgain ==
    ASSUME records \in Journals, NEW rules, NEW i \in DOMAIN rules,
           NEW k, Accountable(k), rules[i] = k.rule
    PROVE  /\ <<i, 1>> \in DOMAIN Formed(rules, records)
           /\ Formed(rules, records)[<<i, 1>>] = k.rule
<1> DEFINE rule == k.rule
           s == <<i, 1>>
<1>1. IsRule(rule) /\ WellFormed(rule, records) /\ rules[s[1]] = rule
  BY DEF Accountable
<1>2. rule.set \in Seq(Range(rule.set)) /\ Len(rule.set) = 1 /\ rule.event \in EventsOf(records)
  BY <1>1 DEF IsRule, WellFormed
<1>3. DOMAIN rule.set = {1} /\ rule.set = <<rule.set[1]>>
  BY <1>2
<1>4. [rule EXCEPT !.set = rule.set] = rule
  BY <1>1, Changed DEF IsRule
<1>5. Named(rule, records) = rule
  <2>1. CASE rule.event = NoEvent /\ Cardinality(EventsOf(records)) = 1
    <3>1. IsFiniteSet(EventsOf(records))
      <4> DEFINE f == [r \in records |-> r.event]
      <4>1. DOMAIN f = records /\ f = [r \in records |-> f[r]] /\ IsFiniteSet(records)
        BY JournalAssumption
      <4>2. EventsOf(records) = {f[r] : r \in records}
        BY DEF EventsOf
      <4> HIDE DEF f
      <4>3. QED
        BY <4>1, <4>2, FiniteImage
    <3>2. EventsOf(records) = {rule.event}
      BY <1>2, <2>1, <3>1, FS_Singleton
    <3>3. (CHOOSE e \in EventsOf(records) : TRUE) = rule.event
      BY <3>2
    <3>4. [rule EXCEPT !.event = rule.event] = rule
      BY <1>1, Changed DEF IsRule
    <3> HIDE DEF rule
    <3>5. QED
      BY <2>1, <3>3, <3>4 DEF Named
  <2>2. QED
    BY <2>1 DEF Named
<1> HIDE DEF rule
<1>6. s \in OneSettingEach(rules)
  BY <1>1, <1>3 DEF OneSettingEach
<1>7. OneOf(rules, records, s) = rule
  BY <1>1, <1>3, <1>4, <1>5 DEF OneOf
<1>8. QED
  BY <1>1, <1>6, <1>7, FormedAre DEF rule

(* ... so that verifying it again, beside any other rules, leaves a rule   *)
(* that answers the records it answered.                                   *)
LEMMA CoveredAgain ==
    ASSUME records \in Journals, NEW rules, IsRules(rules), NEW i \in DOMAIN rules,
           NEW k, Accountable(k), Simple(k.rule), rules[i] = k.rule,
           NEW r \in records, Covers(k.rule, r),
           NEW kept, kept = VerifyRules(rules, records)
    PROVE  \E n \in Range(kept) : SameEffect(n.rule, k.rule) /\ Covers(n.rule, r)
<1> DEFINE formed == Formed(rules, records)
           counted == [s \in DOMAIN formed |-> Counted(formed[s], OfEvent(formed[s], records))]
           ids == [s \in DOMAIN counted |-> MatchedBy(counted[s].rule, OfEvent(counted[s].rule, records))]
           W == Widest(counted, ids)
           order == SlotsInOrder(W)
           slot == <<i, 1>>
           items == OfEvent(k.rule, records)
<1>1. kept = [j \in DOMAIN order |-> counted[order[j]]]
  BY Zenon DEF VerifyRules, Kept, SlotsInOrder
<1>2. IsFiniteSet(DOMAIN formed) /\ DOMAIN formed \subseteq Nat \X Nat
  BY FormedRules
<1>3. slot \in DOMAIN formed /\ formed[slot] = k.rule
  BY FormedAgain
<1>4. Fitted(k.rule, items) = k.rule
  <2>1. Readable(items) /\ Settled(k.rule, items) /\ IsRule(k.rule)
    BY RecordsAreReadable DEF Accountable
  <2>2. Supported(Stats(k.rule, items))
    BY DEF Accountable
  <2> HIDE DEF items
  <2>3. QED
    BY <2>1, <2>2, FittedAgain
<1> HIDE DEF formed
<1>5. counted[slot] = WithStats(k.rule, items)
  BY <1>3, <1>4 DEF Counted
<1>6. counted[slot].rule = k.rule /\ Supported(counted[slot])
  <2>1. /\ WithStats(k.rule, items).rule = k.rule
        /\ WithStats(k.rule, items).support = Stats(k.rule, items).support
        /\ WithStats(k.rule, items).matched = Stats(k.rule, items).matched
        /\ WithStats(k.rule, items).rejected = Stats(k.rule, items).rejected
    BY DEF WithStats
  <2>2. Supported(Stats(k.rule, items))
    BY DEF Accountable
  <2>3. Supported(WithStats(k.rule, items))
    BY <2>1, <2>2 DEF Supported, Precision
  <2>4. QED
    BY <1>5, <2>1, <2>3
<1>7. DOMAIN counted = DOMAIN formed /\ DOMAIN ids = DOMAIN formed
  OBVIOUS
<1>8. \A s \in DOMAIN formed : ids[s] = MatchedBy(counted[s].rule, OfEvent(counted[s].rule, records))
  OBVIOUS
<1> HIDE DEF counted, ids
<1>9. \A s \in DOMAIN counted : ids[s] \subseteq records
  BY <1>7, <1>8 DEF MatchedBy, OfEvent
<1>10. IsFiniteSet(records)
  BY JournalAssumption
<1>11. PICK u \in W : SameEffect(counted[u].rule, k.rule) /\ ids[slot] \subseteq ids[u]
  <2>1. slot \in DOMAIN counted /\ DOMAIN counted \in SUBSET (Nat \X Nat)
    BY <1>2, <1>3, <1>7
  <2> HIDE DEF slot
  <2>2. \E u \in W : SameEffect(counted[u].rule, counted[slot].rule) /\ ids[slot] \subseteq ids[u]
    BY <1>6, <1>9, <1>10, <2>1, WidestCovers
  <2>3. QED
    BY <1>6, <2>2
<1>12. W \subseteq DOMAIN formed
  BY <1>7, Zenon DEF Widest
<1>13. IsFiniteSet(W) /\ W \in SUBSET (Nat \X Nat)
  <2> HIDE DEF W
  <2>1. QED
    BY <1>2, <1>12, FS_Subset
<1> HIDE DEF W
<1>14. \E j \in DOMAIN order : order[j] = u
  BY <1>11, <1>13, SlotsListed
<1> HIDE DEF order
<1>15. counted[u] \in Range(kept)
  BY <1>1, <1>14 DEF Range
<1>16. Covers(counted[u].rule, r)
  <2>1. r \in ids[slot]
    BY <1>3, <1>6, <1>8 DEF Covers, MatchedBy, OfEvent
  <2>2. r \in ids[u]
    BY <1>11, <2>1
  <2>3. Matches(counted[u].rule, r.fields) /\ r.event = counted[u].rule.event
    BY <1>8, <1>11, <1>12, <2>2 DEF MatchedBy, OfEvent
  <2>4. RuleChange(counted[u].rule) = RuleChange(k.rule)
    BY <1>11 DEF SameEffect
  <2>5. QED
    BY <2>3, <2>4 DEF Covers
<1>17. QED
  BY <1>11, <1>15, <1>16

(* Rules of one threshold stay rules of one threshold. *)
LEMMA SimpleStays ==
    ASSUME records \in Journals, NEW rules, IsRules(rules), \A i \in DOMAIN rules : Simple(rules[i]),
           NEW kept, kept = VerifyRules(rules, records)
    PROVE  \A n \in Range(kept) : Simple(n.rule)
<1> DEFINE formed == Formed(rules, records)
           counted == [s \in DOMAIN formed |-> Counted(formed[s], OfEvent(formed[s], records))]
           ids == [s \in DOMAIN counted |-> MatchedBy(counted[s].rule, OfEvent(counted[s].rule, records))]
           W == Widest(counted, ids)
           order == SlotsInOrder(W)
<1>1. kept = [j \in DOMAIN order |-> counted[order[j]]]
  BY Zenon DEF VerifyRules, Kept, SlotsInOrder
<1>2. /\ IsFiniteSet(DOMAIN formed) /\ DOMAIN formed \subseteq Nat \X Nat
      /\ \A s \in DOMAIN formed : IsRule(formed[s])
  BY FormedRules
<1>3. ASSUME NEW s \in DOMAIN formed PROVE Simple(formed[s])
  <2>1. s \in OneSettingEach(rules) /\ formed[s] = OneOf(rules, records, s)
    BY FormedAre
  <2>2. s[1] \in DOMAIN rules
    BY <2>1 DEF OneSettingEach
  <2> DEFINE set == <<rules[s[1]].set[s[2]]>>
             one == [rules[s[1]] EXCEPT !.set = set]
  <2>3. one.when = rules[s[1]].when /\ Named(one, records).when = one.when
    <3>1. IsRule(rules[s[1]])
      BY <2>2 DEF IsRules
    <3> HIDE DEF set
    <3> DEFINE from == rules[s[1]]
    <3>2. one = [event |-> from.event, when |-> from.when, any |-> from.any, tool |-> from.tool, set |-> set]
      BY <3>1, Changed
    <3> HIDE DEF one, from
    <3>3. one.when = from.when /\ \A e : [one EXCEPT !.event = e].when = one.when
      BY <3>2
    <3>4. QED
      BY <3>3 DEF Named, from
  <2>4. formed[s].when = rules[s[1]].when
    BY <2>1, <2>3 DEF OneOf
  <2>5. Thresholds(formed[s]) = Thresholds(rules[s[1]])
    BY <2>4 DEF Thresholds
  <2>6. QED
    BY <2>2, <2>5 DEF Simple
<1> HIDE DEF formed
<1>4. ASSUME NEW s \in DOMAIN formed PROVE Simple(counted[s].rule)
  <2> DEFINE items == OfEvent(formed[s], records)
  <2>1. counted[s].rule = Fitted(formed[s], items)
    BY DEF Counted, WithStats
  <2>2. Readable(items)
    BY RecordsAreReadable
  <2> HIDE DEF items, counted
  <2>3. QED
    BY <1>2, <1>3, <2>1, <2>2, FittedSettles
<1>5. W \subseteq DOMAIN formed
  <2>1. DOMAIN counted = DOMAIN formed
    OBVIOUS
  <2> HIDE DEF counted, ids
  <2>2. QED
    BY <2>1, Zenon DEF Widest
<1> HIDE DEF counted, W
<1>6. IsFiniteSet(W) /\ W \in SUBSET (Nat \X Nat)
  BY <1>2, <1>5, FS_Subset
<1>7. \A j \in DOMAIN order : order[j] \in W
  BY <1>6, SlotsListed
<1> HIDE DEF order
<1>8. QED
  BY <1>1, <1>4, <1>5, <1>7 DEF Range

-----------------------------------------------------------------------------
(* Sequences of rules. *)
LEMMA NoRules == IsRules(<<>>)
<1>1. <<>> \in Seq({}) /\ DOMAIN <<>> = {}
  OBVIOUS
<1>2. Range(<<>>) = {}
  BY DEF Range
<1>3. QED
  BY <1>1, <1>2 DEF IsRules

LEMMA OneRule == ASSUME NEW rule, IsRule(rule) PROVE IsRules(<<rule>>)
<1>1. <<rule>> \in Seq({rule}) /\ DOMAIN <<rule>> = {1} /\ <<rule>>[1] = rule
  OBVIOUS
<1>2. Range(<<rule>>) = {rule}
  BY <1>1 DEF Range
<1>3. QED
  BY <1>1, <1>2 DEF IsRules

LEMMA RulesConcat ==
    ASSUME NEW s, NEW t, IsRules(s), IsRules(t)
    PROVE  IsRules(s \o t)
<1> DEFINE S == Range(s) \cup Range(t)
<1>1. s \in Seq(S) /\ t \in Seq(S)
  BY DEF IsRules
<1>2. \A x \in S : IsRule(x)
  BY DEF IsRules, Range
<1> HIDE DEF S
<1>3. s \o t \in Seq(S)
  BY <1>1
<1> DEFINE u == s \o t
<1>4. u \in Seq(S)
  BY <1>3
<1> HIDE DEF u
<1>5. u \in Seq(Range(u)) /\ \A i \in DOMAIN u : u[i] \in S
  BY <1>4, RangeSeq
<1>6. QED
  BY <1>2, <1>5 DEF IsRules, u

LEMMA RulesAppend ==
    ASSUME NEW s, IsRules(s), NEW rule, IsRule(rule)
    PROVE  IsRules(Append(s, rule))
<1> DEFINE S == Range(s) \cup {rule}
           u == Append(s, rule)
<1>1. s \in Seq(S)
  BY DEF IsRules
<1>2. \A x \in S : IsRule(x)
  BY DEF IsRules, Range
<1> HIDE DEF S
<1>3. rule \in S
  BY DEF S
<1>4. u \in Seq(S)
  BY <1>1, <1>3
<1> HIDE DEF u
<1>5. u \in Seq(Range(u)) /\ \A i \in DOMAIN u : u[i] \in S
  BY <1>4, RangeSeq
<1>6. QED
  BY <1>2, <1>5 DEF IsRules, u

(* Induction adds rules to rules. *)
LEMMA InduceOneKeeps ==
    ASSUME NEW effect, NEW rules, NEW new, IsRules(new), NEW items
    PROVE  IsRules(InduceOne(effect, rules, new, items))
<1> DEFINE covering == Covering(effect, rules) \cup Range(new)
           missed == Missed(effect, covering, items)
           pool == missed \cup {r \in items : r.event = effect[1] /\ effect[2] \notin Changes(r)}
           set == <<[key |-> effect[2].key, value |-> effect[2].value]>>
           empty == [event |-> effect[1], when |-> <<>>, any |-> <<>>, tool |-> effect[2].tool, set |-> set]
           first == OrElse(Tighten(empty, pool, 0), OrElse(Categorical(empty, pool), empty))
           rule == Sharpened(first, pool)
<1>1. InduceOne(effect, rules, new, items) \in {new, Append(new, rule)}
  BY Zenon DEF InduceOne
<1>2. IsRule(empty)
  <2>1. <<>> \in Seq({})
    OBVIOUS
  <2>2. <<>> \in Seq(Range(<<>>))
    BY <2>1, RangeSeq
  <2> DEFINE c == [key |-> effect[2].key, value |-> effect[2].value]
  <2>3. set = <<c>>
    OBVIOUS
  <2> HIDE DEF set, c
  <2>4. set \in Seq({c})
    BY <2>3
  <2>5. set \in Seq(Range(set))
    BY <2>4, RangeSeq
  <2>6. QED
    BY <2>2, <2>5 DEF IsRule
<1> HIDE DEF empty, pool
<1>3. IsRule(first)
  BY <1>2, Chosen, TightenKeeps, CategoricalKeeps DEF SamePurpose
<1> HIDE DEF first
<1>4. IsRule(rule)
  <2>1. rule \in BestThreshold(first, pool) \cup {first}
    BY Chosen DEF Sharpened
  <2> HIDE DEF rule
  <2>2. QED
    BY <1>3, <2>1, BestThresholdKeeps DEF SamePurpose
<1> HIDE DEF rule
<1>5. QED
  BY <1>1, <1>4, RulesAppend

(* A setting is bound to a field of the payload that has its value. *)
LEMMA BoundToCopy ==
    ASSUME NEW r, NEW v, NEW f \in Bound(r, v)
    PROVE  \E i \in DOMAIN r.payload : f = r.payload[i].field /\ r.payload[i].value = v
BY Zenon DEF Bound, FirstOf

(* The effects are finitely many. *)
LEMMA EffectsFinite == ASSUME NEW items \in Journals PROVE IsFiniteSet(Effects(items))
<1>1. /\ IsFiniteSet(items)
      /\ \A r \in items : IsFiniteSet(DOMAIN r.payload) /\ IsFiniteSet(r.calls)
  BY JournalAssumption
<1>2. ASSUME NEW r \in items PROVE IsFiniteSet(CallChanges(r))
  <2> DEFINE Is(c) == [tool |-> c.tool, key |-> c.key, value |-> <<"is", c.value>>]
             From(c, i) == [tool |-> c.tool, key |-> c.key, value |-> <<"from", r.payload[i].field>>]
             is == [c \in r.calls |-> Is(c)]
             from == [p \in r.calls \X DOMAIN r.payload |-> From(p[1], p[2])]
             all == {is[c] : c \in r.calls} \cup {from[p] : p \in r.calls \X DOMAIN r.payload}
  <2>1. IsFiniteSet({is[c] : c \in r.calls})
    <3>1. DOMAIN is = r.calls /\ is = [c \in r.calls |-> is[c]]
      OBVIOUS
    <3> HIDE DEF is
    <3>2. QED
      BY <1>1, <3>1, FiniteImage
  <2>2. IsFiniteSet({from[p] : p \in r.calls \X DOMAIN r.payload})
    <3> DEFINE P == r.calls \X DOMAIN r.payload
    <3>1. DOMAIN from = P /\ from = [p \in P |-> from[p]]
      OBVIOUS
    <3>2. IsFiniteSet(P)
      BY <1>1, FS_Product
    <3> HIDE DEF from, P
    <3>3. IsFiniteSet({from[p] : p \in P})
      BY <3>1, <3>2, FiniteImage
    <3>4. QED
      BY <3>3 DEF P
  <2>3. IsFiniteSet(all)
    BY <2>1, <2>2, FS_Union
  <2>4. ASSUME NEW x \in CallChanges(r)
        PROVE  \E c \in r.calls : x = Is(c) \/ \E i \in DOMAIN r.payload : x = From(c, i)
    <3>1. \E c \in r.calls : x = Is(c) \/ \E f \in Bound(r, c.value) :
                                             x = [tool |-> c.tool, key |-> c.key, value |-> <<"from", f>>]
      BY Zenon DEF CallChanges
    <3>2. ASSUME NEW c \in r.calls, NEW f \in Bound(r, c.value)
          PROVE  \E i \in DOMAIN r.payload : f = r.payload[i].field
      BY BoundToCopy
    <3>3. QED
      BY <3>1, <3>2, Zenon
  <2>5. ASSUME NEW c \in r.calls PROVE Is(c) \in all /\ \A i \in DOMAIN r.payload : From(c, i) \in all
    <3>1. is[c] = Is(c) /\ \A i \in DOMAIN r.payload : from[<<c, i>>] = From(c, i)
      OBVIOUS
    <3> HIDE DEF is, from, Is, From
    <3>2. QED
      BY <3>1
  <2> HIDE DEF all, Is, From
  <2>6. CallChanges(r) \subseteq all
    BY <2>4, <2>5
  <2>7. QED
    BY <2>3, <2>6, FS_Subset
<1>3. ASSUME NEW r \in items PROVE IsFiniteSet(Changes(r))
  BY <1>2, FS_EmptySet DEF Changes
<1> DEFINE row == [r \in items |-> {<<r.event, c>> : c \in Changes(r)}]
           rows == {row[r] : r \in items}
<1>4. ASSUME NEW r \in items PROVE IsFiniteSet({<<r.event, c>> : c \in Changes(r)})
  <2> DEFINE pair == [c \in Changes(r) |-> <<r.event, c>>]
  <2>1. IsFiniteSet({pair[c] : c \in Changes(r)})
    <3>1. DOMAIN pair = Changes(r) /\ pair = [c \in Changes(r) |-> pair[c]]
      OBVIOUS
    <3> HIDE DEF pair
    <3>2. QED
      BY <1>3, <3>1, FiniteImage
  <2>2. QED
    BY <2>1
<1>5. IsFiniteSet(rows) /\ \A T \in rows : IsFiniteSet(T)
  <2>1. DOMAIN row = items /\ row = [r \in items |-> row[r]]
    OBVIOUS
  <2>2. \A r \in items : IsFiniteSet(row[r])
    BY <1>4
  <2> HIDE DEF row
  <2>3. QED
    BY <1>1, <2>1, <2>2, FiniteImage
<1>6. Effects(items) = UNION rows
  BY DEF Effects
<1>7. QED
  BY <1>5, <1>6, FS_UNION

-----------------------------------------------------------------------------
(* Induction over the effects, those made most often first, is defined ... *)
MostOften(S, items) ==
    CHOOSE e \in S : \A d \in S : Cardinality(Examples(d, items)) <= Cardinality(Examples(e, items))
ThreeRules(e, rules, items) ==
    InduceOne(e, rules, InduceOne(e, rules, InduceOne(e, rules, <<>>, items), items), items)
InduceSteps(D, rules, items, f) ==
    f = [S \in D |-> IF S = {} THEN <<>>
                     ELSE ThreeRules(MostOften(S, items), rules, items) \o f[S \ {MostOften(S, items)}]]

LEMMA MostOftenIsMember ==
    ASSUME NEW items \in Journals, NEW S, S # {}
    PROVE  MostOften(S, items) \in S
<1> DEFINE Often(e) == Cardinality(Examples(e, items))
           n == Cardinality(items)
           gaps == {i \in Nat : \E e \in S : i = n - Often(e)}
<1>1. n \in Nat
  BY JournalAssumption, FS_CardinalityType
<1>2. ASSUME NEW e PROVE Often(e) \in Nat /\ Often(e) <= n
  <2>1. Examples(e, items) \subseteq items
    BY DEF Examples
  <2>2. IsFiniteSet(Examples(e, items)) /\ Often(e) <= n
    BY <2>1, JournalAssumption, FS_Subset
  <2>3. QED
    BY <2>2, FS_CardinalityType
<1> HIDE DEF n, Often
<1>3. PICK e \in S : TRUE
  OBVIOUS
<1>4. n - Often(e) \in gaps
  BY <1>1, <1>2
<1>5. PICK i \in gaps : \A j \in gaps : i <= j
  <2>1. gaps \in SUBSET Nat /\ gaps # {}
    BY <1>4
  <2> HIDE DEF gaps
  <2>2. QED
    BY <2>1, Least
<1>6. PICK m \in S : i = n - Often(m)
  OBVIOUS
<1>7. ASSUME NEW d \in S PROVE Often(d) <= Often(m)
  <2>1. Often(d) \in Nat /\ Often(m) \in Nat /\ Often(d) <= n
    BY <1>2
  <2>2. n - Often(d) \in gaps
    BY <1>1, <2>1
  <2>3. i <= n - Often(d)
    BY <1>5, <2>2
  <2> HIDE DEF gaps
  <2>4. QED
    BY <1>1, <1>6, <2>1, <2>3
<1>8. QED
  BY <1>7 DEF MostOften, Often

LEMMA InduceDefined ==
    ASSUME NEW items \in Journals, NEW rules, NEW E, IsFiniteSet(E)
    PROVE  \E f : InduceSteps(SUBSET E, rules, items, f)
<1> DEFINE D(n) == {S \in SUBSET E : Cardinality(S) <= n}
           Steps(n, f) == InduceSteps(D(n), rules, items, f)
           bad == {n \in Nat : ~\E f : Steps(n, f)}
           M(S) == MostOften(S, items)
           Three(S) == ThreeRules(M(S), rules, items)
<1>1. ASSUME NEW S \in SUBSET E, S # {}
      PROVE  /\ IsFiniteSet(S) /\ Cardinality(S) \in Nat \ {0}
             /\ S \ {M(S)} \in SUBSET E /\ Cardinality(S \ {M(S)}) = Cardinality(S) - 1
  <2>1. IsFiniteSet(S) /\ M(S) \in S
    BY <1>1, FS_Subset, MostOftenIsMember
  <2>2. QED
    BY <1>1, <2>1, FS_RemoveElement, FS_CardinalityType, FS_EmptySet
<1>2. ASSUME NEW n \in Nat, NEW S \in D(n)
      PROVE  S = {} \/ (S # {} /\ n - 1 \in Nat /\ S \ {M(S)} \in D(n - 1))
  <2>1. ASSUME S # {} PROVE n - 1 \in Nat /\ S \ {M(S)} \in D(n - 1)
    <3>1. Cardinality(S) \in Nat \ {0} /\ Cardinality(S) <= n
      BY <1>1, <2>1
    <3>2. S \ {M(S)} \in SUBSET E /\ Cardinality(S \ {M(S)}) = Cardinality(S) - 1
      BY <1>1, <2>1
    <3>3. n - 1 \in Nat /\ Cardinality(S) - 1 <= n - 1
      BY <3>1
    <3>4. QED
      BY <3>2, <3>3
  <2>2. QED
    BY <2>1
<1> HIDE DEF M, Three
<1>3. ASSUME bad # {} PROVE FALSE
  <2> HIDE DEF Steps
  <2>1. PICK m \in bad : \A j \in bad : m <= j
    <3>1. bad \in SUBSET Nat
      OBVIOUS
    <3> HIDE DEF bad
    <3>2. QED
      BY <1>3, <3>1, Least
  <2>1a. m \in Nat
    OBVIOUS
  <2> DEFINE next(f) == [S \in D(m) |-> IF S = {} THEN <<>> ELSE Three(S) \o f[S \ {M(S)}]]
  <2>2. ASSUME m = 0 PROVE Steps(m, next(<<>>))
    <3>1. \A S \in D(m) : S = {}
      <4> HIDE DEF D, bad, next
      <4>1. \A S \in D(m) : S = {} \/ m - 1 \in Nat
        BY <1>2, <2>1a
      <4>2. m - 1 \notin Nat
        BY <2>2
      <4>3. QED
        BY <4>1, <4>2
    <3>2. \A f : next(f) = [S \in D(m) |-> <<>>]
      BY <3>1
    <3> HIDE DEF D, next
    <3>3. next(<<>>) = next(next(<<>>))
      BY <3>2
    <3>4. QED
      BY <3>3 DEF Steps, InduceSteps, next, Three, M
  <2>3. ASSUME m # 0 PROVE \E g : Steps(m, g)
    <3>1. m - 1 \in Nat /\ m - 1 \notin bad
      <4> HIDE DEF bad
      <4>1. QED
        BY <2>1a, <2>1, <2>3
    <3>2. PICK f : Steps(m - 1, f)
      BY <3>1
    <3>3. f = [S \in D(m - 1) |-> IF S = {} THEN <<>> ELSE Three(S) \o f[S \ {M(S)}]]
      BY <3>2 DEF Steps, InduceSteps, Three, M
    <3>4. \A S \in D(m - 1) : S \in D(m)
      <4>1. \A S \in SUBSET E : Cardinality(S) \in Nat
        BY FS_Subset, FS_CardinalityType
      <4>3. \A k \in Nat : k <= m - 1 => k <= m
        BY <2>1a
      <4>4. QED
        BY <4>1, <4>3
    <3> HIDE DEF D
    <3> DEFINE g == next(f)
    <3>5. \A S \in D(m - 1) : g[S] = f[S]
      BY <3>3, <3>4
    <3>6. \A S \in D(m) : S # {} => g[S \ {M(S)}] = f[S \ {M(S)}]
      <4> HIDE DEF g
      <4>1. QED
        BY <1>2, <2>1, <3>5
    <3>7. g = next(g)
      <4>1. \A S \in D(m) : g[S] = IF S = {} THEN <<>> ELSE Three(S) \o f[S \ {M(S)}]
        OBVIOUS
      <4>2. g = [S \in D(m) |-> g[S]]
        OBVIOUS
      <4> HIDE DEF g
      <4>3. \A S \in D(m) : g[S] = IF S = {} THEN <<>> ELSE Three(S) \o g[S \ {M(S)}]
        BY <3>6, <4>1
      <4>4. QED
        BY <4>2, <4>3
    <3> HIDE DEF g
    <3>8. Steps(m, g)
      BY <3>7 DEF Steps, InduceSteps, next, Three, M
    <3>9. QED
      BY <3>8
  <2>4. QED
    <3> HIDE DEF Steps, next
    <3>1. QED
      BY <2>1, <2>2, <2>3
<1> DEFINE n == Cardinality(E)
<1>4. n \in Nat
  BY FS_CardinalityType
<1>5. D(n) = SUBSET E
  BY FS_Subset
<1>6. \E f : Steps(n, f)
  BY <1>3, <1>4
<1>7. QED
  BY <1>5, <1>6

(* ... and gives rules. *)
LEMMA InducedRules ==
    ASSUME NEW items \in Journals, NEW rules
    PROVE  IsRules(InduceMissingRules(rules, items))
<1> DEFINE E == Effects(items)
           f == CHOOSE g : InduceSteps(SUBSET E, rules, items, g)
           M(S) == MostOften(S, items)
<1>1. IsFiniteSet(E)
  BY EffectsFinite
<1>2. InduceMissingRules(rules, items) = f[E]
  BY DEF InduceMissingRules, MapThenFoldSet, InduceSteps, MostOften, ThreeRules
<1> HIDE DEF E
<1>3. InduceSteps(SUBSET E, rules, items, f)
  BY <1>1, InduceDefined
<1> HIDE DEF f
<1>4. ASSUME NEW S \in SUBSET E
      PROVE  /\ S = {} => f[S] = <<>>
             /\ S # {} => f[S] = ThreeRules(M(S), rules, items) \o f[S \ {M(S)}]
  BY <1>3 DEF InduceSteps
<1>5. ASSUME NEW e PROVE IsRules(ThreeRules(e, rules, items))
  BY NoRules, InduceOneKeeps DEF ThreeRules
<1> DEFINE Good(S) == IsRules(f[S])
           bad == {n \in Nat : \E S \in SUBSET E : Cardinality(S) = n /\ ~Good(S)}
<1>6. ASSUME bad # {} PROVE FALSE
  <2>1. PICK m \in bad : \A j \in bad : m <= j
    <3>1. bad \in SUBSET Nat
      OBVIOUS
    <3> HIDE DEF bad
    <3>2. QED
      BY <1>6, <3>1, Least
  <2>2. PICK S \in SUBSET E : Cardinality(S) = m /\ ~Good(S)
    BY <2>1
  <2>3. S # {}
    BY <1>4, <2>2, NoRules
  <2>4. IsFiniteSet(S) /\ M(S) \in S
    BY <1>1, <2>3, FS_Subset, MostOftenIsMember
  <2>5. S \ {M(S)} \in SUBSET E /\ Cardinality(S \ {M(S)}) = m - 1 /\ m - 1 \in Nat
    <3>1. IsFiniteSet(S \ {M(S)}) /\ Cardinality(S \ {M(S)}) = Cardinality(S) - 1
      BY <2>4, FS_RemoveElement
    <3>2. QED
      BY <2>2, <3>1, FS_CardinalityType
  <2>6. m - 1 \notin bad
    BY <2>1, <2>5
  <2>7. Good(S \ {M(S)})
    BY <2>5, <2>6
  <2>8. IsRules(ThreeRules(M(S), rules, items) \o f[S \ {M(S)}])
    BY <1>5, <2>7, RulesConcat
  <2>9. f[S] = ThreeRules(M(S), rules, items) \o f[S \ {M(S)}]
    BY <1>4, <2>3
  <2>10. QED
    BY <2>2, <2>8, <2>9
<1>7. \A S \in SUBSET E : Cardinality(S) \in Nat => Good(S)
  BY <1>6
<1>8. Good(E)
  BY <1>1, <1>7, FS_CardinalityType
<1>9. QED
  BY <1>2, <1>8

-----------------------------------------------------------------------------
(* The steps of a learning run. *)
LEMMA VerifiedStays ==
    ASSUME NEW kept, Verified(kept), accepted' = kept, records' = records
    PROVE  Verified(accepted)'
  BY DEF Verified, Accountable

LEMMA NothingVerified == Verified(<<>>)
<1>1. DOMAIN <<>> = {} /\ Range(<<>>) = {} /\ <<>> \in Seq({})
  BY DEF Range
<1>2. QED
  BY <1>1 DEF Verified

LEMMA PlainRules == ASSUME NEW kept, Verified(kept) PROVE IsRules(Plain(kept))
<1> DEFINE S == {k.rule : k \in Range(kept)}
           plain == Plain(kept)
<1>1. kept \in Seq(Range(kept)) /\ \A k \in Range(kept) : IsRule(k.rule)
  BY DEF Verified, Accountable
<1>2. /\ Len(kept) \in Nat /\ DOMAIN kept = 1..Len(kept)
      /\ \A n \in DOMAIN kept : kept[n] \in Range(kept)
  BY <1>1
<1>3. plain = [n \in 1..Len(kept) |-> kept[n].rule]
  BY <1>2 DEF Plain
<1>4. \A n \in 1..Len(kept) : kept[n].rule \in S
  BY <1>2
<1>5. plain \in Seq(S)
  <2> HIDE DEF S, plain
  <2>1. QED
    BY <1>2, <1>3, <1>4
<1> HIDE DEF plain
<1>6. plain \in Seq(Range(plain)) /\ \A n \in DOMAIN plain : plain[n] \in S
  BY <1>5, RangeSeq
<1>7. QED
  BY <1>1, <1>6 DEF IsRules, plain

LEMMA ConcludeKeeps ==
    ASSUME RulesInv, stage \in {"ask", "refine"}, NEW rules, Verified(rules), Conclude(rules),
           UNCHANGED <<records, existing>>
    PROVE  RulesInv'
<1> DEFINE induced == InduceMissingRules(Plain(rules), records)
           final == IF induced = <<>> THEN rules ELSE VerifyRules(Plain(rules) \o induced, records)
           text == RenderSkill(final, existing)
<1>1. /\ accepted' = final
      /\ \/ stage' = "done" /\ skill' = text
         \/ skill' = skill
  BY Zenon DEF Conclude, RejectOutput
<1>2. skill = NoSkill
  BY DEF RulesInv, Staged
<1>3. IsRules(induced) /\ IsRules(Plain(rules))
  BY InducedRules, PlainRules DEF RulesInv
<1>4. Verified(final)
  <2> HIDE DEF induced
  <2>1. IsRules(Plain(rules) \o induced)
    BY <1>3, RulesConcat
  <2>2. Verified(VerifyRules(Plain(rules) \o induced, records))
    BY <2>1, VerifiedRules DEF RulesInv
  <2>3. QED
    BY <2>2
<1>5. records' = records /\ existing' = existing
  OBVIOUS
<1> HIDE DEF final
<1>6. Verified(accepted)'
  BY <1>1, <1>4, <1>5, VerifiedStays
<1>7. Staged'
  BY <1>1, <1>2, <1>5 DEF Staged, NoSkill
<1>8. QED
  BY <1>5, <1>6, <1>7 DEF RulesInv

LEMMA RulesInvInductive == Spec => []RulesInv
<1>1. Init => RulesInv
  BY NothingVerified DEF Init, RulesInv, Staged
<1>2. ASSUME RulesInv, [Next]_vars PROVE RulesInv'
  <2>1. ASSUME NEW reply \in Replies, Propose(reply) PROVE RulesInv'
    <3> DEFINE kept == IF reply = Garbled THEN <<>> ELSE VerifyRules(reply, records)
    <3>1. /\ stage = "ask" /\ records' = records /\ existing' = existing
          /\ \/ RejectOutput /\ accepted' = <<>>
             \/ Conclude(kept)
             \/ stage' = "refine" /\ accepted' = kept /\ skill' = skill
      BY <2>1, Zenon DEF Propose
    <3>2. Verified(kept)
      BY <1>2, ReplyAssumption, VerifiedRules, NothingVerified DEF RulesInv
    <3>3. skill = NoSkill
      BY <1>2, <3>1 DEF RulesInv, Staged
    <3> HIDE DEF kept
    <3>4. ASSUME skill' = skill, NEW k, Verified(k), accepted' = k PROVE RulesInv'
      BY <1>2, <3>1, <3>3, <3>4, VerifiedStays DEF RulesInv, Staged
    <3>5. QED
      BY <1>2, <3>1, <3>2, <3>4, ConcludeKeeps, NothingVerified DEF RejectOutput
  <2>2. ASSUME NEW reply \in Replies, Refine(reply) PROVE RulesInv'
    <3> DEFINE both == VerifyRules(Plain(accepted) \o reply, records)
               refined == IF reply = Garbled THEN accepted ELSE both
               better == IF Len(refined) >= Len(accepted) THEN refined ELSE accepted
    <3>1. stage = "refine" /\ records' = records /\ existing' = existing /\ Conclude(better)
      BY <2>2, Zenon DEF Refine
    <3>2. ASSUME reply # Garbled PROVE Verified(both)
      <4>1. IsRules(reply) /\ IsRules(Plain(accepted))
        BY <1>2, <3>2, ReplyAssumption, PlainRules DEF RulesInv
      <4>2. IsRules(Plain(accepted) \o reply)
        BY <4>1, RulesConcat
      <4>3. QED
        BY <1>2, <4>2, VerifiedRules DEF RulesInv
    <3>3. Verified(accepted)
      BY <1>2 DEF RulesInv
    <3> HIDE DEF both
    <3>4. Verified(better)
      BY <3>2, <3>3
    <3> HIDE DEF better
    <3>5. QED
      BY <1>2, <3>1, <3>4, ConcludeKeeps
  <2>3. CASE CompleteFails
    BY <1>2, <2>3, VerifiedStays DEF CompleteFails, RulesInv, Staged
  <2>4. CASE UNCHANGED vars
    BY <1>2, <2>4, VerifiedStays DEF vars, RulesInv, Staged
  <2>5. QED
    BY <1>2, <2>1, <2>2, <2>3, <2>4 DEF Next, LearnSkill, Finished
<1>3. QED
  BY <1>1, <1>2, PTL DEF Spec

-----------------------------------------------------------------------------
(* The operator reads, beside every rule, the counts of the records, and   *)
(* they are good enough to propose it: what verify_rules guarantees is     *)
(* never undone by the second reply or by induction.                       *)
THEOREM CountsStayTrue == Spec => []CountsAreTrue
<1>1. RulesInv => CountsAreTrue
  BY DEF RulesInv, Verified, Accountable, CountsAreTrue
<1>2. QED
  BY <1>1, RulesInvInductive, PTL

(* No rule of a skill repeats another: of two rules for one setting,       *)
(* neither matches all the records the other matches (verify_rules).       *)
THEOREM NoRedundantRule == Spec => []NoRuleIsRedundant
<1>1. RulesInv => NoRuleIsRedundant
  BY DEF RulesInv, Verified, NoRuleIsRedundant
<1>2. QED
  BY <1>1, RulesInvInductive, PTL

-----------------------------------------------------------------------------
(* Rendering, section by section. *)
SectionOf(kept, e) ==
    LET ordered == InOrder({i \in DOMAIN kept : kept[i].rule.event = e},
                           LAMBDA i, j : \/ kept[i].support > kept[j].support
                                         \/ kept[i].support = kept[j].support /\ i < j)
    IN [n \in DOMAIN ordered |-> kept[ordered[n]].rule]

RenderedFrom(kept, old, text, relearnt, used) ==
    /\ text.tools = used \cup Reads(used, kept)
    /\ DOMAIN text.sections = relearnt \cup Unchanged(old, relearnt)
    /\ \A e \in Unchanged(old, relearnt) : text.sections[e] = old.sections[e]
    /\ \A e \in relearnt :
         DOMAIN text.sections[e] = 1..Cardinality({i \in DOMAIN kept : kept[i].rule.event = e})

LEMMA Rendered ==
    ASSUME NEW kept, NEW old, NEW text, text = RenderSkill(kept, old)
    PROVE  RenderedFrom(kept, old, text, {k.rule.event : k \in Range(kept)},
                        {k.rule.tool : k \in Range(kept)} \cup old.tools)
<1> DEFINE relearnt == {k.rule.event : k \in Range(kept)}
           used == {k.rule.tool : k \in Range(kept)} \cup old.tools
           kind(e) == IF e \in relearnt THEN SectionOf(kept, e) ELSE old.sections[e]
           sections == [e \in relearnt \cup Unchanged(old, relearnt) |-> kind(e)]
<1>1. text = [tools |-> used \cup Reads(used, kept), sections |-> sections]
  BY DEF RenderSkill, SectionOf
<1>2. \A e : DOMAIN SectionOf(kept, e) = 1..Cardinality({i \in DOMAIN kept : kept[i].rule.event = e})
  BY DEF SectionOf, InOrder
<1>3. \A e \in Unchanged(old, relearnt) : e \notin relearnt
  BY DEF Unchanged
<1> HIDE DEF used, relearnt
<1>4. \A e \in relearnt : sections[e] = SectionOf(kept, e)
  OBVIOUS
<1>5. \A e \in Unchanged(old, relearnt) : sections[e] = old.sections[e]
  BY <1>3
<1>6. DOMAIN sections = relearnt \cup Unchanged(old, relearnt)
  OBVIOUS
<1> HIDE DEF sections
<1>7. text.tools = used \cup Reads(used, kept) /\ text.sections = sections
  BY <1>1
<1>8. QED
  BY <1>2, <1>4, <1>5, <1>6, <1>7 DEF RenderedFrom, used, relearnt

(* Learning again for one event type loses nothing that was taught about   *)
(* another (render_skill keeps the sections it does not write, and the     *)
(* tools that were listed).                                                *)
THEOREM OtherSectionsStay == Spec => []NotRelearntIsKept
<1>1. RulesInv => NotRelearntIsKept
  <2> SUFFICES ASSUME RulesInv, skill # NoSkill PROVE NotRelearntIsKept
    BY DEF NotRelearntIsKept
  <2> DEFINE relearnt == {k.rule.event : k \in Range(accepted)}
             used == {k.rule.tool : k \in Range(accepted)} \cup existing.tools
  <2>1. skill = RenderSkill(accepted, existing)
    BY DEF RulesInv, Staged
  <2>2. relearnt \subseteq EventsOf(records)
    BY DEF RulesInv, Verified, Accountable, WellFormed
  <2>3. /\ skill.tools = used \cup Reads(used, accepted)
        /\ DOMAIN skill.sections = relearnt \cup Unchanged(existing, relearnt)
        /\ \A e \in Unchanged(existing, relearnt) : skill.sections[e] = existing.sections[e]
    <3>1. RenderedFrom(accepted, existing, skill, relearnt, used)
      BY <2>1, Rendered
    <3>2. QED
      BY <3>1 DEF RenderedFrom
  <2>4. existing.tools \subseteq used
    OBVIOUS
  <2> HIDE DEF relearnt, used
  <2>5. ASSUME NEW e \in DOMAIN existing.sections \ EventsOf(records), existing.sections[e] # <<>>
        PROVE  e \in Unchanged(existing, relearnt)
    BY <2>2, <2>5 DEF Unchanged
  <2>6. QED
    BY <2>3, <2>4, <2>5 DEF NotRelearntIsKept
<1>2. QED
  BY <1>1, RulesInvInductive, PTL

(* A skill can always be edited: what is rendered of verified rules beside *)
(* a valid skill, over registered tools and not too long, is valid again   *)
(* (validate_learned_skill, before staging).                               *)
THEOREM EditedSkillIsValid == Spec => []RenderedIsValid
<1>1. RulesInv => RenderedIsValid
  <2> SUFFICES ASSUME RulesInv, accepted # <<>>, existing = NoSkill \/ Valid(existing),
                      NEW text, text = RenderSkill(accepted, existing), HasRoom(text)
               PROVE  Valid(text)
    BY DEF RenderedIsValid
  <2> DEFINE relearnt == {k.rule.event : k \in Range(accepted)}
             used == {k.rule.tool : k \in Range(accepted)} \cup existing.tools
             reads == Reads(used, accepted)
             at(e) == {i \in DOMAIN accepted : accepted[i].rule.event = e}
  <2>1. /\ text.tools = used \cup reads
        /\ DOMAIN text.sections = relearnt \cup Unchanged(existing, relearnt)
        /\ \A e \in Unchanged(existing, relearnt) : text.sections[e] = existing.sections[e]
        /\ \A e \in relearnt : DOMAIN text.sections[e] = 1..Cardinality(at(e))
    <3>1. RenderedFrom(accepted, existing, text, relearnt, used)
      BY Rendered
    <3>2. QED
      BY <3>1 DEF RenderedFrom
  <2>2. /\ accepted \in Seq(Range(accepted)) /\ Len(accepted) \in Nat /\ DOMAIN accepted = 1..Len(accepted)
        /\ Range(accepted) # {}
    <3>1. accepted \in Seq(Range(accepted))
      BY DEF RulesInv, Verified
    <3>2. Len(accepted) \in Nat /\ DOMAIN accepted = 1..Len(accepted) /\ Len(accepted) # 0
      BY <3>1
    <3>3. accepted[1] \in Range(accepted)
      BY <3>2 DEF Range
    <3>4. QED
      BY <3>1, <3>2, <3>3
  <2>3. existing.tools \subseteq Tool
    BY DEF Valid, NoSkill
  <2>4. used \subseteq Tool
    BY <2>3 DEF RulesInv, Verified, Accountable, WellFormed
  <2>5. \A t \in used : RequiredReads[t] \subseteq reads
    BY <2>4 DEF Reads
  <2>6. reads \subseteq ReadOnly
    <3> HIDE DEF used
    <3>1. \A t \in used \cap Tool : RequiredReads[t] \subseteq ReadOnly
      BY CatalogAssumption
    <3>2. OwnReads \subseteq ReadOnly /\ \A f \in Context : ContextOf[f] \in Tool => ContextOf[f] \in ReadOnly
      BY CatalogAssumption
    <3>3. QED
      BY <3>1, <3>2, Zenon DEF Reads
  <2>7. used # {} /\ relearnt # {}
    BY <2>2
  <2>8. ASSUME NEW e \in relearnt PROVE text.sections[e] # <<>>
    <3>1. PICK i \in DOMAIN accepted : accepted[i].rule.event = e
      BY DEF Range
    <3>2. IsFiniteSet(at(e)) /\ Cardinality(at(e)) \in Nat /\ at(e) # {}
      <4>1. IsFiniteSet(1..Len(accepted))
        BY <2>2, FS_Interval
      <4>2. at(e) \subseteq 1..Len(accepted)
        BY <2>2
      <4>3. IsFiniteSet(at(e))
        BY <4>1, <4>2, FS_Subset
      <4>4. QED
        BY <3>1, <4>3, FS_CardinalityType
    <3>3. Cardinality(at(e)) # 0
      BY <3>2, FS_EmptySet
    <3> HIDE DEF at, relearnt
    <3>4. 1 \in DOMAIN text.sections[e]
      BY <2>1, <3>2, <3>3
    <3>5. DOMAIN <<>> = {}
      OBVIOUS
    <3>6. QED
      BY <3>4, <3>5
  <2>9. \A e \in Unchanged(existing, relearnt) : existing.sections[e] # <<>>
    BY DEF Unchanged
  <2> HIDE DEF used, reads, relearnt, at
  <2>10. \A e \in DOMAIN text.sections : text.sections[e] # <<>>
    BY <2>1, <2>8, <2>9
  <2>11. text.tools \subseteq Tool /\ text.tools # {} /\ DOMAIN text.sections # {}
    BY <2>1, <2>4, <2>6, <2>7, CatalogAssumption
  <2>12. \A t \in text.tools : RequiredReads[t] \subseteq text.tools
    BY <2>1, <2>5, <2>6, CatalogAssumption
  <2>13. QED
    BY <2>10, <2>11, <2>12 DEF Valid
<1>2. QED
  BY <1>1, RulesInvInductive, PTL

-----------------------------------------------------------------------------
(* What a single rule of a single setting proposes. *)
LastUsable(rules, fields, s) ==
    SelectLastInSeq(rules, LAMBDA r :
        /\ Matches(r, fields)
        /\ \A i \in DOMAIN r.set : r.set[i].value[1] = "from" => r.set[i].value[2] \in DOMAIN fields
        /\ r.tool = s[1] /\ \E i \in DOMAIN r.set : r.set[i].key = s[2])

LEMMA OneRuleProposes ==
    ASSUME NEW rule, Len(rule.set) = 1, rule.set \in Seq(Range(rule.set)),
           rule.tool \in Tool, rule.set[1].key \in Arguments[rule.tool],
           NEW fields, Matches(rule, fields),
           rule.set[1].value[1] = "from" => rule.set[1].value[2] \in DOMAIN fields
    PROVE  LET proposed == Settings(<<rule>>, fields)
               s == <<rule.tool, rule.set[1].key>>
               v == rule.set[1].value
           IN s \in DOMAIN proposed /\ proposed[s] = IF v[1] = "from" THEN fields[v[2]] ELSE v[2]
<1> DEFINE rules == <<rule>>
           s == <<rule.tool, rule.set[1].key>>
           slots == {p \in Tool \X (UNION {Arguments[t] : t \in Tool}) : LastUsable(rules, fields, p) > 0}
           place(r, key) == CHOOSE i \in DOMAIN r.set : r.set[i].key = key
           value(p) == LET r == rules[LastUsable(rules, fields, p)]
                           v == r.set[place(r, p[2])].value
                       IN IF v[1] = "from" THEN fields[v[2]] ELSE v[2]
<1>1. Settings(rules, fields) = [p \in slots |-> value(p)]
  BY DEF Settings, LastUsable
<1>2. DOMAIN rule.set = {1} /\ rules[1] = rule /\ Len(rules) = 1
  OBVIOUS
<1>3. LastUsable(rules, fields, s) = 1
  <2> DEFINE Usable(r) ==
        /\ Matches(r, fields)
        /\ \A i \in DOMAIN r.set : r.set[i].value[1] = "from" => r.set[i].value[2] \in DOMAIN fields
        /\ r.tool = s[1] /\ \E i \in DOMAIN r.set : r.set[i].key = s[2]
             I == {i \in 1..Len(rules) : Usable(rules[i])}
  <2>1. LastUsable(rules, fields, s) = IF I # {} THEN Max(I) ELSE 0
    BY DEF LastUsable, SelectLastInSeq
  <2>2. Usable(rule)
    BY <1>2
  <2> HIDE DEF Usable, rules
  <2>3. I = {1}
    BY <1>2, <2>2
  <2>4. Max({1}) = 1
    BY DEF Max
  <2>5. QED
    BY <2>1, <2>3, <2>4
<1>4. s \in slots
  <2> HIDE DEF rules
  <2>1. QED
    BY <1>3
<1>5. place(rule, s[2]) = 1
  BY <1>2
<1> HIDE DEF place
<1>6. value(s) = IF rule.set[1].value[1] = "from" THEN fields[rule.set[1].value[2]] ELSE rule.set[1].value[2]
  BY <1>2, <1>3, <1>5
<1> HIDE DEF slots, value, rules
<1>7. QED
  BY <1>1, <1>4, <1>6 DEF rules

(* A setting bound to a field that is no time is proposed from what the    *)
(* rules see of the event.                                                 *)
LEMMA BoundIsSeen ==
    ASSUME records \in Journals, NEW r \in records, NEW v, NEW f \in Bound(r, v), f \notin Stamps
    PROVE  f \in DOMAIN r.fields /\ r.fields[f] = v
<1> DEFINE event == {r.payload[i].field : i \in DOMAIN r.payload}
           Item(g) == r.payload[CHOOSE i \in DOMAIN r.payload : r.payload[i].field = g]
<1>1. PICK i \in DOMAIN r.payload : f = r.payload[i].field /\ r.payload[i].value = v
  BY BoundToCopy
<1>2. \A j \in DOMAIN r.payload : r.payload[j].field = f => j = i
  BY <1>1, JournalAssumption
<1>3. Item(f) = r.payload[i]
  BY <1>1, <1>2
<1>4. r.fields = EventFields(r.payload, r.context)
  BY JournalAssumption
<1>5. r.fields = [g \in (event \cup DOMAIN r.context) \ Stamps |->
                    IF g \in event THEN Item(g).value ELSE r.context[g]]
  BY <1>4, Zenon DEF EventFields
<1>6. f \in event
  BY <1>1
<1> HIDE DEF Item, event
<1>7. QED
  BY <1>1, <1>3, <1>5, <1>6

(* A rule replayed on a record that taught it proposes what the operator   *)
(* did there, also when its value is bound to a field of the event (_bound *)
(* when learning, _resolve when proposing), unless that field is a time.   *)
THEOREM ReplayIsFaithful == Spec => []ReplayGivesWhatWasTaught
<1>1. RulesInv => ReplayGivesWhatWasTaught
  <2> SUFFICES ASSUME RulesInv, NEW k \in Range(accepted), NEW r \in records,
                      Covers(k.rule, r), ~BoundToStamp(k.rule)
               PROVE  LET c == RuleChange(k.rule)
                          proposed == Settings(<<k.rule>>, r.fields)
                      IN /\ <<c.tool, c.key>> \in DOMAIN proposed
                         /\ [tool |-> c.tool, key |-> c.key, value |-> proposed[<<c.tool, c.key>>]] \in r.calls
    BY DEF ReplayGivesWhatWasTaught
  <2> DEFINE rule == k.rule
             v == rule.set[1].value
  <2>1. Accountable(k) /\ records \in Journals
    BY DEF RulesInv, Verified
  <2>2. /\ rule.set \in Seq(Range(rule.set)) /\ Len(rule.set) = 1 /\ Head(rule.set) = rule.set[1]
        /\ rule.tool \in Tool /\ rule.set[1].key \in Arguments[rule.tool]
    BY <2>1 DEF Accountable, IsRule, WellFormed
  <2>3. RuleChange(rule) = [tool |-> rule.tool, key |-> rule.set[1].key, value |-> v]
    BY <2>2 DEF RuleChange
  <2>4. RuleChange(rule) \in CallChanges(r) /\ Matches(rule, r.fields)
    BY DEF Covers, Changes
  <2>5. PICK q \in r.calls :
          \/ RuleChange(rule) = [tool |-> q.tool, key |-> q.key, value |-> <<"is", q.value>>]
          \/ \E f \in Bound(r, q.value) : RuleChange(rule) = [tool |-> q.tool, key |-> q.key, value |-> <<"from", f>>]
    BY <2>4, Zenon DEF CallChanges
  <2>6. /\ q = [tool |-> q.tool, key |-> q.key, value |-> q.value]
        /\ q \in r.calls
    BY <2>1, JournalAssumption
  <2>7. ~BoundToStamp(rule)
    OBVIOUS
  <2> HIDE DEF rule, v
  <2>8. /\ rule.tool = q.tool /\ rule.set[1].key = q.key
        /\ \/ v = <<"is", q.value>>
           \/ \E f \in Bound(r, q.value) : v = <<"from", f>>
    <3>1. ASSUME NEW w, RuleChange(rule) = [tool |-> q.tool, key |-> q.key, value |-> w]
          PROVE  rule.tool = q.tool /\ rule.set[1].key = q.key /\ v = w
      BY <2>3, <3>1
    <3>2. QED
      BY <2>5, <3>1
  <2>9. \/ v[1] = "is" /\ v[2] = q.value
        \/ v[1] = "from" /\ v[2] \in DOMAIN r.fields /\ r.fields[v[2]] = q.value
    <3>1. CASE v = <<"is", q.value>>
      BY <3>1
    <3>2. ASSUME NEW f \in Bound(r, q.value), v = <<"from", f>>
          PROVE  v[1] = "from" /\ v[2] \in DOMAIN r.fields /\ r.fields[v[2]] = q.value
      <4>1. f \notin Stamps
        BY <2>3, <3>2, <2>7 DEF BoundToStamp
      <4>2. f \in DOMAIN r.fields /\ r.fields[f] = q.value
        BY <2>1, <4>1, BoundIsSeen
      <4>3. QED
        BY <3>2, <4>2
    <3>3. QED
      BY <2>8, <3>1, <3>2
  <2> DEFINE proposed == Settings(<<rule>>, r.fields)
             s == <<rule.tool, rule.set[1].key>>
  <2>10. s \in DOMAIN proposed /\ proposed[s] = IF v[1] = "from" THEN r.fields[v[2]] ELSE v[2]
    BY <2>2, <2>4, <2>9, OneRuleProposes DEF v
  <2> HIDE DEF proposed
  <2>11. proposed[s] = q.value
    BY <2>9, <2>10
  <2>12. [tool |-> rule.tool, key |-> rule.set[1].key, value |-> proposed[s]] = q
    BY <2>6, <2>8, <2>11
  <2>13. RuleChange(rule).tool = rule.tool /\ RuleChange(rule).key = rule.set[1].key
    BY <2>3
  <2>14. QED
    BY <2>6, <2>10, <2>12, <2>13 DEF proposed, rule
<1>2. QED
  BY <1>1, RulesInvInductive, PTL

-----------------------------------------------------------------------------
(* What the second reply and the induction do with the accepted rules. *)
Answered(kept, k, r) == \E n \in Range(kept) : SameEffect(n.rule, k.rule) /\ Covers(n.rule, r)

LEMMA RuleListed ==
    ASSUME NEW kept, Verified(kept), NEW k \in Range(kept), NEW more, IsRules(more)
    PROVE  /\ IsRules(Plain(kept) \o more)
           /\ \E i \in DOMAIN (Plain(kept) \o more) : (Plain(kept) \o more)[i] = k.rule
<1> DEFINE plain == Plain(kept)
           S == Range(plain) \cup Range(more)
           all == plain \o more
<1>1. IsRules(plain)
  BY PlainRules
<1>2. plain \in Seq(S) /\ more \in Seq(S)
  BY <1>1 DEF IsRules
<1>3. PICK i \in DOMAIN kept : k = kept[i]
  BY DEF Range
<1>4. i \in DOMAIN plain /\ plain[i] = k.rule
  BY <1>3 DEF Plain
<1>5. IsRules(all)
  BY <1>1, RulesConcat
<1> HIDE DEF plain, S
<1>6. i \in DOMAIN all /\ all[i] = plain[i]
  BY <1>2, <1>4
<1>7. QED
  BY <1>4, <1>5, <1>6 DEF plain

LEMMA PlainSimple ==
    ASSUME NEW kept, \A k \in Range(kept) : Simple(k.rule), Verified(kept),
           NEW more, IsRules(more), \A i \in DOMAIN more : Simple(more[i])
    PROVE  \A i \in DOMAIN (Plain(kept) \o more) : Simple((Plain(kept) \o more)[i])
<1> DEFINE plain == Plain(kept)
           S == Range(plain) \cup Range(more)
           all == plain \o more
<1>1. \A i \in DOMAIN plain : Simple(plain[i])
  BY DEF Plain, Range
<1>2. plain \in Seq(S) /\ more \in Seq(S)
  BY PlainRules DEF IsRules
<1>3. \A x \in S : Simple(x)
  BY <1>1 DEF Range
<1> HIDE DEF plain, S
<1>4. all \in Seq(S)
  BY <1>2
<1>5. \A i \in DOMAIN all : all[i] \in S
  BY <1>4
<1>6. QED
  BY <1>3, <1>5 DEF plain

LEMMA ConcludeAnswers ==
    ASSUME RulesInv, NEW rules, Verified(rules), Conclude(rules),
           NEW k \in Range(rules), Simple(k.rule), NEW r \in records, Covers(k.rule, r)
    PROVE  Answered(accepted', k, r)
<1> DEFINE induced == InduceMissingRules(Plain(rules), records)
           final == IF induced = <<>> THEN rules ELSE VerifyRules(Plain(rules) \o induced, records)
<1>1. accepted' = final
  BY Zenon DEF Conclude
<1>2. IsRules(induced) /\ Accountable(k) /\ records \in Journals
  BY InducedRules DEF RulesInv, Verified
<1>3. CASE induced = <<>>
  BY <1>1, <1>3 DEF Answered, SameEffect
<1>4. CASE induced # <<>>
  <2> DEFINE all == Plain(rules) \o induced
  <2>1. accepted' = VerifyRules(all, records)
    BY <1>1, <1>4
  <2> HIDE DEF induced, all
  <2>2. IsRules(all) /\ \E i \in DOMAIN all : all[i] = k.rule
    BY <1>2, RuleListed DEF all
  <2>3. QED
    BY <1>2, <2>1, <2>2, CoveredAgain DEF Answered
<1>5. QED
  BY <1>3, <1>4

KeepsCoverage ==
    \A reply \in Replies :
       (/\ Refine(reply)
        /\ \A k \in Range(accepted) : Simple(k.rule)
        /\ reply # Garbled => \A i \in DOMAIN reply : Simple(reply[i])) =>
          \A k \in Range(accepted), r \in records :
             Covers(k.rule, r) => \E n \in Range(accepted') : SameEffect(n.rule, k.rule) /\ Covers(n.rule, r)

(* The second reply takes nothing away: a record that an accepted rule of  *)
(* one threshold answers stays answered with that setting, although all    *)
(* rules are verified again, twice if rules are induced (_refine,          *)
(* learn_skill, verify_rules).                                             *)
THEOREM NothingIsUnlearnt == Spec => CoverageGrows
<1>1. RulesInv => KeepsCoverage
  <2> SUFFICES ASSUME RulesInv, NEW reply \in Replies, Refine(reply),
                      \A k \in Range(accepted) : Simple(k.rule),
                      reply # Garbled => \A i \in DOMAIN reply : Simple(reply[i]),
                      NEW k \in Range(accepted), NEW r \in records, Covers(k.rule, r)
               PROVE  Answered(accepted', k, r)
    BY DEF KeepsCoverage, Answered
  <2> DEFINE both == VerifyRules(Plain(accepted) \o reply, records)
             refined == IF reply = Garbled THEN accepted ELSE both
             better == IF Len(refined) >= Len(accepted) THEN refined ELSE accepted
  <2>1. Conclude(better)
    BY Zenon DEF Refine
  <2>2. Verified(accepted) /\ records \in Journals /\ Accountable(k)
    BY DEF RulesInv, Verified
  <2>3. Simple(k.rule) /\ Answered(accepted, k, r)
    BY DEF Answered, SameEffect
  <2>4. ASSUME reply # Garbled
        PROVE  /\ Verified(both) /\ \A n \in Range(both) : Simple(n.rule)
               /\ Answered(both, k, r)
    <3>1. IsRules(reply)
      BY <2>4, ReplyAssumption
    <3> DEFINE all == Plain(accepted) \o reply
    <3>2. IsRules(all) /\ \E i \in DOMAIN all : all[i] = k.rule
      BY <2>2, <3>1, RuleListed
    <3>3. \A i \in DOMAIN all : Simple(all[i])
      BY <2>2, <2>4, <3>1, PlainSimple
    <3> HIDE DEF all
    <3>4. Verified(VerifyRules(all, records)) /\ \A n \in Range(VerifyRules(all, records)) : Simple(n.rule)
      BY <2>2, <3>2, <3>3, VerifiedRules, SimpleStays
    <3>5. Answered(VerifyRules(all, records), k, r)
      BY <2>2, <2>3, <3>2, CoveredAgain DEF Answered
    <3>6. QED
      BY <3>4, <3>5 DEF all
  <2> HIDE DEF both
  <2>5. Verified(better) /\ Answered(better, k, r) /\ \A n \in Range(better) : Simple(n.rule)
    BY <2>2, <2>3, <2>4
  <2> HIDE DEF better
  <2>6. PICK n \in Range(better) : SameEffect(n.rule, k.rule) /\ Covers(n.rule, r)
    BY <2>5 DEF Answered
  <2>7. Answered(accepted', n, r)
    BY <2>1, <2>5, <2>6, ConcludeAnswers
  <2>8. QED
    BY <2>6, <2>7 DEF Answered, SameEffect
<1>2. RulesInv /\ [Next]_vars => [KeepsCoverage]_vars
  BY <1>1
<1>3. QED
  BY <1>2, RulesInvInductive, PTL DEF Spec, CoverageGrows, KeepsCoverage
=============================================================================
