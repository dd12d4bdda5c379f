------------------------- MODULE AgentResponseProofs ------------------------
(***************************************************************************)
(* Theorems about AgentResponse and the control plane it rechecks, for     *)
(* every rule list, every stream of lines and every text.                  *)
(*                                                                         *)
(* What the code computes by going through a list is a FoldLeft.  Each is  *)
(* turned into a sequence of states, one per element, and what the states  *)
(* say of the elements read so far is shown by induction, with the set of  *)
(* the positions at which it holds in place of a predicate.                *)
(***************************************************************************)
EXTENDS AgentResponse, SequenceTheorems, WellFoundedInduction, FiniteSetTheorems, TLAPS

-----------------------------------------------------------------------------
(* Induction over Nat, said of sets.                                       *)
LEMMA SetInduction ==
  ASSUME NEW T \in SUBSET Nat, 0 \in T, \A n \in T : n + 1 \in T
  PROVE  T = Nat
<1>1. SUFFICES ASSUME Nat \ T # {}
               PROVE  FALSE
  OBVIOUS
<1>2. PICK n \in Nat \ T : \A m \in Nat \ T : ~(<<m, n>> \in OpToRel(<, Nat))
  BY <1>1, NatLessThanWellFounded, WFMin
<1>3. n \in Nat /\ n # 0
  BY <1>2
<1>4. n - 1 \in Nat /\ n - 1 < n /\ n - 1 + 1 = n
  BY <1>3
<1>5. n - 1 \in T
  BY <1>2, <1>3, <1>4 DEF OpToRel
<1> QED BY <1>2, <1>4, <1>5

(* A set of positions has a last one.                                      *)
LEMMA GreatestExists ==
  ASSUME NEW n \in Nat, NEW S \in SUBSET (1..n), S # {}
  PROVE  \E i \in S : \A j \in S : j <= i
<1> DEFINE D == {k \in Nat : n - k \in S}
<1>1. D \in SUBSET Nat /\ D # {}
  <2>1. \A i \in S : n - i \in Nat /\ n - (n - i) = i
    OBVIOUS
  <2> QED BY <2>1
<1>2. PICK d \in D : \A e \in D : ~(<<e, d>> \in OpToRel(<, Nat))
  BY <1>1, NatLessThanWellFounded, WFMin
<1>3. \A e \in D : d \in Nat /\ e \in Nat /\ ~(e < d)
  BY <1>2 DEF OpToRel
<1> DEFINE i == n - d
<1>4. i \in S
  BY <1>2
<1>5. ASSUME NEW j \in S
      PROVE  j <= i
  <2>1. j \in Nat /\ n - j \in Nat /\ n - (n - j) = j
    OBVIOUS
  <2>2. n - j \in D
    BY <2>1
  <2>3. d \in Nat /\ ~(n - j < d)
    BY <1>3, <2>2
  <2> QED BY <2>1, <2>3
<1> QED BY <1>4, <1>5

(* FoldLeft takes the last position off a set of them.                     *)
LEMMA TopOfRange ==
  ASSUME NEW n \in Nat, NEW s \in SUBSET (1..n), n \in s
  PROVE  Max(s) = n
<1>1. n \in s /\ \A y \in s : n >= y
  OBVIOUS
<1>2. ASSUME NEW x \in s, \A y \in s : x >= y
      PROVE  x = n
  <2>1. x \in 1..n /\ x >= n
    BY <1>2
  <2> QED BY <2>1
<1> QED BY <1>1, <1>2 DEF Max

-----------------------------------------------------------------------------
(* Sorting a subgroup.                                                     *)

Patterns == ToSet(PatternOrder)
PlaceOf(r) == CHOOSE i \in DOMAIN PatternOrder : PatternOrder[i] = r.pattern

(* A rule of a directory has a place in the order of the patterns.         *)
LEMMA PlaceIs ==
  ASSUME NEW r, r.pattern \in Patterns
  PROVE  PlaceOf(r) \in 1..Len(PatternOrder) /\ PatternOrder[PlaceOf(r)] = r.pattern
BY ControlPlaneAssumption, LenProperties DEF Patterns, ToSet, PlaceOf, ControlPlaneAssumption

(* Before compares these places.                                           *)
LEMMA BeforeIsPlace ==
  ASSUME NEW r, NEW s, r.pattern \in Patterns, s.pattern \in Patterns
  PROVE  Before(r, s) <=> PlaceOf(r) < PlaceOf(s)
<1>1. /\ PlaceOf(r) \in DOMAIN PatternOrder /\ PatternOrder[PlaceOf(r)] = r.pattern
      /\ PlaceOf(s) \in DOMAIN PatternOrder /\ PatternOrder[PlaceOf(s)] = s.pattern
  BY PlaceIs, ControlPlaneAssumption, LenProperties DEF ControlPlaneAssumption
<1>2. \A i \in DOMAIN PatternOrder : /\ PatternOrder[i] = r.pattern => i = PlaceOf(r)
                                     /\ PatternOrder[i] = s.pattern => i = PlaceOf(s)
  BY <1>1, ControlPlaneAssumption DEF ControlPlaneAssumption, IsInjective
<1> QED BY <1>1, <1>2 DEF Before

InOrder(s) == \A i, j \in DOMAIN s : i < j => ~Before(s[j], s[i])

(* Any finite set of such rules can be put in order: the one with the last *)
(* place goes last, after the others in order.                             *)
LEMMA OrderExists ==
  ASSUME NEW n \in Nat
  PROVE  \A S : IsFiniteSet(S) /\ Cardinality(S) = n /\ (\A r \in S : r.pattern \in Patterns)
                  => \E s \in SetToSeqs(S) : InOrder(s)
<1> DEFINE P(S) == IsFiniteSet(S) /\ \A r \in S : r.pattern \in Patterns
           T == {k \in Nat : \A S : P(S) /\ Cardinality(S) = k
                               => \E s \in SetToSeqs(S) : InOrder(s)}
<1>1. 0 \in T
  <2> SUFFICES ASSUME NEW S, P(S), Cardinality(S) = 0
               PROVE  \E s \in SetToSeqs(S) : InOrder(s)
    OBVIOUS
  <2> DEFINE s == [i \in 1..0 |-> i]
  <2>1. S = {} /\ 1..0 = {}
    BY FS_EmptySet
  <2>2. s \in [1..0 -> S] /\ DOMAIN s = {}
    BY <2>1
  <2> HIDE DEF s
  <2>3. s \in SetToSeqs(S) /\ InOrder(s)
    BY <2>1, <2>2 DEF SetToSeqs, InOrder
  <2> QED BY <2>3
<1>2. ASSUME NEW k \in T
      PROVE  k + 1 \in T
  <2> SUFFICES ASSUME NEW S, P(S), Cardinality(S) = k + 1
               PROVE  \E s \in SetToSeqs(S) : InOrder(s)
    OBVIOUS
  <2>1. k \in Nat
    OBVIOUS
  <2> DEFINE places == {PlaceOf(r) : r \in S}
             n0 == Len(PatternOrder)
  <2>2. n0 \in Nat
    BY ControlPlaneAssumption, LenProperties DEF ControlPlaneAssumption
  <2>3. places \in SUBSET (1..n0) /\ places # {}
    <3>1. S # {}
      BY <2>1, FS_EmptySet
    <3> QED BY <3>1, PlaceIs
  <2>4. PICK r \in S : \A q \in S : PlaceOf(q) <= PlaceOf(r)
    <3> HIDE DEF n0
    <3>1. PICK i \in places : \A j \in places : j <= i
      BY <2>2, <2>3, GreatestExists
    <3> QED BY <3>1
  <2> DEFINE S0 == S \ {r}
  <2>5. P(S0) /\ Cardinality(S0) = k
    <3>1. IsFiniteSet(S0) /\ Cardinality(S0) = Cardinality(S) - 1
      BY FS_RemoveElement
    <3>2. Cardinality(S) = k + 1 /\ k + 1 - 1 = k
      BY <2>1
    <3> QED BY <3>1, <3>2
  <2>6. PICK s \in SetToSeqs(S0) : InOrder(s)
    BY <2>5
  <2>7. s \in [1..k -> S0] /\ \A i, j \in 1..k : i # j => s[i] # s[j]
    BY <2>5, <2>6 DEF SetToSeqs
  <2> DEFINE t == [i \in 1..k + 1 |-> IF i = k + 1 THEN r ELSE s[i]]
  <2>8. \A i \in 1..k + 1 : i # k + 1 => i \in 1..k
    BY <2>1
  <2>9. t \in [1..k + 1 -> S] /\ \A i, j \in 1..k + 1 : i # j => t[i] # t[j]
    BY <2>7, <2>8
  <2>10. InOrder(t)
    <3>1. SUFFICES ASSUME NEW i \in 1..k + 1, NEW j \in 1..k + 1, i < j
                   PROVE  ~Before(t[j], t[i])
      BY DEF InOrder
    <3>2. i \in 1..k /\ t[i] = s[i] /\ s[i] \in S
      BY <2>1, <2>7, <2>8, <3>1
    <3>3. CASE j = k + 1
      <4>1. t[j] = r /\ PlaceOf(s[i]) <= PlaceOf(r)
        BY <2>1, <2>4, <3>2, <3>3
      <4>2. s[i].pattern \in Patterns /\ r.pattern \in Patterns
        BY <3>2
      <4>3. PlaceOf(s[i]) \in Nat /\ PlaceOf(r) \in Nat
        BY <2>2, <4>2, PlaceIs
      <4>4. ~Before(r, s[i])
        BY <4>1, <4>2, <4>3, BeforeIsPlace
      <4> QED BY <3>2, <4>1, <4>4
    <3>4. CASE j # k + 1
      <4>1. j \in 1..k /\ t[j] = s[j]
        BY <2>8, <3>4
      <4> QED BY <2>6, <2>7, <3>1, <3>2, <4>1 DEF InOrder
    <3> QED BY <3>3, <3>4
  <2> HIDE DEF t
  <2>11. t \in SetToSeqs(S)
    BY <2>9 DEF SetToSeqs
  <2> QED BY <2>10, <2>11
<1>3. T = Nat
  <2> HIDE DEF T
  <2>1. T \in SUBSET Nat
    BY DEF T
  <2> QED BY <1>1, <1>2, <2>1, SetInduction
<1> QED BY <1>3

(* A sorted subgroup lists its rules, each once.                           *)
LEMMA SortedLists ==
  ASSUME NEW S, IsFiniteSet(S), \A r \in S : r.pattern \in Patterns
  PROVE  /\ Sorted(S) \in Seq(S)
         /\ \A r \in S : \E i \in 1..Len(Sorted(S)) : Sorted(S)[i] = r
         /\ \A i, j \in 1..Len(Sorted(S)) : Sorted(S)[i] = Sorted(S)[j] => i = j
<1> DEFINE n == Cardinality(S)
<1>1. n \in Nat
  BY FS_CardinalityType
<1>2. \E s \in SetToSeqs(S) : InOrder(s)
  BY <1>1, OrderExists
<1>3. Sorted(S) \in SetToSeqs(S)
  BY <1>2 DEF Sorted, InOrder
<1>4. Sorted(S) \in [1..n -> S] /\ \A i, j \in 1..n : i # j => Sorted(S)[i] # Sorted(S)[j]
  BY <1>3 DEF SetToSeqs
<1>5. Sorted(S) \in Seq(S) /\ Len(Sorted(S)) = n
  BY <1>1, <1>4
<1>6. Sorted(S) \in Injection(1..n, S)
  BY <1>4 DEF Injection, IsInjective
<1>7. IsFiniteSet(1..n) /\ Cardinality(1..n) = n
  BY <1>1, FS_Interval
<1>8. Sorted(S) \in Surjection(1..n, S)
  BY <1>6, <1>7, FS_Injection
<1> QED BY <1>4, <1>5, <1>8 DEF Surjection

-----------------------------------------------------------------------------
(* FoldLeft as the rules of an agent are read one after the other.         *)

Unread == [out |-> <<>>, group |-> {}]

(* What FoldLeft defines by recursion over sets of positions.              *)
CanonicalOf(rules, f, s) ==
  IF s = {} THEN Unread
  ELSE LET x == Max(s) IN CanonicalStep(f[s \ {x}], rules[x])

(* The recursion of FoldLeft has a solution on the positions 1..n.         *)
LEMMA CanonicalExists ==
  ASSUME NEW rules, NEW n \in Nat
  PROVE  \E f : f = [s \in SUBSET (1..n) |-> CanonicalOf(rules, f, s)]
<1> DEFINE T == {k \in Nat : \E f : f = [s \in SUBSET (1..k) |-> CanonicalOf(rules, f, s)]}
<1>1. 0 \in T
  <2> DEFINE f == [s \in SUBSET (1..0) |-> Unread]
  <2>1. SUBSET (1..0) = {{}}
    OBVIOUS
  <2>2. f = [s \in SUBSET (1..0) |-> CanonicalOf(rules, f, s)]
    BY <2>1 DEF CanonicalOf
  <2> QED BY <2>2
<1>2. ASSUME NEW k \in T
      PROVE  k + 1 \in T
  <2>1. PICK f : f = [s \in SUBSET (1..k) |-> CanonicalOf(rules, f, s)]
    OBVIOUS
  <2> DEFINE h == [s \in SUBSET (1..k + 1) |->
                     IF k + 1 \in s THEN CanonicalStep(f[s \ {k + 1}], rules[k + 1]) ELSE f[s]]
  <2>2. k \in Nat
    OBVIOUS
  <2>3. ASSUME NEW s \in SUBSET (1..k + 1)
        PROVE  h[s] = CanonicalOf(rules, h, s)
    <3>1. CASE k + 1 \in s
      <4>1. Max(s) = k + 1
        <5>1. k + 1 \in Nat
          BY <2>2
        <5> QED BY <3>1, <5>1, TopOfRange
      <4>2. s \ {k + 1} \in SUBSET (1..k)
        BY <2>2
      <4>3. s \ {k + 1} \in SUBSET (1..k + 1) /\ k + 1 \notin s \ {k + 1}
        OBVIOUS
      <4>4. h[s \ {k + 1}] = f[s \ {k + 1}]
        BY <4>3
      <4>5. h[s] = CanonicalStep(f[s \ {k + 1}], rules[k + 1])
        BY <3>1
      <4> QED BY <3>1, <4>1, <4>4, <4>5 DEF CanonicalOf
    <3>2. CASE k + 1 \notin s
      <4>1. s \in SUBSET (1..k)
        BY <2>2, <3>2
      <4>2. h[s] = f[s] /\ f[s] = CanonicalOf(rules, f, s)
        BY <2>1, <3>2, <4>1
      <4>3. \A x : /\ s \ {x} \in SUBSET (1..k + 1) /\ k + 1 \notin s \ {x}
        BY <3>2
      <4>4. \A x : h[s \ {x}] = f[s \ {x}]
        BY <4>3
      <4> QED BY <4>2, <4>4 DEF CanonicalOf
    <3> QED BY <3>1, <3>2
  <2>4. h = [s \in SUBSET (1..k + 1) |-> CanonicalOf(rules, h, s)]
    BY <2>3
  <2> HIDE DEF h
  <2> QED BY <2>2, <2>4
<1>3. T = Nat
  BY <1>1, <1>2, SetInduction
<1> QED BY <1>3

(* So Canonical goes through one state per rule.                           *)
LEMMA CanonicalRuleByRule ==
  ASSUME NEW n \in Nat, NEW rules, DOMAIN rules = 1..n
  PROVE  \E d : /\ d[0] = Unread
                /\ \A k \in 1..n : d[k] = CanonicalStep(d[k - 1], rules[k])
                /\ FoldLeft(CanonicalStep, Unread, rules) = d[n]
<1> DEFINE f == CHOOSE f : f = [s \in SUBSET DOMAIN rules |-> CanonicalOf(rules, f, s)]
           d == [k \in 0..n |-> f[1..k]]
<1>1. f = [s \in SUBSET (1..n) |-> CanonicalOf(rules, f, s)]
  <2>1. \E g : g = [s \in SUBSET DOMAIN rules |-> CanonicalOf(rules, g, s)]
    <3>1. PICK g : g = [s \in SUBSET (1..n) |-> CanonicalOf(rules, g, s)]
      BY CanonicalExists
    <3>2. g = [s \in SUBSET DOMAIN rules |-> CanonicalOf(rules, g, s)]
      BY <3>1
    <3> QED BY <3>2
  <2>2. f = [s \in SUBSET DOMAIN rules |-> CanonicalOf(rules, f, s)]
    BY <2>1
  <2> QED BY <2>2
<1>2. FoldLeft(CanonicalStep, Unread, rules) = f[1..n]
  BY DEF FoldLeft, MapThenFoldSet, CanonicalOf
<1> HIDE DEF f
<1>3. d[0] = Unread
  <2>1. 1..0 = {} /\ {} \in SUBSET (1..n)
    OBVIOUS
  <2> QED BY <1>1, <2>1 DEF CanonicalOf
<1>4. ASSUME NEW k \in 1..n
      PROVE  d[k] = CanonicalStep(d[k - 1], rules[k])
  <2>1. k \in Nat /\ 1..k \in SUBSET (1..n) /\ k \in 1..k /\ 1..k # {}
    OBVIOUS
  <2>2. Max(1..k) = k
    BY <2>1, TopOfRange
  <2>3. (1..k) \ {k} = 1..k - 1
    OBVIOUS
  <2>4. f[1..k] = CanonicalOf(rules, f, 1..k)
    BY <1>1, <2>1
  <2>5. f[1..k] = CanonicalStep(f[1..k - 1], rules[k])
    BY <2>1, <2>2, <2>3, <2>4 DEF CanonicalOf
  <2>6. d[k] = f[1..k] /\ d[k - 1] = f[1..k - 1]
    OBVIOUS
  <2> QED BY <2>5, <2>6
<1>5. d[n] = f[1..n]
  OBVIOUS
<1> QED BY <1>2, <1>3, <1>4, <1>5

-----------------------------------------------------------------------------
(* The policy of a rule list and of its canonical form.                    *)

ExternalRules == {r \in Rules : r.permission = "external_directory"}

Paths == Seq(STRING)

Decided(rules, n, dir, a) ==
  \/ a = "none" /\ \A i \in 1..n : ~Matches(rules[i], dir)
  \/ \E i \in 1..n : /\ Matches(rules[i], dir) /\ rules[i].action = a
                     /\ \A j \in i + 1..n : ~Matches(rules[j], dir)

(* A rule is about a directory, or about every permission and then matches *)
(* whatever is asked.                                                      *)
LEMMA RuleShape ==
  ASSUME NEW r \in Rules
  PROVE  /\ r.permission \in {"external_directory", "*"}
         /\ r.permission = "external_directory" => r.pattern \in Patterns
         /\ r.permission = "*" => r.pattern = Bare /\ \A dir : Matches(r, dir)
BY DEF Rules, Patterns, Matches, Bare

(* The patterns of the constant are of the shapes the code tells apart.    *)
LEMMA PatternShape ==
  ASSUME NEW p \in Patterns
  PROVE  p.shape \in {"tail", "bare", "literal"} /\ p.prefix \in Paths
<1>1. PatternOrder \in Seq([shape : {"tail", "bare", "literal"}, prefix : Paths])
  BY ControlPlaneAssumption DEF ControlPlaneAssumption, Paths
<1>2. p \in [shape : {"tail", "bare", "literal"}, prefix : Paths]
  <2>1. PICK i \in DOMAIN PatternOrder : p = PatternOrder[i]
    BY DEF Patterns, ToSet
  <2> QED BY <1>1, <2>1, LenProperties
<1> QED BY <1>2

(* EffectiveAction is the one action that is decided.                      *)
LEMMA EffectiveIsDecided ==
  ASSUME NEW rules \in Seq(Rules), NEW dir
  PROVE  /\ Decided(rules, Len(rules), dir, EffectiveAction(rules, dir))
         /\ \A a : Decided(rules, Len(rules), dir, a) => a = EffectiveAction(rules, dir)
<1> DEFINE n == Len(rules)
           M == {i \in DOMAIN rules : Matches(rules[i], dir)}
           Greatest(i) == \A j \in M : j <= i
<1>1. n \in Nat /\ DOMAIN rules = 1..n
  BY LenProperties
<1> HIDE DEF n
<1>2. M \in SUBSET (1..n) /\ \A i : i \in M <=> i \in 1..n /\ Matches(rules[i], dir)
  BY <1>1
<1>3. EffectiveAction(rules, dir) = IF M = {} THEN "none"
                                    ELSE rules[CHOOSE i \in M : Greatest(i)].action
  BY DEF EffectiveAction
<1> HIDE DEF M
<1>4. CASE M = {}
  BY <1>2, <1>3, <1>4 DEF Decided, n
<1>5. CASE M # {}
  <2>1. PICK i \in M : Greatest(i)
    BY <1>1, <1>2, <1>5, GreatestExists
  <2>2. \A j \in M : Greatest(j) => j = i
    BY <1>1, <1>2, <2>1
  <2>3. EffectiveAction(rules, dir) = rules[i].action
    BY <1>3, <1>5, <2>1, <2>2
  <2>4. \A j \in i + 1..n : j \in 1..n /\ ~(j <= i)
    BY <1>1, <1>2
  <2>5. \A j \in i + 1..n : ~Matches(rules[j], dir)
    BY <1>2, <2>1, <2>4
  <2>6. Decided(rules, n, dir, rules[i].action)
    BY <1>2, <2>5 DEF Decided
  <2>7. ASSUME NEW a, Decided(rules, n, dir, a)
        PROVE  a = rules[i].action
    <3>1. PICK k \in 1..n : /\ Matches(rules[k], dir) /\ rules[k].action = a
                            /\ \A j \in k + 1..n : ~Matches(rules[j], dir)
      BY <1>2, <2>7 DEF Decided
    <3>2. k \in M /\ \A j \in 1..n : j <= k \/ j \in k + 1..n
      BY <1>1, <1>2, <3>1
    <3>3. Greatest(k)
      BY <1>2, <3>1, <3>2
    <3> QED BY <2>2, <3>1, <3>2, <3>3
  <2> QED BY <2>3, <2>6, <2>7 DEF n
<1> QED BY <1>4, <1>5

(* Two rules of directories that match the same directory overlap.         *)
LEMMA MatchingOverlap ==
  ASSUME NEW p \in Patterns, NEW q \in Patterns, NEW r, NEW s, r.pattern = p, s.pattern = q,
         NEW dir \in Paths, Matches(r, dir), Matches(s, dir)
  PROVE  MayOverlap(p, q)
<1>1. SUFFICES ASSUME p.shape = "tail", q.shape = "tail"
               PROVE  IsPrefix(p.prefix, q.prefix) \/ IsPrefix(q.prefix, p.prefix)
  BY DEF MayOverlap
<1>2. ASSUME NEW a \in Paths, NEW b \in Paths, Len(a) <= Len(b),
             IsPrefix(a, dir), IsPrefix(b, dir)
      PROVE  IsPrefix(a, b)
  <2>1. /\ Len(a) \in Nat /\ Len(b) \in Nat /\ Len(dir) \in Nat
        /\ Len(a) <= Len(dir) /\ Len(b) <= Len(dir)
    BY <1>2, LenProperties DEF IsPrefix, Paths
  <2>2. \A i \in 1..Len(a) : a[i] = dir[i] /\ i \in 1..Len(b)
    BY <1>2, <2>1 DEF IsPrefix, Paths
  <2>3. \A i \in 1..Len(b) : b[i] = dir[i]
    BY <1>2, <2>1 DEF IsPrefix, Paths
  <2>4. \A i \in 1..Len(a) : a[i] = b[i]
    BY <2>2, <2>3
  <2>5. SubSeq(a, 1, Len(a)) = SubSeq(b, 1, Len(a))
    BY <1>2, <2>1, <2>4 DEF Paths
  <2> QED BY <1>2, <2>5 DEF IsPrefix
<1>3. p.prefix \in Paths /\ q.prefix \in Paths
  BY PatternShape
<1>4. IsPrefix(p.prefix, dir) /\ IsPrefix(q.prefix, dir)
  BY <1>1 DEF Matches
<1>5. Len(p.prefix) <= Len(q.prefix) \/ Len(q.prefix) <= Len(p.prefix)
  BY <1>3, LenProperties DEF Paths
<1> QED BY <1>2, <1>3, <1>4, <1>5

(* What has been written and what is held back decide as a list would.     *)
Apartness(G) ==
  /\ G \subseteq ExternalRules /\ IsFiniteSet(G)
  /\ \A r, q \in G : r # q => ~MayOverlap(r.pattern, q.pattern)

StateDecides(c, dir, a) ==
  IF \E r \in c.group : Matches(r, dir) THEN \E r \in c.group : Matches(r, dir) /\ r.action = a
  ELSE Decided(c.out, Len(c.out), dir, a)

WellFormedState(c) ==
  c = [out |-> c.out, group |-> c.group] /\ c.out \in Seq(Rules) /\ Apartness(c.group)

(* Writing out a subgroup, sorted, decides what holding it back did: at    *)
(* most one of its rules matches a directory, so their order does not      *)
(* matter.                                                                 *)
LEMMA FlushKeeps ==
  ASSUME NEW c, WellFormedState(c)
  PROVE  /\ WellFormedState(Flush(c)) /\ Flush(c).group = {}
         /\ \A dir \in Paths : \A a : StateDecides(c, dir, a) => StateDecides(Flush(c), dir, a)
<1> DEFINE s == Sorted(c.group)
           n == Len(c.out)
           k == Len(s)
           f == c.out \o s
<1>1. \A r \in c.group : r \in Rules /\ r.pattern \in Patterns
  BY RuleShape DEF WellFormedState, Apartness, ExternalRules
<1>2. /\ s \in Seq(c.group) /\ \A r \in c.group : \E i \in 1..k : s[i] = r
      /\ \A i, j \in 1..k : s[i] = s[j] => i = j
  BY <1>1, SortedLists DEF WellFormedState, Apartness
<1>3. k \in Nat /\ \A i \in 1..k : s[i] \in c.group
  BY <1>2, LenProperties
<1>4. s \in Seq(Rules) /\ n \in Nat /\ c.out \in Seq(Rules)
  BY <1>1, <1>2, LenProperties, SeqMonotonic DEF WellFormedState
<1>5. /\ f \in Seq(Rules) /\ Len(f) = n + k
      /\ \A i \in 1..n + k : f[i] = IF i <= n THEN c.out[i] ELSE s[i - n]
  BY <1>4, ConcatProperties
<1>6. Flush(c) = [out |-> f, group |-> {}]
  BY DEF Flush
<1> HIDE DEF s, n, k, f
<1>7. WellFormedState(Flush(c)) /\ Flush(c).group = {} /\ Flush(c).out = f
  BY <1>5, <1>6, FS_EmptySet DEF WellFormedState, Apartness
<1>8. /\ \A i \in 1..n : f[i] = c.out[i] /\ i \in 1..n + k
      /\ \A i \in 1..k : f[n + i] = s[i] /\ n + i \in 1..n + k
      /\ \A i \in 1..n + k : i \in 1..n \/ \E j \in 1..k : i = n + j
  <2>1. \A i \in 1..k : n + i \in 1..n + k /\ ~(n + i <= n) /\ n + i - n = i
    BY <1>3, <1>4
  <2>2. ASSUME NEW i \in 1..n + k, i \notin 1..n
        PROVE  \E j \in 1..k : i = n + j
    <3>1. i - n \in 1..k /\ i = n + (i - n)
      BY <1>3, <1>4, <2>2
    <3> QED BY <3>1
  <2>3. \A i \in 1..n : i \in 1..n + k /\ i <= n
    BY <1>3, <1>4
  <2>4. \A i \in 1..n : f[i] = c.out[i]
    BY <1>5, <2>3
  <2>5. ASSUME NEW i \in 1..k
        PROVE  f[n + i] = s[i]
    <3> DEFINE j == n + i
    <3>1. j \in 1..n + k /\ ~(j <= n) /\ j - n = i
      BY <1>3, <1>4
    <3> HIDE DEF j
    <3>2. f[j] = s[i]
      BY <1>5, <3>1
    <3> QED BY <3>2 DEF j
  <2> QED BY <2>1, <2>2, <2>3, <2>4, <2>5
<1>9. ASSUME NEW dir \in Paths, NEW a, StateDecides(c, dir, a)
      PROVE  Decided(f, n + k, dir, a)
  <2>1. CASE \E r \in c.group : Matches(r, dir)
    <3>1. PICK r \in c.group : Matches(r, dir) /\ r.action = a
      BY <1>9, <2>1 DEF StateDecides
    <3>2. PICK i \in 1..k : s[i] = r
      BY <1>2 DEF k
    <3>3. \A j \in 1..k : Matches(s[j], dir) => s[j] = r
      BY <1>1, <1>3, <3>1, MatchingOverlap DEF WellFormedState, Apartness
    <3>4. \A j \in 1..k : s[j] = r => j = i
      BY <1>2, <3>2
    <3>5. ASSUME NEW j \in n + i + 1..n + k
          PROVE  ~Matches(f[j], dir)
      <4>1. j \in 1..n + k /\ j \notin 1..n /\ j # n + i
        BY <1>3, <1>4
      <4>2. PICK l \in 1..k : j = n + l
        BY <1>8, <4>1
      <4> QED BY <1>8, <3>3, <3>4, <4>1, <4>2
    <3> QED BY <1>8, <3>1, <3>2, <3>5 DEF Decided
  <2>2. CASE ~\E r \in c.group : Matches(r, dir)
    <3>1. Decided(c.out, n, dir, a)
      BY <1>9, <2>2 DEF StateDecides, n
    <3>2. \A j \in 1..k : ~Matches(f[n + j], dir)
      BY <1>3, <1>8, <2>2
    <3>3. CASE a = "none" /\ \A i \in 1..n : ~Matches(c.out[i], dir)
      BY <1>8, <3>2, <3>3 DEF Decided
    <3>4. CASE \E i \in 1..n : /\ Matches(c.out[i], dir) /\ c.out[i].action = a
                               /\ \A j \in i + 1..n : ~Matches(c.out[j], dir)
      <4>1. PICK i \in 1..n : /\ Matches(c.out[i], dir) /\ c.out[i].action = a
                              /\ \A j \in i + 1..n : ~Matches(c.out[j], dir)
        BY <3>4
      <4>2. \A j \in i + 1..n + k : j \in 1..n + k /\ (j \in 1..n => j \in i + 1..n)
        BY <1>3, <1>4
      <4>3. \A j \in i + 1..n + k : ~Matches(f[j], dir)
        BY <1>8, <3>2, <4>1, <4>2
      <4> QED BY <1>8, <4>1, <4>3 DEF Decided
    <3> QED BY <3>1, <3>3, <3>4 DEF Decided
  <2> QED BY <2>1, <2>2
<1>10. ASSUME NEW dir \in Paths, NEW a, StateDecides(c, dir, a)
       PROVE  StateDecides(Flush(c), dir, a)
  BY <1>5, <1>7, <1>9, <1>10 DEF StateDecides
<1> QED BY <1>7, <1>10

(* One rule more, in a list and in what was read of it.                    *)
LEMMA DecidedByLast ==
  ASSUME NEW rules, NEW k \in Nat \ {0}, NEW dir, NEW a, Decided(rules, k, dir, a)
  PROVE  IF Matches(rules[k], dir) THEN a = rules[k].action ELSE Decided(rules, k - 1, dir, a)
<1>1. \A i \in 1..k : i = k \/ (i \in 1..k - 1 /\ k \in i + 1..k)
  OBVIOUS
<1>2. CASE Matches(rules[k], dir)
  BY <1>1, <1>2 DEF Decided
<1>3. CASE ~Matches(rules[k], dir)
  <2>1. CASE a = "none" /\ \A i \in 1..k : ~Matches(rules[i], dir)
    BY <1>3, <2>1 DEF Decided
  <2>2. CASE \E i \in 1..k : /\ Matches(rules[i], dir) /\ rules[i].action = a
                             /\ \A j \in i + 1..k : ~Matches(rules[j], dir)
    <3>1. PICK i \in 1..k : /\ Matches(rules[i], dir) /\ rules[i].action = a
                            /\ \A j \in i + 1..k : ~Matches(rules[j], dir)
      BY <2>2
    <3>2. i \in 1..k - 1 /\ \A j \in i + 1..k - 1 : j \in i + 1..k
      BY <1>1, <1>3, <3>1
    <3> QED BY <1>3, <3>1, <3>2 DEF Decided
  <2> QED BY <2>1, <2>2 DEF Decided
<1> QED BY <1>2, <1>3

(* A rule that matches decides from now on, the others decide nothing new; *)
(* whether it joins the subgroup or closes it.                             *)
LEMMA StepKeeps ==
  ASSUME NEW c, WellFormedState(c), NEW e \in Rules
  PROVE  /\ WellFormedState(CanonicalStep(c, e))
         /\ \A dir \in Paths : \A a :
              (IF Matches(e, dir) THEN a = e.action ELSE StateDecides(c, dir, a))
                => StateDecides(CanonicalStep(c, e), dir, a)
<1> DEFINE f == Flush(c)
           t == CanonicalStep(c, e)
<1>1. /\ WellFormedState(f) /\ f.group = {}
      /\ \A dir \in Paths : \A a : StateDecides(c, dir, a) => StateDecides(f, dir, a)
  BY FlushKeeps
<1> HIDE DEF f
<1>2. CASE e.permission # "external_directory"
  <2>1. t = [f EXCEPT !.out = Append(@, e)]
    BY <1>2 DEF CanonicalStep, f
  <2> DEFINE o == Append(f.out, e)
             n == Len(f.out)
  <2>2. /\ f.out \in Seq(Rules) /\ n \in Nat /\ o \in Seq(Rules) /\ Len(o) = n + 1
        /\ o[n + 1] = e /\ \A i \in 1..n : o[i] = f.out[i]
    BY <1>1, AppendProperties DEF WellFormedState
  <2>3. t = [out |-> o, group |-> {}]
    BY <1>1, <2>1 DEF WellFormedState
  <2>4. WellFormedState(t)
    BY <1>1, <2>2, <2>3 DEF WellFormedState
  <2>5. \A dir : Matches(e, dir)
    BY <1>2, RuleShape
  <2> HIDE DEF o
  <2>6. \A dir : Decided(o, n + 1, dir, e.action)
    <3>1. n + 1 \in 1..n + 1 /\ n + 1 + 1..n + 1 = {}
      BY <2>2
    <3> QED BY <2>2, <2>5, <3>1 DEF Decided
  <2>7. \A dir : StateDecides(t, dir, e.action)
    BY <2>2, <2>3, <2>6 DEF StateDecides
  <2> QED BY <2>4, <2>5, <2>7
<1>3. CASE e.permission = "external_directory"
  <2> DEFINE o == IF Conflicts(c, e) THEN f ELSE c
  <2>1. t = [o EXCEPT !.group = @ \cup {e}]
    BY <1>3 DEF CanonicalStep, f
  <2>2. /\ WellFormedState(o)
        /\ \A dir \in Paths : \A a : StateDecides(c, dir, a) => StateDecides(o, dir, a)
    BY <1>1
  <2>3. \A r \in o.group : ~MayOverlap(e.pattern, r.pattern)
    BY <1>1 DEF Conflicts
  <2> HIDE DEF o
  <2>4. t = [out |-> o.out, group |-> o.group \cup {e}]
    BY <2>1, <2>2 DEF WellFormedState
  <2> HIDE DEF t
  <2>5. e \in ExternalRules
    BY <1>3 DEF ExternalRules
  <2>6. \A p, q : MayOverlap(p, q) => MayOverlap(q, p)
    BY DEF MayOverlap
  <2>7. Apartness(o.group \cup {e})
    BY <2>2, <2>3, <2>5, <2>6, FS_AddElement DEF WellFormedState, Apartness
  <2>8. WellFormedState(t)
    BY <2>2, <2>4, <2>7 DEF WellFormedState
  <2>9. ASSUME NEW dir \in Paths, NEW a,
               IF Matches(e, dir) THEN a = e.action ELSE StateDecides(c, dir, a)
        PROVE  StateDecides(t, dir, a)
    BY <2>2, <2>4, <2>9 DEF StateDecides
  <2> QED BY <2>8, <2>9 DEF t
<1> QED BY <1>2, <1>3

(* _canonicalize_permission_rules never changes what OpenCode makes of the *)
(* rules.                                                                  *)
LEMMA CanonicalKeepsPolicy ==
  ASSUME NEW rules \in Seq(Rules)
  PROVE  Policy(Canonical(rules)) = Policy(rules)
<1> DEFINE n == Len(rules)
<1>1. n \in Nat /\ DOMAIN rules = 1..n /\ \A i \in 1..n : rules[i] \in Rules
  BY LenProperties
<1> HIDE DEF n
<1>2. PICK c : /\ c[0] = Unread
               /\ \A k \in 1..n : c[k] = CanonicalStep(c[k - 1], rules[k])
               /\ FoldLeft(CanonicalStep, Unread, rules) = c[n]
  BY <1>1, CanonicalRuleByRule
<1> DEFINE Kept(k) == /\ WellFormedState(c[k])
                      /\ \A dir \in Paths : \A a :
                           Decided(rules, k, dir, a) => StateDecides(c[k], dir, a)
           T == {k \in Nat : k <= n => Kept(k)}
<1>3. 0 \in T
  <2>1. WellFormedState(Unread) /\ Unread.group = {} /\ Unread.out = <<>> /\ Len(Unread.out) = 0
    BY FS_EmptySet DEF Unread, WellFormedState, Apartness
  <2>2. 1..0 = {}
    OBVIOUS
  <2>3. \A dir, a : Decided(rules, 0, dir, a) => Decided(Unread.out, 0, dir, a)
    BY <2>2 DEF Decided
  <2>4. Kept(0)
    BY <1>2, <2>1, <2>3 DEF StateDecides
  <2> QED BY <2>4
<1>4. ASSUME NEW k \in T
      PROVE  k + 1 \in T
  <2>1. SUFFICES ASSUME k + 1 <= n
                 PROVE  Kept(k + 1)
    OBVIOUS
  <2> DEFINE m == k + 1
  <2>2. k \in Nat /\ m \in 1..n /\ m \in Nat \ {0} /\ m - 1 = k
    BY <2>1, <1>1
  <2>3. Kept(k)
    BY <2>1, <2>2, <1>1
  <2> HIDE DEF m
  <2>4. c[m] = CanonicalStep(c[k], rules[m]) /\ rules[m] \in Rules
    BY <1>1, <1>2, <2>2
  <2>5. /\ WellFormedState(c[m])
        /\ \A dir \in Paths : \A a :
             (IF Matches(rules[m], dir) THEN a = rules[m].action ELSE StateDecides(c[k], dir, a))
               => StateDecides(c[m], dir, a)
    BY <2>3, <2>4, StepKeeps
  <2>6. \A dir, a : Decided(rules, m, dir, a) =>
          IF Matches(rules[m], dir) THEN a = rules[m].action ELSE Decided(rules, k, dir, a)
    BY <2>2, DecidedByLast
  <2>7. Kept(m)
    BY <2>3, <2>5, <2>6
  <2> QED BY <2>7 DEF m
<1>5. T = Nat
  <2> HIDE DEF T
  <2>1. T \in SUBSET Nat
    BY DEF T
  <2> QED BY <1>3, <1>4, <2>1, SetInduction
<1>6. Kept(n)
  BY <1>1, <1>5
<1> DEFINE z == Flush(c[n])
<1>7. /\ WellFormedState(z) /\ z.group = {}
      /\ \A dir \in Paths : \A a : StateDecides(c[n], dir, a) => StateDecides(z, dir, a)
  BY <1>6, FlushKeeps
<1>8. Canonical(rules) = z.out
  BY <1>2 DEF Canonical, Unread
<1> HIDE DEF z, Kept
<1>9. ASSUME NEW dir \in Paths
      PROVE  EffectiveAction(z.out, dir) = EffectiveAction(rules, dir)
  <2> DEFINE a == EffectiveAction(rules, dir)
  <2>1. Decided(rules, n, dir, a)
    BY EffectiveIsDecided DEF n
  <2> HIDE DEF a
  <2>2. Decided(z.out, Len(z.out), dir, a)
    BY <1>6, <1>7, <2>1 DEF StateDecides, Kept
  <2>3. a = EffectiveAction(z.out, dir)
    BY <1>7, <2>2, EffectiveIsDecided DEF WellFormedState
  <2> QED BY <2>3 DEF a
<1>10. Directories \subseteq Paths
  BY ControlPlaneAssumption DEF ControlPlaneAssumption, Paths
<1> QED BY <1>8, <1>9, <1>10 DEF Policy

-----------------------------------------------------------------------------
(* Listings that differ in the order of unrelated directories.             *)

Distinct(s, k, n) == \A i, j \in k + 1..n : i # j => s[i] # s[j]

RestOf(s, k, n) == {s[i] : i \in k + 1..n}

(* The same rules follow a common prefix of two orders of a list, as often *)
(* as they do: count them.                                                 *)
LEMMA SameRest ==
  ASSUME NEW n \in Nat, NEW k \in 0..n, NEW old, DOMAIN old = 1..n, NEW new \in Reordered(old),
         \A i \in 1..k : old[i] = new[i], Distinct(old, k, n)
  PROVE  Distinct(new, k, n) /\ RestOf(new, k, n) = RestOf(old, k, n)
<1>1. PICK f \in [1..n -> 1..n] :
        /\ \A i, j \in 1..n : f[i] = f[j] => i = j
        /\ new = [i \in 1..n |-> old[f[i]]]
  BY DEF Reordered
<1>2. \A b \in 1..n : \E a \in 1..n : f[a] = b
  <2>1. f \in Injection(1..n, 1..n) /\ IsFiniteSet(1..n)
    <3>1. IsFiniteSet(1..n)
      BY FS_Interval
    <3> QED BY <1>1, <3>1 DEF Injection, IsInjective
  <2>2. f \in Surjection(1..n, 1..n)
    BY <2>1, FS_Injection
  <2> QED BY <2>2 DEF Surjection
<1> DEFINE A(e) == {i \in 1..n : new[i] = e}
           B(e) == {i \in 1..n : old[i] = e}
           RA(e) == {i \in k + 1..n : new[i] = e}
           RB(e) == {i \in k + 1..n : old[i] = e}
<1>3. ASSUME NEW e
      PROVE  /\ IsFiniteSet(RA(e)) /\ IsFiniteSet(RB(e))
             /\ Cardinality(RA(e)) = Cardinality(RB(e))
  <2> DEFINE a == A(e)
             b == B(e)
             g == [i \in a |-> f[i]]
  <2>1. IsFiniteSet(a) /\ IsFiniteSet(b)
    <3>1. IsFiniteSet(1..n)
      BY FS_Interval
    <3>2. a \in SUBSET (1..n) /\ b \in SUBSET (1..n)
      OBVIOUS
    <3> QED BY <3>1, <3>2, FS_Subset
  <2>2. \A i \in a : i \in 1..n /\ f[i] \in 1..n /\ old[f[i]] = e
    BY <1>1
  <2>3. g \in [a -> b] /\ \A i, j \in a : g[i] = g[j] => i = j
    BY <1>1, <2>2
  <2>4. \A j \in b : \E i \in a : g[i] = j
    <3>1. SUFFICES ASSUME NEW j \in b
                   PROVE  \E i \in a : g[i] = j
      OBVIOUS
    <3>2. PICK i \in 1..n : f[i] = j
      BY <1>2
    <3>3. i \in a
      BY <1>1, <3>2
    <3> QED BY <3>2, <3>3
  <2> HIDE DEF g
  <2>5. g \in Bijection(a, b)
    BY <2>3, <2>4 DEF Bijection, Injection, Surjection, IsInjective
  <2>6. Cardinality(a) = Cardinality(b)
    BY <2>1, <2>5, FS_Bijection DEF ExistsBijection
  <2>7. a \cap (1..k) = b \cap (1..k)
    OBVIOUS
  <2>8. RA(e) = a \ (1..k) /\ RB(e) = b \ (1..k)
    OBVIOUS
  <2> HIDE DEF a, b
  <2>9. /\ IsFiniteSet(a \ (1..k)) /\ IsFiniteSet(b \ (1..k))
        /\ Cardinality(a \ (1..k)) = Cardinality(a) - Cardinality(a \cap (1..k))
        /\ Cardinality(b \ (1..k)) = Cardinality(b) - Cardinality(b \cap (1..k))
    BY <2>1, FS_Difference
  <2> QED BY <2>6, <2>7, <2>8, <2>9
<1>4. ASSUME NEW e
      PROVE  /\ RA(e) = {} <=> RB(e) = {}
             /\ \A i, j \in RA(e) : i = j
  <2> DEFINE a == RA(e)
             b == RB(e)
  <2>1. \A i, j \in b : i = j
    BY DEF Distinct
  <2>2. IsFiniteSet(a) /\ IsFiniteSet(b) /\ Cardinality(a) = Cardinality(b)
    BY <1>3
  <2> HIDE DEF a, b
  <2>3. a = {} <=> b = {}
    BY <2>2, FS_EmptySet
  <2>4. CASE b # {}
    <3> PICK i \in b : TRUE
      BY <2>4
    <3>1. b = {i}
      BY <2>1
    <3>2. Cardinality(b) = 1
      BY <3>1, FS_Singleton
    <3>3. \E j : a = {j}
      BY <2>2, <3>2, FS_Singleton
    <3> QED BY <2>3, <3>3 DEF a, b
  <2> QED BY <2>3, <2>4 DEF a, b
<1>5. Distinct(new, k, n)
  BY <1>4 DEF Distinct
<1>6. \A e : e \in RestOf(new, k, n) <=> RA(e) # {}
  BY DEF RestOf
<1>7. \A e : e \in RestOf(old, k, n) <=> RB(e) # {}
  BY DEF RestOf
<1> QED BY <1>4, <1>5, <1>6, <1>7

Reads(c, ls, n) ==
  c[0] = Unread /\ \A k \in 1..n : c[k] = CanonicalStep(c[k - 1], ls[k])

(* What is held back is always a set of rules of unrelated directories.    *)
LEMMA StatesWellFormed ==
  ASSUME NEW n \in Nat, NEW ls, \A i \in 1..n : ls[i] \in Rules, NEW c, Reads(c, ls, n)
  PROVE  \A k \in 0..n : WellFormedState(c[k])
<1> DEFINE T == {k \in Nat : k <= n => WellFormedState(c[k])}
<1>1. 0 \in T
  <2>1. WellFormedState(Unread)
    BY FS_EmptySet DEF Unread, WellFormedState, Apartness
  <2> QED BY <2>1 DEF Reads
<1>2. ASSUME NEW k \in T
      PROVE  k + 1 \in T
  <2>1. SUFFICES ASSUME k + 1 <= n
                 PROVE  WellFormedState(c[k + 1])
    OBVIOUS
  <2>2. k \in Nat /\ k + 1 \in 1..n /\ k + 1 - 1 = k /\ k <= n
    BY <2>1
  <2>3. c[k + 1] = CanonicalStep(c[k], ls[k + 1])
    BY <2>2 DEF Reads
  <2> QED BY <2>2, <2>3, StepKeeps
<1>3. T = Nat
  <2> HIDE DEF T
  <2>1. T \in SUBSET Nat
    BY DEF T
  <2> QED BY <1>1, <1>2, <2>1, SetInduction
<1> QED BY <1>3

(* After such a prefix, nothing of it is held back to be sorted with what  *)
(* follows.                                                                *)
ClosedBy(c) ==
  c.group = {} \/ \E g : c.group = {g} /\ g.pattern.shape # "tail"

(* A rule of another permission, or one whose pattern overlaps with all,   *)
(* leaves at most itself behind.                                           *)
LEMMA PrefixCloses ==
  ASSUME NEW n \in Nat, NEW ls, \A i \in 1..n : ls[i] \in Rules, NEW c, Reads(c, ls, n),
         NEW k \in 0..n, k = 0 \/ ls[k].permission = "*" \/ ls[k].pattern.shape # "tail"
  PROVE  ClosedBy(c[k])
<1>1. CASE k = 0
  BY <1>1 DEF Reads, Unread, ClosedBy
<1>2. CASE k # 0
  <2> DEFINE p == c[k - 1]
             e == ls[k]
  <2>1. k \in 1..n /\ k - 1 \in 0..n
    BY <1>2
  <2>2. c[k] = CanonicalStep(p, e) /\ e \in Rules /\ WellFormedState(p)
    BY <2>1, StatesWellFormed DEF Reads
  <2> HIDE DEF p, e
  <2>3. CASE e.permission # "external_directory"
    <3>1. c[k].group = {}
      BY <2>2, <2>3 DEF CanonicalStep, Flush
    <3> QED BY <3>1 DEF ClosedBy
  <2>4. CASE e.permission = "external_directory"
    <3>1. e.pattern.shape # "tail"
      BY <1>2, <2>4 DEF e
    <3>2. \A r \in p.group : MayOverlap(e.pattern, r.pattern)
      BY <3>1 DEF MayOverlap
    <3>3. (IF Conflicts(p, e) THEN Flush(p) ELSE p).group = {}
      BY <3>2 DEF Conflicts, Flush
    <3>4. c[k].group = {e}
      BY <2>2, <2>4, <3>3 DEF CanonicalStep, WellFormedState, Flush
    <3> QED BY <3>1, <3>4 DEF ClosedBy
  <2> QED BY <2>3, <2>4
<1> QED BY <1>1, <1>2

(* The grants of unrelated directories that end a list are sorted          *)
(* together, and alone.                                                    *)
LEMMA RestIsOneGroup ==
  ASSUME NEW n \in Nat, NEW ls, \A i \in 1..n : ls[i] \in Rules, NEW c, Reads(c, ls, n),
         NEW k \in 0..n, k + 2 <= n, ClosedBy(c[k]),
         \A i, j \in k + 1..n : i # j => Apart(ls[i], ls[j])
  PROVE  c[n] = [out |-> Flush(c[k]).out, group |-> RestOf(ls, k, n)]
<1> DEFINE B == Flush(c[k]).out
           T == {j \in Nat : k + 1 + j <= n =>
                   c[k + 1 + j] = [out |-> B, group |-> RestOf(ls, k, k + 1 + j)]}
<1>1. WellFormedState(c[k])
  BY StatesWellFormed
<1>2. \A i \in k + 1..n : ls[i].permission = "external_directory" /\ ls[i].pattern.shape = "tail"
  <2>1. SUFFICES ASSUME NEW i \in k + 1..n
                 PROVE  ls[i].permission = "external_directory" /\ ls[i].pattern.shape = "tail"
    OBVIOUS
  <2>2. PICK j \in k + 1..n : j # i
    <3>1. k + 1 \in k + 1..n /\ k + 2 \in k + 1..n /\ k + 1 # k + 2
      OBVIOUS
    <3> QED BY <3>1
  <2> QED BY <2>2 DEF Apart, MayOverlap
<1>3. 0 \in T
  <2> DEFINE m == k + 1
             e == ls[m]
             s == c[k]
  <2>1. m \in 1..n /\ m - 1 = k /\ m \in k + 1..n /\ k + 1..m = {m}
    OBVIOUS
  <2>2. c[m] = CanonicalStep(s, e)
    BY <2>1 DEF Reads
  <2>3. RestOf(ls, k, m) = {e}
    BY <2>1 DEF RestOf
  <2>4. e.permission = "external_directory" /\ e.pattern.shape = "tail"
    BY <1>2, <2>1
  <2>5. c[m] = [out |-> B, group |-> {e}]
    <3> HIDE DEF m, e
    <3>1. CASE s.group = {}
      <4>1. ~Conflicts(s, e)
        BY <3>1 DEF Conflicts
      <4>2. c[m] = [out |-> s.out, group |-> {e}]
        BY <1>1, <2>2, <2>4, <3>1, <4>1 DEF CanonicalStep, WellFormedState
      <4>3. B = s.out
        <5>1. Sorted({}) \in Seq({})
          BY FS_EmptySet, SortedLists
        <5>2. Sorted({}) = <<>>
          BY <5>1, LenProperties
        <5>3. s.out \o <<>> = s.out
          BY <1>1, ConcatEmptySeq DEF WellFormedState
        <5> QED BY <3>1, <5>2, <5>3 DEF Flush
      <4> QED BY <4>2, <4>3
    <3>2. CASE \E g : s.group = {g} /\ g.pattern.shape # "tail"
      <4>1. Conflicts(s, e)
        BY <3>2 DEF Conflicts, MayOverlap
      <4>2. c[m] = [Flush(s) EXCEPT !.group = @ \cup {e}]
        BY <2>2, <2>4, <4>1 DEF CanonicalStep
      <4> QED BY <4>2 DEF Flush
    <3> QED BY <3>1, <3>2 DEF ClosedBy
  <2> QED BY <2>3, <2>5
<1>4. ASSUME NEW j \in T
      PROVE  j + 1 \in T
  <2>1. SUFFICES ASSUME k + 1 + (j + 1) <= n
                 PROVE  c[k + 1 + (j + 1)] = [out |-> B, group |-> RestOf(ls, k, k + 1 + (j + 1))]
    OBVIOUS
  <2> DEFINE m == k + 1 + j
             q == k + 1 + (j + 1)
             e == ls[q]
  <2>2. /\ j \in Nat /\ m \in k + 1..n /\ q \in 1..n /\ q - 1 = m /\ q \in k + 1..n
        /\ \A i \in k + 1..m : i # q /\ i \in k + 1..n
        /\ \A i : i \in k + 1..q <=> i \in k + 1..m \/ i = q
    BY <2>1
  <2>3. c[m] = [out |-> B, group |-> RestOf(ls, k, m)]
    BY <2>2
  <2> HIDE DEF B, T, m, q
  <2>4. c[q] = CanonicalStep(c[m], e)
    BY <2>2 DEF Reads
  <2>5. e.permission = "external_directory"
    BY <1>2, <2>2
  <2>6. ~Conflicts(c[m], e)
    <3>1. \A i \in k + 1..m : ~MayOverlap(e.pattern, ls[i].pattern)
      BY <2>2 DEF Apart
    <3> QED BY <2>3, <3>1 DEF Conflicts, RestOf
  <2>7. c[q] = [out |-> B, group |-> RestOf(ls, k, m) \cup {e}]
    <3>1. c[q] = [c[m] EXCEPT !.group = @ \cup {e}]
      BY <2>4, <2>5, <2>6 DEF CanonicalStep
    <3> QED BY <2>3, <3>1
  <2>8. RestOf(ls, k, q) = RestOf(ls, k, m) \cup {e}
    BY <2>2 DEF RestOf
  <2> QED BY <2>7, <2>8 DEF q
<1>5. T = Nat
  <2> HIDE DEF T
  <2>1. T \in SUBSET Nat
    BY DEF T
  <2> QED BY <1>3, <1>4, <2>1, SetInduction
<1>6. n - (k + 1) \in T /\ k + 1 + (n - (k + 1)) = n
  <2>1. n - (k + 1) \in Nat /\ k + 1 + (n - (k + 1)) = n
    OBVIOUS
  <2> HIDE DEF T
  <2> QED BY <1>5, <2>1
<1> QED BY <1>6

(* Two lists with a common prefix are read alike up to its end.            *)
LEMMA SamePrefixSameState ==
  ASSUME NEW n \in Nat, NEW old, NEW new, NEW c, NEW d, Reads(c, old, n), Reads(d, new, n),
         NEW k \in 0..n, \A i \in 1..k : old[i] = new[i]
  PROVE  c[k] = d[k]
<1> DEFINE T == {j \in Nat : j <= k => c[j] = d[j]}
<1>1. 0 \in T
  BY DEF Reads
<1>2. ASSUME NEW j \in T
      PROVE  j + 1 \in T
  <2>1. SUFFICES ASSUME j + 1 <= k
                 PROVE  c[j + 1] = d[j + 1]
    OBVIOUS
  <2>2. j \in Nat /\ j <= k /\ j + 1 \in 1..n /\ j + 1 - 1 = j /\ j + 1 \in 1..k
    BY <2>1
  <2> QED BY <2>2 DEF Reads
<1>3. T = Nat
  <2> HIDE DEF T
  <2>1. T \in SUBSET Nat
    BY DEF T
  <2> QED BY <1>1, <1>2, <2>1, SetInduction
<1> QED BY <1>3

(* Listings that differ only in such an order have the same canonical      *)
(* form.                                                                   *)
LEMMA NoiseKeepsCanonical ==
  ASSUME NEW old \in Seq(Rules), NEW new, SameButForNoise(old, new)
  PROVE  Canonical(new) = Canonical(old)
<1> DEFINE n == Len(old)
<1>1. n \in Nat /\ DOMAIN old = 1..n /\ \A i \in 1..n : old[i] \in Rules
  BY LenProperties
<1>2. new \in Reordered(old)
  BY DEF SameButForNoise
<1>3. DOMAIN new = 1..n /\ \A i \in 1..n : new[i] \in Rules
  BY <1>1, <1>2 DEF Reordered
<1>4. PICK k \in 0..n :
        /\ SubSeq(old, 1, k) = SubSeq(new, 1, k)
        /\ k = 0 \/ old[k].permission = "*" \/ old[k].pattern.shape # "tail"
        /\ \A i, j \in k + 1..n : i # j => Apart(old[i], old[j])
  BY DEF SameButForNoise
<1> HIDE DEF n
<1>5. \A i \in 1..k : old[i] = new[i]
  <2>1. SUFFICES ASSUME NEW i \in 1..k
                 PROVE  old[i] = new[i]
    OBVIOUS
  <2>2. SubSeq(old, 1, k)[i] = old[i] /\ SubSeq(new, 1, k)[i] = new[i]
    BY <1>1, <1>3
  <2> QED BY <1>4, <2>2
<1>6. Distinct(old, k, n)
  BY <1>4 DEF Distinct, Apart, MayOverlap
<1>7. Distinct(new, k, n) /\ RestOf(new, k, n) = RestOf(old, k, n)
  BY <1>1, <1>2, <1>5, <1>6, SameRest
<1>8. PICK c : Reads(c, old, n) /\ FoldLeft(CanonicalStep, Unread, old) = c[n]
  BY <1>1, CanonicalRuleByRule DEF Reads
<1>9. PICK d : Reads(d, new, n) /\ FoldLeft(CanonicalStep, Unread, new) = d[n]
  BY <1>1, <1>3, CanonicalRuleByRule DEF Reads
<1>10. c[k] = d[k]
  BY <1>1, <1>5, <1>8, <1>9, SamePrefixSameState
<1>11. c[n] = d[n]
  <2>1. CASE k = n
    BY <1>10, <2>1
  <2>2. CASE k + 1 = n
    <3>1. n \in 1..n /\ n - 1 = k /\ k + 1..n = {n}
      BY <1>1, <2>2
    <3>2. RestOf(old, k, n) = {old[n]} /\ RestOf(new, k, n) = {new[n]}
      BY <3>1 DEF RestOf
    <3>3. old[n] = new[n]
      BY <1>7, <3>2
    <3> QED BY <1>8, <1>9, <1>10, <3>1, <3>3 DEF Reads
  <2>3. CASE k + 2 <= n
    <3>1. ClosedBy(c[k])
      BY <1>1, <1>4, <1>8, PrefixCloses
    <3>2. \A i, j \in k + 1..n : i # j => Apart(new[i], new[j])
      <4>1. SUFFICES ASSUME NEW i \in k + 1..n, NEW j \in k + 1..n, i # j
                     PROVE  Apart(new[i], new[j])
        OBVIOUS
      <4>2. new[i] \in RestOf(old, k, n) /\ new[j] \in RestOf(old, k, n) /\ new[i] # new[j]
        BY <1>7, <4>1 DEF RestOf, Distinct
      <4> QED BY <1>4, <4>2 DEF RestOf
    <3>3. c[n] = [out |-> Flush(c[k]).out, group |-> RestOf(old, k, n)]
      BY <1>1, <1>4, <1>8, <2>3, <3>1, RestIsOneGroup
    <3>4. d[n] = [out |-> Flush(d[k]).out, group |-> RestOf(new, k, n)]
      BY <1>1, <1>3, <1>9, <1>10, <2>3, <3>1, <3>2, RestIsOneGroup
    <3> QED BY <1>7, <1>10, <3>3, <3>4
  <2> QED BY <1>1, <2>1, <2>2, <2>3
<1> QED BY <1>8, <1>9, <1>11 DEF Canonical, Unread

(* A later call lists rules too.                                           *)
LEMMA ListedAreRules ==
  ASSUME NEW rules \in Seq(Rules), NEW new \in Listed(rules)
  PROVE  new \in Seq(Rules)
<1> DEFINE n == Len(rules)
<1>1. n \in Nat /\ DOMAIN rules = 1..n /\ rules \in [1..n -> Rules]
  BY LenProperties
<1> HIDE DEF n
<1>2. CASE new \in Reordered(rules)
  <2>1. new \in [1..n -> Rules]
    BY <1>1, <1>2 DEF Reordered
  <2> QED BY <1>1, <2>1
<1>3. CASE new \in Changed(rules)
  <2>1. new \in [1..n -> Rules]
    BY <1>1, <1>3 DEF Changed
  <2> QED BY <1>1, <2>1
<1>4. CASE new \in Dropped(rules)
  <2>1. PICK i \in 1..n : new = SubSeq(rules, 1, i - 1) \o SubSeq(rules, i + 1, n)
    BY <1>1, <1>4 DEF Dropped, RemoveAt, n
  <2>2. SubSeq(rules, 1, i - 1) \in Seq(Rules)
    BY <1>1, SubSeqProperties
  <2>3. SubSeq(rules, i + 1, n) \in Seq(Rules)
    BY <1>1, SubSeqProperties
  <2> QED BY <2>1, <2>2, <2>3, ConcatProperties
<1> QED BY <1>2, <1>3, <1>4 DEF Listed

Preflighted == at = "recheck" => plane \in Seq(Rules)

(* RecheckSeesThePolicy: whatever rules the preflight accepted.            *)
THEOREM Recheck == Spec => RecheckSeesThePolicy
<1>1. Init => Preflighted
  <2> SUFFICES ASSUME Init
               PROVE  plane \in Seq(Rules)
    BY DEF Preflighted
  <2>1. PICK n \in 0..MaxRules : plane \in [1..n -> Rules]
    BY DEF Init, RuleLists
  <2>2. n \in Nat
    BY ControlPlaneAssumption DEF ControlPlaneAssumption
  <2> QED BY <2>1, <2>2
<1>2. Preflighted /\ [Next]_vars => Preflighted'
  BY DEF Preflighted, Next, vars, RecheckControlPlane, ChildPrints, CaptureOverflows, ChildEnds,
     Parse, Verify, Over
<1>3. Preflighted /\ [Next]_vars =>
        [at = "recheck" =>
           /\ at' = "child" => Policy(plane') = Policy(plane)
           /\ SameButForNoise(plane, plane') => at' = "child"]_vars
  <2> SUFFICES ASSUME Preflighted, Next, at = "recheck"
               PROVE  /\ at' = "child" => Policy(plane') = Policy(plane)
                      /\ SameButForNoise(plane, plane') => at' = "child"
    OBVIOUS
  <2>1. RecheckControlPlane
    BY DEF Next, ChildPrints, CaptureOverflows, ChildEnds, Parse, Verify, Over
  <2>2. /\ plane \in Seq(Rules) /\ plane' \in Listed(plane)
        /\ at' = "child" <=> Canonical(plane') = Canonical(plane)
    BY <2>1 DEF RecheckControlPlane, Preflighted
  <2>3. plane' \in Seq(Rules)
    BY <2>2, ListedAreRules
  <2>4. Policy(Canonical(plane')) = Policy(plane') /\ Policy(Canonical(plane)) = Policy(plane)
    BY <2>2, <2>3, CanonicalKeepsPolicy
  <2>5. SameButForNoise(plane, plane') => Canonical(plane') = Canonical(plane)
    BY <2>2, NoiseKeepsCanonical
  <2> QED BY <2>2, <2>4, <2>5
<1> QED BY <1>1, <1>2, <1>3, PTL DEF Spec, RecheckSeesThePolicy

-----------------------------------------------------------------------------
(* FoldLeft as the lines of an output are decoded one after the other.     *)

(* What FoldLeft defines by recursion over sets of positions.              *)
DecodedOf(out, f, s) ==
  IF s = {} THEN Undecoded
  ELSE LET x == Max(s) IN DecodeLine(f[s \ {x}], out[x])

(* The recursion of FoldLeft has a solution on the positions 1..n.         *)
LEMMA DecodedExists ==
  ASSUME NEW out, NEW n \in Nat
  PROVE  \E f : f = [s \in SUBSET (1..n) |-> DecodedOf(out, f, s)]
<1> DEFINE T == {k \in Nat : \E f : f = [s \in SUBSET (1..k) |-> DecodedOf(out, f, s)]}
<1>1. 0 \in T
  <2> DEFINE f == [s \in SUBSET (1..0) |-> Undecoded]
  <2>1. SUBSET (1..0) = {{}}
    OBVIOUS
  <2>2. f = [s \in SUBSET (1..0) |-> DecodedOf(out, f, s)]
    BY <2>1 DEF DecodedOf
  <2> QED BY <2>2
<1>2. ASSUME NEW k \in T
      PROVE  k + 1 \in T
  <2>1. PICK f : f = [s \in SUBSET (1..k) |-> DecodedOf(out, f, s)]
    OBVIOUS
  <2> DEFINE h == [s \in SUBSET (1..k + 1) |->
                     IF k + 1 \in s THEN DecodeLine(f[s \ {k + 1}], out[k + 1]) ELSE f[s]]
  <2>2. k \in Nat
    OBVIOUS
  <2>3. ASSUME NEW s \in SUBSET (1..k + 1)
        PROVE  h[s] = DecodedOf(out, h, s)
    <3>1. CASE k + 1 \in s
      <4>1. Max(s) = k + 1
        <5>1. k + 1 \in Nat
          BY <2>2
        <5> QED BY <3>1, <5>1, TopOfRange
      <4>2. s \ {k + 1} \in SUBSET (1..k)
        BY <2>2
      <4>3. s \ {k + 1} \in SUBSET (1..k + 1) /\ k + 1 \notin s \ {k + 1}
        OBVIOUS
      <4>4. h[s \ {k + 1}] = f[s \ {k + 1}]
        BY <4>3
      <4>5. h[s] = DecodeLine(f[s \ {k + 1}], out[k + 1])
        BY <3>1
      <4> QED BY <3>1, <4>1, <4>4, <4>5 DEF DecodedOf
    <3>2. CASE k + 1 \notin s
      <4>1. s \in SUBSET (1..k)
        BY <2>2, <3>2
      <4>2. h[s] = f[s] /\ f[s] = DecodedOf(out, f, s)
        BY <2>1, <3>2, <4>1
      <4>3. \A x : /\ s \ {x} \in SUBSET (1..k + 1) /\ k + 1 \notin s \ {x}
        BY <3>2
      <4>4. \A x : h[s \ {x}] = f[s \ {x}]
        BY <4>3
      <4> QED BY <4>2, <4>4 DEF DecodedOf
    <3> QED BY <3>1, <3>2
  <2>4. h = [s \in SUBSET (1..k + 1) |-> DecodedOf(out, h, s)]
    BY <2>3
  <2> HIDE DEF h
  <2> QED BY <2>2, <2>4
<1>3. T = Nat
  BY <1>1, <1>2, SetInduction
<1> QED BY <1>3

(* So the decoder goes through one state per line.                         *)
LEMMA DecodedLineByLine ==
  ASSUME NEW n \in Nat, NEW out, DOMAIN out = 1..n
  PROVE  \E d : /\ d[0] = Undecoded
                /\ \A k \in 1..n : d[k] = DecodeLine(d[k - 1], out[k])
                /\ FoldLeft(DecodeLine, Undecoded, out) = d[n]
<1> DEFINE f == CHOOSE f : f = [s \in SUBSET DOMAIN out |-> DecodedOf(out, f, s)]
           d == [k \in 0..n |-> f[1..k]]
<1>1. f = [s \in SUBSET (1..n) |-> DecodedOf(out, f, s)]
  <2>1. \E g : g = [s \in SUBSET DOMAIN out |-> DecodedOf(out, g, s)]
    <3>1. PICK g : g = [s \in SUBSET (1..n) |-> DecodedOf(out, g, s)]
      BY DecodedExists
    <3>2. g = [s \in SUBSET DOMAIN out |-> DecodedOf(out, g, s)]
      BY <3>1
    <3> QED BY <3>2
  <2>2. f = [s \in SUBSET DOMAIN out |-> DecodedOf(out, f, s)]
    BY <2>1
  <2> QED BY <2>2
<1>2. FoldLeft(DecodeLine, Undecoded, out) = f[1..n]
  BY DEF FoldLeft, MapThenFoldSet, DecodedOf
<1> HIDE DEF f
<1>3. d[0] = Undecoded
  <2>1. 1..0 = {} /\ {} \in SUBSET (1..n)
    OBVIOUS
  <2> QED BY <1>1, <2>1 DEF DecodedOf
<1>4. ASSUME NEW k \in 1..n
      PROVE  d[k] = DecodeLine(d[k - 1], out[k])
  <2>1. k \in Nat /\ 1..k \in SUBSET (1..n) /\ k \in 1..k /\ 1..k # {}
    OBVIOUS
  <2>2. Max(1..k) = k
    BY <2>1, TopOfRange
  <2>3. (1..k) \ {k} = 1..k - 1
    OBVIOUS
  <2>4. f[1..k] = DecodedOf(out, f, 1..k)
    BY <1>1, <2>1
  <2>5. f[1..k] = DecodeLine(f[1..k - 1], out[k])
    BY <2>1, <2>2, <2>3, <2>4 DEF DecodedOf
  <2>6. d[k] = f[1..k] /\ d[k - 1] = f[1..k - 1]
    OBVIOUS
  <2> QED BY <2>5, <2>6
<1>5. d[n] = f[1..n]
  OBVIOUS
<1> QED BY <1>2, <1>3, <1>4, <1>5

-----------------------------------------------------------------------------
(* What the decoder knows after k lines, said of those lines.              *)

DecoderStates ==
  [refused : BOOLEAN, session : Sessions \cup {None},
   completed : [Messages -> Texts \cup {None}], last : Messages \cup {NoMessage},
   reason : {"stop", "tool-calls"}, activity : BOOLEAN]

OneSession(out, k) ==
  \A i \in 1..k : out[i] # Invalid /\ sessionOf[out[i].message] = sessionOf[out[1].message]

Completes(e, m) == e.type = "text" /\ e.message = m /\ e.text # Partial

HeldAfter(out, k, m, x) ==
  \E i \in 1..k : /\ Completes(out[i], m) /\ out[i].text = x
                  /\ \A j \in i + 1..k : ~Completes(out[j], m)

ConcludedAfter(out, k, d) ==
  \E i \in 1..k :
    /\ out[i].type = "step_finish" /\ out[i].message = d.last /\ out[i].reason = d.reason
    /\ \A j \in i + 1..k : out[j].type # "step_finish"
    /\ d.activity <=> \E j \in i + 1..k : out[j].type # "session.error"

DecodedUpTo(out, k, d) ==
  /\ d \in DecoderStates
  /\ d.refused <=> ~OneSession(out, k)
  /\ ~d.refused =>
       /\ d.session = IF k = 0 THEN None ELSE sessionOf[out[1].message]
       /\ \A m \in Messages, x \in Texts : d.completed[m] = x <=> HeldAfter(out, k, m, x)
       /\ IF d.last = NoMessage THEN \A i \in 1..k : out[i].type # "step_finish"
          ELSE ConcludedAfter(out, k, d)

(* What an event that is not invalid is made of.                           *)
LEMMA EventShape ==
  ASSUME NEW e \in Events
  PROVE  /\ e = Invalid <=> e.type = "invalid"
         /\ e # Invalid => /\ e.message \in Messages
                           /\ e.type \in {"text", "step_finish", "other", "session.error"}
         /\ e.type = "text" => e.text \in Texts \cup {Blank, Partial}
         /\ e.type = "step_finish" => e.reason \in {"stop", "tool-calls"}
BY DEF Events, TextEvents, FinishEvents, OtherEvents, ErrorEvents, Invalid

(* Before the first line.                                                  *)
LEMMA UndecodedUpTo ==
  ASSUME NEW out
  PROVE  DecodedUpTo(out, 0, Undecoded)
<1>1. 1..0 = {}
  OBVIOUS
<1>2. \A m \in Messages : Undecoded.completed[m] = None
  BY DEF Undecoded
<1>3. Undecoded \in DecoderStates
  BY DEF Undecoded, DecoderStates
<1>4. /\ ~Undecoded.refused /\ Undecoded.session = None /\ Undecoded.last = NoMessage
  BY DEF Undecoded
<1> QED
  BY <1>1, <1>2, <1>3, <1>4, ResponseAssumption
  DEF DecodedUpTo, OneSession, HeldAfter, ResponseAssumption

(* One line more.                                                          *)
LEMMA DecodeLineUpTo ==
  ASSUME sessionOf \in [Messages -> Sessions], NEW k \in Nat \ {0}, NEW out,
         \A i \in 1..k : out[i] \in Events, NEW d, DecodedUpTo(out, k - 1, d)
  PROVE  DecodedUpTo(out, k, DecodeLine(d, out[k]))
<1> DEFINE e == out[k]
           c == DecodeLine(d, e)
<1>1. e \in Events /\ d \in DecoderStates /\ k - 1 \in Nat
  BY DEF DecodedUpTo
<1>2. \A i : i \in 1..k <=> i \in 1..k - 1 \/ i = k
  OBVIOUS
<1>3. OneSession(out, k) <=>
        OneSession(out, k - 1) /\ e # Invalid /\ sessionOf[e.message] = sessionOf[out[1].message]
  BY <1>2 DEF OneSession
<1>4. CASE d.refused \/ e = Invalid \/ (d.session # None /\ sessionOf[e.message] # d.session)
  <2>1. c = Refused(d)
    BY <1>4 DEF DecodeLine
  <2>2. c.refused /\ c \in DecoderStates
    BY <2>1, <1>1 DEF Refused, DecoderStates
  <2>3. ~OneSession(out, k)
    <3>1. CASE d.refused
      BY <3>1, <1>3 DEF DecodedUpTo
    <3>2. CASE e = Invalid
      BY <3>2, <1>3
    <3>3. CASE ~d.refused /\ e # Invalid /\ d.session # None /\ sessionOf[e.message] # d.session
      <4>1. d.session = sessionOf[out[1].message]
        BY <3>3 DEF DecodedUpTo
      <4> QED BY <4>1, <3>3, <1>3
    <3> QED BY <3>1, <3>2, <3>3, <1>4
  <2> QED BY <2>2, <2>3 DEF DecodedUpTo
<1>5. CASE ~d.refused /\ e # Invalid /\ (d.session = None \/ sessionOf[e.message] = d.session)
  <2> DEFINE s == sessionOf[e.message]
             b == InSession(d, e)
             active == d.last # NoMessage
  <2>1. e.message \in Messages /\ s \in Sessions
    BY <1>1, <1>5, EventShape
  <2>2. /\ d.session = IF k - 1 = 0 THEN None ELSE sessionOf[out[1].message]
        /\ \A m \in Messages, x \in Texts : d.completed[m] = x <=> HeldAfter(out, k - 1, m, x)
        /\ IF d.last = NoMessage THEN \A i \in 1..k - 1 : out[i].type # "step_finish"
           ELSE ConcludedAfter(out, k - 1, d)
        /\ OneSession(out, k - 1)
    BY <1>5 DEF DecodedUpTo
  <2>3. s = sessionOf[out[1].message]
    <3>1. CASE k = 1
      BY <3>1
    <3>2. CASE k # 1
      <4>1. 1 \in 1..k - 1 /\ k - 1 # 0
        BY <3>2
      <4>2. out[1] \in Events /\ out[1] # Invalid
        BY <4>1, <2>2, <1>2 DEF OneSession
      <4>3. sessionOf[out[1].message] \in Sessions
        BY <4>2, EventShape
      <4>4. None \notin Sessions
        BY DEF None, Sessions
      <4> QED BY <4>1, <4>3, <4>4, <2>2, <1>5
    <3> QED BY <3>1, <3>2
  <2>4. OneSession(out, k)
    BY <1>3, <1>5, <2>2, <2>3
  <2>5. /\ b \in DecoderStates /\ b.session = s /\ ~b.refused /\ b.completed = d.completed
        /\ b.last = d.last /\ b.reason = d.reason /\ b.activity = d.activity
    BY <1>1, <1>5, <2>1 DEF InSession, DecoderStates
  <2>6. /\ c \in DecoderStates /\ ~c.refused /\ c.session = s
        /\ c.completed = IF e.type = "text" /\ e.text # Partial
                         THEN [d.completed EXCEPT
                                 ![e.message] = IF e.text = Blank THEN None ELSE e.text]
                         ELSE d.completed
        /\ c.last = IF e.type = "step_finish" THEN e.message ELSE d.last
        /\ c.reason = IF e.type = "step_finish" THEN e.reason ELSE d.reason
        /\ c.activity = IF e.type = "step_finish" THEN FALSE
                        ELSE IF e.type = "session.error" THEN d.activity ELSE active
    <3> DEFINE a == [b EXCEPT !.activity = b.last # NoMessage]
    <3>1. c = CASE e.type = "session.error" -> b
                [] e.type = "step_finish"   -> DecodeFinish(b, e)
                [] e.type = "text"          -> DecodeText(a, e)
                [] e.type = "other"         -> a
      BY <1>5 DEF DecodeLine
    <3>2. /\ a \in DecoderStates /\ a.session = s /\ ~a.refused /\ a.completed = d.completed
          /\ a.last = d.last /\ a.reason = d.reason /\ a.activity = active
      BY <2>5 DEF DecoderStates
    <3> HIDE DEF a, b
    <3>3. CASE e.type = "session.error"
      BY <3>1, <3>3, <2>5
    <3>4. CASE e.type = "step_finish"
      <4>1. c = DecodeFinish(b, e)
        BY <3>1, <3>4
      <4>2. e.reason \in {"stop", "tool-calls"}
        BY <3>4, <1>1, EventShape
      <4> QED BY <4>1, <4>2, <3>4, <2>5, <2>1 DEF DecodeFinish, DecoderStates
    <3>5. CASE e.type = "text"
      <4>1. c = DecodeText(a, e)
        BY <3>1, <3>5
      <4>2. e.text \in Texts \cup {Blank, Partial}
        BY <3>5, <1>1, EventShape
      <4>3. CASE e.text = Partial
        BY <4>1, <4>3, <3>2, <3>5 DEF DecodeText
      <4>4. CASE e.text # Partial
        <5> DEFINE x == IF e.text = Blank THEN None ELSE e.text
        <5>1. x \in Texts \cup {None}
          BY <4>2, <4>4
        <5>2. c = [a EXCEPT !.completed[e.message] = x]
          BY <4>1, <4>4 DEF DecodeText
        <5>3. c = [a EXCEPT !.completed = [a.completed EXCEPT ![e.message] = x]]
          BY <5>2
        <5>4. [d.completed EXCEPT ![e.message] = x] \in [Messages -> Texts \cup {None}]
          BY <5>1, <1>1 DEF DecoderStates
        <5> HIDE DEF x
        <5>5. /\ c \in DecoderStates /\ ~c.refused /\ c.session = s
              /\ c.completed = [d.completed EXCEPT ![e.message] = x]
              /\ c.last = d.last /\ c.reason = d.reason /\ c.activity = active
          BY <5>3, <5>4, <3>2 DEF DecoderStates
        <5> QED BY <5>5, <4>4, <3>5 DEF x
      <4> QED BY <4>3, <4>4
    <3>6. CASE e.type = "other"
      BY <3>1, <3>6, <3>2
    <3> QED BY <3>3, <3>4, <3>5, <3>6, <1>1, <1>5, EventShape
  <2> HIDE DEF c, b
  <2>7. ASSUME NEW m \in Messages, NEW x \in Texts
        PROVE  c.completed[m] = x <=> HeldAfter(out, k, m, x)
    <3>1. \A i \in 1..k - 1 : \A j : j \in i + 1..k <=> j \in i + 1..k - 1 \/ j = k
      OBVIOUS
    <3>2. k + 1..k = {} /\ k \in 1..k
      OBVIOUS
    <3>3. CASE Completes(e, m)
      <4>1. HeldAfter(out, k, m, x) <=> e.text = x
        BY <1>2, <3>1, <3>2, <3>3 DEF HeldAfter
      <4>2. c.completed[m] = IF e.text = Blank THEN None ELSE e.text
        BY <2>6, <3>3, <1>1 DEF Completes, DecoderStates
      <4> QED BY <4>1, <4>2, ResponseAssumption DEF ResponseAssumption
    <3>4. CASE ~Completes(e, m)
      <4>1. HeldAfter(out, k, m, x) <=> HeldAfter(out, k - 1, m, x)
        BY <1>2, <3>1, <3>4 DEF HeldAfter
      <4>2. c.completed[m] = d.completed[m]
        BY <2>6, <3>4, <1>1 DEF Completes, DecoderStates
      <4> QED BY <4>1, <4>2, <2>2
    <3> QED BY <3>3, <3>4
  <2>8. IF c.last = NoMessage THEN \A i \in 1..k : out[i].type # "step_finish"
        ELSE ConcludedAfter(out, k, c)
    <3>1. CASE e.type = "step_finish"
      <4>1. c.last = e.message /\ c.last # NoMessage /\ c.reason = e.reason /\ ~c.activity
        BY <2>6, <3>1, <2>1, ResponseAssumption DEF ResponseAssumption
      <4>2. k \in 1..k /\ k + 1..k = {}
        OBVIOUS
      <4> QED BY <4>1, <4>2, <3>1 DEF ConcludedAfter
    <3>2. CASE e.type # "step_finish" /\ d.last = NoMessage
      <4>1. c.last = NoMessage
        BY <2>6, <3>2
      <4> QED BY <4>1, <3>2, <2>2, <1>2
    <3>3. CASE e.type # "step_finish" /\ d.last # NoMessage
      <4>1. c.last = d.last /\ c.reason = d.reason
            /\ c.activity = IF e.type = "session.error" THEN d.activity ELSE TRUE
        BY <2>6, <3>3
      <4>2. PICK i \in 1..k - 1 :
              /\ out[i].type = "step_finish" /\ out[i].message = d.last /\ out[i].reason = d.reason
              /\ \A j \in i + 1..k - 1 : out[j].type # "step_finish"
              /\ d.activity <=> \E j \in i + 1..k - 1 : out[j].type # "session.error"
        BY <2>2, <3>3 DEF ConcludedAfter
      <4>3. i \in 1..k /\ \A j : j \in i + 1..k <=> j \in i + 1..k - 1 \/ j = k
        OBVIOUS
      <4>4. \A j \in i + 1..k : out[j].type # "step_finish"
        BY <4>2, <4>3, <3>3
      <4>5. c.activity <=> \E j \in i + 1..k : out[j].type # "session.error"
        BY <4>1, <4>2, <4>3, <1>1 DEF DecoderStates
      <4> QED BY <4>1, <4>2, <4>3, <4>4, <4>5, <3>3 DEF ConcludedAfter
    <3> QED BY <3>1, <3>2, <3>3
  <2> QED BY <2>3, <2>4, <2>6, <2>7, <2>8 DEF DecodedUpTo, c
<1> QED BY <1>4, <1>5

(* After the last line.                                                    *)
LEMMA Decoded ==
  ASSUME sessionOf \in [Messages -> Sessions], NEW out \in Seq(Events)
  PROVE  DecodedUpTo(out, Len(out), FoldLeft(DecodeLine, Undecoded, out))
<1> DEFINE n == Len(out)
<1>1. n \in Nat /\ DOMAIN out = 1..n /\ \A i \in 1..n : out[i] \in Events
  BY LenProperties
<1> HIDE DEF n
<1>2. PICK d : /\ d[0] = Undecoded
               /\ \A k \in 1..n : d[k] = DecodeLine(d[k - 1], out[k])
               /\ FoldLeft(DecodeLine, Undecoded, out) = d[n]
  BY <1>1, DecodedLineByLine
<1> DEFINE T == {k \in Nat : k <= n => DecodedUpTo(out, k, d[k])}
<1>3. 0 \in T
  BY <1>2, UndecodedUpTo
<1>4. ASSUME NEW k \in T
      PROVE  k + 1 \in T
  <2>1. SUFFICES ASSUME k + 1 <= n
                 PROVE  DecodedUpTo(out, k + 1, d[k + 1])
    OBVIOUS
  <2>2. k \in Nat /\ k <= n /\ k + 1 \in 1..n /\ k + 1 \in Nat \ {0} /\ k + 1 - 1 = k
    BY <2>1, <1>1
  <2>3. DecodedUpTo(out, k, d[k]) /\ d[k + 1] = DecodeLine(d[k], out[k + 1])
    BY <2>2, <1>2
  <2>4. \A i \in 1..k + 1 : out[i] \in Events
    BY <2>2, <1>1
  <2> DEFINE m == k + 1
  <2>5. /\ m \in Nat \ {0} /\ \A i \in 1..m : out[i] \in Events
        /\ DecodedUpTo(out, m - 1, d[k]) /\ d[m] = DecodeLine(d[k], out[m])
    BY <2>2, <2>3, <2>4
  <2> HIDE DEF m
  <2>6. DecodedUpTo(out, m, DecodeLine(d[k], out[m]))
    BY <2>5, DecodeLineUpTo
  <2> QED BY <2>5, <2>6 DEF m
<1>5. T = Nat
  <2> HIDE DEF T
  <2>1. T \in SUBSET Nat
    BY DEF T
  <2> QED BY <1>3, <1>4, <2>1, SetInduction
<1>6. DecodedUpTo(out, n, d[n])
  BY <1>1, <1>5
<1> QED BY <1>2, <1>6 DEF n

-----------------------------------------------------------------------------
(* The terminal text.                                                      *)

(* Latest is the last of a set of positions.                               *)
LEMMA LatestIs ==
  ASSUME NEW n \in Nat, NEW S \in SUBSET (1..n), NEW i \in S, \A j \in S : j <= i
  PROVE  Latest(S) = i
<1>1. \A k \in S : (\A j \in S : j <= k) => k = i
  OBVIOUS
<1> QED BY <1>1 DEF Latest

(* And a set that is not empty has one.                                    *)
LEMMA LatestExists ==
  ASSUME NEW n \in Nat, NEW S \in SUBSET (1..n), S # {}
  PROVE  Latest(S) \in S /\ \A j \in S : j <= Latest(S)
<1>1. PICK i \in S : \A j \in S : j <= i
  BY GreatestExists
<1>2. Latest(S) = i
  BY <1>1, LatestIs
<1> QED BY <1>1, <1>2

(* What a message holds after the last line is what Holds says of it.      *)
LEMMA HeldIsHolds ==
  ASSUME lines \in Seq(Events), NEW m \in Messages, NEW x \in Texts
  PROVE  Holds(m, x) <=> HeldAfter(lines, Len(lines), m, x)
<1> DEFINE n == Len(lines)
           S == CompletedAt(m)
<1>1. n \in Nat /\ DOMAIN lines = 1..n
  BY LenProperties
<1> HIDE DEF n
<1>2. \A i : i \in S <=> i \in 1..n /\ Completes(lines[i], m)
  BY <1>1 DEF CompletedAt, Positions, Completes
<1>3. S \in SUBSET (1..n)
  BY <1>2
<1> HIDE DEF S
<1>4. Holds(m, x) <=> S # {} /\ lines[Latest(S)].text = x
  BY DEF Holds, S
<1>5. ASSUME S # {}, lines[Latest(S)].text = x
      PROVE  HeldAfter(lines, n, m, x)
  <2>1. Latest(S) \in S /\ \A j \in S : j <= Latest(S)
    BY <1>1, <1>3, <1>5, LatestExists
  <2>2. \A j \in Latest(S) + 1..n : j \in 1..n /\ ~(j <= Latest(S))
    <3> DEFINE l == Latest(S)
    <3>1. l \in 1..n
      BY <1>3, <2>1
    <3> HIDE DEF l
    <3>2. \A j \in l + 1..n : j \in 1..n /\ ~(j <= l)
      BY <1>1, <3>1
    <3> QED BY <3>2 DEF l
  <2>3. \A j \in Latest(S) + 1..n : ~Completes(lines[j], m)
    BY <1>2, <2>1, <2>2
  <2> QED BY <1>2, <1>5, <2>1, <2>3 DEF HeldAfter
<1>6. ASSUME HeldAfter(lines, n, m, x)
      PROVE  S # {} /\ lines[Latest(S)].text = x
  <2>1. PICK i \in 1..n : /\ Completes(lines[i], m) /\ lines[i].text = x
                          /\ \A j \in i + 1..n : ~Completes(lines[j], m)
    BY <1>6 DEF HeldAfter
  <2>2. \A j \in 1..n : j <= i \/ j \in i + 1..n
    BY <1>1
  <2>3. i \in S /\ \A j \in S : j <= i
    BY <1>2, <2>1, <2>2
  <2>4. Latest(S) = i
    BY <1>1, <1>3, <2>3, LatestIs
  <2> QED BY <2>1, <2>3, <2>4
<1> QED BY <1>4, <1>5, <1>6 DEF n

(* What is asked of the messages, of the whole stream and of the decoder.  *)
LEMMA ConcludedIs ==
  ASSUME sessionOf \in [Messages -> Sessions], lines \in Seq(Events),
         NEW d, DecodedUpTo(lines, Len(lines), d), ~d.refused, NEW m \in Messages
  PROVE  /\ Positions("step_finish") # {} <=> d.last # NoMessage
         /\ d.last # NoMessage =>
              (Concluded(m) <=> d.last = m /\ d.reason # "tool-calls" /\ ~d.activity)
<1> DEFINE n == Len(lines)
           S == Positions("step_finish")
<1>1. n \in Nat /\ DOMAIN lines = 1..n /\ \A i \in 1..n : lines[i] \in Events
  BY LenProperties
<1>2. d \in DecoderStates
      /\ IF d.last = NoMessage THEN \A i \in 1..n : lines[i].type # "step_finish"
         ELSE ConcludedAfter(lines, n, d)
  BY DEF DecodedUpTo
<1> HIDE DEF n
<1>3. \A i : i \in S <=> i \in 1..n /\ lines[i].type = "step_finish"
  BY <1>1 DEF Positions
<1>4. S \in SUBSET (1..n)
  BY <1>3
<1>5. CASE d.last = NoMessage
  BY <1>2, <1>3, <1>5
<1>6. CASE d.last # NoMessage
  <2>1. PICK i \in 1..n :
          /\ lines[i].type = "step_finish" /\ lines[i].message = d.last
          /\ lines[i].reason = d.reason
          /\ \A j \in i + 1..n : lines[j].type # "step_finish"
          /\ d.activity <=> \E j \in i + 1..n : lines[j].type # "session.error"
    BY <1>2, <1>6 DEF ConcludedAfter
  <2>2. \A j \in 1..n : (j <= i \/ j \in i + 1..n) /\ (j \in i + 1..n <=> j > i)
    BY <1>1
  <2>3. i \in S /\ \A j \in S : j <= i
    BY <1>3, <2>1, <2>2
  <2>4. Latest(S) = i
    BY <1>1, <1>4, <2>3, LatestIs
  <2>5. lines[i] = [type |-> "step_finish", message |-> m, reason |-> "stop"]
        <=> d.last = m /\ d.reason # "tool-calls"
    <3>1. lines[i] \in FinishEvents
      BY <1>1, <2>1 DEF Events, TextEvents, FinishEvents, OtherEvents, ErrorEvents, Invalid
    <3>2. lines[i] = [type |-> "step_finish", message |-> d.last, reason |-> d.reason]
      BY <3>1, <2>1 DEF FinishEvents
    <3>3. d.reason \in {"stop", "tool-calls"}
      BY <1>2 DEF DecoderStates
    <3> QED BY <3>2, <3>3
  <2>6. (\A j \in DOMAIN lines : j > i => lines[j].type = "session.error") <=> ~d.activity
    <3>1. \A j : (j \in 1..n /\ j > i) <=> j \in i + 1..n
      BY <1>1
    <3>2. d.activity \in BOOLEAN
      BY <1>2 DEF DecoderStates
    <3> QED BY <3>1, <3>2, <2>1, <1>1
  <2> HIDE DEF S
  <2>7. Concluded(m) <=>
          /\ lines[i] = [type |-> "step_finish", message |-> m, reason |-> "stop"]
          /\ \A j \in DOMAIN lines : j > i => lines[j].type = "session.error"
    BY <2>4 DEF Concluded, S
  <2> QED BY <1>6, <2>3, <2>5, <2>6, <2>7 DEF S
<1> QED BY <1>5, <1>6

(* The decoder trusts exactly the messages that conclude the stream.       *)
LEMMA TerminalIsDecoded ==
  ASSUME sessionOf \in [Messages -> Sessions], lines \in Seq(Events),
         ~overflowed, Len(lines) <= NdjsonLimit,
         NEW d, DecodedUpTo(lines, Len(lines), d), NEW m \in Messages, NEW x \in Texts
  PROVE  TerminalText(m, x) <=> TerminalMessage(d) = m /\ d.completed[m] = x
<1> DEFINE n == Len(lines)
<1>1. n \in Nat /\ DOMAIN lines = 1..n /\ \A i \in 1..n : lines[i] \in Events
  BY LenProperties
<1>2. d \in DecoderStates /\ m # NoMessage /\ x # None /\ IsFiniteSet(Messages)
  BY ResponseAssumption DEF DecodedUpTo, ResponseAssumption
<1>3. CASE d.refused
  <2>1. TerminalMessage(d) = NoMessage
    BY <1>3 DEF TerminalMessage
  <2>2. ~OneSession(lines, n)
    BY <1>3 DEF DecodedUpTo
  <2>3. ASSUME TerminalText(m, x)
        PROVE  FALSE
    <3>1. Positions("invalid") = {} /\ \A i \in 1..n : sessionOf[lines[i].message] = sessionOf[m]
      BY <1>1, <2>3 DEF TerminalText
    <3>2. \A i \in 1..n : lines[i] # Invalid
      BY <1>1, <3>1, EventShape DEF Positions
    <3>3. \A i \in 1..n : 1 \in 1..n
      BY <1>1
    <3> QED BY <2>2, <3>1, <3>2, <3>3 DEF OneSession
  <2> QED BY <1>2, <2>1, <2>3
<1>4. CASE ~d.refused
  <2>1. /\ OneSession(lines, n)
        /\ \A a \in Messages, y \in Texts : d.completed[a] = y <=> HeldAfter(lines, n, a, y)
    BY <1>4 DEF DecodedUpTo
  <2>2. \A a \in Messages, y \in Texts : Holds(a, y) <=> d.completed[a] = y
    BY <2>1, HeldIsHolds
  <2>3. \A a \in Messages : a \in Candidates(d) <=> \E y \in Texts : d.completed[a] = y
    BY <1>2, ResponseAssumption DEF Candidates, DecoderStates, ResponseAssumption
  <2>4. ASSUME d.completed[m] = x
        PROVE  /\ Positions("invalid") = {}
               /\ \A i \in DOMAIN lines : sessionOf[lines[i].message] = sessionOf[m]
    <3>1. PICK i \in 1..n : Completes(lines[i], m)
      BY <2>1, <2>4 DEF HeldAfter
    <3>2. sessionOf[m] = sessionOf[lines[1].message]
      BY <2>1, <3>1 DEF OneSession, Completes
    <3>3. \A j \in 1..n : lines[j] # Invalid /\ sessionOf[lines[j].message] = sessionOf[m]
      BY <2>1, <3>2 DEF OneSession
    <3> QED BY <1>1, <3>3, EventShape DEF Positions
  <2>5. TerminalText(m, x) <=>
          /\ d.completed[m] = x
          /\ IF Positions("step_finish") # {} THEN Concluded(m)
             ELSE \A a \in Messages, y \in Texts : Holds(a, y) => a = m
    BY <2>2, <2>4 DEF TerminalText
  <2>6. CASE d.last # NoMessage
    <3>1. /\ Positions("step_finish") # {}
          /\ Concluded(m) <=> d.last = m /\ d.reason # "tool-calls" /\ ~d.activity
      BY <1>4, <2>6, ConcludedIs
    <3>2. TerminalMessage(d) = m <=>
            d.last = m /\ d.reason # "tool-calls" /\ ~d.activity /\ m \in Candidates(d)
      BY <1>2, <1>4, <2>6 DEF TerminalMessage
    <3> QED BY <2>3, <2>5, <3>1, <3>2
  <2>7. CASE d.last = NoMessage
    <3>1. Positions("step_finish") = {}
      BY <1>4, <2>7, ConcludedIs
    <3>2. TerminalMessage(d) = IF Cardinality(Candidates(d)) = 1
                               THEN CHOOSE a \in Candidates(d) : TRUE ELSE NoMessage
      BY <1>4, <2>7 DEF TerminalMessage
    <3>3. Candidates(d) \in SUBSET Messages /\ IsFiniteSet(Candidates(d))
      BY <1>2, FS_Subset DEF Candidates
    <3>4. Cardinality(Candidates(d)) = 1 <=> \E a : Candidates(d) = {a}
      BY <3>3, FS_Singleton
    <3>5. TerminalMessage(d) = m <=> Candidates(d) = {m}
      BY <1>2, <3>2, <3>4
    <3>6. d.completed[m] = x =>
            (Candidates(d) = {m} <=> \A a \in Messages, y \in Texts : Holds(a, y) => a = m)
      BY <2>2, <2>3, <3>3
    <3>7. Candidates(d) = {m} => m \in Candidates(d)
      OBVIOUS
    <3> QED BY <2>5, <3>1, <3>5, <3>6
  <2> QED BY <2>6, <2>7
<1> QED BY <1>3, <1>4

(* The message the decoder trusts is one of its candidates, and of the     *)
(* session it names.                                                       *)
LEMMA TransportIsOfItsSession ==
  ASSUME sessionOf \in [Messages -> Sessions], lines \in Seq(Events),
         DecodeRunTransport(lines) # NoTransport
  PROVE  LET t == DecodeRunTransport(lines)
             d == FoldLeft(DecodeLine, Undecoded, lines)
         IN /\ t.message \in Messages /\ t.text \in Texts
            /\ t.session = sessionOf[t.message]
            /\ TerminalMessage(d) = t.message /\ d.completed[t.message] = t.text
            /\ Len(lines) <= NdjsonLimit
<1> DEFINE t == DecodeRunTransport(lines)
           d == FoldLeft(DecodeLine, Undecoded, lines)
           m == TerminalMessage(d)
<1>1. DecodedUpTo(lines, Len(lines), d)
  BY Decoded
<1> HIDE DEF d
<1>2. m # NoMessage /\ t = [session |-> d.session, message |-> m, text |-> d.completed[m]]
  BY DEF DecodeRunTransport, d
<1>n. Len(lines) <= NdjsonLimit
  BY LenProperties, ResponseAssumption DEF DecodeRunTransport, ResponseAssumption
<1>3. d \in DecoderStates
  BY <1>1 DEF DecodedUpTo
<1>m. m = TerminalMessage(d)
  OBVIOUS
<1> HIDE DEF m
<1>4. ~d.refused /\ m \in Candidates(d)
  <2>1. ~d.refused
    BY <1>2, <1>m DEF TerminalMessage
  <2>2. CASE d.last # NoMessage
    BY <1>2, <1>m, <2>1, <2>2 DEF TerminalMessage
  <2>3. CASE d.last = NoMessage
    <3>1. Cardinality(Candidates(d)) = 1 /\ m = CHOOSE a \in Candidates(d) : TRUE
      BY <1>2, <1>m, <2>1, <2>3 DEF TerminalMessage
    <3>2. Candidates(d) \in SUBSET Messages /\ IsFiniteSet(Candidates(d))
      BY ResponseAssumption, FS_Subset DEF Candidates, ResponseAssumption
    <3>3. Candidates(d) # {}
      BY <3>1, <3>2, FS_EmptySet
    <3> QED BY <2>1, <3>1, <3>3
  <2> QED BY <2>1, <2>2, <2>3
<1>5. m \in Messages /\ d.completed[m] \in Texts
  BY <1>3, <1>4 DEF Candidates, DecoderStates
<1>6. d.session = sessionOf[m]
  <2>1. HeldAfter(lines, Len(lines), m, d.completed[m])
    BY <1>1, <1>4, <1>5 DEF DecodedUpTo
  <2>2. PICK i \in 1..Len(lines) : Completes(lines[i], m)
    BY <2>1 DEF HeldAfter
  <2>3. Len(lines) # 0
    BY <2>2, LenProperties
  <2>4. sessionOf[m] = sessionOf[lines[1].message]
    BY <1>1, <1>4, <2>2 DEF DecodedUpTo, OneSession, Completes
  <2> QED BY <1>1, <1>4, <2>3, <2>4 DEF DecodedUpTo
<1> HIDE DEF t
<1>7. /\ t.message \in Messages /\ t.text \in Texts /\ t.session = sessionOf[t.message]
      /\ t.message = m /\ t.text = d.completed[m]
  BY <1>2, <1>5, <1>6
<1> QED BY <1>7, <1>n DEF t, d, m

Streaming ==
  at = "child" => sessionOf \in [Messages -> Sessions] /\ lines \in Seq(Events)

(* Lines are only kept while the child runs, and its sessions are known by *)
(* then.                                                                   *)
LEMMA StreamingStep ==
  ASSUME Streaming, lines = <<>> \/ at = "child", [Next]_vars
  PROVE  Streaming' /\ (lines = <<>> \/ at = "child")'
<1>1. CASE RecheckControlPlane
  BY <1>1 DEF RecheckControlPlane, Streaming
<1>2. CASE ChildPrints
  <2>1. PICK e \in Events : lines' = Append(lines, e)
    BY <1>2 DEF ChildPrints
  <2>2. lines' \in Seq(Events)
    BY <1>2, <2>1 DEF ChildPrints, Streaming
  <2> QED BY <1>2, <2>2 DEF ChildPrints, Streaming
<1>3. CASE CaptureOverflows
  BY <1>3 DEF CaptureOverflows, Streaming
<1>4. CASE ChildEnds
  BY <1>4 DEF ChildEnds, Streaming
<1>5. CASE Parse
  BY <1>5 DEF Parse, Streaming
<1>6. CASE Verify
  BY <1>6 DEF Verify, Streaming
<1>7. CASE UNCHANGED vars
  BY <1>7 DEF vars, Streaming
<1> QED BY <1>1, <1>2, <1>3, <1>4, <1>5, <1>6, <1>7 DEF Next, Over

(* What is handed on when the child ends is the terminal text, or nothing  *)
(* when there is none.                                                     *)
LEMMA ChildEndsReadsTheTerminal ==
  ASSUME Streaming, ChildEnds, diag' = None, proc'.outcome # "TIMEOUT"
  PROVE  IF transport' = NoTransport THEN ~\E m \in Messages, x \in Texts : TerminalText(m, x)
         ELSE /\ TerminalText(transport'.message, transport'.text)
              /\ transport'.session = sessionOf[transport'.message]
<1> DEFINE d == FoldLeft(DecodeLine, Undecoded, lines)
<1>1. sessionOf \in [Messages -> Sessions] /\ lines \in Seq(Events)
  BY DEF ChildEnds, Streaming
<1>2. transport' = IF ~overflowed THEN DecodeRunTransport(lines) ELSE NoTransport
  BY DEF ChildEnds, LookForResponse
<1>3. CASE overflowed
  BY <1>2, <1>3 DEF TerminalText
<1>4. CASE /\ ~overflowed /\ Len(lines) <= NdjsonLimit
           /\ DecodeRunTransport(lines) = NoTransport
  <2>1. DecodedUpTo(lines, Len(lines), d)
    BY <1>1, Decoded
  <2>2. TerminalMessage(d) = NoMessage
    <3>1. ~(Len(lines) > NdjsonLimit)
      BY <1>1, <1>4, LenProperties, ResponseAssumption DEF ResponseAssumption
    <3> QED BY <1>4, <3>1 DEF DecodeRunTransport, NoTransport
  <2> HIDE DEF d
  <2>3. ASSUME NEW m \in Messages, NEW x \in Texts, TerminalText(m, x)
        PROVE  FALSE
    <3>1. TerminalMessage(d) = m
      BY <1>1, <1>4, <2>1, <2>3, TerminalIsDecoded
    <3> QED BY <2>2, <3>1, ResponseAssumption DEF ResponseAssumption
  <2> QED BY <1>2, <1>4, <2>3
<1>5. CASE ~overflowed /\ DecodeRunTransport(lines) # NoTransport
  <2> DEFINE t == DecodeRunTransport(lines)
  <2>1. /\ t.message \in Messages /\ t.text \in Texts /\ t.session = sessionOf[t.message]
        /\ TerminalMessage(d) = t.message /\ d.completed[t.message] = t.text
        /\ Len(lines) <= NdjsonLimit
    BY <1>1, <1>5, TransportIsOfItsSession
  <2>2. DecodedUpTo(lines, Len(lines), d)
    BY <1>1, Decoded
  <2> HIDE DEF d, t
  <2>3. TerminalText(t.message, t.text)
    BY <1>1, <1>5, <2>1, <2>2, TerminalIsDecoded
  <2>4. transport' = t /\ t # NoTransport
    BY <1>2, <1>5 DEF t
  <2> QED BY <2>1, <2>3, <2>4
<1>6. CASE ~overflowed /\ ~(Len(lines) <= NdjsonLimit)
  BY <1>1, <1>2, <1>6, LenProperties, ResponseAssumption
  DEF DecodeRunTransport, TerminalText, ResponseAssumption
<1> QED BY <1>3, <1>4, <1>5, <1>6

(* DecodedTextIsTerminal, for every stream and every limit: what           *)
(* decode_run_transport finds line by line is the text with which the whole*)
(* stream ends.                                                            *)
THEOREM Decoder == Spec => DecodedTextIsTerminal
<1> DEFINE I == Streaming /\ (lines = <<>> \/ at = "child")
<1>1. Init => I
  BY DEF Init, Streaming
<1>2. I /\ [Next]_vars => I'
  BY StreamingStep
<1>3. I /\ [Next]_vars =>
        [at = "child" /\ at' # at /\ diag' = None /\ proc'.outcome # "TIMEOUT" =>
           IF transport' = NoTransport THEN ~\E m \in Messages, x \in Texts : TerminalText(m, x)
           ELSE /\ TerminalText(transport'.message, transport'.text)
                /\ transport'.session = sessionOf[transport'.message]]_vars
  <2> SUFFICES ASSUME I, Next, at = "child", at' # at, diag' = None, proc'.outcome # "TIMEOUT"
               PROVE  IF transport' = NoTransport
                      THEN ~\E m \in Messages, x \in Texts : TerminalText(m, x)
                      ELSE /\ TerminalText(transport'.message, transport'.text)
                           /\ transport'.session = sessionOf[transport'.message]
    OBVIOUS
  <2>1. ChildEnds
    BY DEF Next, RecheckControlPlane, ChildPrints, CaptureOverflows, Parse, Verify, Over, vars
  <2> QED BY <2>1, ChildEndsReadsTheTerminal
<1> QED BY <1>1, <1>2, <1>3, PTL DEF Spec, DecodedTextIsTerminal

-----------------------------------------------------------------------------
(* ReportedTextIsTheAgentsOwn.                                             *)

(* The session of the response is of the agent that was asked alone.       *)
NobodyElseWrote ==
  /\ sessionOf[transport.message] = transport.session
  /\ \A m \in Messages : sessionOf[m] = transport.session => author[m] = "requested"

(* Where a response comes from, place by place.                            *)
OwnInv ==
  /\ at \in {"recheck", "child", "drift", "parse", "verify", "report"}
  /\ at \in {"recheck", "child", "drift", "parse"} => response = None
  /\ at = "parse" \/ at = "verify" =>
       /\ transport.message \in Messages
       /\ sessionOf[transport.message] = transport.session
       /\ diag = None
  /\ at \in {"parse", "verify", "report"} => proc.outcome \in ProcessOutcomes
  /\ at = "report" /\ response # None => diag = None /\ NobodyElseWrote

(* Only Verify lets a response through to the report, and it asks who      *)
(* wrote in the session of the message the response was read from.         *)
LEMMA OwnInvStep ==
  ASSUME OwnInv, Streaming, [Next]_vars
  PROVE  OwnInv'
<1>1. CASE RecheckControlPlane
  BY <1>1 DEF RecheckControlPlane, OwnInv
<1>2. CASE ChildPrints
  BY <1>2 DEF ChildPrints, OwnInv
<1>3. CASE CaptureOverflows
  BY <1>3 DEF CaptureOverflows, OwnInv
<1>4. CASE ChildEnds
  <2>1. /\ at = "child" /\ response = None /\ UNCHANGED <<sessionOf, response>>
        /\ proc'.outcome \in ProcessOutcomes
    BY <1>4 DEF ChildEnds, OwnInv, PossibleResults
  <2>2. CASE transport' = NoTransport
    <3>1. at' = "report"
      BY <1>4, <2>2 DEF ChildEnds
    <3> QED BY <2>1, <3>1 DEF OwnInv
  <2>3. CASE transport' # NoTransport
    <3> DEFINE t == DecodeRunTransport(lines)
    <3>1. at' = "parse" /\ diag' = None /\ transport' = t
      BY <1>4, <2>3 DEF ChildEnds, LookForResponse
    <3>2. t.message \in Messages /\ t.session = sessionOf[t.message]
      BY <2>1, <2>3, <3>1, TransportIsOfItsSession DEF Streaming
    <3> HIDE DEF t
    <3> QED BY <2>1, <3>1, <3>2 DEF OwnInv
  <2> QED BY <2>2, <2>3
<1>5. CASE Parse
  BY <1>5 DEF Parse, OwnInv
<1>6. CASE Verify
  <2>1. at = "verify" /\ at' = "report" /\ UNCHANGED <<sessionOf, transport, diag, proc>>
    BY <1>6 DEF Verify
  <2>2. ASSUME response' # None
        PROVE  NobodyElseWrote'
    <3>1. PICK unseen \in SUBSET ExportedAgents :
            response' = IF IdentityVerified(unseen \cup
                    {author'[m] : m \in {n \in Messages : sessionOf[n] = transport.session}})
                        THEN response ELSE None
      BY <1>6, <2>2 DEF Verify
    <3>2. IdentityVerified(unseen \cup
                    {author'[m] : m \in {n \in Messages : sessionOf[n] = transport.session}})
      BY <2>2, <3>1
    <3>3. \A m \in Messages : sessionOf[m] = transport.session => author'[m] = "requested"
      BY <3>2 DEF IdentityVerified
    <3>4. sessionOf[transport.message] = transport.session
      BY <2>1 DEF OwnInv
    <3> QED BY <2>1, <3>3, <3>4 DEF NobodyElseWrote
  <2> QED BY <2>1, <2>2 DEF OwnInv
<1>7. CASE UNCHANGED vars
  BY <1>7 DEF vars, OwnInv, NobodyElseWrote
<1> QED BY <1>1, <1>2, <1>3, <1>4, <1>5, <1>6, <1>7 DEF Next, Over

(* The loop acts on a response only where no technical signal is present.  *)
LEMMA ActedOnIsAResponse ==
  ASSUME NEW a, a.proc.outcome \in ProcessOutcomes \cup {None},
         ClassifyAgentResult(a) \in {"SUCCEEDED", "AGENT_REPORTED_FAILURE"}
  PROVE  /\ a.response # None
         /\ a.proc.outcome \in {"SUCCEEDED", None} /\ a.diag = None
<1> DEFINE S == TechnicalSignals(a)
<1>1. S \subseteq {"TIMEOUT", "PROVIDER_ERROR", "PROCESS_ERROR"}
  BY DEF TechnicalSignals
<1>2. S = {}
  <2>1. SUFFICES ASSUME S # {}
                 PROVE  ClassifyAgentResult(a) \in S
    BY <1>1
  <2>2. ClassifyAgentResult(a) = CHOOSE s \in S : \A t \in S : Rank[s] <= Rank[t]
    BY <2>1 DEF ClassifyAgentResult, ClassifyAttemptOutcome, AgentSignals
  <2> HIDE DEF S
  <2>3. \E s \in S : \A t \in S : Rank[s] <= Rank[t]
    <3>1. CASE "TIMEOUT" \in S
      BY <1>1, <3>1 DEF Rank
    <3>2. CASE "TIMEOUT" \notin S /\ "PROVIDER_ERROR" \in S
      BY <1>1, <3>2 DEF Rank
    <3>3. CASE S = {"PROCESS_ERROR"}
      BY <3>3 DEF Rank
    <3> QED BY <1>1, <2>1, <3>1, <3>2, <3>3
  <2> QED BY <2>2, <2>3
<1>3. a.proc.outcome \in {"SUCCEEDED", None} /\ a.diag = None
  BY <1>2 DEF TechnicalSignals, ProcessOutcomes, StopReasons, ProcessErrorLike
<1>4. ClassifyAgentResult(a) =
        CHOOSE s \in {ResponseSignal(a)} : \A t \in {ResponseSignal(a)} : Rank[s] <= Rank[t]
  BY <1>2 DEF ClassifyAgentResult, ClassifyAttemptOutcome, AgentSignals
<1>5. ResponseSignal(a) \in DOMAIN Rank /\ Rank[ResponseSignal(a)] \in Nat
  BY DEF ResponseSignal, Rank
<1>6. ClassifyAgentResult(a) = ResponseSignal(a)
  BY <1>4, <1>5
<1> QED BY <1>3, <1>6 DEF ResponseSignal

(* ReportedTextIsTheAgentsOwn, for every session: what the loop acts on    *)
(* was written by the agent that was asked, and by no other in its session.*)
THEOREM OwnText == Spec => []ReportedTextIsTheAgentsOwn
<1> DEFINE I == Streaming /\ (lines = <<>> \/ at = "child") /\ OwnInv
<1>1. Init => I
  BY DEF Init, Streaming, OwnInv
<1>2. I /\ [Next]_vars => I'
  BY StreamingStep, OwnInvStep
<1>3. I => ReportedTextIsTheAgentsOwn
  <2> DEFINE agent == [proc |-> proc, diag |-> diag, response |-> response]
  <2> SUFFICES ASSUME I, at = "report",
                      ClassifyAgentResult(agent) \in {"SUCCEEDED", "AGENT_REPORTED_FAILURE"}
               PROVE  NobodyElseWrote /\ proc.outcome = "SUCCEEDED" /\ diag = None
    BY DEF ReportedTextIsTheAgentsOwn, NobodyElseWrote
  <2>1. agent.proc = proc /\ agent.diag = diag /\ agent.response = response
    OBVIOUS
  <2>2. proc.outcome \in ProcessOutcomes
    BY DEF OwnInv
  <2> HIDE DEF agent
  <2>3. response # None /\ proc.outcome \in {"SUCCEEDED", None} /\ diag = None
    BY <2>1, <2>2, ActedOnIsAResponse
  <2>4. None \notin ProcessOutcomes
    BY DEF None, ProcessOutcomes, StopReasons
  <2> QED BY <2>2, <2>3, <2>4 DEF OwnInv
<1> QED BY <1>1, <1>2, <1>3, PTL DEF Spec

-----------------------------------------------------------------------------
(* The sentences of the protocol.                                          *)

(* The families of logical lines and what each can state.                  *)
LEMMA LineShape ==
  ASSUME NEW l \in LogicalLines
  PROVE  /\ l = [family |-> l.family, value |-> l.value]
         /\ l \in Opaque <=> l.family = "opaque"
         /\ l.family \in {"opaque", "FINAL_STATUS", "ISSUE_REF_JSON"} \cup StatusFamilies
         /\ l.family = "opaque" <=> l.value \in {"prose", "blank"}
         /\ l.family = "AGENT_STATUS" => l.value \in {"READY", "COMPLETED", "FAILED", "malformed"}
         /\ l.family = "REVIEW_STATUS" => l.value \in {"APPROVED", "CHANGES_REQUIRED", "malformed"}
         /\ l.family = "ISSUE_REF_JSON" => l.value \in {"ours", "another", "malformed"}
BY DEF LogicalLines, Opaque, FinalStatus, AgentStatusLines, ReviewStatusLines,
       IssueRefLines, StatusFamilies

(* A text that is a body of opaque lines followed by the given end.        *)
OpaqueBefore(ls, k) == \A i \in 1..k : ls[i] \in Opaque
ProseBefore(ls, k) == \E i \in 1..k : ls[i].value = "prose"
EndsWith(ls, end) == \A i \in 1..Len(end) : ls[Len(ls) - Len(end) + i] = end[i]

(* Concatenation, said of positions: what precedes the end is the body.    *)
LEMMA FollowedBody ==
  ASSUME ResponseAssumption,
         NEW n \in 1..MaxTextLines, NEW ls \in [1..n -> LogicalLines],
         NEW end \in Seq(LogicalLines), Len(end) >= 1
  PROVE  /\ ls \in Followed(Body, end) <=>
              Len(end) <= n /\ OpaqueBefore(ls, n - Len(end)) /\ EndsWith(ls, end)
         /\ ls \in Followed(Prose, end) <=>
              /\ Len(end) <= n /\ OpaqueBefore(ls, n - Len(end)) /\ EndsWith(ls, end)
              /\ ProseBefore(ls, n - Len(end))
<1> DEFINE k == n - Len(end)
<1>1. MaxTextLines \in Nat /\ n \in Nat /\ Len(end) \in Nat /\ Len(ls) = n
      /\ ls \in Seq(LogicalLines)
  BY LenProperties DEF ResponseAssumption
<1>2. ASSUME NEW b \in Body
      PROVE  /\ b \in Seq(LogicalLines) /\ Len(b) \in Nat /\ DOMAIN b = 1..Len(b)
             /\ \A i \in 1..Len(b) : b[i] \in Opaque
  <2>1. PICK j \in 0..MaxTextLines - 1 : b \in [1..j -> Opaque]
    BY DEF Body
  <2>2. j \in Nat /\ Opaque \subseteq LogicalLines
    BY <1>1 DEF LogicalLines
  <2>3. b \in [1..j -> LogicalLines]
    BY <2>1, <2>2
  <2>4. b \in Seq(LogicalLines) /\ Len(b) = j
    BY <2>2, <2>3, <2>1
  <2> QED BY <2>1, <2>2, <2>4
<1>3. ASSUME NEW b \in Body, ls = b \o end
      PROVE  /\ Len(end) <= n /\ OpaqueBefore(ls, k) /\ EndsWith(ls, end)
             /\ Len(b) = k /\ \A i \in 1..k : ls[i] = b[i]
  <2>1. /\ Len(b) + Len(end) = n
        /\ \A i \in 1..n : ls[i] = IF i <= Len(b) THEN b[i] ELSE end[i - Len(b)]
    BY <1>1, <1>2, <1>3, ConcatProperties
  <2>2. Len(b) = k /\ Len(end) <= n /\ k \in Nat
    BY <2>1, <1>1, <1>2
  <2>3. \A i \in 1..k : i \in 1..n /\ i <= Len(b)
    BY <2>2, <1>1
  <2>4. \A i \in 1..k : ls[i] = b[i]
    BY <2>1, <2>3
  <2>5. \A i \in 1..Len(end) : /\ Len(b) + i \in 1..n /\ ~(Len(b) + i <= Len(b))
                               /\ Len(b) + i - Len(b) = i
    BY <2>1, <1>1, <1>2
  <2>6. \A i \in 1..Len(end) : ls[Len(b) + i] = end[i]
    BY <2>1, <2>5
  <2> QED BY <2>2, <2>4, <2>6, <1>1, <1>2 DEF OpaqueBefore, EndsWith
<1>4. ASSUME Len(end) <= n, OpaqueBefore(ls, k), EndsWith(ls, end)
      PROVE  \E b \in Body : ls = b \o end /\ DOMAIN b = 1..k /\ \A i \in 1..k : b[i] = ls[i]
  <2> DEFINE b == [i \in 1..k |-> ls[i]]
  <2>1. k \in 0..MaxTextLines - 1
    BY <1>1, <1>4
  <2>2. b \in [1..k -> Opaque]
    BY <1>4, <2>1 DEF OpaqueBefore
  <2>3. b \in Body
    BY <2>1, <2>2 DEF Body
  <2>4. b \in Seq(LogicalLines) /\ Len(b) = k
    BY <2>1, <2>3, <1>2, <1>1
  <2> \A i \in 1..k : b[i] = ls[i]
    OBVIOUS
  <2> DOMAIN b = 1..k
    OBVIOUS
  <2> HIDE DEF b
  <2>5. /\ b \o end \in Seq(LogicalLines) /\ Len(b \o end) = n
        /\ \A i \in 1..n : (b \o end)[i] = IF i <= k THEN b[i] ELSE end[i - k]
    BY <2>4, <1>1, ConcatProperties
  <2>6. ASSUME NEW i \in 1..n
        PROVE  ls[i] = (b \o end)[i]
    <3>1. CASE i <= k
      BY <3>1, <2>5, <2>1
    <3>2. CASE ~(i <= k)
      <4>1. i - k \in 1..Len(end) /\ n - Len(end) + (i - k) = i
        BY <3>2, <1>1, <2>1
      <4> QED BY <3>2, <4>1, <2>5, <1>4, <1>1 DEF EndsWith
    <3> QED BY <3>1, <3>2
  <2>7. ls = b \o end
    BY <2>5, <2>6, <1>1, SeqEqual
  <2> QED BY <2>3, <2>7
<1>5. ls \in Followed(Body, end) <=> \E b \in Body : ls = b \o end
  BY DEF Followed
<1>6. ls \in Followed(Prose, end) <=>
        \E b \in Body : ls = b \o end /\ \E i \in DOMAIN b : b[i].value = "prose"
  BY DEF Followed, Prose
<1>7. ls \in Followed(Body, end) <=>
        Len(end) <= n /\ OpaqueBefore(ls, k) /\ EndsWith(ls, end)
  BY <1>3, <1>4, <1>5
<1>8. ASSUME NEW b \in Body, ls = b \o end, \E i \in DOMAIN b : b[i].value = "prose"
      PROVE  ProseBefore(ls, k)
  BY <1>3, <1>8, <1>2 DEF ProseBefore
<1>9. ASSUME Len(end) <= n, OpaqueBefore(ls, k), EndsWith(ls, end), ProseBefore(ls, k)
      PROVE  \E b \in Body : ls = b \o end /\ \E i \in DOMAIN b : b[i].value = "prose"
  BY <1>4, <1>9 DEF ProseBefore
<1> QED BY <1>3, <1>6, <1>7, <1>8, <1>9

(* What the checks on the markers and on the reference come to: a body of  *)
(* opaque lines, one status line after it, and between them the reference  *)
(* when an architect is ready.                                             *)
LEMMA MarkersAndReference ==
  ASSUME ResponseAssumption, NEW n \in Nat \ {0}, NEW ls \in [1..n -> LogicalLines]
  PROVE  (/\ WellFormed(ls) /\ Indexes(ls, StatusFamilies) = {n}
          /\ IssueRefPlaced(ls, ls[n]))
         <=> /\ ls[n].family \in StatusFamilies /\ ls[n].value # "malformed"
             /\ IF ArchitectReady(ls[n])
                THEN /\ 2 <= n /\ OpaqueBefore(ls, n - 2)
                     /\ ls[n - 1] = OurIssue[1]
                ELSE OpaqueBefore(ls, n - 1)
<1> DEFINE refs == Indexes(ls, {"ISSUE_REF_JSON"})
<1>1. Len(ls) = n /\ DOMAIN ls = 1..n /\ n \in 1..n
  BY LenProperties
<1>2. \A i \in 1..n : ls[i] \in LogicalLines
  OBVIOUS
<1>3. OurIssue[1] = [family |-> "ISSUE_REF_JSON", value |-> "ours"]
  BY DEF OurIssue
<1>4. /\ \A i : i \in Indexes(ls, {"FINAL_STATUS"}) <=> i \in 1..n /\ ls[i].family = "FINAL_STATUS"
      /\ \A i : i \in Indexes(ls, StatusFamilies) <=> i \in 1..n /\ ls[i].family \in StatusFamilies
      /\ \A i : i \in refs <=> i \in 1..n /\ ls[i].family = "ISSUE_REF_JSON"
  BY <1>1 DEF Indexes
<1>5. \A i \in 1..n : /\ ls[i] \in Opaque <=> ls[i].family = "opaque"
                      /\ ls[i].family \in
                           {"opaque", "FINAL_STATUS", "ISSUE_REF_JSON"} \cup StatusFamilies
                      /\ ls[i].family = "opaque" => ls[i].value # "malformed"
                      /\ ls[i] = [family |-> ls[i].family, value |-> ls[i].value]
  BY <1>2, LineShape
<1>6. {"opaque", "FINAL_STATUS", "ISSUE_REF_JSON"} \cap StatusFamilies = {}
  BY DEF StatusFamilies
<1>7. WellFormed(ls) <=> \A i \in 1..n : ls[i].family # "FINAL_STATUS" /\ ls[i].value # "malformed"
  BY <1>1, <1>4 DEF WellFormed
<1>8. CASE ArchitectReady(ls[n])
  <2>1. IssueRefPlaced(ls, ls[n]) <=> refs = {n - 1} /\ ls[n - 1].value = "ours"
    BY <1>1, <1>8 DEF IssueRefPlaced
  <2>2. ASSUME WellFormed(ls), Indexes(ls, StatusFamilies) = {n}, refs = {n - 1},
               ls[n - 1].value = "ours"
        PROVE  /\ ls[n].family \in StatusFamilies /\ ls[n].value # "malformed"
               /\ 2 <= n /\ OpaqueBefore(ls, n - 2) /\ ls[n - 1] = OurIssue[1]
    <3>1. n - 1 \in 1..n /\ ls[n - 1].family = "ISSUE_REF_JSON"
      BY <2>2, <1>4
    <3>2. \A i \in 1..n - 2 : i \in 1..n /\ i # n /\ i # n - 1
      OBVIOUS
    <3>3. \A i \in 1..n - 2 : ls[i] \in Opaque
      BY <3>2, <2>2, <1>4, <1>5, <1>7
    <3> QED BY <2>2, <1>1, <3>1, <3>3, <1>3, <1>4, <1>5, <1>7 DEF OpaqueBefore
  <2>3. ASSUME ls[n].family \in StatusFamilies, ls[n].value # "malformed",
               2 <= n, OpaqueBefore(ls, n - 2), ls[n - 1] = OurIssue[1]
        PROVE  /\ WellFormed(ls) /\ Indexes(ls, StatusFamilies) = {n}
               /\ refs = {n - 1} /\ ls[n - 1].value = "ours"
    <3>1. \A i \in 1..n : i = n \/ i = n - 1 \/ i \in 1..n - 2
      OBVIOUS
    <3>2. n - 1 \in 1..n /\ n - 1 # n
      BY <2>3
    <3>3. ls[n - 1].family = "ISSUE_REF_JSON" /\ ls[n - 1].value = "ours"
      BY <2>3, <1>3
    <3>4. \A i \in 1..n : i = n \/ i = n - 1 \/ ls[i].family = "opaque"
      BY <3>1, <2>3, <1>5 DEF OpaqueBefore
    <3> QED BY <3>2, <3>3, <3>4, <2>3, <1>1, <1>4, <1>5, <1>6, <1>7
  <2> QED BY <2>1, <2>2, <2>3, <1>8
<1>9. CASE ~ArchitectReady(ls[n])
  <2>1. IssueRefPlaced(ls, ls[n]) <=> refs = {}
    BY <1>1, <1>9 DEF IssueRefPlaced
  <2>2. ASSUME WellFormed(ls), Indexes(ls, StatusFamilies) = {n}, refs = {}
        PROVE  /\ ls[n].family \in StatusFamilies /\ ls[n].value # "malformed"
               /\ OpaqueBefore(ls, n - 1)
    <3>1. \A i \in 1..n - 1 : i \in 1..n /\ i # n
      OBVIOUS
    <3> QED BY <3>1, <2>2, <1>1, <1>4, <1>5, <1>7 DEF OpaqueBefore
  <2>3. ASSUME ls[n].family \in StatusFamilies, ls[n].value # "malformed",
               OpaqueBefore(ls, n - 1)
        PROVE  WellFormed(ls) /\ Indexes(ls, StatusFamilies) = {n} /\ refs = {}
    <3>1. \A i \in 1..n : i = n \/ i \in 1..n - 1
      OBVIOUS
    <3>2. \A i \in 1..n : i = n \/ ls[i].family = "opaque"
      BY <3>1, <2>3, <1>5 DEF OpaqueBefore
    <3> QED BY <3>2, <2>3, <1>1, <1>4, <1>5, <1>6, <1>7
  <2> QED BY <2>1, <2>2, <2>3, <1>9
<1> QED BY <1>8, <1>9

(* What each status the parser can read asks of the lines.                 *)
Said(ls, n, v) ==
  LET marker == ls[n]
      k == IF ArchitectReady(marker) THEN n - 2 ELSE n - 1
  IN /\ marker.value = v /\ marker.family \in StatusFamilies /\ v # "malformed"
     /\ MarkerAllowed(marker)
     /\ OpaqueBefore(ls, k)
     /\ ArchitectReady(marker) => 2 <= n /\ ls[n - 1] = OurIssue[1]
     /\ v \in {"READY", "FAILED", "CHANGES_REQUIRED"} => ProseBefore(ls, k)

Statuses == {"READY", "COMPLETED", "FAILED", "APPROVED", "CHANGES_REQUIRED"}

(* What the parser accepts.                                                *)
LEMMA ParsedIsSaid ==
  ASSUME ResponseAssumption, role \in Roles, NEW v \in Statuses,
         NEW n \in Nat \ {0}, NEW ls \in [1..n -> LogicalLines]
  PROVE  ParseAgentResponse(ls) = v <=> Said(ls, n, v)
<1>1. Len(ls) = n /\ Last(ls) = ls[n] /\ ls[n] \in LogicalLines /\ v # None
      /\ v # "malformed"
  BY LenProperties DEF Last, Statuses, None
<1>2. ParseAgentResponse(ls) = v <=>
        /\ WellFormed(ls) /\ Indexes(ls, StatusFamilies) = {n} /\ IssueRefPlaced(ls, ls[n])
        /\ MarkerAllowed(ls[n]) /\ BodyPresent(ls, ls[n]) /\ ls[n].value = v
  BY <1>1 DEF ParseAgentResponse
<1>3. ASSUME ls[n].value = v, MarkerAllowed(ls[n]), ls[n].family \in StatusFamilies
      PROVE  ArchitectReady(ls[n]) <=> v = "READY"
  BY <1>1, <1>3, LineShape DEF ArchitectReady, MarkerAllowed, Roles, RoleAgentStatuses,
     StatusFamilies
<1>4. ASSUME ls[n].value = v, MarkerAllowed(ls[n]), ls[n].family \in StatusFamilies
      PROVE  BodyPresent(ls, ls[n]) <=>
               (v \in {"READY", "FAILED", "CHANGES_REQUIRED"} =>
                  ProseBefore(ls, IF ArchitectReady(ls[n]) THEN n - 2 ELSE n - 1))
  BY <1>1, <1>3, <1>4 DEF BodyPresent, ProseBefore
<1>5. (/\ WellFormed(ls) /\ Indexes(ls, StatusFamilies) = {n} /\ IssueRefPlaced(ls, ls[n]))
      <=> /\ ls[n].family \in StatusFamilies /\ ls[n].value # "malformed"
          /\ IF ArchitectReady(ls[n])
             THEN 2 <= n /\ OpaqueBefore(ls, n - 2) /\ ls[n - 1] = OurIssue[1]
             ELSE OpaqueBefore(ls, n - 1)
  BY MarkersAndReference
<1> QED BY <1>1, <1>2, <1>4, <1>5 DEF Said

(* The sentences that end with one line.                                   *)
LEMMA OneLineEnd ==
  ASSUME ResponseAssumption, NEW n \in 1..MaxTextLines, NEW ls \in [1..n -> LogicalLines],
         NEW l \in LogicalLines
  PROVE  /\ ls \in Followed(Body, <<l>>) <=> OpaqueBefore(ls, n - 1) /\ ls[n] = l
         /\ ls \in Followed(Prose, <<l>>) <=>
              OpaqueBefore(ls, n - 1) /\ ls[n] = l /\ ProseBefore(ls, n - 1)
<1>1. n \in Nat /\ 1 <= n /\ Len(ls) = n
  BY LenProperties DEF ResponseAssumption
<1>2. <<l>> \in Seq(LogicalLines) /\ Len(<<l>>) = 1 /\ <<l>>[1] = l
  OBVIOUS
<1>3. EndsWith(ls, <<l>>) <=> ls[n] = l
  BY <1>1, <1>2 DEF EndsWith
<1> DEFINE end == <<l>>
<1> HIDE DEF end
<1>4. end \in Seq(LogicalLines) /\ Len(end) >= 1 /\ n - Len(end) = n - 1 /\ Len(end) <= n
  BY <1>1, <1>2 DEF end
<1>5. /\ ls \in Followed(Body, end) <=> OpaqueBefore(ls, n - 1) /\ EndsWith(ls, end)
      /\ ls \in Followed(Prose, end) <=>
           OpaqueBefore(ls, n - 1) /\ EndsWith(ls, end) /\ ProseBefore(ls, n - 1)
  BY <1>4, FollowedBody
<1> QED BY <1>3, <1>5 DEF end

(* The sentences that end with the reference and READY.                    *)
LEMMA ReadyEnd ==
  ASSUME ResponseAssumption, NEW n \in 1..MaxTextLines, NEW ls \in [1..n -> LogicalLines]
  PROVE  ls \in Followed(Prose, OurIssue \o Agent("READY")) <=>
           /\ 2 <= n /\ OpaqueBefore(ls, n - 2) /\ ProseBefore(ls, n - 2)
           /\ ls[n - 1] = OurIssue[1] /\ ls[n] = Agent("READY")[1]
<1> DEFINE end == OurIssue \o Agent("READY")
<1>1. n \in Nat /\ 1 <= n /\ Len(ls) = n
  BY LenProperties DEF ResponseAssumption
<1>2. /\ OurIssue \in Seq(LogicalLines) /\ Len(OurIssue) = 1
      /\ Agent("READY") \in Seq(LogicalLines) /\ Len(Agent("READY")) = 1
  BY DEF OurIssue, Agent, LogicalLines, IssueRefLines, AgentStatusLines
<1>3. /\ end \in Seq(LogicalLines) /\ Len(end) = 2
      /\ end[1] = OurIssue[1] /\ end[2] = Agent("READY")[1]
  <2> DEFINE s == OurIssue
             t == Agent("READY")
  <2> HIDE DEF s, t
  <2>1. s \in Seq(LogicalLines) /\ Len(s) = 1 /\ t \in Seq(LogicalLines) /\ Len(t) = 1
    BY <1>2 DEF s, t
  <2>2. /\ s \o t \in Seq(LogicalLines) /\ Len(s \o t) = 2
        /\ (s \o t)[1] = s[1] /\ (s \o t)[2] = t[1]
    <3>1. /\ s \o t \in Seq(LogicalLines) /\ Len(s \o t) = Len(s) + Len(t)
          /\ \A i \in 1..Len(s) + Len(t) : (s \o t)[i] = IF i <= Len(s) THEN s[i] ELSE t[i - Len(s)]
      BY <2>1, ConcatProperties
    <3>2. Len(s) + Len(t) = 2 /\ 1 \in 1..2 /\ 2 \in 1..2 /\ 2 - Len(s) = 1 /\ 1 <= Len(s)
          /\ ~(2 <= Len(s))
      BY <2>1
    <3> QED BY <3>1, <3>2
  <2> QED BY <2>2 DEF s, t
<1> HIDE DEF end
<1>4. 2 <= n => (EndsWith(ls, end) <=> ls[n - 1] = end[1] /\ ls[n] = end[2])
  <2>1. n - 2 + 1 = n - 1 /\ n - 2 + 2 = n /\ 1..2 = {1, 2}
    BY <1>1
  <2>2. EndsWith(ls, end) <=> \A i \in {1, 2} : ls[n - 2 + i] = end[i]
    BY <1>1, <1>3, <2>1 DEF EndsWith
  <2> QED BY <2>1, <2>2
<1>5. Len(end) >= 1 /\ n - Len(end) = n - 2
  BY <1>3
<1>6. ls \in Followed(Prose, end) <=>
         /\ 2 <= n /\ OpaqueBefore(ls, n - 2) /\ EndsWith(ls, end) /\ ProseBefore(ls, n - 2)
  <2>1. ls \in Followed(Prose, end) <=>
          /\ Len(end) <= n /\ OpaqueBefore(ls, n - Len(end)) /\ EndsWith(ls, end)
          /\ ProseBefore(ls, n - Len(end))
    BY <1>3, <1>5, FollowedBody
  <2> QED BY <2>1, <1>3, <1>5
<1> QED BY <1>3, <1>4, <1>6 DEF end

(* What the grammar contains.                                              *)
LEMMA SentenceIsSaid ==
  ASSUME ResponseAssumption, role \in Roles, NEW v \in Statuses,
         NEW n \in 1..MaxTextLines, NEW ls \in [1..n -> LogicalLines]
  PROVE  ls \in Sentences[v] <=> Said(ls, n, v)
<1>1. n \in Nat \ {0} /\ ls[n] \in LogicalLines
  BY DEF ResponseAssumption
<1>2. /\ ls[n] = [family |-> ls[n].family, value |-> ls[n].value]
      /\ ls[n].family = "AGENT_STATUS" =>
           ls[n].value \in {"READY", "COMPLETED", "FAILED", "malformed"}
      /\ ls[n].family = "REVIEW_STATUS" =>
           ls[n].value \in {"APPROVED", "CHANGES_REQUIRED", "malformed"}
  BY <1>1, LineShape
<1> DEFINE a(w) == [family |-> "AGENT_STATUS", value |-> w]
           r(w) == [family |-> "REVIEW_STATUS", value |-> w]
<1>3. /\ \A w \in {"READY", "COMPLETED", "FAILED"} : a(w) \in LogicalLines /\ Agent(w) = <<a(w)>>
      /\ \A w \in {"APPROVED", "CHANGES_REQUIRED"} : r(w) \in LogicalLines /\ Review(w) = <<r(w)>>
  BY DEF LogicalLines, AgentStatusLines, ReviewStatusLines, Agent, Review
<1>4. CASE v = "READY"
  <2>1. Sentences[v] =
          IF role = "ARCHITECT" THEN Followed(Prose, OurIssue \o Agent("READY")) ELSE {}
    BY <1>4 DEF Sentences
  <2>2. Said(ls, n, v) <=>
          /\ role = "ARCHITECT" /\ ls[n] = a("READY")
          /\ 2 <= n /\ OpaqueBefore(ls, n - 2) /\ ProseBefore(ls, n - 2) /\ ls[n - 1] = OurIssue[1]
    BY <1>2, <1>4 DEF Said, ArchitectReady, MarkerAllowed, Roles, RoleAgentStatuses, StatusFamilies
  <2>3. Agent("READY")[1] = a("READY")
    BY <1>3
  <2>4. ls \in Followed(Prose, OurIssue \o Agent("READY")) <=>
           /\ 2 <= n /\ OpaqueBefore(ls, n - 2) /\ ProseBefore(ls, n - 2)
           /\ ls[n - 1] = OurIssue[1] /\ ls[n] = a("READY")
    BY <2>3, ReadyEnd
  <2> QED BY <2>1, <2>2, <2>4
<1>5. CASE v = "COMPLETED"
  <2>1. Sentences[v] = IF role = "CODER" THEN Followed(Body, Agent("COMPLETED")) ELSE {}
    BY <1>5 DEF Sentences
  <2>2. Said(ls, n, v) <=> role = "CODER" /\ ls[n] = a("COMPLETED") /\ OpaqueBefore(ls, n - 1)
    BY <1>2, <1>5 DEF Said, ArchitectReady, MarkerAllowed, Roles, RoleAgentStatuses, StatusFamilies
  <2>3. a("COMPLETED") \in LogicalLines /\ Agent("COMPLETED") = <<a("COMPLETED")>>
    BY <1>3
  <2>4. ls \in Followed(Body, Agent("COMPLETED")) <=>
          OpaqueBefore(ls, n - 1) /\ ls[n] = a("COMPLETED")
    BY <2>3, OneLineEnd
  <2> QED BY <2>1, <2>2, <2>4
<1>6. CASE v = "FAILED"
  <2>1. Sentences[v] = Followed(Prose, Agent("FAILED"))
    BY <1>6 DEF Sentences
  <2>2. Said(ls, n, v) <=> ls[n] = a("FAILED") /\ OpaqueBefore(ls, n - 1) /\ ProseBefore(ls, n - 1)
    BY <1>2, <1>6 DEF Said, ArchitectReady, MarkerAllowed, Roles, RoleAgentStatuses, StatusFamilies
  <2>3. a("FAILED") \in LogicalLines /\ Agent("FAILED") = <<a("FAILED")>>
    BY <1>3
  <2>4. ls \in Followed(Prose, Agent("FAILED")) <=>
          OpaqueBefore(ls, n - 1) /\ ls[n] = a("FAILED") /\ ProseBefore(ls, n - 1)
    BY <2>3, OneLineEnd
  <2> QED BY <2>1, <2>2, <2>4
<1>7. CASE v = "APPROVED"
  <2>1. Sentences[v] = IF role = "REVIEWER" THEN Followed(Body, Review("APPROVED")) ELSE {}
    BY <1>7 DEF Sentences
  <2>2. Said(ls, n, v) <=> role = "REVIEWER" /\ ls[n] = r("APPROVED") /\ OpaqueBefore(ls, n - 1)
    BY <1>2, <1>7 DEF Said, ArchitectReady, MarkerAllowed, Roles, RoleAgentStatuses, StatusFamilies
  <2>3. r("APPROVED") \in LogicalLines /\ Review("APPROVED") = <<r("APPROVED")>>
    BY <1>3
  <2>4. ls \in Followed(Body, Review("APPROVED")) <=>
          OpaqueBefore(ls, n - 1) /\ ls[n] = r("APPROVED")
    BY <2>3, OneLineEnd
  <2> QED BY <2>1, <2>2, <2>4
<1>8. CASE v = "CHANGES_REQUIRED"
  <2>1. Sentences[v] = IF role = "REVIEWER" THEN Followed(Prose, Review("CHANGES_REQUIRED")) ELSE {}
    BY <1>8 DEF Sentences
  <2>2. Said(ls, n, v) <=> /\ role = "REVIEWER" /\ ls[n] = r("CHANGES_REQUIRED")
                           /\ OpaqueBefore(ls, n - 1) /\ ProseBefore(ls, n - 1)
    BY <1>2, <1>8 DEF Said, ArchitectReady, MarkerAllowed, Roles, RoleAgentStatuses, StatusFamilies
  <2>3. /\ r("CHANGES_REQUIRED") \in LogicalLines
        /\ Review("CHANGES_REQUIRED") = <<r("CHANGES_REQUIRED")>>
    BY <1>3
  <2>4. ls \in Followed(Prose, Review("CHANGES_REQUIRED")) <=>
          OpaqueBefore(ls, n - 1) /\ ls[n] = r("CHANGES_REQUIRED") /\ ProseBefore(ls, n - 1)
    BY <2>3, OneLineEnd
  <2> QED BY <2>1, <2>2, <2>4
<1> QED BY <1>4, <1>5, <1>6, <1>7, <1>8 DEF Statuses

RoleOK == role \in Roles

(* The role of an attempt is fixed.                                        *)
LEMMA RoleStep ==
  ASSUME RoleOK, [Next]_vars
  PROVE  RoleOK'
BY DEF RoleOK, Next, vars, RecheckControlPlane, ChildPrints, CaptureOverflows, ChildEnds, Parse,
       Verify, Over

(* Every text is parsed as the grammar says.                               *)
LEMMA GrammarStep ==
  ASSUME ResponseAssumption, RoleOK, Next
  PROVE  at = "parse" =>
           \A v \in DOMAIN Sentences : response' = v <=> text' \in Sentences[v]
<1> SUFFICES ASSUME at = "parse", NEW v \in DOMAIN Sentences
             PROVE  response' = v <=> text' \in Sentences[v]
  OBVIOUS
<1>1. v \in Statuses
  BY DEF Sentences, Statuses
<1>2. CASE Parse
  <2>1. PICK n \in 1..MaxTextLines : text' \in [1..n -> LogicalLines]
    BY <1>2 DEF Parse
  <2>2. n \in Nat \ {0}
    BY DEF ResponseAssumption
  <2>3. response' = ParseAgentResponse(text')
    BY <1>2 DEF Parse
  <2>4. ParseAgentResponse(text') = v <=> Said(text', n, v)
    BY <1>1, <2>1, <2>2, ParsedIsSaid DEF RoleOK
  <2>5. text' \in Sentences[v] <=> Said(text', n, v)
    BY <1>1, <2>1, SentenceIsSaid DEF RoleOK
  <2> QED BY <2>3, <2>4, <2>5
<1> QED BY <1>2 DEF Next, RecheckControlPlane, ChildPrints, CaptureOverflows, ChildEnds,
   Verify, Over

(* ResponseFollowsTheGrammar, for every bound on the lines of a text: the  *)
(* checks of parse_agent_response, in their order, accept the sentences of *)
(* the protocol and no other text.                                         *)
THEOREM Grammar == Spec => ResponseFollowsTheGrammar
<1>1. Init => RoleOK
  BY DEF Init, RoleOK
<1>2. RoleOK /\ [Next]_vars => RoleOK'
  BY RoleStep
<1>3. RoleOK /\ [Next]_vars =>
        [at = "parse" =>
           \A v \in DOMAIN Sentences : response' = v <=> text' \in Sentences[v]]_vars
  BY ResponseAssumption, GrammarStep
<1> QED BY <1>1, <1>2, <1>3, PTL DEF Spec, ResponseFollowsTheGrammar
=============================================================================
