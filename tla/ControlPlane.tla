---------------------------- MODULE ControlPlane ----------------------------
(***************************************************************************)
(* The digest of the OpenCode control plane (opencode.py), as far as it    *)
(* does not take what it is given as it is: the permission rules of an     *)
(* agent, of which OpenCode lists the grants of local directories in an    *)
(* order that differs from call to call.  _canonicalize_permission_rules   *)
(* sorts them as far as it may; recheck_control_plane compares the digests *)
(* before every run of an agent.  No variable: AgentResponse applies it.   *)
(***************************************************************************)
EXTENDS Naturals, Sequences, FiniteSets, SequencesExt

CONSTANTS
  PatternOrder,   \* the patterns rules are about, as strings compare
  Directories,    \* the directories agents ask for, as sequences
  MaxRules        \* bound: rules of an agent the preflight leaves open

(* "<prefix>*", or a pattern of any other shape: here "*" or no wildcard.  *)
TailPattern(prefix) == [shape |-> "tail", prefix |-> prefix]
Bare == [shape |-> "bare", prefix |-> <<>>]
Literal(path) == [shape |-> "literal", prefix |-> path]

(* Every pattern has one place in the order; paths are split at "/".       *)
ASSUME ControlPlaneAssumption ==
  /\ PatternOrder \in Seq([shape : {"tail", "bare", "literal"}, prefix : Seq(STRING)])
  /\ IsInjective(PatternOrder)
  /\ Directories \subseteq Seq(STRING)
  /\ MaxRules \in Nat

Actions == {"allow", "deny"}

(* A rule of every permission kind closes a run of directory rules.        *)
Rules ==
  [permission : {"external_directory"}, pattern : ToSet(PatternOrder), action : Actions]
    \cup [permission : {"*"}, pattern : {Bare}, action : Actions]

RuleLists == UNION {[1..n -> Rules] : n \in 0..MaxRules}

-----------------------------------------------------------------------------
(* _external_directory_patterns_may_overlap                                *)
MayOverlap(p, q) ==
  \/ p = q
  \/ p.shape # "tail" \/ q.shape # "tail"
  \/ IsPrefix(p.prefix, q.prefix) \/ IsPrefix(q.prefix, p.prefix)

(* _permission_rule_sort_key; in a subgroup no two patterns are the same.  *)
Before(r, s) ==
  \E i, j \in DOMAIN PatternOrder :
    i < j /\ PatternOrder[i] = r.pattern /\ PatternOrder[j] = s.pattern

Sorted(group) ==
  CHOOSE s \in SetToSeqs(group) : \A i, j \in DOMAIN s : i < j => ~Before(s[j], s[i])

Flush(c) == [out |-> c.out \o Sorted(c.group), group |-> {}]

ConflictsNever(c, rule) == FALSE  \* mutation

Conflicts(c, rule) == \E r \in c.group : MayOverlap(rule.pattern, r.pattern)

CanonicalStep(c, rule) ==
  IF rule.permission # "external_directory"
  THEN [Flush(c) EXCEPT !.out = Append(@, rule)]
  ELSE LET open == IF Conflicts(c, rule) THEN Flush(c) ELSE c
       IN [open EXCEPT !.group = @ \cup {rule}]

(* _canonicalize_permission_rules: a rule joins the subgroup it is provably*)
(* apart from; every subgroup is sorted where it stands.                   *)
Canonical(rules) == Flush(FoldLeft(CanonicalStep, [out |-> <<>>, group |-> {}], rules)).out

-----------------------------------------------------------------------------
(* What OpenCode makes of a rule list: the last rule that matches decides. *)
Matches(rule, dir) ==
  \/ rule.pattern.shape = "bare"
  \/ rule.pattern.shape = "tail" /\ IsPrefix(rule.pattern.prefix, dir)
  \/ rule.pattern.shape = "literal" /\ rule.pattern.prefix = dir

EffectiveAction(rules, dir) ==
  LET matching == {i \in DOMAIN rules : Matches(rules[i], dir)}
  IN IF matching = {} THEN "none"
     ELSE rules[CHOOSE i \in matching : \A j \in matching : j <= i].action

Policy(rules) == [dir \in Directories |-> EffectiveAction(rules, dir)]

(* What a later call may list: the rules in any order, or one of them      *)
(* changed, or one gone.                                                   *)
Reordered(rules) ==
  {[i \in DOMAIN rules |-> rules[p[i]]] :
     p \in {f \in [DOMAIN rules -> DOMAIN rules] :
              \A i, j \in DOMAIN rules : f[i] = f[j] => i = j}}

Changed(rules) == {[rules EXCEPT ![i] = r] : i \in DOMAIN rules, r \in Rules}

Dropped(rules) == {RemoveAt(rules, i) : i \in DOMAIN rules}

Listed(rules) == Reordered(rules) \cup Changed(rules) \cup Dropped(rules)

(* Two listings that differ only in the order of the grants of unrelated   *)
(* directories that end them, after a rule that overlaps with each (such as*)
(* "*") or that is about another permission.                               *)
Apart(r, s) ==
  /\ r.permission = "external_directory" /\ s.permission = "external_directory"
  /\ ~MayOverlap(r.pattern, s.pattern)

SameButForNoise(old, new) ==
  /\ new \in Reordered(old)
  /\ \E k \in 0..Len(old) :
       /\ SubSeq(old, 1, k) = SubSeq(new, 1, k)
       /\ k = 0 \/ old[k].permission = "*" \/ old[k].pattern.shape # "tail"
       /\ \A i, j \in k + 1 .. Len(old) : i # j => Apart(old[i], old[j])
=============================================================================
