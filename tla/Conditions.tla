----------------------------- MODULE Conditions -----------------------------
(* The condition language of the rules engine (rules.ts). A condition is a   *)
(* tree of records; `facts` is a function from fact names to values, and a   *)
(* fact that is absent or null is outside its domain.                        *)
EXTENDS Integers, Sequences, FiniteSets, SequencesExt

If(fact, op, value) ==
  [node |-> "fact", fact |-> fact, op |-> op, value |-> value]
Known(fact)       == [node |-> "fact", fact |-> fact, op |-> "exists", value |-> TRUE]
AllOf(of)         == [node |-> "all", of |-> of]
AnyOf(of)         == [node |-> "any", of |-> of]
AtLeast(n, of)    == [node |-> "atLeast", of |-> of, atLeast |-> n]
Not(of)           == [node |-> "not", of |-> <<of>>]
Always            == [node |-> "always", of |-> <<>>]

\* One comparison. What is missing satisfies no inequality and no membership,
\* and every negative comparison. Patterns are the sets of what they accept,
\* dates are ages, several values of one fact are a set.
evaluatePredicate(p, facts) ==
  LET known  == p.fact \in DOMAIN facts
      actual == facts[p.fact]
      value  == p.value
  IN \/ p.op = "exists"      /\ known
     \/ p.op = "empty"       /\ (known => actual = {})
     \/ p.op = "eq"          /\ known /\ actual = value
     \/ p.op = "neq"         /\ (known => actual # value)
     \/ p.op \in {"gt", "olderThan"} /\ known /\ actual > value
     \/ p.op = "gte"         /\ known /\ actual >= value
     \/ p.op \in {"lt", "newerThan"} /\ known /\ actual < value
     \/ p.op = "lte"         /\ known /\ actual <= value
     \/ p.op = "between"     /\ known /\ actual >= value[1] /\ actual <= value[2]
     \/ p.op \in {"in", "matches", "startsWith", "endsWith"} /\ known /\ actual \in value
     \/ p.op = "nin"         /\ (known => actual \notin value)
     \/ p.op = "contains"    /\ known /\ value \in actual
     \/ p.op = "notContains" /\ (known => value \notin actual)
     \/ p.op = "containsAny" /\ known /\ actual \cap value # {}
     \/ p.op = "containsAll" /\ value # {} /\ known /\ value \subseteq actual

\* Whether a node holds, when those of its parts hold that are in `them`; a node
\* of no known kind never does.
NodeHolds(c, facts, them) ==
  \/ c.node = "always"
  \/ c.node = "fact"    /\ evaluatePredicate(c, facts)
  \/ c.node = "all"     /\ them = DOMAIN c.of
  \/ c.node = "any"     /\ them # {}
  \/ c.node = "atLeast" /\ Cardinality(them) >= c.atLeast
  \/ c.node = "not"     /\ them = {}

\* A condition with the parts of its parts, which is the bound on nesting: the
\* library's conditions have parts, and these are facts.
InnerHolds(c, facts) ==
  NodeHolds(c, facts, {i \in DOMAIN c.of : NodeHolds(c.of[i], facts, {})})
evaluateCondition(c, facts) ==
  NodeHolds(c, facts, {i \in DOMAIN c.of : InnerHolds(c.of[i], facts)})
=============================================================================
