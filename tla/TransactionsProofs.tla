-------------------------- MODULE TransactionsProofs --------------------------
(* What is proved about the two systems that MCTransactions composes, for any *)
(* number of transfers, attempts and failures, of accounts, faces, documents  *)
(* and faults: that what must be stopped never settles without an officer,    *)
(* structuring is caught, a blocked transfer gets an owner and a release      *)
(* stands (Transactions), and that of two runs that approve, the later to     *)
(* look has seen what the other left (Duplicates).                            *)
EXTENDS Transactions, Duplicates, FiniteSetTheorems, WellFoundedInduction, TLAPS

----------------------------------------------------------------------------
(* The rules engine: what fires, and what is asked for.                       *)

\* Induction over the naturals, with the property as a set: what holds of zero and
\* passes from each number to the next holds of all.
LEMMA SetInduction ==
  ASSUME NEW T, 0 \in T, \A n \in Nat : n \in T => n + 1 \in T
  PROVE  \A n \in Nat : n \in T
<1> DEFINE Rest == {n \in Nat : n \notin T}
           Less == {pair \in Nat \X Nat : pair[1] < pair[2]}
<1>1. SUFFICES ASSUME Rest # {} PROVE FALSE
  OBVIOUS
<1>2. IsWellFoundedOn(Less, Nat)
  BY NatLessThanWellFounded, Zenon DEF OpToRel
<1>3. PICK x \in Rest : \A y \in Rest : <<y, x>> \notin Less
  <2>1. Rest \subseteq Nat
    OBVIOUS
  <2> HIDE DEF Rest
  <2> QED BY <1>1, <1>2, <2>1, WFMin
<1>4. x # 0 /\ x \in Nat
  OBVIOUS
<1>5. x - 1 \in Rest
  BY <1>4
<1>6. <<x - 1, x>> \in Less
  BY <1>4
<1> QED BY <1>3, <1>5, <1>6

\* What the engine computes, rule by rule.
Runs(after, ordered, facts) ==
  /\ after[0] = [fired |-> <<>>, facts |-> facts]
  /\ \A i \in 1..Len(ordered) : after[i] = Applied(after[i - 1], ordered[i])

\* The recursion of evaluateRules has a solution, and it is the one that runs.
LEMMA EngineRuns ==
  ASSUME NEW S, NEW ordered \in Seq(S), NEW facts
  PROVE  \E after : /\ Runs(after, ordered, facts)
                    /\ evaluateRules(ordered, facts) = after[Len(ordered)]
<1> DEFINE Start == [fired |-> <<>>, facts |-> facts]
           Body(f) == [i \in 0..Len(ordered) |->
                         IF i = 0 THEN Start ELSE Applied(f[i - 1], ordered[i])]
           Upto(f, n) == /\ f[0] = Start
                         /\ \A i \in 1..n : f[i] = Applied(f[i - 1], ordered[i])
           T == {n \in Nat : \E f : Upto(f, n)}
<1>1. 0 \in T
  <2>1. Upto([i \in {0} |-> Start], 0)
    OBVIOUS
  <2> QED BY <2>1
<1>2. ASSUME NEW n \in Nat, n \in T PROVE n + 1 \in T
  <2>1. PICK f : Upto(f, n)
    BY <1>2
  <2> DEFINE g == [i \in 0..(n + 1) |-> IF i = n + 1 THEN Applied(f[n], ordered[n + 1])
                                        ELSE f[i]]
  <2>2. g[0] = Start
    BY <2>1
  <2>3. ASSUME NEW i \in 1..(n + 1) PROVE g[i] = Applied(g[i - 1], ordered[i])
    <3>1. CASE i = n + 1
      BY <3>1
    <3>2. CASE i # n + 1
      <4>1. i \in 1..n /\ i - 1 \in 0..(n + 1) /\ i - 1 # n + 1
        BY <3>2
      <4>2. g[i] = f[i] /\ g[i - 1] = f[i - 1]
        BY <4>1, <3>2
      <4>3. f[i] = Applied(f[i - 1], ordered[i])
        BY <2>1, <4>1
      <4> QED BY <4>2, <4>3
    <3> QED BY <3>1, <3>2
  <2>4. Upto(g, n + 1)
    BY <2>2, <2>3
  <2> HIDE DEF Upto
  <2> QED BY <2>4
<1>3. PICK f : Upto(f, Len(ordered))
  <2> HIDE DEF Upto
  <2>1. Len(ordered) \in T
    <3> HIDE DEF T
    <3> QED BY <1>1, <1>2, SetInduction
  <2> QED BY <2>1
<1> DEFINE g == [i \in 0..Len(ordered) |-> f[i]]
<1>4. g = Body(g)
  <2>1. Len(ordered) \in Nat
    OBVIOUS
  <2>2. ASSUME NEW i \in 0..Len(ordered) PROVE g[i] = Body(g)[i]
    <3>1. CASE i = 0
      BY <1>3, <3>1
    <3>2. CASE i # 0
      <4>1. g[i] = Applied(f[i - 1], ordered[i])
        BY <1>3, <3>2
      <4>2. g[i - 1] = f[i - 1]
        BY <3>2
      <4> QED BY <4>1, <4>2, <3>2
    <3> QED BY <3>1, <3>2
  <2> QED BY <2>2
<1> HIDE DEF g
<1> DEFINE h == CHOOSE after : after = Body(after)
<1>5. h = Body(h)
  BY <1>4
<1>6. evaluateRules(ordered, facts) = h[Len(ordered)]
  BY Zenon DEF evaluateRules
<1>7. Runs(h, ordered, facts)
  <2> HIDE DEF h
  <2>1. h[0] = Start
    BY <1>5
  <2>2. ASSUME NEW i \in 1..Len(ordered) PROVE h[i] = Applied(h[i - 1], ordered[i])
    BY <1>5
  <2> QED BY <2>1, <2>2 DEF Runs
<1> QED BY <1>6, <1>7

\* Facts that no rule sets stay, and a rule whose condition holds of them fires.
SetsNothing(rule) == \A k \in DOMAIN rule.actions : rule.actions[k].type # "SET_FACT"

\* A rule that sets no fact leaves them as they are.
LEMMA NothingDerived ==
  ASSUME NEW facts, facts = [n \in DOMAIN facts |-> facts[n]],
         NEW rule, SetsNothing(rule)
  PROVE  Derived(facts, rule.actions) = facts
<1>1. {i \in DOMAIN rule.actions : rule.actions[i].type = "SET_FACT"} = {}
  BY DEF SetsNothing
<1> DEFINE names == {rule.actions[i].name :
                       i \in {j \in DOMAIN rule.actions : rule.actions[j].type = "SET_FACT"}}
<1>2. names = {}
  BY <1>1
<1> QED BY <1>2, Zenon DEF Derived

\* What is appended is there, with what was.
LEMMA Appended ==
  ASSUME NEW S, NEW s \in Seq(S), NEW x \in S
  PROVE  /\ x \in Range(Append(s, x)) /\ Range(s) \subseteq Range(Append(s, x))
<1>1. DOMAIN s = 1 .. Len(s) /\ DOMAIN Append(s, x) = 1 .. (Len(s) + 1)
  OBVIOUS
<1>2. \A i \in DOMAIN s : Append(s, x)[i] = s[i]
  BY <1>1
<1>3. Append(s, x)[Len(s) + 1] = x
  OBVIOUS
<1> QED BY <1>1, <1>2, <1>3 DEF Range

\* A well-formed rule fires whose condition holds of facts that no rule before it sets.
LEMMA Fires ==
  ASSUME NEW S, NEW ordered \in Seq(S), NEW facts,
         facts = [n \in DOMAIN facts |-> facts[n]],
         NEW k \in 1..Len(ordered), \A i \in 1..(k - 1) : SetsNothing(ordered[i]),
         ordered[k].wellFormed, evaluateCondition(ordered[k].conditions, facts)
  PROVE  /\ evaluateRules(ordered, facts).fired \in Seq(S)
         /\ ordered[k] \in Range(evaluateRules(ordered, facts).fired)
<1>1. PICK after : /\ Runs(after, ordered, facts)
                   /\ evaluateRules(ordered, facts) = after[Len(ordered)]
  BY EngineRuns
<1> DEFINE Good(i) == /\ DOMAIN after[i] = {"fired", "facts"}
                      /\ after[i].fired \in Seq(S)
                      /\ i < k => after[i].facts = facts
                      /\ i >= k => ordered[k] \in Range(after[i].fired)
           T == {i \in Nat : i <= Len(ordered) => Good(i)}
<1>2. 0 \in T
  <2>1. /\ after[0].fired = <<>> /\ after[0].facts = facts
        /\ DOMAIN after[0] = {"fired", "facts"}
    BY <1>1 DEF Runs
  <2>2. ~(0 >= k)
    OBVIOUS
  <2>3. Good(0)
    BY <2>1, <2>2
  <2> QED BY <2>3
<1>3. ASSUME NEW i \in Nat, i \in T PROVE i + 1 \in T
  <2> SUFFICES ASSUME i + 1 <= Len(ordered) PROVE Good(i + 1)
    OBVIOUS
  <2> DEFINE before == after[i]
             rule   == ordered[i + 1]
             fires  == rule.wellFormed /\ evaluateCondition(rule.conditions, before.facts)
  <2>1. Good(i) /\ rule \in S
    BY <1>3
  <2>2. after[i + 1] = Applied(before, rule)
    <3>1. i + 1 \in 1..Len(ordered) /\ (i + 1) - 1 = i
      OBVIOUS
    <3>2. after[i + 1] = Applied(after[(i + 1) - 1], rule)
      BY <1>1, <3>1 DEF Runs
    <3> QED BY <3>1, <3>2
  <2>3. /\ DOMAIN after[i + 1] = {"fired", "facts"}
        /\ after[i + 1].fired = IF fires THEN Append(before.fired, rule) ELSE before.fired
        /\ after[i + 1].facts = IF ~fires \/ rule.isShadow THEN before.facts
                                ELSE Derived(before.facts, rule.actions)
    BY <2>1, <2>2 DEF Applied
  <2> HIDE DEF before, rule
  <2>4. after[i + 1].fired \in Seq(S)
    BY <2>1, <2>3 DEF before
  <2>5. ASSUME i + 1 < k PROVE after[i + 1].facts = facts
    <3>1. before.facts = facts
      BY <2>1, <2>5 DEF before
    <3>2. SetsNothing(rule)
      BY <2>5 DEF rule
    <3> QED BY <2>3, <3>1, <3>2, NothingDerived
  <2>6. ASSUME i + 1 >= k PROVE ordered[k] \in Range(after[i + 1].fired)
    <3>1. CASE i + 1 = k
      <4>1. before.facts = facts /\ rule = ordered[k]
        BY <2>1, <3>1 DEF before, rule
      <4>2. after[i + 1].fired = Append(before.fired, rule)
        BY <2>3, <4>1
      <4> QED BY <2>1, <4>1, <4>2, Appended DEF before
    <3>2. CASE i + 1 > k
      <4>1. ordered[k] \in Range(before.fired)
        BY <2>1, <3>2 DEF before
      <4> QED BY <2>1, <2>3, <4>1, Appended DEF before
    <3> QED BY <2>6, <3>1, <3>2
  <2> QED BY <2>3, <2>4, <2>5, <2>6
<1>4. Len(ordered) \in T
  <2> HIDE DEF T
  <2> QED BY <1>2, <1>3, SetInduction
<1> QED BY <1>1, <1>4

\* What the rules that fired ask for, one after the other.
Collects(asked, fired) ==
  /\ asked[0] = <<>>
  /\ \A i \in 1..Len(fired) :
       asked[i] = asked[i - 1] \o (IF fired[i].isShadow THEN <<>> ELSE fired[i].actions)

\* The recursion of ActionsOf has a solution as well.
LEMMA ActionsCollected ==
  ASSUME NEW S, NEW fired \in Seq(S)
  PROVE  \E asked : Collects(asked, fired) /\ ActionsOf(fired) = asked[Len(fired)]
<1> DEFINE Part(i) == IF fired[i].isShadow THEN <<>> ELSE fired[i].actions
           Body(f) == [i \in 0..Len(fired) |-> IF i = 0 THEN <<>> ELSE f[i - 1] \o Part(i)]
           Upto(f, n) == f[0] = <<>> /\ \A i \in 1..n : f[i] = f[i - 1] \o Part(i)
           T == {n \in Nat : \E f : Upto(f, n)}
<1>0. ActionsOf(fired) = (CHOOSE asked : asked = Body(asked))[Len(fired)]
  BY Zenon DEF ActionsOf
<1> HIDE DEF Part
<1>1. 0 \in T
  <2>1. Upto([i \in {0} |-> <<>>], 0)
    OBVIOUS
  <2> QED BY <2>1
<1>2. ASSUME NEW n \in Nat, n \in T PROVE n + 1 \in T
  <2>1. PICK f : Upto(f, n)
    BY <1>2
  <2> DEFINE g == [i \in 0..(n + 1) |-> IF i = n + 1 THEN f[n] \o Part(n + 1) ELSE f[i]]
  <2>2. g[0] = <<>>
    BY <2>1
  <2>3. ASSUME NEW i \in 1..(n + 1) PROVE g[i] = g[i - 1] \o Part(i)
    <3>1. CASE i = n + 1
      BY <3>1
    <3>2. CASE i # n + 1
      <4>1. i \in 1..n /\ i - 1 \in 0..(n + 1) /\ i - 1 # n + 1
        BY <3>2
      <4>2. g[i] = f[i] /\ g[i - 1] = f[i - 1]
        BY <4>1, <3>2
      <4>3. f[i] = f[i - 1] \o Part(i)
        BY <2>1, <4>1
      <4> QED BY <4>2, <4>3
    <3> QED BY <3>1, <3>2
  <2>4. Upto(g, n + 1)
    BY <2>2, <2>3
  <2> HIDE DEF Upto
  <2> QED BY <2>4
<1>3. PICK f : Upto(f, Len(fired))
  <2> HIDE DEF Upto
  <2>1. Len(fired) \in T
    <3> HIDE DEF T
    <3> QED BY <1>1, <1>2, SetInduction
  <2> QED BY <2>1
<1> DEFINE g == [i \in 0..Len(fired) |-> f[i]]
<1>4. g = Body(g)
  <2>1. Len(fired) \in Nat
    OBVIOUS
  <2>2. ASSUME NEW i \in 0..Len(fired) PROVE g[i] = Body(g)[i]
    <3>1. CASE i = 0
      BY <1>3, <3>1
    <3>2. CASE i # 0
      <4>1. g[i] = f[i - 1] \o Part(i)
        BY <1>3, <3>2
      <4>2. g[i - 1] = f[i - 1]
        BY <3>2
      <4> QED BY <4>1, <4>2, <3>2
    <3> QED BY <3>1, <3>2
  <2> QED BY <2>2
<1> HIDE DEF g
<1> DEFINE h == CHOOSE asked : asked = Body(asked)
<1>5. h = Body(h)
  BY <1>4
<1>7. Collects(h, fired)
  <2> HIDE DEF h
  <2>1. h[0] = <<>>
    BY <1>5
  <2>2. ASSUME NEW i \in 1..Len(fired) PROVE h[i] = h[i - 1] \o Part(i)
    <3>1. i \in 0..Len(fired) /\ i # 0
      OBVIOUS
    <3>2. Body(h)[i] = h[i - 1] \o Part(i)
      BY <3>1, Zenon
    <3> QED BY <1>5, <3>2, Zenon
  <2> QED BY <2>1, <2>2 DEF Collects, Part
<1> QED BY <1>0, <1>7

\* An action of a rule that fired is among them, unless the rule is a shadow.
LEMMA Concatenated ==
  ASSUME NEW A, NEW s \in Seq(A), NEW u \in Seq(A)
  PROVE  /\ s \o u \in Seq(A) /\ Range(s) \subseteq Range(s \o u)
         /\ Range(u) \subseteq Range(s \o u)
<1>1. /\ s \o u \in Seq(A) /\ Len(s \o u) = Len(s) + Len(u)
      /\ DOMAIN s = 1 .. Len(s) /\ DOMAIN u = 1 .. Len(u)
      /\ DOMAIN (s \o u) = 1 .. (Len(s) + Len(u))
  OBVIOUS
<1>2. \A i \in DOMAIN s : i \in DOMAIN (s \o u) /\ (s \o u)[i] = s[i]
  BY <1>1
<1>3. \A i \in DOMAIN u : Len(s) + i \in DOMAIN (s \o u) /\ (s \o u)[Len(s) + i] = u[i]
  BY <1>1
<1>4. Range(s) \subseteq Range(s \o u)
  BY <1>2 DEF Range
<1>5. Range(u) \subseteq Range(s \o u)
  BY <1>3 DEF Range
<1> QED BY <1>1, <1>4, <1>5

\* What a rule that fired asks for is asked for.
LEMMA Asks ==
  ASSUME NEW A, NEW S, \A r \in S : r.actions \in Seq(A), NEW fired \in Seq(S),
         NEW rule \in Range(fired), ~rule.isShadow
  PROVE  Range(rule.actions) \subseteq Range(ActionsOf(fired))
<1>1. PICK asked : Collects(asked, fired) /\ ActionsOf(fired) = asked[Len(fired)]
  BY ActionsCollected
<1>2. PICK k \in 1..Len(fired) : fired[k] = rule
  BY DEF Range
<1> DEFINE Good(i) == /\ asked[i] \in Seq(A)
                      /\ i >= k => Range(rule.actions) \subseteq Range(asked[i])
           T == {i \in Nat : i <= Len(fired) => Good(i)}
<1>3. 0 \in T
  <2>1. asked[0] = <<>> /\ ~(0 >= k)
    BY <1>1 DEF Collects
  <2>2. Good(0)
    BY <2>1
  <2> QED BY <2>2
<1>4. ASSUME NEW i \in Nat, i \in T PROVE i + 1 \in T
  <2> SUFFICES ASSUME i + 1 <= Len(fired) PROVE Good(i + 1)
    OBVIOUS
  <2> DEFINE part == IF fired[i + 1].isShadow THEN <<>> ELSE fired[i + 1].actions
  <2>1. Good(i) /\ fired[i + 1] \in S
    BY <1>4
  <2>2. asked[i + 1] = asked[i] \o part
    <3>1. i + 1 \in 1..Len(fired) /\ (i + 1) - 1 = i
      OBVIOUS
    <3>2. asked[i + 1] = asked[(i + 1) - 1] \o part
      BY <1>1, <3>1 DEF Collects
    <3> QED BY <3>1, <3>2
  <2>3. part \in Seq(A)
    BY <2>1
  <2>4. i + 1 = k => part = rule.actions
    BY <1>2
  <2> HIDE DEF part
  <2>5. /\ asked[i + 1] \in Seq(A) /\ Range(asked[i]) \subseteq Range(asked[i + 1])
        /\ Range(part) \subseteq Range(asked[i + 1])
    BY <2>1, <2>2, <2>3, Concatenated
  <2>6. ASSUME i + 1 >= k PROVE Range(rule.actions) \subseteq Range(asked[i + 1])
    <3>1. i + 1 = k \/ i >= k
      BY <2>6
    <3> QED BY <2>1, <2>4, <2>5, <3>1
  <2> QED BY <2>5, <2>6
<1>5. Good(Len(fired))
  <2>1. Len(fired) \in T
    <3> HIDE DEF T
    <3> QED BY <1>3, <1>4, SetInduction
  <2> QED BY <2>1
<1> QED BY <1>1, <1>5

----------------------------------------------------------------------------
(* The tenant's rules about transactions.                                     *)

\* What a concatenation is.
LEMMA Concat ==
  ASSUME NEW A, NEW s \in Seq(A), NEW u \in Seq(A)
  PROVE  /\ s \o u \in Seq(A) /\ Len(s \o u) = Len(s) + Len(u)
         /\ DOMAIN (s \o u) = 1 .. (Len(s) + Len(u))
         /\ \A i \in 1..Len(s) : (s \o u)[i] = s[i]
         /\ \A i \in (Len(s) + 1) .. (Len(s) + Len(u)) : (s \o u)[i] = u[i - Len(s)]
OBVIOUS


\* The rules about transactions: counterparties first, then patterns.
Listed == {CounterpartyRules[i] : i \in 1..3} \cup {PatternRules[i] : i \in 1..6}

\* The library lists three and then six rules.
LEMMA LibraryShape ==
  /\ TRANSACTION_RULES \in Seq(Listed) /\ Len(TRANSACTION_RULES) = 9
  /\ \A i \in 1..3 : TRANSACTION_RULES[i] = CounterpartyRules[i]
  /\ \A i \in 4..9 : TRANSACTION_RULES[i] = PatternRules[i - 3]
<1>1. CounterpartyRules \in Seq(Listed) /\ Len(CounterpartyRules) = 3
  <2>1. CounterpartyRules \in Seq({CounterpartyRules[i] : i \in 1..3})
    BY DEF CounterpartyRules
  <2>2. Len(CounterpartyRules) = 3
    BY DEF CounterpartyRules
  <2>3. {CounterpartyRules[i] : i \in 1..3} \subseteq Listed
    BY DEF Listed
  <2> QED BY <2>1, <2>2, <2>3
<1>2. PatternRules \in Seq(Listed) /\ Len(PatternRules) = 6
  <2>1. PatternRules \in Seq({PatternRules[i] : i \in 1..6})
    BY DEF PatternRules
  <2>2. Len(PatternRules) = 6
    BY DEF PatternRules
  <2>3. {PatternRules[i] : i \in 1..6} \subseteq Listed
    BY DEF Listed
  <2> QED BY <2>1, <2>2, <2>3
<1> DEFINE all == CounterpartyRules \o PatternRules
           c   == Len(CounterpartyRules)
           p   == Len(PatternRules)
<1>3. /\ all \in Seq(Listed) /\ Len(all) = c + p
      /\ \A i \in 1..c : all[i] = CounterpartyRules[i]
      /\ \A i \in (c + 1)..(c + p) : all[i] = PatternRules[i - c]
  BY <1>1, <1>2, Concat, Zenon
<1>4. c = 3 /\ p = 6
  BY <1>1, <1>2
<1>5. TRANSACTION_RULES = all
  BY DEF TRANSACTION_RULES
<1> HIDE DEF all, c, p
<1> QED BY <1>3, <1>4, <1>5

\* The priorities of the library's rules about transactions, as listed.
Priorities == <<400, 401, 402, 410, 411, 412, 420, 421, 430>>

\* It lists them by rising priority, each of them active.
LEMMA Prioritised ==
  \A i \in 1..9 : /\ TRANSACTION_RULES[i].priority = Priorities[i]
                  /\ TRANSACTION_RULES[i].isActive = TRUE
                  /\ TRANSACTION_RULES[i].scope = "TRANSACTION"
<1> DEFINE Is(r, p) == r.priority = p /\ r.isActive = TRUE /\ r.scope = "TRANSACTION"
<1>1. /\ Is(CounterpartyRules[1], 400) /\ Is(CounterpartyRules[2], 401)
      /\ Is(CounterpartyRules[3], 402)
  BY DEF CounterpartyRules, Rule
<1>2. Is(PatternRules[1], 410) /\ Is(PatternRules[2], 411) /\ Is(PatternRules[3], 412)
  BY DEF PatternRules, Rule
<1>3. Is(PatternRules[4], 420) /\ Is(PatternRules[5], 421) /\ Is(PatternRules[6], 430)
  BY DEF PatternRules, Rule
<1> HIDE DEF Is
<1>4. /\ \A i \in 1..3 : Is(TRANSACTION_RULES[i], Priorities[i])
  BY <1>1, LibraryShape DEF Priorities
<1>5. /\ \A i \in 4..9 : Is(TRANSACTION_RULES[i], Priorities[i])
  BY <1>2, <1>3, LibraryShape DEF Priorities
<1>6. \A i \in 1..9 : Is(TRANSACTION_RULES[i], Priorities[i])
  BY <1>4, <1>5
<1> QED BY <1>6 DEF Is

\* So each precedes those after it, and no other.
LEMMA Ascending ==
  ASSUME NEW i \in 1..9, NEW j \in 1..9, i # j
  PROVE  Precedes(TRANSACTION_RULES[i], TRANSACTION_RULES[j]) <=> i < j
<1>1. Priorities[i] < Priorities[j] <=> i < j
  BY DEF Priorities
<1>2. Priorities[i] # Priorities[j]
  BY DEF Priorities
<1> QED BY <1>1, <1>2, Prioritised DEF Precedes

\* The rules are evaluated in the order the library lists them.
LEMMA ListedInOrder == TransactionRules = TRANSACTION_RULES
<1> DEFINE rules == TRANSACTION_RULES
           eligible  == {i \in DOMAIN rules : /\ rules[i].isActive
                                              /\ rules[i].scope \in {"TRANSACTION"}}
           Before(i) == {j \in eligible \ {i} :
                           \/ Precedes(rules[j], rules[i])
                           \/ j < i /\ ~Precedes(rules[i], rules[j])}
           Place(k)  == CHOOSE i \in eligible : Cardinality(Before(i)) = k - 1
           placed    == [k \in 1..Cardinality(eligible) |-> rules[Place(k)]]
<1>1. TransactionRules = placed
  BY Zenon DEF TransactionRules, Ordered
<1>2. DOMAIN rules = 1..9 /\ rules \in Seq(Listed) /\ Len(rules) = 9
  BY LibraryShape
<1>3. eligible = 1..9
  <2>1. \A i \in 1..9 : rules[i].isActive = TRUE /\ rules[i].scope = "TRANSACTION"
    BY Prioritised
  <2> HIDE DEF rules
  <2> QED BY <1>2, <2>1
<1> HIDE DEF eligible
<1>4. ASSUME NEW i \in 1..9 PROVE Cardinality(Before(i)) = i - 1
  <2>1. ASSUME NEW j \in 1..9, j # i
        PROVE  /\ Precedes(rules[j], rules[i]) <=> j < i
               /\ Precedes(rules[i], rules[j]) <=> i < j
    <3>1. Precedes(rules[j], rules[i]) <=> j < i
      BY <2>1, Ascending
    <3>2. Precedes(rules[i], rules[j]) <=> i < j
      BY <2>1, Ascending
    <3> QED BY <3>1, <3>2
  <2> HIDE DEF rules
  <2>2. \A j : j \in Before(i) <=> j \in 1..9 /\ j < i
    <3> SUFFICES ASSUME NEW j PROVE j \in Before(i) <=> j \in 1..9 /\ j < i
      OBVIOUS
    <3>1. j \in Before(i) <=> /\ j \in 1..9 /\ j # i
                              /\ \/ Precedes(rules[j], rules[i])
                                 \/ j < i /\ ~Precedes(rules[i], rules[j])
      BY <1>3
    <3> QED BY <2>1, <3>1
  <2> HIDE DEF Before
  <2>3. Before(i) = 1..(i - 1)
    <3>1. \A j : j \in 1..(i - 1) <=> j \in 1..9 /\ j < i
      OBVIOUS
    <3> QED BY <2>2, <3>1, Zenon
  <2>4. Cardinality(1..(i - 1)) = i - 1
    BY FS_Interval
  <2> QED BY <2>3, <2>4
<1>5. Cardinality(eligible) = 9
  <2>1. \A n \in Nat : Cardinality(1..n) = n
    BY FS_Interval
  <2> QED BY <1>3, <2>1
<1> HIDE DEF Before, rules
<1>6. ASSUME NEW k \in 1..9 PROVE Place(k) = k
  <2>1. Cardinality(Before(k)) = k - 1
    BY <1>4
  <2>2. \A i \in 1..9 : Cardinality(Before(i)) = k - 1 => i = k
    BY <1>4
  <2> QED BY <1>3, <2>1, <2>2
<1> HIDE DEF Place
<1>7. placed = [k \in 1..9 |-> rules[k]]
  BY <1>5, <1>6
<1>8. rules = [k \in 1..9 |-> rules[k]]
  BY <1>2
<1> HIDE DEF placed
<1>9. TransactionRules = rules
  BY <1>1, <1>7, <1>8
<1> QED BY <1>9 DEF rules

\* Conditions over facts alone.
LEMMA AllFacts ==
  ASSUME NEW of, NEW facts,
         \A i \in DOMAIN of : of[i].node = "fact" /\ evaluatePredicate(of[i], facts)
  PROVE  evaluateCondition(AllOf(of), facts)
<1>1. \A i \in DOMAIN of : InnerHolds(of[i], facts)
  BY DEF InnerHolds, NodeHolds
<1>2. {i \in DOMAIN of : InnerHolds(of[i], facts)} = DOMAIN of
  BY <1>1
<1>3. AllOf(of).node = "all" /\ AllOf(of).of = of
  BY DEF AllOf
<1> QED BY <1>2, <1>3 DEF evaluateCondition, NodeHolds

\* One of them is enough for the other connective.
LEMMA AnyFact ==
  ASSUME NEW of, NEW facts, NEW k \in DOMAIN of,
         of[k].node = "fact", evaluatePredicate(of[k], facts)
  PROVE  evaluateCondition(AnyOf(of), facts)
<1>1. InnerHolds(of[k], facts)
  BY DEF InnerHolds, NodeHolds
<1>2. {i \in DOMAIN of : InnerHolds(of[i], facts)} # {}
  BY <1>1
<1>3. AnyOf(of).node = "any" /\ AnyOf(of).of = of
  BY DEF AnyOf
<1> QED BY <1>2, <1>3 DEF evaluateCondition, NodeHolds

FactsOf(t, answered) ==
  buildTransactionFacts(t, Wallet(t, answered), computeAggregates(t))

Says(facts, name, value) == name \in DOMAIN facts /\ facts[name] = value

\* What is among the facts that the rules below ask for.
LEMMA Facts ==
  ASSUME NEW t, NEW answered
  PROVE  /\ FactsOf(t, answered)
              = [n \in DOMAIN FactsOf(t, answered) |-> FactsOf(t, answered)[n]]
         /\ Says(FactsOf(t, answered), "tx.amountBase", about[t].amount)
         /\ ~about[t].known =>
              Says(FactsOf(t, answered), "applicant.reviewStatus", "NOT_STARTED")
         /\ Says(FactsOf(t, answered), "agg.lifetimeCount",
                 computeAggregates(t).lifetimeCount)
         /\ Says(FactsOf(t, answered), "agg.count24h", computeAggregates(t).count24h)
         /\ Says(FactsOf(t, answered), "agg.sum24h", computeAggregates(t).sum24h)
         /\ about[t].country # "" =>
              Says(FactsOf(t, answered), "tx.counterpartyCountry", about[t].country)
<1> DEFINE wallet == Wallet(t, answered)
           agg    == computeAggregates(t)
           f      == FactsOf(t, answered)
<1>1. f = [n \in FactNames(t, agg) |-> FactValue(n, t, wallet, agg)]
  BY DEF FactsOf, buildTransactionFacts
<1> HIDE DEF wallet, agg, f
<1>2. /\ f = [n \in DOMAIN f |-> f[n]]
      /\ \A n \in FactNames(t, agg) : Says(f, n, FactValue(n, t, wallet, agg))
  BY <1>1 DEF Says
<1>3. /\ "tx.amountBase" \in FactNames(t, agg)
      /\ FactValue("tx.amountBase", t, wallet, agg) = about[t].amount
  BY Zenon DEF FactNames, FactValue
<1>4. /\ "applicant.reviewStatus" \in FactNames(t, agg)
      /\ ~about[t].known =>
           FactValue("applicant.reviewStatus", t, wallet, agg) = "NOT_STARTED"
  BY Zenon DEF FactNames, FactValue
<1>5. /\ "agg.lifetimeCount" \in FactNames(t, agg)
      /\ FactValue("agg.lifetimeCount", t, wallet, agg) = agg.lifetimeCount
  BY Zenon DEF FactNames, FactValue
<1>6. /\ "agg.count24h" \in FactNames(t, agg)
      /\ FactValue("agg.count24h", t, wallet, agg) = agg.count24h
  BY Zenon DEF FactNames, FactValue
<1>7. /\ "agg.sum24h" \in FactNames(t, agg)
      /\ FactValue("agg.sum24h", t, wallet, agg) = agg.sum24h
  BY Zenon DEF FactNames, FactValue
<1>8. /\ about[t].country # "" => "tx.counterpartyCountry" \in FactNames(t, agg)
      /\ FactValue("tx.counterpartyCountry", t, wallet, agg) = about[t].country
  BY Zenon DEF FactNames, FactValue
<1>9. /\ f = [n \in DOMAIN f |-> f[n]]
      /\ Says(f, "tx.amountBase", about[t].amount)
      /\ ~about[t].known => Says(f, "applicant.reviewStatus", "NOT_STARTED")
      /\ Says(f, "agg.lifetimeCount", agg.lifetimeCount)
      /\ Says(f, "agg.count24h", agg.count24h)
      /\ Says(f, "agg.sum24h", agg.sum24h)
      /\ about[t].country # "" => Says(f, "tx.counterpartyCountry", about[t].country)
  BY <1>2, <1>3, <1>4, <1>5, <1>6, <1>7, <1>8, Zenon
<1> QED BY <1>9, Zenon DEF f, agg

FiredBy(t, answered) ==
  evaluateRules(TransactionRules, FactsOf(t, answered)).fired

\* A rule whose condition holds of the facts fires, when the rules before it set nothing.
LEMMA RuleFires ==
  ASSUME NEW t, NEW answered, NEW k \in 1..9,
         TRANSACTION_RULES[k].wellFormed,
         \A i \in 1..(k - 1) : SetsNothing(TRANSACTION_RULES[i]),
         evaluateCondition(TRANSACTION_RULES[k].conditions, FactsOf(t, answered))
  PROVE  /\ FiredBy(t, answered) \in Seq(Listed)
         /\ TRANSACTION_RULES[k] \in Range(FiredBy(t, answered))
<1> DEFINE f == FactsOf(t, answered)
<1>1. f = [n \in DOMAIN f |-> f[n]]
  BY Facts, Zenon
<1>2. TransactionRules = TRANSACTION_RULES
  BY ListedInOrder
<1> HIDE DEF f
<1> QED BY <1>1, <1>2, LibraryShape, Fires DEF FiredBy, f

\* A rule that fired and asks for a transfer to be stopped or flagged has it done.
LEMMA Stopped ==
  ASSUME NEW t, NEW answered, NEW A, \A r \in Listed : r.actions \in Seq(A),
         FiredBy(t, answered) \in Seq(Listed), NEW r \in Range(FiredBy(t, answered)),
         ~r.isShadow, NEW a \in Range(r.actions),
         a.type \in {"BLOCK_TRANSACTION", "HOLD_TRANSACTION", "FLAG_TRANSACTION"}
  PROVE  /\ Verdict(t, answered).action \in {"BLOCKED", "FLAGGED"}
         /\ a.type # "FLAG_TRANSACTION" => Verdict(t, answered).action = "BLOCKED"
<1> DEFINE actions == ActionsOf(FiredBy(t, answered))
           hints   == summarizeActions(actions)
<1>1. a \in Range(actions)
  BY Asks
<1>2. PICK i \in DOMAIN actions : actions[i] = a
  BY <1>1 DEF Range
<1>3. a.type \in {"BLOCK_TRANSACTION", "HOLD_TRANSACTION"} => hints.blockTransaction
  BY <1>2 DEF summarizeActions
<1>4. a.type = "FLAG_TRANSACTION" => hints.flagTransaction
  BY <1>2 DEF summarizeActions
<1>5. Verdict(t, answered).action =
             IF hints.blockTransaction THEN "BLOCKED"
             ELSE IF hints.flagTransaction THEN "FLAGGED" ELSE "APPROVED"
  BY Zenon DEF Verdict, FiredBy, FactsOf
<1> HIDE DEF hints, actions
<1> QED BY <1>3, <1>4, <1>5

Sound(r) == r.wellFormed /\ ~r.isShadow /\ r.actions \in Seq(Range(r.actions))
Counts(r) == Sound(r) /\ SetsNothing(r)

\* A list is a list of what it lists.
LEMMA OfItsOwn ==
  ASSUME NEW a, NEW b, NEW c, NEW d
  PROVE  /\ <<a>> \in Seq(Range(<<a>>)) /\ <<a, b>> \in Seq(Range(<<a, b>>))
         /\ <<a, b, c>> \in Seq(Range(<<a, b, c>>))
         /\ <<a, b, c, d>> \in Seq(Range(<<a, b, c, d>>))
  BY DEF Range

\* Each rule is well formed, is no shadow, and sets no fact.
LEMMA CounterpartyRulesCount ==
  \A i \in 1..3 : Counts(CounterpartyRules[i])
<1>1. Counts(CounterpartyRules[1])
  <2>1. /\ CounterpartyRules[1].actions =
             <<Do("BLOCK_TRANSACTION"), RaiseAlert("CRITICAL"),
               OpenCase("TRANSACTION_ALERT"), Notify("MLRO")>>
        /\ CounterpartyRules[1].wellFormed = TRUE /\ CounterpartyRules[1].isShadow = FALSE
    BY DEF CounterpartyRules, Rule
  <2>2. SetsNothing(CounterpartyRules[1])
    BY <2>1 DEF SetsNothing, Do, RaiseAlert, With, OpenCase, Notify
  <2>3. CounterpartyRules[1].actions \in Seq(Range(CounterpartyRules[1].actions))
    BY <2>1, OfItsOwn, Zenon
  <2> QED BY <2>1, <2>2, <2>3 DEF Counts, Sound
<1>2. Counts(CounterpartyRules[2])
  <2>1. /\ CounterpartyRules[2].actions =
             <<Do("BLOCK_TRANSACTION"), RaiseAlert("CRITICAL"),
               OpenCase("TRANSACTION_ALERT")>>
        /\ CounterpartyRules[2].wellFormed = TRUE /\ CounterpartyRules[2].isShadow = FALSE
    BY DEF CounterpartyRules, Rule
  <2>2. SetsNothing(CounterpartyRules[2])
    BY <2>1 DEF SetsNothing, Do, RaiseAlert, With, OpenCase
  <2>3. CounterpartyRules[2].actions \in Seq(Range(CounterpartyRules[2].actions))
    BY <2>1, OfItsOwn, Zenon
  <2> QED BY <2>1, <2>2, <2>3 DEF Counts, Sound
<1>3. Counts(CounterpartyRules[3])
  <2>1. /\ CounterpartyRules[3].actions = <<Do("BLOCK_TRANSACTION"), RaiseAlert("HIGH")>>
        /\ CounterpartyRules[3].wellFormed = TRUE /\ CounterpartyRules[3].isShadow = FALSE
    BY DEF CounterpartyRules, Rule
  <2>2. SetsNothing(CounterpartyRules[3])
    BY <2>1 DEF SetsNothing, Do, RaiseAlert, With
  <2>3. CounterpartyRules[3].actions \in Seq(Range(CounterpartyRules[3].actions))
    BY <2>1, OfItsOwn, Zenon
  <2> QED BY <2>1, <2>2, <2>3 DEF Counts, Sound
<1> QED BY <1>1, <1>2, <1>3

\* So is each of these, and only the last sets a fact.
LEMMA PatternRulesCount ==
  /\ \A i \in 1..5 : Counts(PatternRules[i])
  /\ Sound(PatternRules[6])
<1>1. Counts(PatternRules[1])
  <2>1. /\ PatternRules[1].actions =
             <<Do("FLAG_TRANSACTION"), RaiseAlert("HIGH"), OpenCase("TRANSACTION_ALERT")>>
        /\ PatternRules[1].wellFormed = TRUE /\ PatternRules[1].isShadow = FALSE
    BY DEF PatternRules, Rule
  <2>2. SetsNothing(PatternRules[1])
    BY <2>1 DEF SetsNothing, Do, RaiseAlert, With, OpenCase
  <2>3. PatternRules[1].actions \in Seq(Range(PatternRules[1].actions))
    BY <2>1, OfItsOwn, Zenon
  <2> QED BY <2>1, <2>2, <2>3 DEF Counts, Sound
<1>2. Counts(PatternRules[2])
  <2>1. /\ PatternRules[2].actions = <<Do("FLAG_TRANSACTION"), RaiseAlert("MEDIUM")>>
        /\ PatternRules[2].wellFormed = TRUE /\ PatternRules[2].isShadow = FALSE
    BY DEF PatternRules, Rule
  <2>2. SetsNothing(PatternRules[2])
    BY <2>1 DEF SetsNothing, Do, RaiseAlert, With
  <2>3. PatternRules[2].actions \in Seq(Range(PatternRules[2].actions))
    BY <2>1, OfItsOwn, Zenon
  <2> QED BY <2>1, <2>2, <2>3 DEF Counts, Sound
<1>3. Counts(PatternRules[3])
  <2>1. /\ PatternRules[3].actions = <<Do("FLAG_TRANSACTION"), RaiseAlert("HIGH")>>
        /\ PatternRules[3].wellFormed = TRUE /\ PatternRules[3].isShadow = FALSE
    BY DEF PatternRules, Rule
  <2>2. SetsNothing(PatternRules[3])
    BY <2>1 DEF SetsNothing, Do, RaiseAlert, With
  <2>3. PatternRules[3].actions \in Seq(Range(PatternRules[3].actions))
    BY <2>1, OfItsOwn, Zenon
  <2> QED BY <2>1, <2>2, <2>3 DEF Counts, Sound
<1>4. Counts(PatternRules[4])
  <2>1. /\ PatternRules[4].actions = <<Do("HOLD_TRANSACTION"), RaiseAlert("MEDIUM")>>
        /\ PatternRules[4].wellFormed = TRUE /\ PatternRules[4].isShadow = FALSE
    BY DEF PatternRules, Rule
  <2>2. SetsNothing(PatternRules[4])
    BY <2>1 DEF SetsNothing, Do, RaiseAlert, With
  <2>3. PatternRules[4].actions \in Seq(Range(PatternRules[4].actions))
    BY <2>1, OfItsOwn, Zenon
  <2> QED BY <2>1, <2>2, <2>3 DEF Counts, Sound
<1>5. Counts(PatternRules[5])
  <2>1. /\ PatternRules[5].actions = <<Do("FLAG_TRANSACTION"), RaiseAlert("MEDIUM")>>
        /\ PatternRules[5].wellFormed = TRUE /\ PatternRules[5].isShadow = FALSE
    BY DEF PatternRules, Rule
  <2>2. SetsNothing(PatternRules[5])
    BY <2>1 DEF SetsNothing, Do, RaiseAlert, With
  <2>3. PatternRules[5].actions \in Seq(Range(PatternRules[5].actions))
    BY <2>1, OfItsOwn, Zenon
  <2> QED BY <2>1, <2>2, <2>3 DEF Counts, Sound
<1>6. Sound(PatternRules[6])
  <2>1. /\ \E a : PatternRules[6].actions = <<a>>
        /\ PatternRules[6].wellFormed = TRUE /\ PatternRules[6].isShadow = FALSE
    BY DEF PatternRules, Rule
  <2>2. PatternRules[6].actions \in Seq(Range(PatternRules[6].actions))
    BY <2>1, OfItsOwn, Zenon
  <2> QED BY <2>1, <2>2 DEF Sound
<1> QED BY <1>1, <1>2, <1>3, <1>4, <1>5, <1>6

\* Together: what RuleFires asks of the rules before the one that fires.
LEMMA ListedSound ==
  /\ \A r \in Listed : Sound(r)
  /\ \A i \in 1..8 : SetsNothing(TRANSACTION_RULES[i])
<1>1. \A r \in Listed : Sound(r)
  BY CounterpartyRulesCount, PatternRulesCount DEF Listed, Counts
<1>2. ASSUME NEW i \in 1..8 PROVE SetsNothing(TRANSACTION_RULES[i])
  <2>1. CASE i \in 1..3
    BY <2>1, LibraryShape, CounterpartyRulesCount DEF Counts
  <2>2. CASE i \in 4..8
    BY <2>2, LibraryShape, PatternRulesCount DEF Counts
  <2> QED BY <2>1, <2>2
<1> QED BY <1>1, <1>2

\* A rule among the first eight decides, when its condition holds of the facts.
LEMMA Decides ==
  ASSUME NEW t, NEW answered, NEW k \in 1..8,
         evaluateCondition(TRANSACTION_RULES[k].conditions, FactsOf(t, answered)),
         NEW a \in Range(TRANSACTION_RULES[k].actions)
  PROVE  /\ a.type = "FLAG_TRANSACTION" => Verdict(t, answered).action # "APPROVED"
         /\ a.type \in {"BLOCK_TRANSACTION", "HOLD_TRANSACTION"} =>
              Verdict(t, answered).action = "BLOCKED"
<1> DEFINE A == UNION {Range(r.actions) : r \in Listed}
           rule == TRANSACTION_RULES[k]
<1>1. rule \in Listed
  <2>1. CASE k \in 1..3
    BY <2>1, LibraryShape DEF Listed
  <2>2. CASE k \in 4..8
    <3>1. k - 3 \in 1..6 /\ rule = PatternRules[k - 3]
      BY <2>2, LibraryShape
    <3> QED BY <3>1 DEF Listed
  <2> QED BY <2>1, <2>2
<1>2. \A r \in Listed : r.actions \in Seq(A)
  <2> SUFFICES ASSUME NEW r \in Listed PROVE r.actions \in Seq(A)
    OBVIOUS
  <2>1. r.actions \in Seq(Range(r.actions)) /\ Range(r.actions) \subseteq A
    BY ListedSound DEF Sound
  <2> HIDE DEF A
  <2> QED BY <2>1
<1>3. /\ FiredBy(t, answered) \in Seq(Listed) /\ rule \in Range(FiredBy(t, answered))
      /\ ~rule.isShadow
  BY <1>1, ListedSound, RuleFires DEF Sound
<1> HIDE DEF A
<1> QED BY <1>2, <1>3, Stopped

----------------------------------------------------------------------------
(* Sums of amounts.                                                           *)

\* The function a sum over a set of transfers is computed with.
Picked(s) == CHOOSE u \in s : TRUE
Sums(sum, S) ==
  \A s \in SUBSET S :
    sum[s] = IF s = {} THEN 0 ELSE sum[s \ {Picked(s)}] + about[Picked(s)].amount

\* What a sum is computed from: a set is empty, or has one element more than another.
LEMMA OneLess ==
  ASSUME NEW S, IsFiniteSet(S), NEW s \in SUBSET S, s # {}
  PROVE  /\ Picked(s) \in s /\ s \ {Picked(s)} \in SUBSET S
         /\ Cardinality(s) \in Nat /\ Cardinality(s) > 0
         /\ Cardinality(s \ {Picked(s)}) = Cardinality(s) - 1
<1>1. Picked(s) \in s
  BY DEF Picked
<1>2. IsFiniteSet(s)
  BY FS_Subset
<1>3. /\ Cardinality(s) \in Nat /\ Cardinality(s) # 0
      /\ Cardinality(s \ {Picked(s)}) = Cardinality(s) - 1
  BY <1>1, <1>2, FS_CardinalityType, FS_EmptySet, FS_RemoveElement
<1> QED BY <1>1, <1>3

\* The recursion of FoldSet has a solution.
LEMMA SumExists ==
  ASSUME NEW S, IsFiniteSet(S)
  PROVE  \E sum : Sums(sum, S) /\ SumOf(S) = sum[S]
<1> DEFINE Rest(s) == s \ {Picked(s)}
           Body(f) == [s \in SUBSET S |->
                         IF s = {} THEN 0 ELSE f[Rest(s)] + about[Picked(s)].amount]
           Good(f, s) == f[s] = IF s = {} THEN 0 ELSE f[Rest(s)] + about[Picked(s)].amount
           Upto(f, n) == \A s \in SUBSET S : Cardinality(s) <= n => Good(f, s)
           T == {n \in Nat : \E f : Upto(f, n)}
<1>0. SumOf(S) = (CHOOSE sum : sum = Body(sum))[S]
  BY Zenon DEF SumOf, FoldSet, MapThenFoldSet, Picked
<1>1. 0 \in T
  <2> DEFINE f == [s \in {{}} |-> 0]
  <2>1. ASSUME NEW s \in SUBSET S, Cardinality(s) <= 0 PROVE s = {}
    <3>1. s # {} => Cardinality(s) > 0
      BY OneLess
    <3>2. Cardinality(s) \in Nat
      BY FS_Subset, FS_CardinalityType
    <3> QED BY <2>1, <3>1, <3>2
  <2>2. f[{}] = 0
    OBVIOUS
  <2> HIDE DEF f
  <2>3. Upto(f, 0)
    BY <2>1, <2>2
  <2> HIDE DEF Upto
  <2> QED BY <2>3
<1>2. ASSUME NEW n \in Nat, n \in T PROVE n + 1 \in T
  <2>1. PICK f : Upto(f, n)
    BY <1>2
  <2> DEFINE g == [s \in SUBSET S |->
                     IF Cardinality(s) = n + 1 THEN f[Rest(s)] + about[Picked(s)].amount
                     ELSE f[s]]
  <2>2. ASSUME NEW s \in SUBSET S, Cardinality(s) <= n + 1 PROVE Good(g, s)
    <3>0. Cardinality(s) \in Nat
      BY FS_Subset, FS_CardinalityType
    <3>1. CASE s = {}
      <4>1. Cardinality(s) = 0
        BY <3>1, FS_EmptySet
      <4>2. Good(f, s)
        BY <2>1, <4>1
      <4>3. g[s] = f[s]
        BY <4>1
      <4> QED BY <3>1, <4>2, <4>3
    <3>2. CASE s # {}
      <4>1. /\ Rest(s) \in SUBSET S /\ Cardinality(Rest(s)) = Cardinality(s) - 1
        BY <3>2, OneLess
      <4> HIDE DEF Rest
      <4>2. g[Rest(s)] = f[Rest(s)]
        BY <2>2, <3>0, <4>1
      <4>3. g[s] = f[Rest(s)] + about[Picked(s)].amount
        <5>1. CASE Cardinality(s) = n + 1
          BY <5>1
        <5>2. CASE Cardinality(s) # n + 1
          <6>1. Cardinality(s) <= n
            BY <2>2, <3>0, <5>2
          <6>2. Good(f, s)
            BY <2>1, <6>1
          <6>3. g[s] = f[s]
            BY <5>2
          <6> QED BY <3>2, <6>2, <6>3
        <5> QED BY <5>1, <5>2
      <4> HIDE DEF g
      <4> QED BY <3>2, <4>2, <4>3
    <3> QED BY <3>1, <3>2
  <2> HIDE DEF g, Good
  <2>3. Upto(g, n + 1)
    BY <2>2
  <2> HIDE DEF Upto
  <2> QED BY <2>3
<1>3. PICK f : \A s \in SUBSET S : Good(f, s)
  <2>1. Cardinality(S) \in Nat
    BY FS_CardinalityType
  <2>2. Cardinality(S) \in T
    <3> HIDE DEF T
    <3> QED BY <1>1, <1>2, <2>1, SetInduction
  <2>3. PICK f : Upto(f, Cardinality(S))
    BY <2>2
  <2>4. \A s \in SUBSET S : Cardinality(s) <= Cardinality(S)
    BY FS_Subset
  <2> HIDE DEF Good
  <2> QED BY <2>3, <2>4
<1> DEFINE g == [s \in SUBSET S |-> f[s]]
<1>4. g = Body(g)
  <2>1. ASSUME NEW s \in SUBSET S PROVE g[s] = Body(g)[s]
    <3>1. Rest(s) \in SUBSET S
      OBVIOUS
    <3>2. g[Rest(s)] = f[Rest(s)]
      BY <3>1
    <3>3. Good(f, s)
      BY <1>3
    <3> HIDE DEF Rest
    <3> QED BY <3>1, <3>2, <3>3
  <2> QED BY <2>1
<1> HIDE DEF g
<1> DEFINE h == CHOOSE sum : sum = Body(sum)
<1>5. h = Body(h)
  BY <1>4
<1>6. Sums(h, S)
  <2> HIDE DEF h
  <2> SUFFICES ASSUME NEW s \in SUBSET S PROVE Good(h, s)
    BY DEF Sums
  <2>1. Body(h)[s] = IF s = {} THEN 0 ELSE h[Rest(s)] + about[Picked(s)].amount
    BY Zenon
  <2> HIDE DEF Rest
  <2> QED BY <1>5, <2>1
<1> QED BY <1>0, <1>6

\* A sum of amounts is at least 8000 for each of the transfers that have as much.
Large(s) == {u \in s : about[u].amount >= 8000}

\* By induction over the sets' sizes.
LEMMA SumOfLarge ==
  ASSUME NEW S, IsFiniteSet(S), \A u \in S : about[u].amount \in Nat
  PROVE  SumOf(S) \in Nat /\ SumOf(S) >= 8000 * Cardinality(Large(S))
<1>1. PICK sum : Sums(sum, S) /\ SumOf(S) = sum[S]
  BY SumExists
<1> DEFINE Good(s) == sum[s] \in Nat /\ sum[s] >= 8000 * Cardinality(Large(s))
           T == {n \in Nat : \A s \in SUBSET S : Cardinality(s) = n => Good(s)}
<1>2. 0 \in T
  <2> SUFFICES ASSUME NEW s \in SUBSET S, Cardinality(s) = 0 PROVE Good(s)
    OBVIOUS
  <2>1. s = {}
    BY FS_Subset, FS_EmptySet
  <2>2. Large(s) = {} /\ Cardinality(Large(s)) = 0
    BY <2>1, FS_EmptySet DEF Large
  <2>3. sum[s] = 0
    BY <1>1, <2>1 DEF Sums
  <2> QED BY <2>2, <2>3
<1>3. ASSUME NEW n \in Nat, n \in T PROVE n + 1 \in T
  <2> SUFFICES ASSUME NEW s \in SUBSET S, Cardinality(s) = n + 1 PROVE Good(s)
    OBVIOUS
  <2> DEFINE x == Picked(s)
             rest == s \ {x}
  <2>1. s # {}
    BY FS_EmptySet
  <2>2. x \in s /\ rest \in SUBSET S /\ Cardinality(rest) = n
    BY <2>1, OneLess
  <2>3. sum[s] = sum[rest] + about[x].amount
    BY <1>1, <2>1 DEF Sums
  <2>4. Large(rest) = Large(s) \ {x} /\ IsFiniteSet(Large(s)) /\ IsFiniteSet(Large(rest))
    BY FS_Subset DEF Large
  <2>5. x \in Large(s) <=> about[x].amount >= 8000
    BY <2>2 DEF Large
  <2> HIDE DEF x
  <2>6. Cardinality(Large(rest)) = IF x \in Large(s) THEN Cardinality(Large(s)) - 1
                                   ELSE Cardinality(Large(s))
    BY <2>4, FS_RemoveElement
  <2>7. Cardinality(Large(s)) \in Nat /\ Cardinality(Large(rest)) \in Nat
    BY <2>4, FS_CardinalityType
  <2> HIDE DEF rest
  <2>8. Good(rest)
    BY <1>3, <2>2
  <2>9. about[x].amount \in Nat
    BY <2>2
  <2> QED BY <2>3, <2>5, <2>6, <2>7, <2>8, <2>9
<1>4. Good(S)
  <2>1. Cardinality(S) \in Nat
    BY FS_CardinalityType
  <2>2. Cardinality(S) \in T
    <3> HIDE DEF T
    <3> QED BY <1>2, <1>3, <2>1, SetInduction
  <2> QED BY <2>2
<1> QED BY <1>1, <1>4

----------------------------------------------------------------------------
(* Verdicts.                                                                  *)

\* What a comparison with a fact that is there says.
LEMMA Compared ==
  ASSUME NEW facts, NEW fact \in DOMAIN facts, NEW value
  PROVE  /\ facts[fact] \in value => evaluatePredicate(If(fact, "in", value), facts)
         /\ facts[fact] \notin value => evaluatePredicate(If(fact, "nin", value), facts)
         /\ facts[fact] > value => evaluatePredicate(If(fact, "gt", value), facts)
         /\ facts[fact] >= value => evaluatePredicate(If(fact, "gte", value), facts)
         /\ facts[fact] <= value => evaluatePredicate(If(fact, "lte", value), facts)
         /\ facts[fact] >= value[1] /\ facts[fact] <= value[2] =>
              evaluatePredicate(If(fact, "between", value), facts)
         /\ \A op : If(fact, op, value).node = "fact"
<1>1. /\ \A op : If(fact, op, value).fact = fact
      /\ \A op : If(fact, op, value).op = op
      /\ \A op : If(fact, op, value).value = value
      /\ \A op : If(fact, op, value).node = "fact"
  BY DEF If
<1>2. facts[fact] \in value => evaluatePredicate(If(fact, "in", value), facts)
  <2>1. "in" \in {"in", "matches", "startsWith", "endsWith"}
    OBVIOUS
  <2> QED BY <1>1, <2>1 DEF evaluatePredicate
<1>3. facts[fact] \notin value => evaluatePredicate(If(fact, "nin", value), facts)
  BY <1>1, Zenon DEF evaluatePredicate
<1>4. facts[fact] > value => evaluatePredicate(If(fact, "gt", value), facts)
  BY <1>1, Zenon DEF evaluatePredicate
<1>5. facts[fact] >= value => evaluatePredicate(If(fact, "gte", value), facts)
  BY <1>1, Zenon DEF evaluatePredicate
<1>6. facts[fact] <= value => evaluatePredicate(If(fact, "lte", value), facts)
  BY <1>1, Zenon DEF evaluatePredicate
<1>7. facts[fact] >= value[1] /\ facts[fact] <= value[2] =>
        evaluatePredicate(If(fact, "between", value), facts)
  BY <1>1, Zenon DEF evaluatePredicate
<1> QED BY <1>1, <1>2, <1>3, <1>4, <1>5, <1>6, <1>7

\* A customer nobody has approved: the third rule.
LEMMA UnknownIsBlocked ==
  ASSUME NEW t, NEW answered, about[t].amount \in Nat \ {0}, ~about[t].known
  PROVE  Verdict(t, answered).action = "BLOCKED"
<1> DEFINE facts == FactsOf(t, answered)
           p == If("applicant.reviewStatus", "nin", {"APPROVED"})
           q == If("tx.amountBase", "gt", 0)
           rule == TRANSACTION_RULES[3]
<1>0. /\ Says(facts, "tx.amountBase", about[t].amount)
      /\ Says(facts, "applicant.reviewStatus", "NOT_STARTED")
  BY Facts, Zenon
<1> HIDE DEF facts
<1>1. /\ "tx.amountBase" \in DOMAIN facts /\ facts["tx.amountBase"] > 0
      /\ "applicant.reviewStatus" \in DOMAIN facts
      /\ facts["applicant.reviewStatus"] \notin {"APPROVED"}
  BY <1>0 DEF Says
<1>2. /\ p.node = "fact" /\ evaluatePredicate(p, facts)
      /\ q.node = "fact" /\ evaluatePredicate(q, facts)
  BY <1>1, Compared
<1>3. rule.conditions = AllOf(<<p, q>>) /\ Do("BLOCK_TRANSACTION") = rule.actions[1]
      /\ 1 \in DOMAIN rule.actions
  BY LibraryShape DEF CounterpartyRules, Rule
<1> HIDE DEF p, q, rule
<1>4. evaluateCondition(rule.conditions, facts)
  BY <1>2, <1>3, AllFacts
<1>5. \E a \in Range(rule.actions) : a.type = "BLOCK_TRANSACTION"
  BY <1>3 DEF Do, Range
<1> QED BY <1>4, <1>5, Decides DEF rule, facts

\* An embargoed country: the first rule.
LEMMA EmbargoedIsBlocked ==
  ASSUME NEW t, NEW answered, isEmbargoed(about[t].country)
  PROVE  Verdict(t, answered).action = "BLOCKED"
<1> DEFINE facts == FactsOf(t, answered)
           p == On("tx.counterpartySanctioned")
           q == If("tx.counterpartyCountry", "in", EMBARGOED_COUNTRIES)
           rule == TRANSACTION_RULES[1]
<1>1. about[t].country \in EMBARGOED_COUNTRIES /\ about[t].country # ""
  BY DEF isEmbargoed, EMBARGOED_COUNTRIES
<1>2. /\ "tx.counterpartyCountry" \in DOMAIN facts
      /\ facts["tx.counterpartyCountry"] \in EMBARGOED_COUNTRIES
  BY <1>1, Facts DEF Says
<1> HIDE DEF facts
<1>3. q.node = "fact" /\ evaluatePredicate(q, facts)
  BY <1>2, Compared
<1>4. rule.conditions = AnyOf(<<p, q>>) /\ Do("BLOCK_TRANSACTION") = rule.actions[1]
      /\ 1 \in DOMAIN rule.actions
  BY LibraryShape DEF CounterpartyRules, Rule
<1> HIDE DEF p, q, rule
<1>5. 2 \in DOMAIN <<p, q>> /\ <<p, q>>[2] = q
  OBVIOUS
<1>6. evaluateCondition(rule.conditions, facts)
  BY <1>3, <1>4, <1>5, AnyFact
<1>7. \E a \in Range(rule.actions) : a.type = "BLOCK_TRANSACTION"
  BY <1>4 DEF Do, Range
<1> QED BY <1>6, <1>7, Decides DEF rule, facts

\* The first transfer, if large: the seventh rule.
First(t) == Own(t) \ {t} = {} /\ about[t].amount \in Nat /\ about[t].amount >= 10000

\* A large transfer that is the first is blocked, whoever it comes from.
LEMMA FirstLargeIsBlocked ==
  ASSUME NEW t, NEW answered, First(t)
  PROVE  Verdict(t, answered).action = "BLOCKED"
<1> DEFINE facts == FactsOf(t, answered)
<1>1. computeAggregates(t).lifetimeCount = 0
  BY FS_EmptySet DEF computeAggregates, First
<1>0. Says(facts, "tx.amountBase", about[t].amount)
  BY Facts, Zenon
<1>9. Says(facts, "agg.lifetimeCount", computeAggregates(t).lifetimeCount)
  BY Facts, Zenon
<1> HIDE DEF facts
<1>2. /\ "tx.amountBase" \in DOMAIN facts /\ facts["tx.amountBase"] >= 10000
      /\ "agg.lifetimeCount" \in DOMAIN facts /\ facts["agg.lifetimeCount"] <= 1
  BY <1>0, <1>1, <1>9 DEF Says, First
<1> DEFINE p == If("agg.lifetimeCount", "lte", 1)
           q == If("tx.amountBase", "gte", 10000)
           rule == TRANSACTION_RULES[7]
<1>3. /\ p.node = "fact" /\ evaluatePredicate(p, facts)
      /\ q.node = "fact" /\ evaluatePredicate(q, facts)
  BY <1>2, Compared
<1>4. TRANSACTION_RULES[7] = PatternRules[4]
  BY LibraryShape
<1>5. rule.conditions = AllOf(<<p, q>>) /\ Do("HOLD_TRANSACTION") = rule.actions[1]
      /\ 1 \in DOMAIN rule.actions
  BY <1>4 DEF PatternRules, Rule
<1> HIDE DEF p, q, rule
<1>6. evaluateCondition(rule.conditions, facts)
  BY <1>3, <1>5, AllFacts
<1>7. \E a \in Range(rule.actions) : a.type = "HOLD_TRANSACTION"
  BY <1>5 DEF Do, Range
<1> QED BY <1>6, <1>7, Decides DEF rule, facts

\* Three transfers of a day just under the threshold, and one more.
LEMMA StructuringIsFlagged ==
  ASSUME NEW t, NEW answered, IsFiniteSet(Stored), Stored \subseteq Transfers,
         \A u \in Transfers : about[u].amount \in Nat,
         t \in Stored, Near(t, t),
         Cardinality({u \in Stored \ {t} : Near(t, u)}) >= 3
  PROVE  Verdict(t, answered).action # "APPROVED"
<1> DEFINE facts  == FactsOf(t, answered)
           before == {u \in Stored \ {t} : Near(t, u)}
           day    == {u \in Own(t) \ {t} : InDay(t, u)}
<1>1. computeAggregates(t).count24h = Cardinality(day)
      /\ computeAggregates(t).sum24h = SumOf(day)
  BY Zenon DEF computeAggregates
<1>2. /\ day \subseteq Stored /\ before \subseteq Large(day)
      /\ Large(day) \subseteq day
  <2>1. day \subseteq Stored /\ Large(day) \subseteq day
    BY DEF Own, Large
  <2>2. ASSUME NEW u \in before PROVE u \in Large(day)
    <3>1. u \in Stored \ {t} /\ Near(t, u)
      BY Zenon
    <3>2. u \in day
      BY <3>1, Zenon DEF Own, Near
    <3>3. about[u].amount >= 8000
      BY <3>1 DEF Near, JustUnder
    <3> QED BY <3>2, <3>3 DEF Large
  <2> QED BY <2>1, <2>2
<1>3. /\ IsFiniteSet(day) /\ IsFiniteSet(Large(day))
      /\ Cardinality(before) <= Cardinality(Large(day))
      /\ Cardinality(Large(day)) <= Cardinality(day)
  <2> HIDE DEF day, before
  <2> QED BY <1>2, FS_Subset
<1>4. /\ Cardinality(before) \in Nat /\ Cardinality(day) \in Nat
      /\ Cardinality(Large(day)) \in Nat
  <2> HIDE DEF day, before
  <2> QED BY <1>2, <1>3, FS_Subset, FS_CardinalityType
<1>5. SumOf(day) \in Nat /\ SumOf(day) >= 8000 * Cardinality(Large(day))
  <2> HIDE DEF day, before
  <2> QED BY <1>2, <1>3, SumOfLarge
<1>6. Cardinality(day) >= 3 /\ SumOf(day) >= 24000
  BY <1>3, <1>4, <1>5
<1>7. about[t].amount >= 8000 /\ about[t].amount <= 10000
  BY DEF Near, JustUnder
<1>8. /\ Says(facts, "tx.amountBase", about[t].amount)
      /\ Says(facts, "agg.count24h", computeAggregates(t).count24h)
      /\ Says(facts, "agg.sum24h", computeAggregates(t).sum24h)
  BY Facts, Zenon
<1> HIDE DEF facts, day, before
<1> DEFINE p == If("agg.count24h", "gte", 3)
           q == If("tx.amountBase", "between", <<8000, 10000>>)
           r == If("agg.sum24h", "gte", 24000)
           rule == TRANSACTION_RULES[4]
<1>9. /\ p.node = "fact" /\ evaluatePredicate(p, facts)
      /\ q.node = "fact" /\ evaluatePredicate(q, facts)
      /\ r.node = "fact" /\ evaluatePredicate(r, facts)
  BY <1>1, <1>6, <1>7, <1>8, Compared DEF Says
<1>10. TRANSACTION_RULES[4] = PatternRules[1]
  BY LibraryShape
<1>11. rule.conditions = AllOf(<<p, q, r>>) /\ Do("FLAG_TRANSACTION") = rule.actions[1]
      /\ 1 \in DOMAIN rule.actions
  BY <1>10 DEF PatternRules, Rule
<1> HIDE DEF p, q, r, rule
<1>12. evaluateCondition(rule.conditions, facts)
  BY <1>9, <1>11, AllFacts
<1>13. \E a \in Range(rule.actions) : a.type = "FLAG_TRANSACTION"
  BY <1>11 DEF Do, Range
<1> QED BY <1>12, <1>13, Decides DEF rule, facts

----------------------------------------------------------------------------
(* Transactions.                                                              *)

\* The shapes of the variables, as far as the proof needs them.
JobShape(job) ==
  /\ DOMAIN job = {"stage", "attempt", "verdict", "count"}
  /\ job.stage \in Stages /\ job.attempt \in 0 .. MaxAttempts /\ job.count \in Nat

TxColumns    == {"status", "isFlagged", "riskScore", "released"}
AlertColumns == {"tx", "attempt", "severity", "status"}
Made         == [tx : Transfers, attempt : 0 .. MaxAttempts]

TransferShapes ==
  /\ DOMAIN jobs = Transfers /\ Stored \subseteq Transfers
  /\ \A t \in Transfers : JobShape(jobs[t])
  /\ \A t \in Stored : DOMAIN txs[t] = TxColumns
  /\ \A a \in alerts : DOMAIN a = AlertColumns
  /\ cases \in Seq(Made)

\* The severities an attempt of a job has raised; whether it has made its case.
RaisedIn(as, t, attempt) ==
  {a.severity : a \in {b \in as : b.tx = t /\ b.attempt = attempt}}
CaseIn(cs, t, attempt) == [tx |-> t, attempt |-> attempt] \in Range(cs)
NeedsCase(verdict)     == verdict.action = "BLOCKED" \/ "CRITICAL" \in verdict.alerts

Unstarted == {"none", "created", "lost"}
Unwritten == Unstarted \cup {"queued", "evaluated"}
Written   == {"needs-case", "counted", "travel-rule", "done"}

\* How far a job has come, and what it has left: an attempt raises its alerts once,
\* with its verdict, and goes on only with its case.
JobSound(t, job, as, cs, stored) ==
  /\ job.stage \in Unstarted <=> job.attempt = 0
  /\ job.stage = "none" <=> t \notin stored
  /\ job.stage \in {"queued", "evaluated"} => RaisedIn(as, t, job.attempt) = {}
  /\ job.stage \in Written => RaisedIn(as, t, job.attempt) = job.verdict.alerts
  /\ job.stage \in {"travel-rule", "done"} /\ NeedsCase(job.verdict) =>
       CaseIn(cs, t, job.attempt)

JobsSound == \A t \in Transfers : JobSound(t, jobs[t], alerts, cases, Stored)

\* Nothing was raised in an attempt that is yet to come.
InTime(a) == a.tx \in Stored /\ a.attempt \in Nat /\ a.attempt <= jobs[a.tx].attempt
RaisedInTime == \A a \in alerts : InTime(a)

\* An officer releases what a verdict has stopped.
Judged(job)   == job.attempt > 1 \/ job.stage \notin Unwritten
Touched(tx)   == tx.released \/ tx.status \in {"BLOCKED", "UNDER_REVIEW"}
TouchedIsJudged == \A t \in Stored : Touched(txs[t]) => Judged(jobs[t])

TransferInv == TransferShapes /\ JobsSound /\ RaisedInTime /\ TouchedIsJudged

\* The initial states satisfy it: nothing is stored.
LEMMA InitTransfers == Init => TransferInv
<1> SUFFICES ASSUME Init PROVE TransferInv
  OBVIOUS
<1>1. /\ txs = <<>> /\ alerts = {} /\ cases = <<>>
      /\ jobs = [t \in Transfers |-> NoJob]
  BY DEF Init
<1>2. Stored = {}
  BY <1>1 DEF Stored
<1>3. JobShape(NoJob)
  BY TransferAssumption DEF JobShape, NoJob, Stages
<1>4. cases \in Seq(Made)
  BY <1>1
<1>5. \A t \in Transfers : JobSound(t, NoJob, alerts, cases, Stored)
  BY <1>2 DEF JobSound, NoJob, Unstarted, Written
<1> QED BY <1>1, <1>2, <1>3, <1>4, <1>5 DEF TransferInv, TransferShapes, JobsSound,
           RaisedInTime, TouchedIsJudged

\* Alerts that differ in their status alone; what was raised does not depend on it.
Alike(a, b) == a.tx = b.tx /\ a.attempt = b.attempt /\ a.severity = b.severity

LEMMA RaisedLess ==
  ASSUME NEW as, NEW bs, NEW t, NEW n,
         \A a \in as : \E b \in bs : Alike(a, b)
  PROVE  RaisedIn(as, t, n) \subseteq RaisedIn(bs, t, n)
<1> SUFFICES ASSUME NEW s \in RaisedIn(as, t, n) PROVE s \in RaisedIn(bs, t, n)
  OBVIOUS
<1>1. PICK a \in as : a.tx = t /\ a.attempt = n /\ a.severity = s
  BY Zenon DEF RaisedIn
<1>2. PICK b \in bs : Alike(a, b)
  OBVIOUS
<1>3. b \in {c \in bs : c.tx = t /\ c.attempt = n} /\ b.severity = s
  BY <1>1, <1>2 DEF Alike
<1> QED BY <1>3, Zenon DEF RaisedIn

LEMMA RaisedAlike ==
  ASSUME NEW as, NEW bs, NEW t, NEW n,
         \A a \in as : \E b \in bs : Alike(a, b),
         \A b \in bs : \E a \in as : Alike(b, a)
  PROVE  RaisedIn(as, t, n) = RaisedIn(bs, t, n)
<1>1. RaisedIn(as, t, n) \subseteq RaisedIn(bs, t, n)
  BY RaisedLess
<1>2. RaisedIn(bs, t, n) \subseteq RaisedIn(as, t, n)
  BY RaisedLess
<1> QED BY <1>1, <1>2

\* A case stays a case.
LEMMA CaseStays ==
  ASSUME NEW cs \in Seq(Made), NEW c \in Made
  PROVE  /\ Append(cs, c) \in Seq(Made) /\ c \in Range(Append(cs, c))
         /\ Range(cs) \subseteq Range(Append(cs, c))
<1>1. Append(cs, c) \in Seq(Made)
  OBVIOUS
<1>2. DOMAIN cs = 1 .. Len(cs) /\ DOMAIN Append(cs, c) = 1 .. (Len(cs) + 1)
  OBVIOUS
<1>3. \A i \in DOMAIN cs : Append(cs, c)[i] = cs[i]
  BY <1>2
<1>4. Append(cs, c)[Len(cs) + 1] = c
  OBVIOUS
<1>5. Range(cs) \subseteq Range(Append(cs, c))
  BY <1>2, <1>3 DEF Range
<1>6. c \in Range(Append(cs, c))
  BY <1>2, <1>4 DEF Range
<1> QED BY <1>1, <1>5, <1>6

\* What one job does leaves the others as they were, if it raises nothing of theirs,
\* and removes no case.
LEMMA OtherJobs ==
  ASSUME TransferInv, NEW t \in Transfers, UNCHANGED about,
         DOMAIN jobs' = Transfers, \A u \in Transfers \ {t} : jobs'[u] = jobs[u],
         Stored' \in {Stored, Stored \cup {t}},
         \A u \in Transfers \ {t} : \A n \in Nat :
           RaisedIn(alerts', u, n) = RaisedIn(alerts, u, n),
         Range(cases) \subseteq Range(cases'),
         JobShape(jobs'[t]), JobSound(t, jobs'[t], alerts', cases', Stored')
  PROVE  /\ Transfers' = Transfers /\ Stored' \subseteq Transfers
         /\ \A u \in Transfers : JobShape(jobs'[u])
         /\ JobsSound'
<1>1. Transfers' = Transfers /\ Stored' \subseteq Transfers
  BY DEF Transfers, TransferInv, TransferShapes
<1>2. \A u \in Transfers : JobShape(jobs'[u])
  BY DEF TransferInv, TransferShapes
<1>3. ASSUME NEW u \in Transfers \ {t}
      PROVE  JobSound(u, jobs'[u], alerts', cases', Stored')
  <2>1. JobSound(u, jobs[u], alerts, cases, Stored) /\ jobs'[u] = jobs[u]
    BY DEF TransferInv, JobsSound
  <2>2. jobs[u].attempt \in Nat
    BY TransferAssumption DEF TransferInv, TransferShapes, JobShape
  <2>3. RaisedIn(alerts', u, jobs[u].attempt) = RaisedIn(alerts, u, jobs[u].attempt)
    BY <2>2
  <2>4. u \in Stored' <=> u \in Stored
    OBVIOUS
  <2> QED BY <2>1, <2>3, <2>4 DEF JobSound, CaseIn
<1>4. \A u \in Transfers : JobSound(u, jobs'[u], alerts', cases', Stored')
  BY <1>3
<1> QED BY <1>1, <1>2, <1>4 DEF JobsSound

\* A job that goes on by itself: no transfer, alert or case but is there already.
LEMMA JobGoesOn ==
  ASSUME TransferInv, NEW t \in Transfers, UNCHANGED <<about, txs, alerts, cases>>,
         NEW job, jobs' = [jobs EXCEPT ![t] = job],
         JobShape(job), JobSound(t, job, alerts, cases, Stored),
         job.attempt >= jobs[t].attempt,
         Judged(jobs[t]) => Judged(job)
  PROVE  TransferInv'
<1>1. /\ DOMAIN jobs' = Transfers /\ jobs'[t] = job
      /\ \A u \in Transfers \ {t} : jobs'[u] = jobs[u]
  BY DEF TransferInv, TransferShapes
<1>2. Stored' = Stored
  BY DEF Stored
<1>3. /\ Transfers' = Transfers /\ JobsSound'
      /\ \A u \in Transfers : JobShape(jobs'[u])
  BY <1>1, <1>2, OtherJobs
<1>4. TransferShapes'
  BY <1>1, <1>2, <1>3 DEF TransferInv, TransferShapes, Made
<1>5. RaisedInTime'
  <2> SUFFICES ASSUME NEW a \in alerts PROVE InTime(a)'
    BY DEF RaisedInTime
  <2>1. a.tx \in Stored /\ a.attempt \in Nat /\ a.attempt <= jobs[a.tx].attempt
    BY DEF TransferInv, RaisedInTime, InTime
  <2>2. a.tx \in Transfers
    BY <2>1 DEF TransferInv, TransferShapes
  <2>3. jobs'[a.tx].attempt >= jobs[a.tx].attempt
        /\ jobs[a.tx].attempt \in Int /\ jobs'[a.tx].attempt \in Int
    BY <1>1, <1>3, <2>2 DEF TransferInv, TransferShapes, JobShape
  <2> QED BY <1>2, <2>1, <2>3 DEF InTime
<1>6. TouchedIsJudged'
  BY <1>1, <1>2 DEF TransferInv, TransferShapes, TouchedIsJudged
<1> QED BY <1>3, <1>4, <1>5, <1>6 DEF TransferInv

\* What is known of the job of a transfer.
LEMMA OwnJob ==
  ASSUME TransferInv, NEW t \in Transfers
  PROVE  /\ JobShape(jobs[t]) /\ JobSound(t, jobs[t], alerts, cases, Stored)
         /\ jobs[t].attempt \in Nat /\ jobs[t].attempt <= MaxAttempts
         /\ \A n \in Nat : n > jobs[t].attempt => RaisedIn(alerts, t, n) = {}
<1>1. JobShape(jobs[t]) /\ JobSound(t, jobs[t], alerts, cases, Stored)
  BY DEF TransferInv, TransferShapes, JobsSound
<1>2. jobs[t].attempt \in Nat /\ jobs[t].attempt <= MaxAttempts
  BY <1>1, TransferAssumption DEF JobShape
<1>3. ASSUME NEW n \in Nat, n > jobs[t].attempt PROVE RaisedIn(alerts, t, n) = {}
  BY <1>2, <1>3 DEF TransferInv, RaisedInTime, InTime, RaisedIn
<1> QED BY <1>1, <1>2, <1>3

\* A job that runs again starts an attempt in which nothing was raised.
LEMMA RetriedKeeps ==
  ASSUME TransferInv, NEW t \in Transfers, UNCHANGED <<about, txs, alerts, cases>>,
         jobs[t].stage \in {"queued", "evaluated", "needs-case", "counted", "travel-rule"},
         jobs' = [jobs EXCEPT ![t] = Retried(jobs[t])]
  PROVE  TransferInv'
<1> DEFINE job == Retried(jobs[t])
<1>1. /\ JobShape(jobs[t]) /\ JobSound(t, jobs[t], alerts, cases, Stored)
      /\ jobs[t].attempt \in Nat
      /\ \A n \in Nat : n > jobs[t].attempt => RaisedIn(alerts, t, n) = {}
  BY OwnJob
<1>2. jobs[t].attempt > 0 /\ t \in Stored
  BY <1>1 DEF JobSound, Unstarted
<1>3. CASE jobs[t].attempt < MaxAttempts
  <2>1. job = [NoJob EXCEPT !.stage = "queued", !.attempt = jobs[t].attempt + 1]
    BY <1>3 DEF Retried
  <2>2. /\ job.stage = "queued" /\ job.attempt = jobs[t].attempt + 1
        /\ job.count = 0 /\ DOMAIN job = {"stage", "attempt", "verdict", "count"}
    BY <2>1 DEF NoJob
  <2> HIDE DEF job
  <2>3. JobShape(job)
    BY <1>1, <1>3, <2>2, TransferAssumption DEF JobShape, Stages
  <2>4. JobSound(t, job, alerts, cases, Stored)
    BY <1>1, <1>2, <2>2 DEF JobSound, Unstarted, Written
  <2>5. Judged(job) /\ job.attempt >= jobs[t].attempt
    BY <1>1, <1>2, <2>2 DEF Judged
  <2> QED BY <2>3, <2>4, <2>5, JobGoesOn DEF job
<1>4. CASE ~(jobs[t].attempt < MaxAttempts)
  <2>1. job = [jobs[t] EXCEPT !.stage = "failed"]
    BY <1>4 DEF Retried
  <2>2. /\ job.stage = "failed" /\ job.attempt = jobs[t].attempt
        /\ job.count = jobs[t].count /\ DOMAIN job = DOMAIN jobs[t]
    BY <1>1, <2>1 DEF JobShape
  <2> HIDE DEF job
  <2>3. JobShape(job)
    BY <1>1, <2>2 DEF JobShape, Stages
  <2>4. JobSound(t, job, alerts, cases, Stored)
    BY <1>1, <1>2, <2>2 DEF JobSound, Unstarted, Written
  <2>5. Judged(job) /\ job.attempt >= jobs[t].attempt
    BY <1>1, <2>2 DEF Judged, Unwritten, Unstarted
  <2> QED BY <2>3, <2>4, <2>5, JobGoesOn DEF job
<1> QED BY <1>3, <1>4

\* A transfer comes with its job, and nothing has judged it.
LEMMA IngestKeeps ==
  ASSUME TransferInv, NEW t \in Transfers, Ingest(t)
  PROVE  TransferInv'
<1> DEFINE job == [jobs[t] EXCEPT !.stage = "created"]
           new == [status |-> "PENDING", isFlagged |-> FALSE, riskScore |-> 0,
                   released |-> FALSE]
<1>1. /\ t \notin Stored /\ jobs' = [jobs EXCEPT ![t] = job]
      /\ txs' = [u \in Stored \cup {t} |-> IF u = t THEN new ELSE txs[u]]
      /\ UNCHANGED <<about, alerts, cases>>
  BY DEF Ingest, bounded
<1>2. /\ JobShape(jobs[t]) /\ JobSound(t, jobs[t], alerts, cases, Stored)
  BY OwnJob
<1>3. /\ job.stage = "created" /\ job.attempt = jobs[t].attempt
      /\ job.count = jobs[t].count /\ DOMAIN job = DOMAIN jobs[t]
  BY <1>2 DEF JobShape
<1>4. /\ DOMAIN jobs' = Transfers /\ jobs'[t] = job
      /\ \A u \in Transfers \ {t} : jobs'[u] = jobs[u]
  BY <1>1 DEF TransferInv, TransferShapes
<1>5. /\ Stored' = Stored \cup {t} /\ txs'[t] = new
      /\ \A u \in Stored : txs'[u] = txs[u]
  BY <1>1 DEF Stored
<1>6. DOMAIN new = TxColumns /\ ~Touched(new)
  BY DEF TxColumns, Touched
<1> HIDE DEF job, new
<1>7. JobShape(job) /\ JobSound(t, job, alerts, cases, Stored \cup {t})
  BY <1>1, <1>2, <1>3 DEF JobShape, JobSound, Unstarted, Written, Stages
<1>8. /\ Transfers' = Transfers /\ Stored' \subseteq Transfers /\ JobsSound'
      /\ \A u \in Transfers : JobShape(jobs'[u])
  BY <1>1, <1>4, <1>5, <1>7, OtherJobs
<1>9. \A u \in Transfers : jobs'[u].attempt = jobs[u].attempt
  BY <1>3, <1>4
<1>10. TransferShapes'
  BY <1>1, <1>4, <1>5, <1>6, <1>8 DEF TransferInv, TransferShapes, Made
<1>11. RaisedInTime'
  BY <1>1, <1>5, <1>9 DEF TransferInv, TransferShapes, RaisedInTime, InTime
<1>12. TouchedIsJudged'
  BY <1>1, <1>4, <1>5, <1>6 DEF TransferInv, TransferShapes, TouchedIsJudged
<1> QED BY <1>8, <1>10, <1>11, <1>12 DEF TransferInv

\* The first attempt has raised nothing yet.
LEMMA EnqueueKeeps ==
  ASSUME TransferInv, NEW t \in Transfers, EnqueueTransaction(t)
  PROVE  TransferInv'
<1> DEFINE job == [jobs[t] EXCEPT !.stage = "queued", !.attempt = 1]
<1>1. /\ jobs' = [jobs EXCEPT ![t] = job] /\ jobs[t].stage = "created"
      /\ UNCHANGED <<about, txs, alerts, cases>>
  BY DEF EnqueueTransaction, bounded, TransferInv, TransferShapes
<1>2. /\ JobShape(jobs[t]) /\ JobSound(t, jobs[t], alerts, cases, Stored)
      /\ \A n \in Nat : n > jobs[t].attempt => RaisedIn(alerts, t, n) = {}
  BY OwnJob
<1>3. /\ job.stage = "queued" /\ job.attempt = 1
      /\ job.count = jobs[t].count /\ DOMAIN job = DOMAIN jobs[t]
  BY <1>2 DEF JobShape
<1>4. jobs[t].attempt = 0
  BY <1>1, <1>2 DEF JobSound, Unstarted
<1> HIDE DEF job
<1>5. JobShape(job) /\ JobSound(t, job, alerts, cases, Stored)
  BY <1>1, <1>2, <1>3, <1>4, TransferAssumption
     DEF JobShape, JobSound, Unstarted, Written, Stages
<1>6. ~Judged(jobs[t])
  BY <1>1, <1>4 DEF Judged, Unwritten, Unstarted
<1>7. job.attempt >= jobs[t].attempt
  BY <1>3, <1>4
<1> QED BY <1>1, <1>5, <1>6, <1>7, JobGoesOn

\* A step that sets a job's stage, verdict or count, and nothing else.
LEMMA StageKeeps ==
  ASSUME TransferInv, NEW t \in Transfers, UNCHANGED <<about, txs, alerts, cases>>,
         NEW job, jobs' = [jobs EXCEPT ![t] = job],
         DOMAIN job = DOMAIN jobs[t], job.attempt = jobs[t].attempt,
         job.count \in Nat,
         \/ jobs[t].stage = "created" /\ job.stage = "lost"
         \/ jobs[t].stage = "queued" /\ job.stage = "evaluated"
         \/ /\ job.verdict = jobs[t].verdict
            /\ \/ jobs[t].stage = "needs-case" /\ job.stage = "counted"
               \/ jobs[t].stage = "travel-rule" /\ job.stage = "done"
  PROVE  TransferInv'
<1>1. JobShape(jobs[t]) /\ JobSound(t, jobs[t], alerts, cases, Stored)
  BY OwnJob
<1>2. JobShape(job)
  BY <1>1 DEF JobShape, Stages
<1>3. JobSound(t, job, alerts, cases, Stored)
  BY <1>1 DEF JobSound, Unstarted, Written
<1>4. Judged(jobs[t]) => Judged(job)
  BY DEF Judged, Unwritten, Unstarted
<1>5. job.attempt >= jobs[t].attempt
  BY <1>1, TransferAssumption DEF JobShape
<1> QED BY <1>2, <1>3, <1>4, <1>5, JobGoesOn

\* A verdict raises its alerts, in an attempt that has raised none.
LEMMA VerdictKeeps ==
  ASSUME TransferInv, NEW t \in Transfers, WriteVerdict(t)
  PROVE  TransferInv'
<1> DEFINE v     == jobs[t].verdict
           now   == jobs[t].attempt
           fresh == {[tx |-> t, attempt |-> now, severity |-> s, status |-> "OPEN"] :
                       s \in v.alerts}
           stage == IF v.action = "BLOCKED" \/ "CRITICAL" \in v.alerts
                    THEN "needs-case" ELSE "travel-rule"
           job   == [jobs[t] EXCEPT !.stage = stage]
           tx    == [txs[t] EXCEPT !.status = StatusOf(v.action),
                                   !.isFlagged = v.action # "APPROVED",
                                   !.riskScore = v.riskScore]
<1>1. /\ jobs[t].stage = "evaluated" /\ alerts' = alerts \cup fresh
      /\ UNCHANGED <<about, cases>>
  BY DEF WriteVerdict, bounded
<1>2. jobs' = [jobs EXCEPT ![t] = job]
  BY DEF WriteVerdict
<1>3. /\ JobShape(jobs[t]) /\ JobSound(t, jobs[t], alerts, cases, Stored)
      /\ now \in Nat
  BY OwnJob
<1>4. t \in Stored /\ RaisedIn(alerts, t, now) = {}
  BY <1>1, <1>3 DEF JobSound
<1>5. txs' = [txs EXCEPT ![t] = tx]
  BY <1>4 DEF WriteVerdict, Stored
<1>6. /\ Stored' = Stored /\ DOMAIN txs'[t] = TxColumns
      /\ \A u \in Stored \ {t} : txs'[u] = txs[u]
  BY <1>4, <1>5 DEF Stored, TransferInv, TransferShapes, TxColumns
<1>7. /\ job.stage \in {"needs-case", "travel-rule"}
      /\ job.stage = "travel-rule" => ~NeedsCase(v)
      /\ job.attempt = now /\ job.count = jobs[t].count /\ job.verdict = v
      /\ DOMAIN job = DOMAIN jobs[t]
  BY <1>3 DEF JobShape, NeedsCase
<1>8. \A a \in fresh : /\ a.tx = t /\ a.attempt = now /\ a.severity \in v.alerts
                        /\ DOMAIN a = AlertColumns
  BY DEF AlertColumns
<1>9. RaisedIn(alerts', t, now) = v.alerts
  <2>1. ASSUME NEW s \in v.alerts PROVE s \in RaisedIn(alerts', t, now)
    <3> DEFINE a == [tx |-> t, attempt |-> now, severity |-> s, status |-> "OPEN"]
    <3>1. a \in alerts' /\ a.tx = t /\ a.attempt = now /\ a.severity = s
      BY <1>1
    <3> HIDE DEF a
    <3> QED BY <3>1 DEF RaisedIn
  <2>2. ASSUME NEW s \in RaisedIn(alerts', t, now) PROVE s \in v.alerts
    <3>1. PICK a \in alerts' : a.tx = t /\ a.attempt = now /\ a.severity = s
      BY Zenon DEF RaisedIn
    <3>2. CASE a \in fresh
      BY <1>8, <3>1, <3>2
    <3>3. CASE a \in alerts
      BY <1>4, <3>1, <3>3 DEF RaisedIn
    <3> QED BY <1>1, <3>2, <3>3
  <2> QED BY <2>1, <2>2
<1>10. ASSUME NEW u \in Transfers \ {t}, NEW n \in Nat
       PROVE  RaisedIn(alerts', u, n) = RaisedIn(alerts, u, n)
  <2>1. {a \in alerts' : a.tx = u /\ a.attempt = n} = {a \in alerts : a.tx = u /\ a.attempt = n}
    BY <1>1, <1>8
  <2> QED BY <2>1 DEF RaisedIn
<1> HIDE DEF job, fresh, stage, tx
<1>11. JobShape(job) /\ JobSound(t, job, alerts', cases', Stored')
  BY <1>1, <1>3, <1>4, <1>6, <1>7, <1>9
     DEF JobShape, JobSound, Unstarted, Written, Stages
<1>12. /\ DOMAIN jobs' = Transfers /\ jobs'[t] = job
       /\ \A u \in Transfers \ {t} : jobs'[u] = jobs[u]
  BY <1>2 DEF TransferInv, TransferShapes
<1>13. /\ Transfers' = Transfers /\ Stored' \subseteq Transfers /\ JobsSound'
       /\ \A u \in Transfers : JobShape(jobs'[u])
  BY <1>1, <1>6, <1>10, <1>11, <1>12, OtherJobs
<1>14. \A u \in Transfers : jobs'[u].attempt = jobs[u].attempt
  BY <1>7, <1>12
<1>15. TransferShapes'
  BY <1>1, <1>6, <1>8, <1>12, <1>13 DEF TransferInv, TransferShapes, Made
<1>16. RaisedInTime'
  <2> SUFFICES ASSUME NEW a \in alerts' PROVE a.tx \in Stored /\ a.attempt \in Nat
                                               /\ a.attempt <= jobs'[a.tx].attempt
    BY <1>6 DEF RaisedInTime, InTime
  <2>1. CASE a \in alerts
    BY <1>14, <2>1 DEF TransferInv, TransferShapes, RaisedInTime, InTime
  <2>2. CASE a \in fresh
    BY <1>3, <1>4, <1>8, <1>14, <2>2
  <2> QED BY <1>1, <2>1, <2>2
<1>17. TouchedIsJudged'
  <2>1. Judged(job)
    BY <1>7 DEF Judged, Unwritten, Unstarted
  <2> QED BY <1>6, <1>12, <2>1 DEF TransferInv, TransferShapes, TouchedIsJudged
<1> QED BY <1>13, <1>15, <1>16, <1>17 DEF TransferInv

\* A job goes on with its case, or runs again.
LEMMA CaseKeeps ==
  ASSUME TransferInv, NEW t \in Transfers, CreateCase(t)
  PROVE  TransferInv'
<1>1. /\ jobs[t].stage = "counted" /\ UNCHANGED <<about, txs, alerts>>
  BY DEF CreateCase, bounded
<1>2. CASE jobs[t].count < Len(cases)
  <2>1. cases' = cases /\ jobs' = [jobs EXCEPT ![t] = Retried(jobs[t])]
    BY <1>2 DEF CreateCase
  <2> QED BY <1>1, <2>1, RetriedKeeps
<1>3. CASE ~(jobs[t].count < Len(cases))
  <2> DEFINE job == [jobs[t] EXCEPT !.stage = "travel-rule"]
             c   == [tx |-> t, attempt |-> jobs[t].attempt]
  <2>1. cases' = Append(cases, c) /\ jobs' = [jobs EXCEPT ![t] = job]
    BY <1>3 DEF CreateCase
  <2>2. /\ JobShape(jobs[t]) /\ JobSound(t, jobs[t], alerts, cases, Stored)
    BY OwnJob
  <2>3. c \in Made /\ cases \in Seq(Made)
    BY <2>2 DEF Made, JobShape, TransferInv, TransferShapes
  <2>4. /\ cases' \in Seq(Made) /\ c \in Range(cases')
        /\ Range(cases) \subseteq Range(cases')
    BY <2>1, <2>3, CaseStays
  <2>5. /\ job.stage = "travel-rule" /\ job.attempt = jobs[t].attempt
        /\ job.count = jobs[t].count /\ job.verdict = jobs[t].verdict
        /\ DOMAIN job = DOMAIN jobs[t]
    BY <2>2 DEF JobShape
  <2>6. CaseIn(cases', t, jobs[t].attempt)
    BY <2>4 DEF CaseIn
  <2> HIDE DEF job, c
  <2>7. JobShape(job) /\ JobSound(t, job, alerts, cases', Stored)
    BY <1>1, <2>2, <2>5, <2>6 DEF JobShape, JobSound, Unstarted, Written, Stages
  <2>8. /\ DOMAIN jobs' = Transfers /\ jobs'[t] = job
        /\ \A u \in Transfers \ {t} : jobs'[u] = jobs[u]
    BY <2>1 DEF TransferInv, TransferShapes
  <2>9. Stored' = Stored
    BY <1>1 DEF Stored
  <2>10. /\ Transfers' = Transfers /\ Stored' \subseteq Transfers /\ JobsSound'
         /\ \A u \in Transfers : JobShape(jobs'[u])
    BY <1>1, <2>4, <2>7, <2>8, <2>9, OtherJobs
  <2>11. TransferShapes'
    BY <1>1, <2>4, <2>8, <2>9, <2>10 DEF TransferInv, TransferShapes, Made
  <2>12. \A u \in Transfers : jobs'[u].attempt = jobs[u].attempt
    BY <2>5, <2>8
  <2>13. RaisedInTime'
    BY <1>1, <2>9, <2>12 DEF TransferInv, TransferShapes, RaisedInTime, InTime
  <2>14. Judged(job)
    BY <2>5 DEF Judged, Unwritten, Unstarted
  <2>15. TouchedIsJudged'
    BY <1>1, <2>8, <2>9, <2>14 DEF TransferInv, TransferShapes, TouchedIsJudged
  <2> QED BY <2>10, <2>11, <2>13, <2>15 DEF TransferInv
<1> QED BY <1>2, <1>3

\* What the staff does changes the status of alerts, and releases what was stopped.
LEMMA StaffKeeps ==
  ASSUME TransferInv, UNCHANGED <<about, jobs, cases>>, Stored' = Stored,
         \A t \in Stored : DOMAIN txs'[t] = TxColumns,
         \A t \in Stored : Touched(txs'[t]) => Touched(txs[t]),
         \A a \in alerts' : DOMAIN a = AlertColumns /\ \E b \in alerts : Alike(a, b),
         \A b \in alerts : \E a \in alerts' : Alike(b, a)
  PROVE  TransferInv'
<1>1. \A t \in Transfers, n \in Nat : RaisedIn(alerts', t, n) = RaisedIn(alerts, t, n)
  BY RaisedAlike
<1>2. Transfers' = Transfers
  BY DEF Transfers
<1>3. TransferShapes'
  BY <1>2 DEF TransferInv, TransferShapes, Made
<1>4. JobsSound'
  <2> SUFFICES ASSUME NEW t \in Transfers
               PROVE  JobSound(t, jobs[t], alerts', cases, Stored)
    BY <1>2 DEF JobsSound
  <2>1. JobSound(t, jobs[t], alerts, cases, Stored) /\ jobs[t].attempt \in Nat
    BY OwnJob
  <2>2. RaisedIn(alerts', t, jobs[t].attempt) = RaisedIn(alerts, t, jobs[t].attempt)
    BY <1>1, <2>1
  <2> QED BY <2>1, <2>2 DEF JobSound
<1>5. RaisedInTime'
  <2> SUFFICES ASSUME NEW a \in alerts' PROVE InTime(a)'
    BY DEF RaisedInTime
  <2>1. PICK b \in alerts : Alike(a, b)
    OBVIOUS
  <2> QED BY <2>1 DEF TransferInv, RaisedInTime, InTime, Alike
<1>6. TouchedIsJudged'
  BY DEF TransferInv, TouchedIsJudged
<1> QED BY <1>3, <1>4, <1>5, <1>6 DEF TransferInv

\* What an officer releases a verdict has stopped before.
LEMMA ReleaseKeeps ==
  ASSUME TransferInv, NEW t \in Transfers, Release(t)
  PROVE  TransferInv'
<1> DEFINE Dropped(a) == IF a.tx = t /\ a.status \in {"OPEN", "IN_CASE"}
                         THEN [a EXCEPT !.status = "DISMISSED"] ELSE a
           tx == [txs[t] EXCEPT !.status = "APPROVED", !.isFlagged = FALSE,
                                !.released = TRUE]
<1>1. /\ t \in Stored /\ Touched(txs[t]) /\ alerts' = {Dropped(a) : a \in alerts}
      /\ UNCHANGED <<about, jobs, cases>>
  BY DEF Release, bounded, Touched
<1>2. txs' = [txs EXCEPT ![t] = tx]
  BY <1>1 DEF Release, Stored
<1>3. /\ Stored' = Stored /\ \A u \in Stored : DOMAIN txs'[u] = TxColumns
      /\ \A u \in Stored \ {t} : txs'[u] = txs[u]
  BY <1>1, <1>2 DEF Stored, TransferInv, TransferShapes, TxColumns
<1>4. \A a \in alerts : DOMAIN Dropped(a) = AlertColumns /\ Alike(a, Dropped(a))
  BY DEF TransferInv, TransferShapes, AlertColumns, Alike
<1> HIDE DEF Dropped
<1>5. \A a \in alerts' : DOMAIN a = AlertColumns /\ \E b \in alerts : Alike(a, b)
  BY <1>1, <1>4 DEF Alike
<1>6. \A b \in alerts : \E a \in alerts' : Alike(b, a)
  BY <1>1, <1>4
<1>7. \A u \in Stored : Touched(txs'[u]) => Touched(txs[u])
  BY <1>1, <1>3
<1> QED BY <1>1, <1>3, <1>5, <1>6, <1>7, StaffKeeps

\* Work on alerts and messages.
LEMMA DeskKeeps ==
  ASSUME TransferInv, Desk
  PROVE  TransferInv'
<1>1. UNCHANGED <<about, txs, jobs, cases>>
  BY DEF Desk, SetAlertStatus, SendOriginator, ReceiveInbound
<1>2. Stored' = Stored /\ \A t \in Stored : DOMAIN txs'[t] = TxColumns
  BY <1>1 DEF Stored, TransferInv, TransferShapes
<1>3. CASE alerts' = alerts
  BY <1>1, <1>2, <1>3, StaffKeeps DEF TransferInv, TransferShapes, Alike
<1>4. ASSUME NEW a \in alerts, NEW status, SetAlertStatus(a, status) PROVE TransferInv'
  <2> DEFINE b == [a EXCEPT !.status = status]
  <2>1. alerts' = (alerts \ {a}) \cup {b}
    BY <1>4 DEF SetAlertStatus
  <2>2. DOMAIN b = AlertColumns /\ Alike(a, b)
    BY DEF TransferInv, TransferShapes, AlertColumns, Alike
  <2> HIDE DEF b
  <2>3. \A c \in alerts' : DOMAIN c = AlertColumns /\ \E d \in alerts : Alike(c, d)
    BY <2>1, <2>2 DEF TransferInv, TransferShapes, Alike
  <2>4. \A d \in alerts : \E c \in alerts' : Alike(d, c)
    BY <2>1, <2>2 DEF Alike
  <2> QED BY <1>1, <1>2, <2>3, <2>4, StaffKeeps
<1>5. alerts' = alerts \/ \E a \in alerts, status \in AlertStatuses :
                            SetAlertStatus(a, status)
  BY DEF Desk, SendOriginator, ReceiveInbound
<1> QED BY <1>3, <1>4, <1>5

\* The other steps of a job.
LEMMA JobStepKeeps ==
  ASSUME TransferInv, NEW t \in Transfers,
         RequestDies(t) \/ JobStep(t) \/ JobThrows(t)
  PROVE  TransferInv'
<1>1. JobShape(jobs[t]) /\ DOMAIN jobs = Transfers
  BY OwnJob DEF TransferInv, TransferShapes
<1>2. CASE RequestDies(t)
  <2> DEFINE job == [jobs[t] EXCEPT !.stage = "lost"]
  <2>1. /\ jobs' = [jobs EXCEPT ![t] = job] /\ jobs[t].stage = "created"
        /\ UNCHANGED <<about, txs, alerts, cases>>
    BY <1>1, <1>2 DEF RequestDies
  <2>2. /\ job.stage = "lost" /\ job.attempt = jobs[t].attempt
        /\ job.count = jobs[t].count /\ DOMAIN job = DOMAIN jobs[t]
    BY <1>1 DEF JobShape
  <2> HIDE DEF job
  <2> QED BY <1>1, <2>1, <2>2, StageKeeps DEF JobShape
<1>3. ASSUME NEW answered \in BOOLEAN, Evaluate(t, answered) PROVE TransferInv'
  <2> DEFINE job == [jobs[t] EXCEPT !.stage = "evaluated", !.verdict = Verdict(t, answered)]
  <2>1. /\ jobs' = [jobs EXCEPT ![t] = job] /\ jobs[t].stage = "queued"
        /\ UNCHANGED <<about, txs, alerts, cases>>
    BY <1>1, <1>3 DEF Evaluate
  <2>2. /\ job.stage = "evaluated" /\ job.attempt = jobs[t].attempt
        /\ job.count = jobs[t].count /\ DOMAIN job = DOMAIN jobs[t]
    BY <1>1 DEF JobShape
  <2> HIDE DEF job
  <2> QED BY <1>1, <2>1, <2>2, StageKeeps DEF JobShape
<1>4. CASE CountCases(t)
  <2> DEFINE job == [jobs[t] EXCEPT !.stage = "counted", !.count = Len(cases)]
  <2>1. /\ jobs' = [jobs EXCEPT ![t] = job] /\ jobs[t].stage = "needs-case"
        /\ UNCHANGED <<about, txs, alerts, cases>>
    BY <1>1, <1>4 DEF CountCases, bounded
  <2>2. Len(cases) \in Nat
    BY DEF TransferInv, TransferShapes
  <2>3. /\ job.stage = "counted" /\ job.attempt = jobs[t].attempt
        /\ job.count = Len(cases) /\ job.verdict = jobs[t].verdict
        /\ DOMAIN job = DOMAIN jobs[t]
    BY <1>1 DEF JobShape
  <2> HIDE DEF job
  <2> QED BY <2>1, <2>2, <2>3, StageKeeps
<1>5. CASE FinishJob(t)
  <2> DEFINE job == [jobs[t] EXCEPT !.stage = "done"]
  <2>1. /\ jobs' = [jobs EXCEPT ![t] = job] /\ jobs[t].stage = "travel-rule"
        /\ UNCHANGED <<about, txs, alerts, cases>>
    BY <1>1, <1>5 DEF FinishJob, bounded
  <2>2. /\ job.stage = "done" /\ job.attempt = jobs[t].attempt
        /\ job.count = jobs[t].count /\ job.verdict = jobs[t].verdict
        /\ DOMAIN job = DOMAIN jobs[t]
    BY <1>1 DEF JobShape
  <2> HIDE DEF job
  <2> QED BY <1>1, <2>1, <2>2, StageKeeps DEF JobShape
<1>6. CASE JobThrows(t)
  <2>1. /\ jobs' = [jobs EXCEPT ![t] = Retried(jobs[t])]
        /\ UNCHANGED <<about, txs, alerts, cases>>
    BY <1>1, <1>6 DEF JobThrows
  <2> QED BY <1>6, <2>1, RetriedKeeps DEF JobThrows
<1> QED BY <1>2, <1>3, <1>4, <1>5, <1>6, EnqueueKeeps, VerdictKeeps, CaseKeeps DEF JobStep

\* Every step keeps the invariant.
LEMMA NextTransfers == TransferInv /\ [Next]_vars => TransferInv'
<1> SUFFICES ASSUME TransferInv, [Next]_vars PROVE TransferInv'
  OBVIOUS
<1>1. CASE ChangeCustomer \/ UNCHANGED vars
  <2>1. UNCHANGED <<about, txs, alerts, cases, jobs>>
    BY <1>1 DEF ChangeCustomer, vars
  <2> QED BY <2>1 DEF TransferInv, TransferShapes, JobsSound, RaisedInTime, InTime,
              TouchedIsJudged, Stored, Transfers, Made
<1>2. CASE Desk
  BY <1>2, DeskKeeps
<1>3. ASSUME NEW t \in Transfers,
             Ingest(t) \/ RequestDies(t) \/ JobStep(t) \/ JobThrows(t) \/ Release(t)
      PROVE  TransferInv'
  BY <1>3, IngestKeeps, JobStepKeeps, ReleaseKeeps
<1> QED BY <1>1, <1>2, <1>3 DEF Next, Monitoring

\* The inductive invariant holds in every reachable state.
THEOREM TransfersInvariant == Spec => []TransferInv
<1> QED BY InitTransfers, NextTransfers, PTL DEF Spec

\* A job that has ended has its case, and that case an alert for each severity its
\* verdict asked for.
THEOREM BlockedAreOwned == Spec => []BlockedHasOwner
<1>1. TransferInv => BlockedHasOwner
  <2> SUFFICES ASSUME TransferInv, NEW t \in Stored, jobs[t].stage = "done",
                      NeedsCase(jobs[t].verdict)
               PROVE  /\ \E c \in Range(cases) : c = [tx |-> t, attempt |-> jobs[t].attempt]
                      /\ RaisedIn(alerts, t, jobs[t].attempt) = jobs[t].verdict.alerts
    BY DEF BlockedHasOwner, NeedsCase, RaisedIn
  <2>1. JobSound(t, jobs[t], alerts, cases, Stored)
    BY OwnJob DEF TransferInv, TransferShapes
  <2> QED BY <2>1 DEF JobSound, Written, CaseIn
<1> QED BY <1>1, TransfersInvariant, PTL

\* A job that has run once and nothing else takes no release back: an officer has
\* something to release only after the verdict.
THEOREM ReleasesStand == Spec => ReleaseStands
<1>1. ASSUME TransferInv, [Next]_vars, NEW t \in Stored, txs[t].released,
             txs[t].status = "APPROVED", txs'[t].status # "APPROVED"
      PROVE  jobs[t].attempt > 1
  <2>1. t \in Transfers /\ Judged(jobs[t])
    BY <1>1 DEF TransferInv, TransferShapes, TouchedIsJudged, Touched
  <2>2. ASSUME NEW u \in Transfers, WriteVerdict(u) PROVE jobs[t].attempt > 1
    <3>1. u = t
      BY <1>1, <2>2 DEF WriteVerdict, Stored
    <3>2. jobs[t].stage = "evaluated"
      BY <2>2, <3>1 DEF WriteVerdict
    <3> QED BY <2>1, <3>2 DEF Judged, Unwritten
  <2>3. ASSUME NEW u \in Transfers, Ingest(u) PROVE FALSE
    BY <1>1, <2>3 DEF Ingest
  <2>4. ASSUME NEW u \in Transfers, Release(u) PROVE FALSE
    BY <1>1, <2>4 DEF Release, Stored
  <2>5. ASSUME txs' = txs PROVE FALSE
    BY <1>1, <2>5
  <2>6. \/ txs' = txs
        \/ \E u \in Transfers : WriteVerdict(u) \/ Ingest(u) \/ Release(u)
    BY <1>1 DEF Next, vars, Monitoring, Desk, JobStep, SetAlertStatus, SendOriginator,
                ReceiveInbound, ChangeCustomer, RequestDies, EnqueueTransaction, Evaluate,
                CountCases, CreateCase, FinishJob, JobThrows, bounded
  <2> QED BY <2>2, <2>3, <2>4, <2>5, <2>6
<1>2. TransferInv /\ [Next]_vars =>
        [\A t \in Stored :
           txs[t].released /\ txs[t].status = "APPROVED" /\ txs'[t].status # "APPROVED"
             => jobs[t].attempt > 1]_vars
  BY <1>1
<1> QED BY <1>2, TransfersInvariant, PTL DEF Spec, ReleaseStands


----------------------------------------------------------------------------
(* That no verdict lets through what must be stopped.                         *)
\* What a transfer that may settle without an officer is: of a known customer, not
\* to an embargoed country, and not the first that is large.
Cleared(t) ==
  /\ about[t].known /\ ~isEmbargoed(about[t].country)
  /\ Own(t) = {t} => about[t].amount < 10000

\* The transfer that StructuringIsCaught is about.
Structured(t) ==
  /\ t = latest /\ Near(t, t)
  /\ Cardinality({u \in Stored \ {t} : Near(t, u)}) >= 3

VerdictSound(t, job) ==
  /\ job.stage = "evaluated" /\ job.verdict.action # "BLOCKED" => Cleared(t)
  /\ job.stage \in {"evaluated"} \cup Written /\ Structured(t) =>
       job.verdict.action # "APPROVED"

Settling(tx) == tx.status = "APPROVED" /\ ~tx.released

\* Beside TransferInv: a verdict was right when it was reached, and still is.
VerdictInv ==
  /\ IsFiniteSet(Stored) /\ \A t \in Transfers : about[t].amount \in Nat \ {0}
  /\ \A t \in Transfers : VerdictSound(t, jobs[t])
  /\ \A t \in Stored : Settling(txs[t]) => Cleared(t)

\* Nothing is stored and no job has a verdict at first.
LEMMA InitVerdicts == Init => VerdictInv
<1> SUFFICES ASSUME Init PROVE VerdictInv
  OBVIOUS
<1>1. PICK s \in Scenarios : about = s.about
  BY DEF Init
<1>2. \A t \in Transfers : about[t].amount \in Nat \ {0}
  BY <1>1, TransferAssumption DEF Transfers
<1>3. txs = <<>> /\ jobs = [t \in Transfers |-> NoJob]
  BY DEF Init
<1>4. Stored = {} /\ IsFiniteSet(Stored)
  BY <1>3, FS_EmptySet DEF Stored
<1>5. \A t \in Transfers : VerdictSound(t, jobs[t])
  BY <1>3 DEF VerdictSound, NoJob, Written
<1> QED BY <1>2, <1>4, <1>5 DEF VerdictInv

\* What no later transfer takes back.
LEMMA ClearedStays ==
  ASSUME UNCHANGED about, NEW t \in Stored, Stored \subseteq Stored', Cleared(t)
  PROVE  Cleared(t)'
<1>1. t \in Own(t) /\ Own(t) \subseteq Own(t)'
  BY DEF Own, Cleared
<1>2. Own(t)' = {t} => Own(t) = {t}
  BY <1>1
<1> QED BY <1>2 DEF Cleared

\* A verdict that does not block clears, and one on structuring does not approve.
LEMMA VerdictRight ==
  ASSUME VerdictInv, TransferShapes, NEW t \in Stored, NEW answered
  PROVE  /\ Verdict(t, answered).action # "BLOCKED" => Cleared(t)
         /\ Structured(t) => Verdict(t, answered).action # "APPROVED"
<1>1. /\ t \in Transfers /\ about[t].amount \in Nat \ {0}
      /\ IsFiniteSet(Stored) /\ Stored \subseteq Transfers
      /\ \A u \in Transfers : about[u].amount \in Nat
  BY DEF VerdictInv, TransferShapes
<1>2. ASSUME Verdict(t, answered).action # "BLOCKED" PROVE Cleared(t)
  <2>1. about[t].known /\ ~isEmbargoed(about[t].country)
    BY <1>1, <1>2, UnknownIsBlocked, EmbargoedIsBlocked
  <2>2. ~First(t)
    BY <1>2, FirstLargeIsBlocked
  <2> QED BY <1>1, <2>1, <2>2 DEF Cleared, First
<1>3. ASSUME Structured(t) PROVE Verdict(t, answered).action # "APPROVED"
  BY <1>1, <1>3, StructuringIsFlagged DEF Structured
<1> QED BY <1>2, <1>3

\* A step of one job that leaves the transfers as they are.
LEMMA OneVerdict ==
  ASSUME VerdictInv, TransferShapes, UNCHANGED <<about, txs, latest>>,
         NEW t \in Transfers, NEW job, jobs' = [jobs EXCEPT ![t] = job],
         VerdictSound(t, job)
  PROVE  VerdictInv'
<1>1. /\ jobs'[t] = job /\ \A u \in Transfers \ {t} : jobs'[u] = jobs[u]
      /\ Transfers' = Transfers /\ Stored' = Stored
  BY DEF TransferShapes, Transfers, Stored
<1>2. \A u \in Transfers : Cleared(u)' <=> Cleared(u)
  BY <1>1 DEF Cleared, Own
<1>3. \A u \in Transfers : Structured(u)' <=> Structured(u)
  BY <1>1 DEF Structured, Near, JustUnder, InDay
<1>4. \A u \in Transfers : VerdictSound(u, jobs'[u])
  BY <1>1 DEF VerdictInv
<1>5. \A u \in Transfers : VerdictSound(u, jobs[u])'
  BY <1>2, <1>3, <1>4 DEF VerdictSound
<1> QED BY <1>1, <1>2, <1>5 DEF VerdictInv, TransferShapes

\* One that reaches no verdict either.
LEMMA NoVerdict ==
  ASSUME VerdictInv, TransferShapes, UNCHANGED <<about, txs, latest>>,
         NEW t \in Transfers, NEW job, jobs' = [jobs EXCEPT ![t] = job],
         \/ job.stage \notin {"evaluated"} \cup Written
         \/ /\ job.stage \in Written /\ job.verdict = jobs[t].verdict
            /\ jobs[t].stage \in {"evaluated"} \cup Written
  PROVE  VerdictInv'
<1>1. VerdictSound(t, job)
  BY DEF VerdictInv, VerdictSound, Written
<1> QED BY <1>1, OneVerdict

\* A job that runs again has no verdict.
LEMMA RetriedHasNone ==
  ASSUME NEW job, DOMAIN job = {"stage", "attempt", "verdict", "count"}
  PROVE  Retried(job).stage \notin {"evaluated"} \cup Written
<1>1. CASE job.attempt < MaxAttempts
  BY <1>1 DEF Retried, NoJob, Written
<1>2. CASE ~(job.attempt < MaxAttempts)
  <2>1. Retried(job) = [job EXCEPT !.stage = "failed"]
    BY <1>2 DEF Retried
  <2>2. Retried(job).stage = "failed"
    BY <2>1
  <2> QED BY <2>2 DEF Written
<1> QED BY <1>1, <1>2

\* A transfer that is reported has no verdict, and is the last that was.
LEMMA IngestVerdicts ==
  ASSUME VerdictInv, TransferInv, NEW t \in Transfers, Ingest(t)
  PROVE  VerdictInv'
<1>1. /\ t \notin Stored /\ latest' = t /\ UNCHANGED about
      /\ jobs' = [jobs EXCEPT ![t].stage = "created"]
      /\ txs' = [u \in Stored \cup {t} |->
                   IF u = t THEN [status |-> "PENDING", isFlagged |-> FALSE,
                                  riskScore |-> 0, released |-> FALSE]
                   ELSE txs[u]]
  BY DEF Ingest, bounded
<1>2. /\ Stored' = Stored \cup {t} /\ txs'[t].status = "PENDING"
      /\ \A u \in Stored : txs'[u] = txs[u]
  BY <1>1 DEF Stored
<1>3. /\ jobs'[t].stage = "created" /\ \A u \in Transfers \ {t} : jobs'[u] = jobs[u]
      /\ Transfers' = Transfers
  BY <1>1 DEF TransferInv, TransferShapes, JobShape, Transfers
<1>4. IsFiniteSet(Stored')
  BY <1>2, FS_AddElement DEF VerdictInv
<1>5. \A u \in Stored : Cleared(u) => Cleared(u)'
  BY <1>1, <1>2, ClearedStays
<1>6. \A u \in Transfers \ {t} : ~Structured(u)'
  BY <1>1 DEF Structured
<1>7. ASSUME NEW u \in Transfers PROVE VerdictSound(u, jobs[u])'
  <2>1. CASE u = t
    BY <1>3, <2>1 DEF VerdictSound, Written
  <2>2. CASE u # t
    <3>1. jobs'[u] = jobs[u] /\ VerdictSound(u, jobs[u])
      BY <1>3, <2>2 DEF VerdictInv
    <3>2. jobs[u].stage = "evaluated" => u \in Stored
      BY DEF TransferInv, JobsSound, JobSound
    <3> QED BY <1>5, <1>6, <2>2, <3>1, <3>2 DEF VerdictSound
  <2> QED BY <2>1, <2>2
<1>8. ASSUME NEW u \in Stored', Settling(txs'[u]) PROVE Cleared(u)'
  <2>1. u \in Stored /\ txs'[u] = txs[u]
    BY <1>2, <1>8 DEF Settling
  <2> QED BY <1>5, <1>8, <2>1 DEF VerdictInv
<1> QED BY <1>1, <1>3, <1>4, <1>7, <1>8 DEF VerdictInv

\* What is written is the verdict.
LEMMA WriteVerdicts ==
  ASSUME VerdictInv, TransferInv, NEW t \in Transfers, WriteVerdict(t)
  PROVE  VerdictInv'
<1> DEFINE v == jobs[t].verdict
<1>1. /\ jobs[t].stage = "evaluated" /\ UNCHANGED <<about, latest>>
      /\ txs' = [txs EXCEPT ![t].status = StatusOf(v.action),
                            ![t].isFlagged = v.action # "APPROVED",
                            ![t].riskScore = v.riskScore]
      /\ jobs' = [jobs EXCEPT ![t].stage =
                    IF v.action = "BLOCKED" \/ "CRITICAL" \in v.alerts
                    THEN "needs-case" ELSE "travel-rule"]
  BY DEF WriteVerdict, bounded
<1>2. t \in Stored /\ VerdictSound(t, jobs[t])
  BY <1>1 DEF TransferInv, JobsSound, JobSound, VerdictInv
<1>3. /\ Stored' = Stored /\ txs'[t].status = StatusOf(v.action)
      /\ \A u \in Stored \ {t} : txs'[u] = txs[u]
  BY <1>1, <1>2 DEF Stored, TransferInv, TransferShapes, TxColumns
<1>4. /\ jobs'[t].stage \in {"needs-case", "travel-rule"} /\ jobs'[t].verdict = v
      /\ \A u \in Transfers \ {t} : jobs'[u] = jobs[u]
      /\ Transfers' = Transfers
  BY <1>1 DEF TransferInv, TransferShapes, JobShape, Transfers
<1>5. \A u \in Transfers : (Cleared(u)' <=> Cleared(u)) /\ (Structured(u)' <=> Structured(u))
  BY <1>1, <1>3 DEF Cleared, Own, Structured, Near, JustUnder, InDay
<1>6. ASSUME NEW u \in Transfers PROVE VerdictSound(u, jobs[u])'
  <2>1. CASE u = t
    BY <1>1, <1>2, <1>4, <1>5, <2>1 DEF VerdictSound, Written
  <2>2. CASE u # t
    BY <1>4, <1>5, <2>2 DEF VerdictSound, VerdictInv
  <2> QED BY <2>1, <2>2
<1>7. ASSUME NEW u \in Stored, Settling(txs'[u]) PROVE Cleared(u)
  <2>1. CASE u = t
    <3>1. StatusOf(v.action) = "APPROVED"
      BY <1>3, <1>7, <2>1 DEF Settling
    <3>2. v.action # "BLOCKED"
      BY <3>1 DEF StatusOf
    <3> QED BY <1>1, <1>2, <2>1, <3>2 DEF VerdictSound
  <2>2. CASE u # t
    BY <1>3, <1>7, <2>2 DEF VerdictInv
  <2> QED BY <2>1, <2>2
<1>8. \A u \in Stored' : Settling(txs'[u]) => Cleared(u)'
  BY <1>3, <1>5, <1>7 DEF TransferInv, TransferShapes
<1> QED BY <1>1, <1>3, <1>4, <1>6, <1>8 DEF VerdictInv

\* A release is not a settlement without an officer.
LEMMA ReleaseVerdicts ==
  ASSUME VerdictInv, TransferInv, NEW t \in Transfers, Release(t)
  PROVE  VerdictInv'
<1>1. /\ t \in Stored /\ UNCHANGED <<about, latest, jobs>>
      /\ txs' = [txs EXCEPT ![t].status = "APPROVED", ![t].isFlagged = FALSE,
                            ![t].released = TRUE]
  BY DEF Release, bounded
<1>2. /\ Stored' = Stored /\ txs'[t].released = TRUE
      /\ \A u \in Stored \ {t} : txs'[u] = txs[u] /\ Transfers' = Transfers
  BY <1>1 DEF Stored, TransferInv, TransferShapes, TxColumns, Transfers
<1>3. \A u : (Cleared(u)' <=> Cleared(u)) /\ (Structured(u)' <=> Structured(u))
  BY <1>1, <1>2 DEF Cleared, Own, Structured, Near, JustUnder, InDay
<1>4. \A u \in Transfers : VerdictSound(u, jobs[u])'
  BY <1>1, <1>3 DEF VerdictInv, VerdictSound
<1>5. \A u \in Stored : Settling(txs'[u]) => Cleared(u)'
  BY <1>2, <1>3 DEF Settling, VerdictInv
<1>6. Transfers' = Transfers
  BY <1>1 DEF Transfers
<1> QED BY <1>1, <1>2, <1>4, <1>5, <1>6 DEF VerdictInv

\* The other steps of a job.
LEMMA JobVerdicts ==
  ASSUME VerdictInv, TransferInv, NEW t \in Transfers,
         RequestDies(t) \/ JobStep(t) \/ JobThrows(t)
  PROVE  VerdictInv'
<1>1. /\ TransferShapes /\ DOMAIN jobs = Transfers
      /\ DOMAIN jobs[t] = {"stage", "attempt", "verdict", "count"}
  BY DEF TransferInv, TransferShapes, JobShape
<1>2. CASE RequestDies(t)
  <2> DEFINE job == [jobs[t] EXCEPT !.stage = "lost"]
  <2>1. jobs' = [jobs EXCEPT ![t] = job] /\ UNCHANGED <<about, txs, latest>>
    BY <1>1, <1>2 DEF RequestDies
  <2>2. job.stage = "lost"
    BY <1>1
  <2> HIDE DEF job
  <2> QED BY <1>1, <2>1, <2>2, NoVerdict DEF Written
<1>3. CASE EnqueueTransaction(t)
  <2> DEFINE job == [jobs[t] EXCEPT !.stage = "queued", !.attempt = 1]
  <2>1. jobs' = [jobs EXCEPT ![t] = job] /\ UNCHANGED <<about, txs, latest>>
    BY <1>1, <1>3 DEF EnqueueTransaction, bounded
  <2>2. job.stage = "queued"
    BY <1>1
  <2> HIDE DEF job
  <2> QED BY <1>1, <2>1, <2>2, NoVerdict DEF Written
<1>4. ASSUME NEW answered \in BOOLEAN, Evaluate(t, answered) PROVE VerdictInv'
  <2> DEFINE job == [jobs[t] EXCEPT !.stage = "evaluated", !.verdict = Verdict(t, answered)]
  <2>1. /\ jobs' = [jobs EXCEPT ![t] = job] /\ jobs[t].stage = "queued"
        /\ UNCHANGED <<about, txs, latest>>
    BY <1>1, <1>4 DEF Evaluate
  <2>2. job.stage = "evaluated" /\ job.verdict = Verdict(t, answered)
    BY <1>1
  <2>3. t \in Stored
    BY <2>1 DEF TransferInv, JobsSound, JobSound
  <2> HIDE DEF job
  <2>4. VerdictSound(t, job)
    BY <1>1, <2>2, <2>3, VerdictRight DEF VerdictSound
  <2> QED BY <1>1, <2>1, <2>4, OneVerdict
<1>5. CASE CountCases(t)
  <2> DEFINE job == [jobs[t] EXCEPT !.stage = "counted", !.count = Len(cases)]
  <2>1. /\ jobs' = [jobs EXCEPT ![t] = job] /\ jobs[t].stage = "needs-case"
        /\ UNCHANGED <<about, txs, latest>>
    BY <1>1, <1>5 DEF CountCases, bounded
  <2>2. job.stage = "counted" /\ job.verdict = jobs[t].verdict
    BY <1>1
  <2> HIDE DEF job
  <2> QED BY <1>1, <2>1, <2>2, NoVerdict DEF Written
<1>6. CASE CreateCase(t)
  <2>1. jobs[t].stage = "counted" /\ UNCHANGED <<about, txs, latest>>
    BY <1>6 DEF CreateCase, bounded
  <2>2. CASE jobs[t].count < Len(cases)
    <3>1. jobs' = [jobs EXCEPT ![t] = Retried(jobs[t])]
      BY <1>6, <2>2 DEF CreateCase
    <3> QED BY <1>1, <2>1, <3>1, RetriedHasNone, NoVerdict
  <2>3. CASE ~(jobs[t].count < Len(cases))
    <3> DEFINE job == [jobs[t] EXCEPT !.stage = "travel-rule"]
    <3>1. jobs' = [jobs EXCEPT ![t] = job]
      BY <1>6, <2>3 DEF CreateCase
    <3>2. job.stage = "travel-rule" /\ job.verdict = jobs[t].verdict
      BY <1>1
    <3> HIDE DEF job
    <3> QED BY <1>1, <2>1, <3>1, <3>2, NoVerdict DEF Written
  <2> QED BY <2>2, <2>3
<1>7. CASE FinishJob(t)
  <2> DEFINE job == [jobs[t] EXCEPT !.stage = "done"]
  <2>1. /\ jobs' = [jobs EXCEPT ![t] = job] /\ jobs[t].stage = "travel-rule"
        /\ UNCHANGED <<about, txs, latest>>
    BY <1>1, <1>7 DEF FinishJob, bounded
  <2>2. job.stage = "done" /\ job.verdict = jobs[t].verdict
    BY <1>1
  <2> HIDE DEF job
  <2> QED BY <1>1, <2>1, <2>2, NoVerdict DEF Written
<1>8. CASE JobThrows(t)
  <2>1. /\ jobs' = [jobs EXCEPT ![t] = Retried(jobs[t])]
        /\ UNCHANGED <<about, txs, latest>>
    BY <1>1, <1>8 DEF JobThrows
  <2> QED BY <1>1, <2>1, RetriedHasNone, NoVerdict
<1> QED BY <1>2, <1>3, <1>4, <1>5, <1>6, <1>7, <1>8, WriteVerdicts DEF JobStep

\* Every step keeps the verdicts right.
LEMMA NextVerdicts == VerdictInv /\ TransferInv /\ [Next]_vars => VerdictInv'
<1> SUFFICES ASSUME VerdictInv, TransferInv, [Next]_vars PROVE VerdictInv'
  OBVIOUS
<1>1. CASE ChangeCustomer \/ Desk \/ UNCHANGED vars
  <2>1. UNCHANGED <<about, txs, latest, jobs>>
    BY <1>1 DEF ChangeCustomer, Desk, SetAlertStatus, SendOriginator, ReceiveInbound, vars
  <2> QED BY <2>1 DEF VerdictInv, VerdictSound, Cleared, Structured, Near, JustUnder, InDay,
              Own, Stored, Transfers
<1>2. ASSUME NEW t \in Transfers,
             Ingest(t) \/ RequestDies(t) \/ JobStep(t) \/ JobThrows(t) \/ Release(t)
      PROVE  VerdictInv'
  BY <1>2, IngestVerdicts, JobVerdicts, ReleaseVerdicts
<1> QED BY <1>1, <1>2 DEF Next, Monitoring

\* The two invariants together are inductive, and hold in every reachable state.
THEOREM VerdictsInvariant == Spec => [](TransferInv /\ VerdictInv)
<1>1. Init => TransferInv /\ VerdictInv
  BY InitTransfers, InitVerdicts
<1>2. TransferInv /\ VerdictInv /\ [Next]_vars => (TransferInv /\ VerdictInv)'
  BY NextTransfers, NextVerdicts
<1> QED BY <1>1, <1>2, PTL DEF Spec

\* What must be blocked before it settles never settles but by an officer's release:
\* whatever the series of transfers, the answers about wallets, the order in which
\* jobs run and the failures.
THEOREM NothingSettlesUnreleased == Spec => []NeverSettlesUnreleased
<1>1. VerdictInv => NeverSettlesUnreleased
  BY DEF VerdictInv, Settling, Cleared, NeverSettlesUnreleased
<1> QED BY <1>1, VerdictsInvariant, PTL

\* Structuring is not waved through, however many transfers it is spread over and
\* whatever else the customer does.
THEOREM StructuringFound == Spec => []StructuringIsCaught
<1>1. TransferInv /\ VerdictInv => StructuringIsCaught
  <2> SUFFICES ASSUME TransferInv, VerdictInv, NEW t \in Stored,
                      jobs[t].stage = "done", Structured(t)
               PROVE  jobs[t].verdict.action # "APPROVED"
    BY DEF StructuringIsCaught, Structured
  <2>1. VerdictSound(t, jobs[t])
    BY DEF TransferInv, TransferShapes, VerdictInv
  <2> QED BY <2>1 DEF VerdictSound, Written
<1> QED BY <1>1, VerdictsInvariant, PTL

----------------------------------------------------------------------------
(* Duplicates.                                                                *)

Step(a) == CheckStep(a) \/ AccountRequest(a)

\* The shapes of the variables, as far as the proof needs them.
Shapes ==
  /\ DOMAIN account = Accounts /\ DOMAIN document = Accounts /\ DOMAIN gone = Accounts
  /\ DOMAIN findings = Accounts /\ DOMAIN check = Accounts
  /\ DOMAIN moved = Accounts /\ DOMAIN lastNumber = Accounts
  /\ \A a \in Accounts :
       /\ DOMAIN account[a] = {"fingerprint", "docNumberHash", "approved"}
       /\ DOMAIN document[a] = {"id", "number"} /\ document[a].id \in Nat
       /\ gone[a] \in Nat
       /\ DOMAIN findings[a] = {"identity", "numbers", "face", "ocr", "live", "broken"}
       /\ DOMAIN findings[a].ocr = DocIds
       /\ DOMAIN check[a] = {"pc", "fingerprint", "doc", "number", "face", "approve"}
       /\ check[a].doc.id \in Nat

\* What a run has loaded and found out about one applicant.
Running(a) == check[a].pc \notin {"idle", "waiting"}
Newest(a)  == IF document[a].id = 0 THEN gone[a] ELSE document[a].id
HasRead(a) == \E d \in DocIds : findings[a].ocr[d] # "none"
Settled(a) ==
  \/ account[a].approved
  \/ check[a].pc = "commit" /\ check[a].approve

\* Approved, or able to be by what the run has found of its face, of its identity, of
\* its document's number.
FaceClean(a) ==
  \/ Settled(a)
  \/ /\ findings[a].live /\ "face" \notin findings[a].broken
     /\ \/ check[a].pc = "decide" /\ findings[a].face # "FAIL"
        \/ check[a].pc = "sameFace" /\ check[a].face # "FAIL"

IdentityClean(a) ==
  \/ Settled(a)
  \/ /\ ~findings[a].identity /\ "data" \notin findings[a].broken
     /\ \/ /\ check[a].pc = "ocr"
           /\ HasRead(a) \/ check[a].doc.id > gone[a]
        \/ /\ check[a].pc \in {"count", "sameNumber", "store", "liveness", "index",
                               "search", "sameFace", "decide"}
           /\ HasRead(a)

StoredNumber(a) ==
  \/ Settled(a)
  \/ /\ check[a].pc \in {"liveness", "index", "search", "sameFace", "decide"}
     /\ HasRead(a) /\ findings[a].numbers = {} /\ "document" \notin findings[a].broken

Storing(a) ==
  /\ check[a].pc = "store"
  /\ HasRead(a) /\ findings[a].numbers = {} /\ "document" \notin findings[a].broken

\* Of one applicant: a decision ends the run, and nobody has changed the fingerprint
\* it has loaded;
OwnRun(a) ==
  /\ account[a].approved => check[a].pc = "idle"
  /\ Running(a) /\ ~moved[a] => check[a].fingerprint = account[a].fingerprint

\* documents are numbered as they come, and those with a current check are neither
\* superseded nor newer than the run's;
OwnDocument(a) ==
  /\ document[a].id # 0 => document[a].id > gone[a]
  /\ Running(a) => check[a].doc.id <= Newest(a)
  /\ \A d \in DocIds :
       findings[a].ocr[d] # "none" =>
         /\ gone[a] < d /\ d <= Newest(a)
         /\ Running(a) /\ check[a].doc.id # 0 => d <= check[a].doc.id

\* the number that was read is the one that is looked up and stored;
OwnNumber(a) ==
  /\ check[a].pc \in {"count", "sameNumber", "store"} =>
       /\ check[a].doc.id # 0
       /\ check[a].number = lastNumber[a] /\ lastNumber[a] # "none"
  /\ StoredNumber(a) /\ lastNumber[a] # "none" => account[a].docNumberHash = lastNumber[a]

\* and a face is looked up when it can be found.
OwnFace(a) ==
  /\ check[a].pc \in {"search", "sameFace"} => a \in faceIndex
  /\ FaceClean(a) => a \in faceIndex

\* Of two applicants: one has noticed what the other left.
FacePair(a, b) ==
  FaceClean(a) /\ FaceClean(b) /\ ~moved[a] /\ ~moved[b] /\
  person[a].face = person[b].face =>
    account[a].fingerprint = account[b].fingerprint

IdentityPair(a, b) ==
  IdentityClean(a) /\ IdentityClean(b) /\ ~moved[a] /\ ~moved[b] /\
  person[a].tenant = person[b].tenant /\
  account[a].fingerprint = account[b].fingerprint =>
    account[a].fingerprint = "none"

NumberPair(a, b) ==
  StoredNumber(a) /\ (StoredNumber(b) \/ Storing(b)) /\
  person[a].tenant = person[b].tenant /\
  lastNumber[a] = lastNumber[b] /\ lastNumber[a] # "none" =>
    {a, b} \in overlapped

\* The inductive invariant.
DupInv ==
  /\ Shapes
  /\ \A a \in Accounts : OwnRun(a) /\ OwnDocument(a) /\ OwnNumber(a) /\ OwnFace(a)
  /\ \A a \in Accounts, b \in Accounts :
       a # b => FacePair(a, b) /\ IdentityPair(a, b) /\ NumberPair(a, b)

\* The variables keep their shapes.
LEMMA InitShapes == DupInit => Shapes
  BY DEF DupInit, Shapes, NoFindings, NoCheck, NoDocument

LEMMA StepShapes ==
  ASSUME Shapes, NEW a \in Accounts, Step(a)
  PROVE  Shapes'
<1> USE DuplicatesAssumption DEF DuplicatesAssumption, Shapes
<1>1. CASE Load(a)
  BY <1>1 DEF Load, NoCheck, NoDocument
<1>2. CASE CompareIdentity(a)
  BY <1>2 DEF CompareIdentity, GoTo
<1>3. CASE FindIdentity(a)
  BY <1>3 DEF FindIdentity, GoTo
<1>4. ASSUME NEW number \in Numbers \cup {"none"}, NEW result \in {"pass", "fail"},
            ReadNumber(a, number, result) PROVE Shapes'
  BY <1>4 DEF ReadNumber, OcrOf
<1>5. CASE NothingRead(a)
  BY <1>5 DEF NothingRead, GoTo, OcrOf
<1>6. CASE CountNumber(a)
  BY <1>6 DEF CountNumber, GoTo
<1>7. CASE FindNumber(a)
  BY <1>7 DEF FindNumber, GoTo
<1>8. CASE StoreNumber(a)
  BY <1>8 DEF StoreNumber, GoTo
<1>9. ASSUME NEW live \in BOOLEAN, RecordLiveness(a, live) PROVE Shapes'
  BY <1>9 DEF RecordLiveness, GoTo
<1>10. ASSUME NEW selfie \in BOOLEAN, NoFace(a, selfie) PROVE Shapes'
  BY <1>10 DEF NoFace, GoTo
<1>11. CASE IndexFace(a)
  BY <1>11 DEF IndexFace, GoTo
<1>12. CASE SearchFace(a)
  BY <1>12 DEF SearchFace
<1>13. CASE FindFace(a)
  BY <1>13 DEF FindFace, GoTo
<1>14. ASSUME NEW approve \in BOOLEAN, Decide(a, approve) PROVE Shapes'
  BY <1>14 DEF Decide
<1>15. CASE CommitDecision(a)
  BY <1>15 DEF CommitDecision, NoCheck, NoDocument
<1>16. CASE StepThrowsAt(a)
  BY <1>16 DEF StepThrowsAt, GoTo
<1>17. ASSUME NEW again \in BOOLEAN, CheckStops(a, again) PROVE Shapes'
  BY <1>17 DEF CheckStops, NoCheck, NoDocument
<1>18. ASSUME NEW number \in Numbers \cup {"none"}, NEW reuse \in BOOLEAN, Upload(a,
            number, reuse) PROVE Shapes'
  BY <1>18 DEF Upload
<1>19. ASSUME NEW identity \in Identities, Patch(a, identity) PROVE Shapes'
  BY <1>19 DEF Patch
<1>20. ASSUME NEW selfie \in BOOLEAN, request_resubmission(a, selfie) PROVE Shapes'
  BY <1>20 DEF request_resubmission, Supersede, NoFindings, NoDocument
<1>21. CASE Submit(a)
  BY <1>21 DEF Submit, NoCheck, NoDocument
<1>22. CASE ResetAccount(a)
  BY <1>22 DEF ResetAccount, Supersede, NoFindings, NoDocument
<1>23. CASE Suspend(a)
  BY <1>23 DEF Suspend
<1> QED BY <1>1, <1>2, <1>3, <1>4, <1>5, <1>6, <1>7, <1>8, <1>9, <1>10, <1>11, <1>12,
           <1>13, <1>14, <1>15, <1>16, <1>17, <1>18, <1>19, <1>20, <1>21, <1>22, <1>23
       DEF Step, CheckStep, AccountRequest

\* Nothing of an account's own has changed.
Same(b) ==
  /\ account'[b] = account[b] /\ document'[b] = document[b] /\ gone'[b] = gone[b]
  /\ findings'[b] = findings[b] /\ check'[b] = check[b]
  /\ moved'[b] = moved[b] /\ lastNumber'[b] = lastNumber[b]

\* A step of one account leaves the others' rows and runs alone.
LEMMA OthersStay ==
  ASSUME Shapes, NEW a \in Accounts, Step(a), NEW b \in Accounts \ {a}
  PROVE  Same(b)
<1> USE DEF Shapes, Same
<1>1. CASE Load(a)
  BY <1>1 DEF Load
<1>2. CASE CompareIdentity(a)
  BY <1>2 DEF CompareIdentity, GoTo
<1>3. CASE FindIdentity(a)
  BY <1>3 DEF FindIdentity, GoTo
<1>4. ASSUME NEW number \in Numbers \cup {"none"}, NEW result \in {"pass", "fail"},
           ReadNumber(a, number, result) PROVE Same(b)
  BY <1>4 DEF ReadNumber, OcrOf
<1>5. CASE NothingRead(a)
  BY <1>5 DEF NothingRead, GoTo, OcrOf
<1>6. CASE CountNumber(a)
  BY <1>6 DEF CountNumber, GoTo
<1>7. CASE FindNumber(a)
  BY <1>7 DEF FindNumber, GoTo
<1>8. CASE StoreNumber(a)
  BY <1>8 DEF StoreNumber, GoTo
<1>9. ASSUME NEW live \in BOOLEAN, RecordLiveness(a, live) PROVE Same(b)
  BY <1>9 DEF RecordLiveness, GoTo
<1>10. ASSUME NEW selfie \in BOOLEAN, NoFace(a, selfie) PROVE Same(b)
  BY <1>10 DEF NoFace, GoTo
<1>11. CASE IndexFace(a)
  BY <1>11 DEF IndexFace, GoTo
<1>12. CASE SearchFace(a)
  BY <1>12 DEF SearchFace
<1>13. CASE FindFace(a)
  BY <1>13 DEF FindFace, GoTo
<1>14. ASSUME NEW approve \in BOOLEAN, Decide(a, approve) PROVE Same(b)
  BY <1>14 DEF Decide
<1>15. CASE CommitDecision(a)
  BY <1>15 DEF CommitDecision
<1>16. CASE StepThrowsAt(a)
  BY <1>16 DEF StepThrowsAt, GoTo
<1>17. ASSUME NEW again \in BOOLEAN, CheckStops(a, again) PROVE Same(b)
  BY <1>17 DEF CheckStops
<1>18. ASSUME NEW number \in Numbers \cup {"none"}, NEW reuse \in BOOLEAN,
           Upload(a, number, reuse) PROVE Same(b)
  BY <1>18 DEF Upload
<1>19. ASSUME NEW identity \in Identities, Patch(a, identity) PROVE Same(b)
  BY <1>19 DEF Patch
<1>20. ASSUME NEW selfie \in BOOLEAN, request_resubmission(a, selfie) PROVE Same(b)
  BY <1>20 DEF request_resubmission, Supersede
<1>21. CASE Submit(a)
  BY <1>21 DEF Submit
<1>22. CASE ResetAccount(a)
  BY <1>22 DEF ResetAccount, Supersede
<1>23. CASE Suspend(a)
  BY <1>23 DEF Suspend
<1> QED BY <1>1, <1>2, <1>3, <1>4, <1>5, <1>6, <1>7, <1>8, <1>9, <1>10, <1>11, <1>12,
           <1>13, <1>14, <1>15, <1>16, <1>17, <1>18, <1>19, <1>20, <1>21, <1>22, <1>23
       DEF Step, CheckStep, AccountRequest

\* People keep their tenant and face, a face stays in the index, and a pair that had
\* overlapped has, until one of the two looks its number up again.
LEMMA SharedGrows ==
  ASSUME Shapes, NEW a \in Accounts, Step(a)
  PROVE  /\ person' = person
         /\ faceIndex \subseteq faceIndex'
         /\ ~CountNumber(a) => overlapped \subseteq overlapped'
         /\ \A pair \in overlapped : a \notin pair => pair \in overlapped'
<1>1. CASE CountNumber(a)
  BY <1>1 DEF CountNumber, GoTo, Shapes
<1>2. CASE StoreNumber(a)
  BY <1>2 DEF StoreNumber
<1>3. CASE IndexFace(a)
  BY <1>3 DEF IndexFace
<1> QED BY <1>1, <1>2, <1>3 DEF Step, CheckStep, AccountRequest, Load,
          CompareIdentity, FindIdentity, ReadNumber, NothingRead, FindNumber,
          RecordLiveness, NoFace, SearchFace, FindFace, Decide, CommitDecision,
          StepThrowsAt, CheckStops, Upload, Patch, request_resubmission, Submit,
          ResetAccount, Suspend, Supersede

\* The applicant's own facts are kept by its own steps.
LEMMA OwnRunStep ==
  ASSUME Shapes, NEW a \in Accounts, Step(a), OwnRun(a)
  PROVE  OwnRun(a)'
<1> USE DEF Shapes, OwnRun, Running, AtCheck
<1>1. CASE Load(a)
  BY <1>1 DEF Load, NoCheck
<1>2. CASE CompareIdentity(a)
  BY <1>2 DEF CompareIdentity, GoTo
<1>3. CASE FindIdentity(a)
  BY <1>3 DEF FindIdentity, GoTo
<1>4. ASSUME NEW number \in Numbers \cup {"none"}, NEW result \in {"pass", "fail"},
           ReadNumber(a, number, result) PROVE OwnRun(a)'
  BY <1>4 DEF ReadNumber, OcrOf
<1>5. CASE NothingRead(a)
  BY <1>5 DEF NothingRead, GoTo, OcrOf
<1>6. CASE CountNumber(a)
  BY <1>6 DEF CountNumber, GoTo
<1>7. CASE FindNumber(a)
  BY <1>7 DEF FindNumber, GoTo
<1>8. CASE StoreNumber(a)
  BY <1>8 DEF StoreNumber, GoTo
<1>9. ASSUME NEW live \in BOOLEAN, RecordLiveness(a, live) PROVE OwnRun(a)'
  BY <1>9 DEF RecordLiveness, GoTo
<1>10. ASSUME NEW selfie \in BOOLEAN, NoFace(a, selfie) PROVE OwnRun(a)'
  BY <1>10 DEF NoFace, GoTo
<1>11. CASE IndexFace(a)
  BY <1>11 DEF IndexFace, GoTo
<1>12. CASE SearchFace(a)
  BY <1>12 DEF SearchFace
<1>13. CASE FindFace(a)
  BY <1>13 DEF FindFace, GoTo
<1>14. ASSUME NEW approve \in BOOLEAN, Decide(a, approve) PROVE OwnRun(a)'
  BY <1>14 DEF Decide
<1>15. CASE CommitDecision(a)
  BY <1>15 DEF CommitDecision, NoCheck
<1>16. CASE StepThrowsAt(a)
  BY <1>16 DEF StepThrowsAt, GoTo, WaveOf
<1>17. ASSUME NEW again \in BOOLEAN, CheckStops(a, again) PROVE OwnRun(a)'
  BY <1>17 DEF CheckStops, NoCheck
<1>18. ASSUME NEW number \in Numbers \cup {"none"}, NEW reuse \in BOOLEAN,
           Upload(a, number, reuse) PROVE OwnRun(a)'
  BY <1>18 DEF Upload
<1>19. ASSUME NEW identity \in Identities, Patch(a, identity) PROVE OwnRun(a)'
  BY <1>19 DEF Patch
<1>20. ASSUME NEW selfie \in BOOLEAN, request_resubmission(a, selfie) PROVE
           OwnRun(a)'
  BY <1>20 DEF request_resubmission, Supersede
<1>21. CASE Submit(a)
  BY <1>21 DEF Submit, NoCheck
<1>22. CASE ResetAccount(a)
  BY <1>22 DEF ResetAccount, Supersede
<1>23. CASE Suspend(a)
  BY <1>23 DEF Suspend
<1> QED BY <1>1, <1>2, <1>3, <1>4, <1>5, <1>6, <1>7, <1>8, <1>9, <1>10, <1>11, <1>12,
           <1>13, <1>14, <1>15, <1>16, <1>17, <1>18, <1>19, <1>20, <1>21, <1>22, <1>23
       DEF Step, CheckStep, AccountRequest

LEMMA OwnDocumentStep ==
  ASSUME Shapes, NEW a \in Accounts, Step(a), OwnDocument(a)
  PROVE  OwnDocument(a)'
<1> USE DEF Shapes, OwnDocument, Running, Newest, AtCheck
<1>1. CASE Load(a)
  BY <1>1 DEF Load, NoCheck
<1>2. CASE CompareIdentity(a)
  BY <1>2 DEF CompareIdentity, GoTo
<1>3. CASE FindIdentity(a)
  BY <1>3 DEF FindIdentity, GoTo
<1>4. ASSUME NEW number \in Numbers \cup {"none"}, NEW result \in {"pass", "fail"},
           ReadNumber(a, number, result) PROVE OwnDocument(a)'
  BY <1>4 DEF ReadNumber, OcrOf
<1>5. CASE NothingRead(a)
  BY <1>5 DEF NothingRead, GoTo, OcrOf
<1>6. CASE CountNumber(a)
  BY <1>6 DEF CountNumber, GoTo
<1>7. CASE FindNumber(a)
  BY <1>7 DEF FindNumber, GoTo
<1>8. CASE StoreNumber(a)
  BY <1>8 DEF StoreNumber, GoTo
<1>9. ASSUME NEW live \in BOOLEAN, RecordLiveness(a, live) PROVE OwnDocument(a)'
  BY <1>9 DEF RecordLiveness, GoTo
<1>10. ASSUME NEW selfie \in BOOLEAN, NoFace(a, selfie) PROVE OwnDocument(a)'
  BY <1>10 DEF NoFace, GoTo
<1>11. CASE IndexFace(a)
  BY <1>11 DEF IndexFace, GoTo
<1>12. CASE SearchFace(a)
  BY <1>12 DEF SearchFace
<1>13. CASE FindFace(a)
  BY <1>13 DEF FindFace, GoTo
<1>14. ASSUME NEW approve \in BOOLEAN, Decide(a, approve) PROVE OwnDocument(a)'
  BY <1>14 DEF Decide
<1>15. CASE CommitDecision(a)
  BY <1>15 DEF CommitDecision, NoCheck
<1>16. CASE StepThrowsAt(a)
  BY <1>16 DEF StepThrowsAt, GoTo, WaveOf
<1>17. ASSUME NEW again \in BOOLEAN, CheckStops(a, again) PROVE OwnDocument(a)'
  BY <1>17 DEF CheckStops, NoCheck
<1>18. ASSUME NEW number \in Numbers \cup {"none"}, NEW reuse \in BOOLEAN,
           Upload(a, number, reuse) PROVE OwnDocument(a)'
  BY <1>18 DEF Upload, DocIds
<1>19. ASSUME NEW identity \in Identities, Patch(a, identity) PROVE OwnDocument(a)'
  BY <1>19 DEF Patch
<1>20. ASSUME NEW selfie \in BOOLEAN, request_resubmission(a, selfie) PROVE
           OwnDocument(a)'
  BY <1>20 DEF request_resubmission, Supersede, NoFindings, NoDocument
<1>21. CASE Submit(a)
  BY <1>21 DEF Submit, NoCheck
<1>22. CASE ResetAccount(a)
  BY <1>22 DEF ResetAccount, Supersede, NoFindings, NoDocument
<1>23. CASE Suspend(a)
  BY <1>23 DEF Suspend
<1> QED BY <1>1, <1>2, <1>3, <1>4, <1>5, <1>6, <1>7, <1>8, <1>9, <1>10, <1>11, <1>12,
           <1>13, <1>14, <1>15, <1>16, <1>17, <1>18, <1>19, <1>20, <1>21, <1>22, <1>23
       DEF Step, CheckStep, AccountRequest

LEMMA OwnFaceStep ==
  ASSUME Shapes, NEW a \in Accounts, Step(a), OwnRun(a), OwnFace(a)
  PROVE  OwnFace(a)'
<1> USE DEF Shapes, OwnRun, OwnFace, FaceClean, Settled, AtCheck
<1>1. CASE Load(a)
  BY <1>1 DEF Load, NoCheck
<1>2. CASE CompareIdentity(a)
  BY <1>2 DEF CompareIdentity, GoTo
<1>3. CASE FindIdentity(a)
  BY <1>3 DEF FindIdentity, GoTo
<1>4. ASSUME NEW number \in Numbers \cup {"none"}, NEW result \in {"pass", "fail"},
           ReadNumber(a, number, result) PROVE OwnFace(a)'
  BY <1>4 DEF ReadNumber, OcrOf
<1>5. CASE NothingRead(a)
  BY <1>5 DEF NothingRead, GoTo, OcrOf
<1>6. CASE CountNumber(a)
  BY <1>6 DEF CountNumber, GoTo
<1>7. CASE FindNumber(a)
  BY <1>7 DEF FindNumber, GoTo
<1>8. CASE StoreNumber(a)
  BY <1>8 DEF StoreNumber, GoTo
<1>9. ASSUME NEW live \in BOOLEAN, RecordLiveness(a, live) PROVE OwnFace(a)'
  BY <1>9 DEF RecordLiveness, GoTo
<1>10. ASSUME NEW selfie \in BOOLEAN, NoFace(a, selfie) PROVE OwnFace(a)'
  BY <1>10 DEF NoFace, GoTo
<1>11. CASE IndexFace(a)
  BY <1>11 DEF IndexFace, GoTo
<1>12. CASE SearchFace(a)
  BY <1>12 DEF SearchFace
<1>13. CASE FindFace(a)
  BY <1>13 DEF FindFace, GoTo
<1>14. ASSUME NEW approve \in BOOLEAN, Decide(a, approve) PROVE OwnFace(a)'
  BY <1>14 DEF Decide, Approvable
<1>15. CASE CommitDecision(a)
  BY <1>15 DEF CommitDecision, NoCheck
<1>16. CASE StepThrowsAt(a)
  BY <1>16 DEF StepThrowsAt, GoTo, WaveOf
<1>17. ASSUME NEW again \in BOOLEAN, CheckStops(a, again) PROVE OwnFace(a)'
  BY <1>17 DEF CheckStops, NoCheck
<1>18. ASSUME NEW number \in Numbers \cup {"none"}, NEW reuse \in BOOLEAN,
           Upload(a, number, reuse) PROVE OwnFace(a)'
  BY <1>18 DEF Upload
<1>19. ASSUME NEW identity \in Identities, Patch(a, identity) PROVE OwnFace(a)'
  BY <1>19 DEF Patch
<1>20. ASSUME NEW selfie \in BOOLEAN, request_resubmission(a, selfie) PROVE
           OwnFace(a)'
  BY <1>20 DEF request_resubmission, Supersede, NoFindings, NoDocument
<1>21. CASE Submit(a)
  BY <1>21 DEF Submit, NoCheck
<1>22. CASE ResetAccount(a)
  BY <1>22 DEF ResetAccount, Supersede, NoFindings, NoDocument
<1>23. CASE Suspend(a)
  BY <1>23 DEF Suspend
<1> QED BY <1>1, <1>2, <1>3, <1>4, <1>5, <1>6, <1>7, <1>8, <1>9, <1>10, <1>11, <1>12,
           <1>13, <1>14, <1>15, <1>16, <1>17, <1>18, <1>19, <1>20, <1>21, <1>22, <1>23
       DEF Step, CheckStep, AccountRequest

LEMMA OwnNumberStep ==
  ASSUME Shapes, NEW a \in Accounts, Step(a), OwnRun(a), OwnDocument(a), OwnNumber(a)
  PROVE  OwnNumber(a)'
<1> USE
     DEF Shapes, OwnRun, OwnDocument, OwnNumber, StoredNumber, Settled, HasRead, Running,
         AtCheck
<1>1. CASE Load(a)
  BY <1>1 DEF Load, NoCheck
<1>2. CASE CompareIdentity(a)
  BY <1>2 DEF CompareIdentity, GoTo
<1>3. CASE FindIdentity(a)
  BY <1>3 DEF FindIdentity, GoTo
<1>4. ASSUME NEW number \in Numbers \cup {"none"}, NEW result \in {"pass", "fail"},
           ReadNumber(a, number, result) PROVE OwnNumber(a)'
  BY <1>4 DEF ReadNumber, OcrOf
<1>5. CASE NothingRead(a)
  BY <1>5 DEF NothingRead, GoTo, OcrOf
<1>6. CASE CountNumber(a)
  BY <1>6 DEF CountNumber, GoTo
<1>7. CASE FindNumber(a)
  BY <1>7 DEF FindNumber, GoTo
<1>8. CASE StoreNumber(a)
  BY <1>8 DEF StoreNumber, GoTo
<1>9. ASSUME NEW live \in BOOLEAN, RecordLiveness(a, live) PROVE OwnNumber(a)'
  BY <1>9 DEF RecordLiveness, GoTo
<1>10. ASSUME NEW selfie \in BOOLEAN, NoFace(a, selfie) PROVE OwnNumber(a)'
  BY <1>10 DEF NoFace, GoTo
<1>11. CASE IndexFace(a)
  BY <1>11 DEF IndexFace, GoTo
<1>12. CASE SearchFace(a)
  BY <1>12 DEF SearchFace
<1>13. CASE FindFace(a)
  BY <1>13 DEF FindFace, GoTo
<1>14. ASSUME NEW approve \in BOOLEAN, Decide(a, approve) PROVE OwnNumber(a)'
  BY <1>14 DEF Decide, Approvable
<1>15. CASE CommitDecision(a)
  BY <1>15 DEF CommitDecision, NoCheck
<1>16. CASE StepThrowsAt(a)
  BY <1>16 DEF StepThrowsAt, GoTo, WaveOf
<1>17. ASSUME NEW again \in BOOLEAN, CheckStops(a, again) PROVE OwnNumber(a)'
  BY <1>17 DEF CheckStops, NoCheck
<1>18. ASSUME NEW number \in Numbers \cup {"none"}, NEW reuse \in BOOLEAN,
           Upload(a, number, reuse) PROVE OwnNumber(a)'
  BY <1>18 DEF Upload
<1>19. ASSUME NEW identity \in Identities, Patch(a, identity) PROVE OwnNumber(a)'
  BY <1>19 DEF Patch
<1>20. ASSUME NEW selfie \in BOOLEAN, request_resubmission(a, selfie) PROVE
           OwnNumber(a)'
  BY <1>20 DEF request_resubmission, Supersede, NoFindings, NoDocument
<1>21. CASE Submit(a)
  BY <1>21 DEF Submit, NoCheck
<1>22. CASE ResetAccount(a)
  BY <1>22 DEF ResetAccount, Supersede, NoFindings, NoDocument
<1>23. CASE Suspend(a)
  BY <1>23 DEF Suspend
<1> QED BY <1>1, <1>2, <1>3, <1>4, <1>5, <1>6, <1>7, <1>8, <1>9, <1>10, <1>11, <1>12,
           <1>13, <1>14, <1>15, <1>16, <1>17, <1>18, <1>19, <1>20, <1>21, <1>22, <1>23
       DEF Step, CheckStep, AccountRequest

\* Only the look at the index makes a face clean, while the fingerprint stays.
FaceWasClean(a) ==
  FaceClean(a) /\ ~moved[a] /\ account'[a].fingerprint = account[a].fingerprint

LEMMA FaceCleaned ==
  ASSUME Shapes, NEW a \in Accounts, Step(a), OwnRun(a), FaceClean(a)', ~moved'[a],
         ~SearchFace(a)
  PROVE  FaceWasClean(a)
<1> USE DEF Shapes, OwnRun, Running, FaceWasClean, FaceClean, Settled, AtCheck
<1>1. CASE Load(a)
  BY <1>1 DEF Load, NoCheck
<1>2. CASE CompareIdentity(a)
  BY <1>2 DEF CompareIdentity, GoTo
<1>3. CASE FindIdentity(a)
  BY <1>3 DEF FindIdentity, GoTo
<1>4. ASSUME NEW number \in Numbers \cup {"none"}, NEW result \in {"pass", "fail"},
           ReadNumber(a, number, result) PROVE FaceWasClean(a)
  BY <1>4 DEF ReadNumber, OcrOf
<1>5. CASE NothingRead(a)
  BY <1>5 DEF NothingRead, GoTo, OcrOf
<1>6. CASE CountNumber(a)
  BY <1>6 DEF CountNumber, GoTo
<1>7. CASE FindNumber(a)
  BY <1>7 DEF FindNumber, GoTo
<1>8. CASE StoreNumber(a)
  BY <1>8 DEF StoreNumber, GoTo
<1>9. ASSUME NEW live \in BOOLEAN, RecordLiveness(a, live) PROVE FaceWasClean(a)
  BY <1>9 DEF RecordLiveness, GoTo
<1>10. ASSUME NEW selfie \in BOOLEAN, NoFace(a, selfie) PROVE FaceWasClean(a)
  BY <1>10 DEF NoFace, GoTo
<1>11. CASE IndexFace(a)
  BY <1>11 DEF IndexFace, GoTo
<1>12. CASE FindFace(a)
  BY <1>12 DEF FindFace, GoTo
<1>13. ASSUME NEW approve \in BOOLEAN, Decide(a, approve) PROVE FaceWasClean(a)
  BY <1>13 DEF Decide, Approvable
<1>14. CASE CommitDecision(a)
  BY <1>14 DEF CommitDecision, NoCheck
<1>15. CASE StepThrowsAt(a)
  BY <1>15 DEF StepThrowsAt, GoTo, WaveOf
<1>16. ASSUME NEW again \in BOOLEAN, CheckStops(a, again) PROVE FaceWasClean(a)
  BY <1>16 DEF CheckStops, NoCheck
<1>17. ASSUME NEW number \in Numbers \cup {"none"}, NEW reuse \in BOOLEAN,
           Upload(a, number, reuse) PROVE FaceWasClean(a)
  BY <1>17 DEF Upload
<1>18. ASSUME NEW identity \in Identities, Patch(a, identity) PROVE FaceWasClean(a)
  BY <1>18 DEF Patch
<1>19. ASSUME NEW selfie \in BOOLEAN, request_resubmission(a, selfie) PROVE
           FaceWasClean(a)
  BY <1>19 DEF request_resubmission, Supersede, NoFindings, NoDocument
<1>20. CASE Submit(a)
  BY <1>20 DEF Submit, NoCheck
<1>21. CASE ResetAccount(a)
  BY <1>21 DEF ResetAccount, Supersede, NoFindings, NoDocument
<1>22. CASE Suspend(a)
  BY <1>22 DEF Suspend
<1> QED BY <1>1, <1>2, <1>3, <1>4, <1>5, <1>6, <1>7, <1>8, <1>9, <1>10, <1>11, <1>12,
           <1>13, <1>14, <1>15, <1>16, <1>17, <1>18, <1>19, <1>20, <1>21, <1>22
       DEF Step, CheckStep, AccountRequest

\* Only the look at the other applicants makes an identity clean.
IdentityWasClean(a) ==
  IdentityClean(a) /\ ~moved[a] /\ account'[a].fingerprint = account[a].fingerprint

LEMMA IdentityCleaned ==
  ASSUME Shapes, NEW a \in Accounts, Step(a), OwnRun(a), OwnDocument(a),
         IdentityClean(a)', ~moved'[a], ~CompareIdentity(a)
  PROVE  IdentityWasClean(a)
<1> USE DEF Shapes, OwnRun, OwnDocument, Running, Newest, HasRead, IdentityWasClean,
            IdentityClean, Settled, AtCheck
<1>1. CASE Load(a)
  BY <1>1 DEF Load, NoCheck
<1>2. CASE FindIdentity(a)
  BY <1>2 DEF FindIdentity, GoTo
<1>3. ASSUME NEW number \in Numbers \cup {"none"}, NEW result \in {"pass", "fail"},
           ReadNumber(a, number, result) PROVE IdentityWasClean(a)
  BY <1>3 DEF ReadNumber, OcrOf
<1>4. CASE NothingRead(a)
  BY <1>4 DEF NothingRead, GoTo, OcrOf
<1>5. CASE CountNumber(a)
  BY <1>5 DEF CountNumber, GoTo
<1>6. CASE FindNumber(a)
  BY <1>6 DEF FindNumber, GoTo
<1>7. CASE StoreNumber(a)
  BY <1>7 DEF StoreNumber, GoTo
<1>8. ASSUME NEW live \in BOOLEAN, RecordLiveness(a, live) PROVE IdentityWasClean(a)
  BY <1>8 DEF RecordLiveness, GoTo
<1>9. ASSUME NEW selfie \in BOOLEAN, NoFace(a, selfie) PROVE IdentityWasClean(a)
  BY <1>9 DEF NoFace, GoTo
<1>10. CASE IndexFace(a)
  BY <1>10 DEF IndexFace, GoTo
<1>11. CASE SearchFace(a)
  BY <1>11 DEF SearchFace
<1>12. CASE FindFace(a)
  BY <1>12 DEF FindFace, GoTo
<1>13. ASSUME NEW approve \in BOOLEAN, Decide(a, approve) PROVE IdentityWasClean(a)
  BY <1>13 DEF Decide, Approvable
<1>14. CASE CommitDecision(a)
  BY <1>14 DEF CommitDecision, NoCheck
<1>15. CASE StepThrowsAt(a)
  BY <1>15 DEF StepThrowsAt, GoTo, WaveOf
<1>16. ASSUME NEW again \in BOOLEAN, CheckStops(a, again) PROVE IdentityWasClean(a)
  BY <1>16 DEF CheckStops, NoCheck
<1>17. ASSUME NEW number \in Numbers \cup {"none"}, NEW reuse \in BOOLEAN,
           Upload(a, number, reuse) PROVE IdentityWasClean(a)
  BY <1>17 DEF Upload
<1>18. ASSUME NEW identity \in Identities, Patch(a, identity) PROVE
           IdentityWasClean(a)
  BY <1>18 DEF Patch
<1>19. ASSUME NEW selfie \in BOOLEAN, request_resubmission(a, selfie) PROVE
           IdentityWasClean(a)
  BY <1>19 DEF request_resubmission, Supersede, NoFindings, NoDocument
<1>20. CASE Submit(a)
  BY <1>20 DEF Submit, NoCheck
<1>21. CASE ResetAccount(a)
  BY <1>21 DEF ResetAccount, Supersede, NoFindings, NoDocument
<1>22. CASE Suspend(a)
  BY <1>22 DEF Suspend
<1> QED BY <1>1, <1>2, <1>3, <1>4, <1>5, <1>6, <1>7, <1>8, <1>9, <1>10, <1>11, <1>12,
           <1>13, <1>14, <1>15, <1>16, <1>17, <1>18, <1>19, <1>20, <1>21, <1>22
       DEF Step, CheckStep, AccountRequest

\* Only storing a number makes it stored,
LEMMA NumberStored ==
  ASSUME Shapes, NEW a \in Accounts, Step(a), OwnRun(a), StoredNumber(a)',
         lastNumber'[a] # "none", ~StoreNumber(a)
  PROVE  StoredNumber(a) /\ lastNumber'[a] = lastNumber[a]
<1> DEFINE Was == StoredNumber(a) /\ lastNumber'[a] = lastNumber[a]
<1> USE DEF Shapes, OwnRun, HasRead, StoredNumber, Settled, AtCheck
<1>1. CASE Load(a)
  BY <1>1 DEF Load, NoCheck
<1>2. CASE CompareIdentity(a)
  BY <1>2 DEF CompareIdentity, GoTo
<1>3. CASE FindIdentity(a)
  BY <1>3 DEF FindIdentity, GoTo
<1>4. ASSUME NEW number \in Numbers \cup {"none"}, NEW result \in {"pass", "fail"},
           ReadNumber(a, number, result) PROVE Was
  BY <1>4 DEF ReadNumber, OcrOf
<1>5. CASE NothingRead(a)
  BY <1>5 DEF NothingRead, GoTo, OcrOf
<1>6. CASE CountNumber(a)
  BY <1>6 DEF CountNumber, GoTo
<1>7. CASE FindNumber(a)
  BY <1>7 DEF FindNumber, GoTo
<1>8. ASSUME NEW live \in BOOLEAN, RecordLiveness(a, live) PROVE Was
  BY <1>8 DEF RecordLiveness, GoTo
<1>9. ASSUME NEW selfie \in BOOLEAN, NoFace(a, selfie) PROVE Was
  BY <1>9 DEF NoFace, GoTo
<1>10. CASE IndexFace(a)
  BY <1>10 DEF IndexFace, GoTo
<1>11. CASE SearchFace(a)
  BY <1>11 DEF SearchFace
<1>12. CASE FindFace(a)
  BY <1>12 DEF FindFace, GoTo
<1>13. ASSUME NEW approve \in BOOLEAN, Decide(a, approve) PROVE Was
  BY <1>13 DEF Decide, Approvable
<1>14. CASE CommitDecision(a)
  BY <1>14 DEF CommitDecision, NoCheck
<1>15. CASE StepThrowsAt(a)
  BY <1>15 DEF StepThrowsAt, GoTo, WaveOf
<1>16. ASSUME NEW again \in BOOLEAN, CheckStops(a, again) PROVE Was
  BY <1>16 DEF CheckStops, NoCheck
<1>17. ASSUME NEW number \in Numbers \cup {"none"}, NEW reuse \in BOOLEAN,
           Upload(a, number, reuse) PROVE Was
  BY <1>17 DEF Upload
<1>18. ASSUME NEW identity \in Identities, Patch(a, identity) PROVE Was
  BY <1>18 DEF Patch
<1>19. ASSUME NEW selfie \in BOOLEAN, request_resubmission(a, selfie) PROVE Was
  BY <1>19 DEF request_resubmission, Supersede, NoFindings, NoDocument
<1>20. CASE Submit(a)
  BY <1>20 DEF Submit, NoCheck
<1>21. CASE ResetAccount(a)
  BY <1>21 DEF ResetAccount, Supersede, NoFindings, NoDocument
<1>22. CASE Suspend(a)
  BY <1>22 DEF Suspend
<1> QED BY <1>1, <1>2, <1>3, <1>4, <1>5, <1>6, <1>7, <1>8, <1>9, <1>10, <1>11, <1>12,
           <1>13, <1>14, <1>15, <1>16, <1>17, <1>18, <1>19, <1>20, <1>21, <1>22
       DEF Step, CheckStep, AccountRequest

\* and only a count that finds nobody leads there.
LEMMA NumberStoring ==
  ASSUME Shapes, NEW a \in Accounts, Step(a), OwnRun(a), OwnDocument(a), OwnNumber(a),
         Storing(a)', ~CountNumber(a)
  PROVE  Storing(a) /\ lastNumber'[a] = lastNumber[a]
<1> DEFINE Was == Storing(a) /\ lastNumber'[a] = lastNumber[a]
<1> USE
     DEF Shapes, OwnRun, OwnDocument, OwnNumber, Running, Newest, HasRead, Storing,
         AtCheck
<1>1. CASE Load(a)
  BY <1>1 DEF Load, NoCheck
<1>2. CASE CompareIdentity(a)
  BY <1>2 DEF CompareIdentity, GoTo
<1>3. CASE FindIdentity(a)
  BY <1>3 DEF FindIdentity, GoTo
<1>4. ASSUME NEW number \in Numbers \cup {"none"}, NEW result \in {"pass", "fail"},
           ReadNumber(a, number, result) PROVE Was
  BY <1>4 DEF ReadNumber, OcrOf
<1>5. CASE NothingRead(a)
  BY <1>5 DEF NothingRead, GoTo, OcrOf
<1>6. CASE FindNumber(a)
  <2>1. check[a].pc = "sameNumber"
    BY <1>6 DEF FindNumber
  <2>2. check[a].doc.id > gone[a] => findings'[a].numbers # {}
    BY <1>6 DEF FindNumber
  <2>3. ~(check[a].doc.id > gone[a]) => findings' = findings
    BY <1>6 DEF FindNumber
  <2>4. PICK d \in DocIds : findings'[a].ocr[d] # "none"
    BY DEF Storing, HasRead
  <2>5. ~(check[a].doc.id > gone[a]) => FALSE
    BY <2>1, <2>3, <2>4 DEF DocIds
  <2> QED BY <2>2, <2>5
<1>7. CASE StoreNumber(a)
  BY <1>7 DEF StoreNumber, GoTo
<1>8. ASSUME NEW live \in BOOLEAN, RecordLiveness(a, live) PROVE Was
  BY <1>8 DEF RecordLiveness, GoTo
<1>9. ASSUME NEW selfie \in BOOLEAN, NoFace(a, selfie) PROVE Was
  BY <1>9 DEF NoFace, GoTo
<1>10. CASE IndexFace(a)
  BY <1>10 DEF IndexFace, GoTo
<1>11. CASE SearchFace(a)
  BY <1>11 DEF SearchFace
<1>12. CASE FindFace(a)
  BY <1>12 DEF FindFace, GoTo
<1>13. ASSUME NEW approve \in BOOLEAN, Decide(a, approve) PROVE Was
  BY <1>13 DEF Decide
<1>14. CASE CommitDecision(a)
  BY <1>14 DEF CommitDecision, NoCheck
<1>15. CASE StepThrowsAt(a)
  BY <1>15 DEF StepThrowsAt, GoTo, WaveOf
<1>16. ASSUME NEW again \in BOOLEAN, CheckStops(a, again) PROVE Was
  BY <1>16 DEF CheckStops, NoCheck
<1>17. ASSUME NEW number \in Numbers \cup {"none"}, NEW reuse \in BOOLEAN,
           Upload(a, number, reuse) PROVE Was
  BY <1>17 DEF Upload
<1>18. ASSUME NEW identity \in Identities, Patch(a, identity) PROVE Was
  BY <1>18 DEF Patch
<1>19. ASSUME NEW selfie \in BOOLEAN, request_resubmission(a, selfie) PROVE Was
  BY <1>19 DEF request_resubmission, Supersede, NoFindings, NoDocument
<1>20. CASE Submit(a)
  BY <1>20 DEF Submit, NoCheck
<1>21. CASE ResetAccount(a)
  BY <1>21 DEF ResetAccount, Supersede, NoFindings, NoDocument
<1>22. CASE Suspend(a)
  BY <1>22 DEF Suspend
<1> QED BY <1>1, <1>2, <1>3, <1>4, <1>5, <1>6, <1>7, <1>8, <1>9, <1>10, <1>11, <1>12,
           <1>13, <1>14, <1>15, <1>16, <1>17, <1>18, <1>19, <1>20, <1>21, <1>22
       DEF Step, CheckStep, AccountRequest

\* What a step of one of two applicants does to the pair.
LEMMA FacePairStep ==
  ASSUME DupInv, NEW a \in Accounts, Step(a), NEW b \in Accounts \ {a}
  PROVE  FacePair(a, b)'
<1> SUFFICES ASSUME FaceClean(a)', FaceClean(b)', ~moved'[a], ~moved'[b],
                    person'[a].face = person'[b].face
             PROVE  account'[a].fingerprint = account'[b].fingerprint
  BY DEF FacePair
<1>1. Same(b) /\ person' = person
  BY OthersStay, SharedGrows DEF DupInv
<1>2. FaceClean(b) /\ ~moved[b] /\ account'[b].fingerprint = account[b].fingerprint
  BY <1>1 DEF Same, FaceClean, Settled
<1>3. CASE FaceWasClean(a)
  BY <1>1, <1>2, <1>3 DEF DupInv, FacePair, FaceWasClean
<1>4. CASE SearchFace(a)
  <2>1. b \in faceIndex \ {a} /\ person[b].face = person[a].face
    BY <1>1, <1>2 DEF DupInv, OwnFace
  <2>2. check[a].fingerprint = account[b].fingerprint
    BY <1>4, <2>1 DEF SearchFace, AtCheck, FaceClean, Settled, DupInv, Shapes, OwnRun
  <2>3. moved'[a] = moved[a] /\ account'[a] = account[a] /\ check[a].pc = "search"
    BY <1>4 DEF SearchFace, AtCheck
  <2> QED BY <1>2, <2>2, <2>3 DEF DupInv, OwnRun, Running
<1> QED BY <1>3, <1>4, FaceCleaned DEF DupInv

LEMMA IdentityPairStep ==
  ASSUME DupInv, NEW a \in Accounts, Step(a), NEW b \in Accounts \ {a}
  PROVE  IdentityPair(a, b)'
<1> SUFFICES ASSUME IdentityClean(a)', IdentityClean(b)', ~moved'[a], ~moved'[b],
                    person'[a].tenant = person'[b].tenant,
                    account'[a].fingerprint = account'[b].fingerprint
             PROVE  account'[a].fingerprint = "none"
  BY DEF IdentityPair
<1>1. Same(b) /\ person' = person
  BY OthersStay, SharedGrows DEF DupInv
<1>2. IdentityClean(b) /\ ~moved[b] /\ account'[b].fingerprint = account[b].fingerprint
  BY <1>1 DEF Same, IdentityClean, Settled, HasRead
<1>3. CASE IdentityWasClean(a)
  BY <1>1, <1>2, <1>3 DEF DupInv, IdentityPair, IdentityWasClean
<1>4. CASE CompareIdentity(a)
  <2>1. moved'[a] = moved[a] /\ account'[a] = account[a] /\ check[a].pc = "identity"
    BY <1>4 DEF CompareIdentity, AtCheck
  <2>2. b \in Others(a) /\ account[b].fingerprint = check[a].fingerprint
    BY <1>1, <1>2, <2>1 DEF Others, DupInv, OwnRun, Running
  <2>3. check'[a].pc = "ocr" /\ account'[a].approved = account[a].approved
    BY <1>4, <2>1
         DEF CompareIdentity, GoTo, IdentityClean, Settled, DupInv, Shapes, OwnRun
  <2>4. check[a].fingerprint = "none"
    BY <1>4, <2>2, <2>3 DEF CompareIdentity, GoTo, DupInv, Shapes
  <2> QED BY <1>2, <2>1, <2>2, <2>4
<1> QED BY <1>3, <1>4, IdentityCleaned DEF DupInv

LEMMA NumberPairStep ==
  ASSUME DupInv, NEW a \in Accounts, Step(a), NEW b \in Accounts \ {a}
  PROVE  NumberPair(a, b)' /\ NumberPair(b, a)'
<1> SUFFICES ASSUME \/ StoredNumber(a)' /\ (StoredNumber(b)' \/ Storing(b)')
                    \/ Storing(a)' /\ StoredNumber(b)',
                    person'[a].tenant = person'[b].tenant,
                    lastNumber'[a] = lastNumber'[b], lastNumber'[a] # "none"
             PROVE  {a, b} \in overlapped'
  <2>1. {a, b} = {b, a}
    OBVIOUS
  <2> QED BY <2>1 DEF NumberPair
<1>1. Same(b) /\ person' = person /\ lastNumber'[b] = lastNumber[b]
  BY OthersStay, SharedGrows DEF DupInv, Same
<1>2. (StoredNumber(b)' => StoredNumber(b)) /\ (Storing(b)' => Storing(b))
  BY <1>1 DEF Same, StoredNumber, Storing, Settled, HasRead
<1>3. CASE StoreNumber(a)
  <2>1. ~Storing(a)' /\ StoredNumber(a)'
    BY <1>3 DEF StoreNumber, GoTo, Storing, DupInv, Shapes
  <2>2. Storing(a) /\ lastNumber'[a] = lastNumber[a] /\ overlapped \subseteq overlapped'
    BY <1>3, <2>1
       DEF StoreNumber, GoTo, AtCheck, Storing, StoredNumber, Settled, HasRead, DupInv, Shapes,
           OwnRun
  <2>3. CASE StoredNumber(b)
    <3>1. NumberPair(b, a) /\ {a, b} = {b, a}
      BY DEF DupInv
    <3> QED BY <1>1, <2>2, <2>3, <3>1 DEF NumberPair
  <2>4. CASE Storing(b)
    <3>1. check[b].pc = "store" /\ check[b].number = check[a].number
      BY <1>1, <2>2, <2>4 DEF Storing, DupInv, OwnNumber
    <3> QED BY <1>3, <3>1 DEF StoreNumber
  <2> QED BY <1>2, <2>1, <2>3, <2>4
<1>4. CASE CountNumber(a)
  <2>1. check[a].pc = "count" /\ lastNumber'[a] = lastNumber[a] /\ ~StoredNumber(a)'
    BY <1>4 DEF CountNumber, GoTo, AtCheck, StoredNumber, Settled, DupInv, Shapes, OwnRun
  <2>2. StoredNumber(b) /\ check'[a].pc = "store"
    BY <1>2, <2>1 DEF Storing
  <2>3. b \in Others(a) /\ account[b].docNumberHash = check[a].number
    BY <1>1, <2>1, <2>2 DEF Others, DupInv, OwnNumber
  <2> QED BY <1>4, <2>2, <2>3 DEF CountNumber, GoTo, DupInv, Shapes
<1>5. CASE ~StoreNumber(a) /\ ~CountNumber(a)
  <2>1. StoredNumber(a)' => StoredNumber(a) /\ lastNumber'[a] = lastNumber[a]
    BY <1>5, NumberStored DEF DupInv
  <2>2. Storing(a)' => Storing(a) /\ lastNumber'[a] = lastNumber[a]
    BY <1>5, NumberStoring DEF DupInv
  <2>3. NumberPair(a, b) /\ NumberPair(b, a) /\ {a, b} = {b, a}
    BY DEF DupInv
  <2>4. {a, b} \in overlapped
    BY <1>1, <1>2, <2>1, <2>2, <2>3 DEF NumberPair
  <2> QED BY <1>5, <2>4, SharedGrows DEF DupInv
<1> QED BY <1>3, <1>4, <1>5

\* The invariant holds at first and is kept.
LEMMA InitNoticed == DupInit => DupInv
<1> SUFFICES ASSUME DupInit PROVE DupInv
  OBVIOUS
<1>1. ASSUME NEW a \in Accounts
      PROVE  /\ account[a].approved = FALSE /\ check[a].pc = "idle"
             /\ document[a].id = 1 /\ gone[a] = 0
             /\ \A d \in DocIds : findings[a].ocr[d] = "none"
  BY DEF DupInit, NoCheck, NoFindings
<1>2. \A a \in Accounts : ~FaceClean(a) /\ ~IdentityClean(a) /\ ~StoredNumber(a)
  BY <1>1 DEF FaceClean, IdentityClean, StoredNumber, Settled
<1>3. \A a \in Accounts : OwnRun(a) /\ OwnNumber(a) /\ OwnFace(a)
  BY <1>1, <1>2 DEF OwnRun, OwnNumber, OwnFace, Running
<1>4. ASSUME NEW a \in Accounts PROVE OwnDocument(a)
  <2>1. document[a].id = 1 /\ gone[a] = 0 /\ ~Running(a)
    BY <1>1 DEF Running
  <2>2. \A d \in DocIds : findings[a].ocr[d] = "none"
    BY <1>1
  <2> QED BY <2>1, <2>2 DEF OwnDocument
<1> QED BY <1>2, <1>3, <1>4, InitShapes
        DEF DupInv, FacePair, IdentityPair, NumberPair

LEMMA StepNoticed == DupInv /\ [DupNext]_dupVars => DupInv'
<1> SUFFICES ASSUME DupInv, [DupNext]_dupVars PROVE DupInv'
  OBVIOUS
<1>1. CASE UNCHANGED dupVars
  <2> USE <1>1 DEF dupVars
  <2>1. Shapes'
    BY DEF DupInv, Shapes
  <2>2. \A a \in Accounts : OwnRun(a)' /\ OwnDocument(a)'
    BY DEF DupInv, OwnRun, OwnDocument, Running, Newest
  <2>3. \A a \in Accounts : OwnNumber(a)' /\ OwnFace(a)'
    BY DEF DupInv, OwnNumber, OwnFace, StoredNumber, FaceClean, Settled, HasRead
  <2>4. \A a, b \in Accounts : a # b => FacePair(a, b)' /\ IdentityPair(a, b)'
    BY DEF DupInv, FacePair, IdentityPair, FaceClean, IdentityClean, Settled, HasRead
  <2>5. \A a, b \in Accounts : a # b => NumberPair(a, b)'
    BY DEF DupInv, NumberPair, StoredNumber, Storing, Settled, HasRead
  <2> QED BY <2>1, <2>2, <2>3, <2>4, <2>5 DEF DupInv
<1>2. ASSUME NEW a \in Accounts, Step(a) PROVE DupInv'
  <2>1. Shapes'
    BY <1>2, StepShapes DEF DupInv
  <2>2. ASSUME NEW b \in Accounts
        PROVE  OwnRun(b)' /\ OwnDocument(b)' /\ OwnNumber(b)' /\ OwnFace(b)'
    <3>1. CASE b = a
      BY <1>2, <3>1, OwnRunStep, OwnDocumentStep, OwnNumberStep, OwnFaceStep DEF DupInv
    <3>2. CASE b # a
      <4>1. Same(b) /\ faceIndex \subseteq faceIndex'
        BY <1>2, <3>2, OthersStay, SharedGrows DEF DupInv
      <4>2. OwnRun(b)' /\ OwnDocument(b)'
        BY <4>1 DEF DupInv, Same, OwnRun, OwnDocument, Running, Newest
      <4>3. OwnNumber(b)'
        BY <4>1 DEF DupInv, Same, OwnNumber, StoredNumber, Settled, HasRead
      <4>4. OwnFace(b)'
        BY <4>1 DEF DupInv, Same, OwnFace, FaceClean, Settled
      <4> QED BY <4>2, <4>3, <4>4
    <3> QED BY <3>1, <3>2
  <2>3. ASSUME NEW b \in Accounts, NEW c \in Accounts, b # c
        PROVE  FacePair(b, c)' /\ IdentityPair(b, c)' /\ NumberPair(b, c)'
    <3>1. CASE b = a
      BY <1>2, <2>3, <3>1, FacePairStep, IdentityPairStep, NumberPairStep
    <3>2. CASE c = a
      <4>1. FacePair(c, b)' /\ IdentityPair(c, b)' /\ NumberPair(b, c)'
        BY <1>2, <2>3, <3>2, FacePairStep, IdentityPairStep, NumberPairStep
      <4> QED BY <4>1 DEF FacePair, IdentityPair
    <3>3. CASE b # a /\ c # a
      <4>1. Same(b) /\ Same(c) /\ person' = person
        BY <1>2, <3>3, OthersStay, SharedGrows DEF DupInv
      <4>2. {b, c} \in overlapped => {b, c} \in overlapped'
        BY <1>2, <3>3, SharedGrows DEF DupInv
      <4>3. FacePair(b, c)'
        BY <2>3, <4>1 DEF DupInv, Same, FacePair, FaceClean, Settled
      <4>4. IdentityPair(b, c)'
        BY <2>3, <4>1 DEF DupInv, Same, IdentityPair, IdentityClean, Settled, HasRead
      <4>5. NumberPair(b, c)'
        BY <2>3, <4>1, <4>2
           DEF DupInv, Same, NumberPair, StoredNumber, Storing, Settled, HasRead
      <4> QED BY <4>3, <4>4, <4>5
    <3> QED BY <3>1, <3>2, <3>3
  <2> QED BY <2>1, <2>2, <2>3 DEF DupInv
<1> QED BY <1>1, <1>2 DEF DupNext, Step

THEOREM DuplicatesInvariant == DupSpec => []DupInv
  BY InitNoticed, StepNoticed, PTL DEF DupSpec

\* One face does not carry two names: of two runs that approve, whichever looks later
\* finds the other's face in the index.
THEOREM FacesNoticed == DupSpec => []SameFaceSameName
<1>1. DupInv => SameFaceSameName
  <2> SUFFICES ASSUME DupInv, NEW a \in Accounts, NEW b \in Accounts, BothApproved(a,
              b),
                      person[a].face = person[b].face, ~moved[a], ~moved[b]
               PROVE  account[a].fingerprint = account[b].fingerprint
    BY DEF SameFaceSameName
  <2>1. FaceClean(a) /\ FaceClean(b) /\ a # b
    BY DEF FaceClean, Settled, BothApproved
  <2> QED BY <2>1 DEF DupInv, FacePair
<1> QED BY <1>1, DuplicatesInvariant, PTL

\* Within a tenant an identity is not approved twice, and a document only by runs that
\* both looked its number up before either stored it.
THEOREM RepeatsNoticed == DupSpec => []RepeatIsNoticed
<1>1. DupInv => RepeatIsNoticed
  <2> SUFFICES ASSUME DupInv, NEW a \in Accounts, NEW b \in Accounts, BothApproved(a,
              b),
                      person[a].tenant = person[b].tenant
               PROVE  /\ account[a].fingerprint = account[b].fingerprint =>
                           account[a].fingerprint = "none" \/ moved[a] \/ moved[b]
                      /\ lastNumber[a] = lastNumber[b] =>
                           lastNumber[a] = "none" \/ {a, b} \in overlapped
    BY DEF RepeatIsNoticed
  <2>1. /\ a # b /\ IdentityClean(a) /\ IdentityClean(b)
        /\ StoredNumber(a) /\ StoredNumber(b)
    BY DEF IdentityClean, StoredNumber, Settled, BothApproved
  <2>2. IdentityPair(a, b) /\ NumberPair(a, b)
    BY <2>1 DEF DupInv
  <2> QED BY <2>1, <2>2 DEF IdentityPair, NumberPair
<1> QED BY <1>1, DuplicatesInvariant, PTL
==============================================================================
