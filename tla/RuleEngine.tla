----------------------------- MODULE RuleEngine -----------------------------
(* Evaluating a tenant's rules and summing up what they ask for (rules.ts).  *)
(* A rule that does not parse has wellFormed = FALSE.                        *)
EXTENDS Conditions, SequencesExt, FiniteSetsExt

Precedes(a, b) ==
  a.priority < b.priority \/ (a.priority = b.priority /\ a.name < b.name)

\* The rules an evaluation goes through: active, of a scope, in their order; those
\* of one priority and name as they come. A rule's place is the number before it.
Ordered(rules, scopes) ==
  LET eligible  == {i \in DOMAIN rules : rules[i].isActive /\ rules[i].scope \in scopes}
      Before(i) == {j \in eligible \ {i} :
                      \/ Precedes(rules[j], rules[i])
                      \/ j < i /\ ~Precedes(rules[i], rules[j])}
  IN [k \in 1..Cardinality(eligible) |->
        rules[CHOOSE i \in eligible : Cardinality(Before(i)) = k - 1]]

\* The facts, with what SET_FACT actions derive: the last of each name.
Derived(facts, actions) ==
  LET Setting == {i \in DOMAIN actions : actions[i].type = "SET_FACT"}
      names   == {actions[i].name : i \in Setting}
  IN [n \in DOMAIN facts \cup names |->
        IF n \in names THEN actions[Max({i \in Setting : actions[i].name = n})].value
        ELSE facts[n]]

\* One rule, on what the rules before it have left: whether it fires, and what it
\* adds to the working facts.
Applied(state, rule) ==
  LET fires == rule.wellFormed /\ evaluateCondition(rule.conditions, state.facts)
  IN [state EXCEPT !.fired = IF fires THEN Append(@, rule) ELSE @,
                   !.facts = IF ~fires \/ rule.isShadow THEN @
                             ELSE Derived(@, rule.actions)]

\* The rules that fire, and the facts with what SET_FACT has derived.
evaluateRules(ordered, facts) ==
  LET after[i \in 0..Len(ordered)] ==
        IF i = 0 THEN [fired |-> <<>>, facts |-> facts]
        ELSE Applied(after[i - 1], ordered[i])
  IN after[Len(ordered)]

\* What non-shadow rules ask for, in order.
ActionsOf(fired) ==
  LET acts[i \in 0..Len(fired)] ==
        IF i = 0 THEN <<>>
        ELSE acts[i - 1] \o (IF fired[i].isShadow THEN <<>> ELSE fired[i].actions)
  IN acts[Len(fired)]

\* The sum of ADD_RISK, kept within 0 and 100.
riskDelta(actions) ==
  LET sum[i \in 0..Len(actions)] ==
        IF i = 0 THEN 0
        ELSE sum[i - 1] + (IF actions[i].type = "ADD_RISK" THEN actions[i].value ELSE 0)
  IN Max({0, Min({100, sum[Len(actions)]})})

\* The summary a caller acts on. CREATE_CASE and NOTIFY_TEAM are not in it. A
\* rejection or a demand for a human takes back an approval.
summarizeActions(actions) ==
  LET Asked(types)  == \E i \in DOMAIN actions : actions[i].type \in types
      Values(types) == UNION {actions[i].value :
                         i \in {j \in DOMAIN actions : actions[j].type \in types}}
      queues   == SelectSeq(actions, LAMBDA a : a.type = "ASSIGN_QUEUE")
      edd      == Asked({"REQUIRE_EDD"})
      manual   == edd \/ Asked({"REQUIRE_MANUAL_REVIEW"})
      reject   == Asked({"AUTO_REJECT"})
  IN [autoReject           |-> reject,
      autoApprove          |-> Asked({"AUTO_APPROVE"}) /\ ~reject /\ ~manual,
      requiresManualReview |-> manual,
      requiresEdd          |-> edd,
      rejectLabels         |-> Values({"AUTO_REJECT", "ADD_REJECT_LABEL"}),
      queue                |-> IF queues = <<>> THEN "default"
                               ELSE Last(queues).value,
      blockTransaction     |-> Asked({"BLOCK_TRANSACTION", "HOLD_TRANSACTION"}),
      flagTransaction      |-> Asked({"FLAG_TRANSACTION"}),
      escalate             |-> Asked({"ESCALATE", "REQUIRE_HUMAN_HANDOFF"}),
      alerts               |-> {actions[i].value : i \in {j \in DOMAIN actions :
                                  actions[j].type = "CREATE_ALERT"}},
      enableMonitoring     |-> Asked({"ENABLE_ONGOING_MONITORING"})]
=============================================================================
