----------------------------- MODULE Ownership -----------------------------
(* Who ultimately owns a company: resolveUbos and what is made of it         *)
(* (core/src/ubo.ts). What an edge holds is counted in thousandths, 1000 for *)
(* the whole; what is carried along a path in millionths, rounded down. An   *)
(* edge is a record of the company owned, its owner, a person or a company,  *)
(* and whether the holding is a nominee's.                                   *)
EXTENDS Integers, SequencesExt, FiniteSetsExt

CONSTANT Offshore   \* companies incorporated in a secrecy jurisdiction

Whole == 1000000    \* 100 percent, as carried

\* A voting percentage nobody declared.
Undeclared == -1

Edge(child, kind, owner, ownership, voting, nominee) ==
  [child |-> child, kind |-> kind, owner |-> owner, ownership |-> ownership,
   voting |-> voting, nominee |-> nominee]

EdgesOf(company, edges) == SelectSeq(edges, LAMBDA e : e.child = company)
declared(own)           == FoldLeft(LAMBDA sum, e : sum + e.ownership, 0, own)

Share(carried, mille)   == (carried * mille) \div 1000
votingOf(e)             == IF e.voting = Undeclared THEN e.ownership ELSE e.voting

\* What the walk comes to: a person, or ownership it could not follow further.
\* No more than a hundredth of a percent is nothing.
Person(e, share, voting, nominee, path) ==
  [kind |-> "person", who |-> e.owner, share |-> share, voting |-> voting,
   nominee |-> nominee, path |-> path]
recordUnresolved(company, share, path) ==
  IF share <= Whole \div 10000 THEN <<>>
  ELSE <<[kind |-> "unresolved", who |-> company, share |-> share, voting |-> 0,
          nominee |-> FALSE, path |-> path]>>
Circular(company, path) ==
  <<[kind |-> "cycle", who |-> company, share |-> 0, voting |-> 0,
     nominee |-> FALSE, path |-> path]>>
Layer(company, path) ==
  <<[kind |-> "layer", who |-> company, share |-> 0, voting |-> 0,
     nominee |-> FALSE, path |-> path]>>

\* Mutant: what a register leaves open is not recorded.
GapDropped(company, carried, own, path) == <<>>

\* What a register leaves open, unless it accounts for 99.5 percent.
Gap(company, carried, own, path) ==
  IF declared(own) >= 995 THEN <<>>
  ELSE recordUnresolved(company, Share(carried, 1000 - declared(own)), path)

\* The walk up from a company that is held for `carried` and `voting` of the
\* root. It visits no company twice on a path, and gives up at maxDepth.
RECURSIVE walk(_, _, _, _, _, _, _)
walk(company, carried, voting, path, nominee, maxDepth, edges) ==
  LET own  == EdgesOf(company, edges)
      here == Append(path, company)
      Owner(e) ==
        LET share   == Share(carried, e.ownership)
            votes   == Share(voting, votingOf(e))
            through == nominee \/ e.nominee
        IN IF share <= 0 THEN <<>>
           ELSE IF e.kind = "person"
           THEN <<Person(e, share, votes, through, here)>>
           ELSE IF e.owner \in ToSet(here)
           THEN Circular(e.owner, here) \o recordUnresolved(e.owner, share, here)
           ELSE walk(e.owner, share, votes, here, through, maxDepth, edges)
  IN Layer(company, path)
     \o IF Len(path) >= maxDepth \/ own = <<>>
        THEN recordUnresolved(company, carried, path)
        ELSE Gap(company, carried, own, path)
             \o FoldLeft(LAMBDA found, e : found \o Owner(e), <<>>, own)

Of(found, kind)  == SelectSeq(found, LAMBDA f : f.kind = kind)
Shares(found)    == FoldLeft(LAMBDA sum, f : sum + f.share, 0, found)
HeldBy(found, p) == SelectSeq(found, LAMBDA f : f.kind = "person" /\ f.who = p)

\* Mutant: only the largest of a person's holdings counts.
effectiveOfLargest(found, p) ==
  Max({0} \cup {f.share : f \in ToSet(HeldBy(found, p))})

\* A person's stakes along all paths add up; of the votes the largest counts.
effectivePercent(found, p) == Shares(HeldBy(found, p))
effectiveVotingPercent(found, p) ==
  Max({0} \cup {f.voting : f \in ToSet(HeldBy(found, p))})

\* The first company of a path is the customer and the second its owner; a
\* layer counts from the third.
resolveUbos(root, edges, threshold, maxDepth) ==
  LET found  == walk(root, Whole, Whole, <<>>, FALSE, maxDepth, edges)
      people == {f.who : f \in ToSet(Of(found, "person"))}
      Ubo(p) == \/ effectivePercent(found, p) >= threshold
                \/ effectiveVotingPercent(found, p) >= threshold
      walked  == {f.who : f \in {g \in ToSet(Of(found, "layer")) :
                                   Len(g.path) < maxDepth}}
  IN [found       |-> found,
      people      |-> people,
      ubos        |-> {p \in people : Ubo(p)},
      unresolved  |-> Shares(Of(found, "unresolved")),
      maxDepth    |-> Max({Len(f.path) : f \in ToSet(Of(found, "layer"))}),
      cycles      |-> Len(Of(found, "cycle")),
      offshoreLayerCount |->
        Cardinality({f.who : f \in {g \in ToSet(Of(found, "layer")) :
                                      Len(g.path) > 1}} \cap Offshore),
      hasNomineeShareholders |->
        \E c \in walked : \E e \in ToSet(EdgesOf(c, edges)) : e.nominee,
      rootDeclaredPercent |-> declared(EdgesOf(root, edges))]

\* The 50 percent rule adds up the stakes of all the listed persons.
sanctionedOwnershipPercent(resolution, listed) ==
  FoldSet(LAMBDA p, sum : sum + effectivePercent(resolution.found, p), 0,
          resolution.people \cap listed)

percent(amount) == amount \div (Whole \div 100)

\* The facts the rules of companies are evaluated on.
uboFacts(resolution, status, listed) ==
  "company.uboUnresolved" :> (percent(resolution.unresolved) >= 1)
    @@ "company.unresolvedOwnershipPercent" :> percent(resolution.unresolved)
    @@ "company.uboDepth" :> resolution.maxDepth
    @@ "company.offshoreLayerCount" :> resolution.offshoreLayerCount
    @@ "company.hasNomineeShareholders" :> resolution.hasNomineeShareholders
    @@ "company.sanctionedOwnershipPercent" :>
         percent(sanctionedOwnershipPercent(resolution, listed))
    @@ "company.status" :> status
=============================================================================
