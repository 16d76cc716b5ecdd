-------------------------------- MODULE Kyb --------------------------------
(***************************************************************************)
(* Know-your-business: companies entered with what the registry says of    *)
(* them, ownership added by hand, and the resolution of who is behind a    *)
(* company (api/src/routes/kyb.ts). A request enters one shareholder at a  *)
(* time and may die between two, and a client may post it again.           *)
(***************************************************************************)
EXTENDS Ownership, RuleLibrary, RuleEngine

CONSTANTS
  Companies,     \* companies there are
  Persons,       \* natural persons
  Listed,        \* persons on a sanctions list
  ParentOf,      \* the company the registry may name as a company's owner
  Customers,     \* ids of the applicants that stand for companies
  Extracts,      \* what a registry may say of a company
  HandEdges,     \* holdings an agent may enter
  Depths,        \* depths a resolution may be asked for (6 unless it says)
  MaxPosts,      \* bound on requests to create a company
  MaxByHand      \* bound on edges entered by hand

ASSUME KybAssumption ==
  /\ Listed \subseteq Persons /\ ParentOf \in [Companies -> Companies]
  /\ \A e \in HandEdges : e.ownership \in 0..1000 /\ Depths \subseteq 1..6
  /\ MaxPosts \in Nat /\ MaxByHand \in Nat

VARIABLES
  companies,  \* the rows: status, officers entered, and what a resolution stored
  edges,      \* the ownership edges, oldest first
  applicants, \* the company each applicant stands for
  post,       \* the request under way that creates a company
  screened,   \* screening jobs enqueued
  posts,      \* requests made
  byHand      \* edges entered by hand

vars == <<companies, edges, applicants, post, screened, posts,
          byHand>>

NoCompany == "none"
NoRow     == [status |-> "none", officers |-> 0, uboUnresolved |-> FALSE,
              uboDepth |-> 0]
NewRow    == [NoRow EXCEPT !.status = "PENDING"]
NoPost    == [at |-> "idle", company |-> NoCompany, left |-> <<>>]
Entered   == {c \in Companies : companies[c] # NoRow}

Company(c, mille, nominee) == Edge(c, "company", ParentOf[c], mille, Undeclared, nominee)
Human(c, p, mille)         == Edge(c, "person", p, mille, Undeclared, FALSE)

\* The shareholders a registry names: a company that owns all and says no more,
\* a nominee beside a person, one owner, partners, or a holding company beside a
\* person; or fewer than there are.
buildShareholders(c, shape, p, q) ==
  CASE shape = "shell"    -> <<Company(c, 1000, FALSE)>>
    [] shape = "nominee"  -> <<Company(c, 600, TRUE), Human(c, p, 400)>>
    [] shape = "sole"     -> <<Human(c, p, 1000)>>
    [] shape = "partners" -> <<Human(c, p, 500), Human(c, q, 300), Human(c, p, 200)>>
    [] shape = "chain"    -> <<Company(c, 700, FALSE), Human(c, p, 300)>>
    [] shape = "partial"  -> <<Human(c, p, 400), Human(c, q, 400)>>

Extract(status, shape, p, q) ==
  [found |-> TRUE, status |-> status, shape |-> shape, first |-> p, second |-> q]
NotFound == [found |-> FALSE, status |-> "UNKNOWN", shape |-> "none",
             first |-> "nobody", second |-> "nobody"]

Init ==
  /\ companies = [c \in Companies |-> NoRow]
  /\ edges = <<>>
  /\ applicants = [a \in Customers |-> NoCompany]
  /\ post = NoPost
  /\ screened = {}
  /\ posts = 0 /\ byHand = 0

----------------------------------------------------------------------------
\* The company and its applicant are created, or found: an applicant that stood
\* for another company stands for this one from now on.
CreateCompany(c, a) ==
  /\ post = NoPost
  /\ posts < MaxPosts
  /\ posts' = posts + 1
  /\ companies' = [companies EXCEPT ![c] = IF @ = NoRow THEN NewRow ELSE @]
  /\ applicants' = [applicants EXCEPT ![a] = c]
  /\ post' = [at |-> "lookup", company |-> c, left |-> <<>>]
  /\ UNCHANGED <<edges, screened, byHand>>

\* The registry answers, or is out of service: then the row stays as declared.
LookUp(extract) ==
  LET c == post.company IN
    /\ post.at = "lookup"
    /\ IF extract.found
       THEN /\ companies' = [companies EXCEPT ![c].status = extract.status,
                                              ![c].officers = @ + 1]
            /\ post' = [post EXCEPT !.at = "holders", !.left =
                 buildShareholders(c, extract.shape, extract.first, extract.second)]
       ELSE /\ post' = [post EXCEPT !.at = "holders"]
            /\ UNCHANGED companies
    /\ UNCHANGED <<edges, applicants, screened, posts, byHand>>

\* A corporate shareholder is a company of its own, whose register nobody asks.
AddShareholder ==
  /\ post.at = "holders"
  /\ post.left # <<>>
  /\ LET e == Head(post.left) IN
       /\ edges' = Append(edges, e)
       /\ companies' =
            IF e.kind = "company" /\ companies[e.owner] = NoRow
            THEN [companies EXCEPT ![e.owner] = NewRow] ELSE companies
  /\ post' = [post EXCEPT !.left = Tail(@)]
  /\ UNCHANGED <<applicants, screened, posts, byHand>>

FinishPost ==
  /\ post.at = "holders"
  /\ post.left = <<>>
  /\ screened' = screened \cup {post.company}
  /\ post' = NoPost
  /\ UNCHANGED <<companies, edges, applicants, posts, byHand>>

\* The request dies; what it has written stays.
RequestDies ==
  /\ post # NoPost
  /\ post' = NoPost
  /\ UNCHANGED <<companies, edges, applicants, screened, posts, byHand>>

\* An agent enters a holding, of equity or of votes alone.
AddEdge(e) ==
  /\ e.child \in Entered
  /\ byHand < MaxByHand
  /\ byHand' = byHand + 1
  /\ edges' = Append(edges, e)
  /\ UNCHANGED <<companies, applicants, post, screened, posts>>

CompanyRules == Ordered(COMPANY_RULES, {"COMPANY"})

\* Who is behind a company, and what the rules make of it.
Assessment(c, threshold, maxDepth) ==
  LET resolution == resolveUbos(c, edges, threshold, maxDepth)
      facts == uboFacts(resolution, companies[c].status, Listed)
      hints == summarizeActions(ActionsOf(evaluateRules(CompanyRules, facts).fired))
  IN [resolution |-> resolution, facts |-> facts, autoReject |-> hints.autoReject,
      review |-> hints.requiresManualReview]

\* A resolution answers with its assessment, and stores two facts of the ownership.
Resolve(c, maxDepth) ==
  /\ c \in Entered
  /\ LET resolution == resolveUbos(c, edges, Whole \div 4, maxDepth) IN
       companies' = [companies EXCEPT
         ![c].uboUnresolved = percent(resolution.unresolved) >= 1,
         ![c].uboDepth = resolution.maxDepth]
  /\ UNCHANGED <<edges, applicants, post, screened, posts, byHand>>

Next ==
  \/ \E c \in Companies, a \in Customers : CreateCompany(c, a)
  \/ \E extract \in Extracts : LookUp(extract)
  \/ AddShareholder \/ FinishPost \/ RequestDies
  \/ \E e \in HandEdges : AddEdge(e)
  \/ \E c \in Companies : Resolve(c, 6)

Spec == Init /\ [][Next]_vars

----------------------------------------------------------------------------
(* What a person owns of a company, level by level from the bottom up.     *)

OwnedBy[n \in Nat, p \in Persons, c \in Companies] ==
  IF n = 0 THEN 0
  ELSE FoldLeft(LAMBDA sum, e :
         sum + (IF e.kind = "person"
                THEN IF e.owner = p THEN (Whole \div 1000) * e.ownership ELSE 0
                ELSE (OwnedBy[n - 1, p, e.owner] * e.ownership) \div 1000),
         0, EdgesOf(c, edges))

ListedOwn(n, c) == FoldSet(LAMBDA p, sum : sum + OwnedBy[n, p, c], 0, Listed)

TypeOK ==
  /\ \A c \in Companies :
       /\ companies[c].status \in {"none", "PENDING", "ACTIVE", "DISSOLVED"}
       /\ companies[c].officers \in 0..MaxPosts
       /\ companies[c].uboDepth \in 0..6
  /\ applicants \in [Customers -> Companies \cup {NoCompany}]
  /\ \A i \in DOMAIN edges : edges[i].ownership \in 0..1000 /\ edges[i].child \in Entered
  /\ screened \subseteq Entered

\* Little is dropped: whatever the registers say, in whatever order they were
\* entered, what the persons behind a company own and what is reported as unresolved
\* come to the whole, through gaps, circles and depth limits, but for what the walk
\* passes over: half a percent for each company on the way up (ubo.ts:155), and a
\* hundredth of a percent for each company walked or circle met (ubo.ts:211).
\* "Reported as unresolved rather than silently dropped" (ubo.ts:18) is true up to that.
LittleDropped ==
  \A c \in Entered, d \in Depths :
    LET found == walk(c, Whole, Whole, <<>>, FALSE, d, edges)
        small == Len(Of(found, "layer")) + Len(Of(found, "cycle"))
    IN Shares(Of(found, "person")) + Shares(Of(found, "unresolved")) >=
         Whole - d * (Whole \div 200) - small * (Whole \div 10000)

\* An assessment rejects a company whenever sanctioned persons own half of it,
\* however many they are and along however many paths; where a circle hides some of
\* it, the assessment asks for a person at least. What they own is counted down to
\* the depth the walk may go.
SanctionedHalfIsCaught ==
  \A c \in Entered, d \in Depths :
    LET assessed == Assessment(c, Whole \div 4, d) IN
      ListedOwn(d, c) >= Whole \div 2 =>
        \/ assessed.autoReject
        \/ assessed.review /\ assessed.resolution.cycles > 0

\* ubo.ts: "Control can arise from voting rights without matching equity, so either
\* route over the threshold makes someone a beneficial owner". Violated: a holding
\* of votes without equity is passed over by the walk.
ControllerIsUbo ==
  \A c \in Entered : \A e \in ToSet(EdgesOf(c, edges)) :
    e.kind = "person" /\ votingOf(e) >= 250 =>
      e.owner \in Assessment(c, Whole \div 4, 6).resolution.ubos
=============================================================================
