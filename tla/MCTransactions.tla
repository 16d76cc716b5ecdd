--------------------------- MODULE MCTransactions ---------------------------
(* Two systems that share nothing, checked in one run: the monitoring of   *)
(* what a client may report (Transactions), and applicants who are one     *)
(* person, or have one document, between them (Duplicates). The part a     *)
(* behaviour starts with, it stays with.                                   *)
EXTENDS Transactions, Duplicates

VARIABLE part

Transfer(at, direction, amount) ==
  [at |-> at, direction |-> direction, amount |-> amount, known |-> TRUE,
   country |-> "", wallet |-> "none"]
Out(at, amount) == Transfer(at, "OUTBOUND", amount)
In(at, amount)  == Transfer(at, "INBOUND", amount)

\* Four transfers just under the threshold; money in and straight out; a quiet
\* month and a spike; transfers to other countries; and to wallets.
Structuring == <<Out(0, 9000), Out(2, 9000), Out(4, 8500), Out(20, 9000)>>
PassThrough == <<In(30, 5000), Out(31, 4800)>>
Spike       == <<Out(0, 2900), Out(100, 9000), Out(101, 300)>>
Abroad      == <<[Out(0, 500) EXCEPT !.country = "PRK"],
                 [Out(1, 2000) EXCEPT !.country = "NGA"],
                 [Out(2, 100) EXCEPT !.known = FALSE]>>
OneWallet(w, amount) == <<[Out(0, amount) EXCEPT !.wallet = w], In(1, 100)>>

Scenario(about_, failures_, freezes_, deskWork_) ==
  [about |-> about_, failures |-> failures_, freezes |-> freezes_,
   deskWork |-> deskWork_]

MCScenarios ==
  {Scenario(Structuring, 0, 0, 0), Scenario(PassThrough, 0, 1, 0),
   Scenario(Spike, 0, 0, 0), Scenario(Abroad, 1, 0, 0),
   Scenario(OneWallet("mixer", 1500), 1, 1, 0),
   Scenario(OneWallet("sanctioned", 1500), 1, 0, 0),
   Scenario(OneWallet("far-mixer", 1500), 0, 0, 1),
   Scenario(OneWallet("clean", 12000), 1, 0, 0)}

\* What is interchangeable: nothing but membership and equality is asked of them.
MCSymmetry ==
  Permutations(Accounts) \cup Permutations(Identities) \cup
    Permutations(Faces) \cup Permutations(DupTenants)

\* Two strangers of two tenants have nothing to notice of each other.
MCRelated ==
  \A a, b \in Accounts : person[a].tenant = person[b].tenant
                         \/ person[a].face = person[b].face

\* Accounts nothing is going to happen to.
MCQuiet ==
  \A a, b \in Accounts :
    person[a] = person[b] /\ profile[a] = profile[b] /\ document[a].number = "none"

MCInit ==
  /\ part \in {"transfers", "accounts"}
  /\ Init /\ (part = "accounts" => about = PassThrough)
  /\ DupInit /\ (IF part = "accounts" THEN MCRelated ELSE MCQuiet)

MCNext ==
  /\ UNCHANGED part
  /\ \/ part = "transfers" /\ Next /\ UNCHANGED dupVars
     \/ part = "accounts" /\ DupNext /\ UNCHANGED vars

MCSpec == MCInit /\ [][MCNext]_<<part, vars, dupVars>>
=============================================================================
