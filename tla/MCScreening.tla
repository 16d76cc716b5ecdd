----------------------------- MODULE MCScreening ----------------------------
(* Instances of Screening for TLC: somebody who may be the customer, a       *)
(* namesake born in the same year, and a name spelt in another alphabet.      *)
EXTENDS Screening

MCLikeness ==
  [e \in Entries |->
     CASE e = "same"     -> [prefix |-> TRUE, name |-> 1000, dob |-> "same",
                             yob |-> "unknown", country |-> "other"]
       [] e = "namesake" -> [prefix |-> TRUE, name |-> 950, dob |-> "same year",
                             yob |-> "unknown", country |-> "unknown"]
       [] e = "translit" -> [prefix |-> FALSE, name |-> 780, dob |-> "unknown",
                             yob |-> "same", country |-> "same"]]

\* A broken feed, one without the customer's double, a whole one, and one that
\* amends a listing.
MCFeeds == {[has |-> {}, amended |-> {}],
            [has |-> {"namesake", "translit"}, amended |-> {}],
            [has |-> Entries, amended |-> {}], [has |-> Entries, amended |-> {"same"}]}
=============================================================================
