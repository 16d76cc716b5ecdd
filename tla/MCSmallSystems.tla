--------------------------- MODULE MCSmallSystems ---------------------------
(* Three systems that share nothing, checked in one run: the audit log        *)
(* (AuditChain), companies and their owners (Kyb), and documents and their    *)
(* machine-readable zones (MrzReader). The part a behaviour starts with, it   *)
(* stays with; the variables of the others keep what they began with.         *)
EXTENDS Kyb, AuditChain, MrzReader

VARIABLE part

MCParent ==
  [c \in Companies |-> CASE c = "acme"    -> "holding"
                         [] c = "holding" -> "trust"
                         [] c = "trust"   -> "acme"]
MCExtracts ==
  {Extract("ACTIVE", shape, "ada", "bob") :
     shape \in {"shell", "nominee", "partners"}}
    \cup {Extract("DISSOLVED", "partial", "ada", "bob"), NotFound}
MCHandEdges ==
  {Edge("trust", "person", "ada", 500, Undeclared, FALSE),
   Edge("trust", "person", "bob", 997, Undeclared, FALSE),
   Edge("trust", "company", "acme", 500, Undeclared, TRUE)}

MCDocuments ==
  {[number |-> <<21, 8, 9, 8, 9, 0, 2, 12, 3>>, dob |-> <<1974, 8, 12>>,
    expiry |-> <<2032, 4, 15>>, optional |-> <<1, 0>>],
   [number |-> <<5, 5, 0>>, dob |-> <<2004, 2, 29>>, expiry |-> <<2026, 12, 31>>,
    optional |-> <<>>]}

OneZone == zone = Issue("TD3", issued) /\ issued = CHOOSE d \in Documents : TRUE

MCInit ==
  /\ Init /\ AuditInit /\ MrzInit
  /\ part \in {"kyb", "audit", "mrz"}
  /\ part # "mrz" => OneZone

MCNext ==
  /\ UNCHANGED part
  /\ \/ part = "kyb" /\ Next /\ UNCHANGED <<auditVars, mrzVars>>
     \/ part = "audit" /\ AuditNext /\ UNCHANGED <<vars, mrzVars>>
     \/ part = "mrz" /\ MrzNext /\ UNCHANGED <<vars, auditVars>>

MCSpec == MCInit /\ [][MCNext]_<<vars, auditVars, mrzVars, part>>
=============================================================================
