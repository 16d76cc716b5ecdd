----------------------------- MODULE MrzReader -----------------------------
(* Reading machine-readable zones: the zone of a document as issued, and as  *)
(* it reaches the reader once glyphs have been misread or altered.           *)
EXTENDS Mrz, FiniteSets

CONSTANTS
  Documents,   \* documents: number, birth, expiry and optional data
  Misreadings, \* what a glyph may be taken for: digits, letters, the filler
  MaxSlips     \* bound on glyphs changed

\* Two digits tell a year of a birth in the last hundred years, and of an expiry in
\* the century, or in the hundred years from eighty years ago.
IsDate(date, from) ==
  /\ date \in (from .. from + 99) \X (1..12) \X (1..31)
  /\ date[3] <= DaysIn(date[2], date[1])

ASSUME MrzAssumption ==
  /\ Year \in Nat /\ MaxSlips \in Nat
  /\ Misreadings \subseteq 0..Filler
  /\ \A d \in Documents :
       /\ d.number \in Seq(0..Filler) /\ d.optional \in Seq(0..Filler)
       /\ \E i \in DOMAIN d.number : i <= 9 /\ d.number[i] # Filler
       /\ IsDate(d.dob, Year - 99)
       /\ IsDate(d.expiry, IF (Year % 100) > 80 THEN Year - 80 ELSE Century)

VARIABLES
  issued,  \* the document
  zone,    \* its zone, as it is read
  slips    \* history: the places changed

mrzVars == <<issued, zone, slips>>

Issue(format, d) == buildMrz(format, d.number, d.dob, d.expiry, d.optional)

Groups == {"number", "dob", "expiry"}
DigitOf(group) ==
  CASE group = "number" -> "numberCd" [] group = "dob" -> "dobCd"
    [] group = "expiry" -> "expiryCd"

MrzInit ==
  /\ issued \in Documents
  /\ \E format \in Formats : zone = Issue(format, issued)
  /\ slips = {}

\* A glyph of a group is taken for another, or has been made one.
Misread(group, i, g) ==
  /\ Cardinality(slips) < MaxSlips
  /\ zone[group][i] # g
  /\ <<group, i>> \notin slips
  /\ zone' = [zone EXCEPT ![group][i] = g]
  /\ slips' = slips \cup {<<group, i>>}
  /\ UNCHANGED issued

\* So is a check digit, or it is blotted out.
Blot(cd, g) ==
  /\ Cardinality(slips) < MaxSlips
  /\ <<cd, 0>> \notin slips
  /\ zone[cd] # g
  /\ zone' = [zone EXCEPT ![cd] = g]
  /\ slips' = slips \cup {<<cd, 0>>}
  /\ UNCHANGED issued

MrzNext ==
  \/ \E group \in Groups : \E i \in DOMAIN zone[group], g \in Misreadings :
       Misread(group, i, g)
  \/ \E cd \in {"numberCd", "dobCd", "expiryCd", "optionalCd", "compositeCd"},
        g \in Misreadings \cup {Filler} : Blot(cd, g)

MrzSpec == MrzInit /\ [][MrzNext]_mrzVars

----------------------------------------------------------------------------
SlipsIn(group) == {p \in slips : p[1] \in {group, DigitOf(group)}}

\* A glyph of the number was taken for one that counts the same modulo ten: 0 for A
\* or the filler, 6 for G. No check digit can tell them apart.
TakenForItsLike ==
  \E i \in DOMAIN zone.number :
    /\ <<"number", i>> \in slips
    /\ Value(zone.number[i]) % 10 = Value(pad(issued.number, 9)[i]) % 10

\* A zone as issued is valid and gives back the dates it was made from. However many
\* glyphs are wrong elsewhere, a zone is not valid when exactly one is wrong in a date
\* or its check digit, by whatever glyph; nor when exactly one is wrong in the number or
\* its check digit, unless it was taken for its like.
OneSlipIsCaught ==
  LET read == parseMrz(zone) IN
    /\ slips = {} =>
         /\ read.valid /\ ~read.warning
         /\ read.dob = issued.dob /\ read.expiry = issued.expiry
    /\ \A group \in Groups :
         /\ Cardinality(SlipsIn(group)) = 1
         /\ ~(group = "number" /\ TakenForItsLike)
         => ~read.valid
=============================================================================
