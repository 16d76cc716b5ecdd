-------------------------------- MODULE Mrz --------------------------------
(* The machine-readable zone of a travel document (core/src/mrz.ts): its     *)
(* check digits and its dates, in the three formats. A glyph is a number:    *)
(* 0 to 9 for the digits, 10 to 35 for the letters, 36 for the filler. Names *)
(* and states carry no check digit and are left out.                        *)
EXTENDS Integers, Sequences

CONSTANT Year   \* the year it is

Filler == 36
Digits == 0..9
Value(g) == IF g = Filler THEN 0 ELSE g

Weight(i) == CASE i % 3 = 1 -> 7 [] i % 3 = 2 -> 3 [] OTHER -> 1

\* ICAO 9303: weights 7, 3, 1 over the glyphs, modulo 10.
computeCheckDigit(group) ==
  LET sum[i \in 0..Len(group)] ==
        IF i = 0 THEN 0 ELSE sum[i - 1] + Weight(i) * Value(group[i])
  IN sum[Len(group)] % 10

\* A blank passes only for an empty group that need not have a digit.
verifyDigit(group, digit, optional) ==
  IF digit = Filler
  THEN optional /\ \A i \in DOMAIN group : group[i] = Filler
  ELSE digit \in Digits /\ digit = computeCheckDigit(group)

Century == Year - (Year % 100)

\* Mutant: a birth is of this century, whatever the year.
expandYearThisCentury(n, kind) == Century + n

\* Two digits of a year: a birth is not in the future, an expiry is of this
\* century, or of the next when that is nearer.
expandYear(n, kind) ==
  LET ahead == n < (Year % 100) - 80
  IN CASE kind = "birth"  -> IF n > (Year % 100) THEN Century - 100 + n ELSE Century + n
       [] kind = "expiry" -> IF ahead THEN Century + 100 + n ELSE Century + n

DaysIn(month, year) ==
  CASE month = 2 ->
         IF (year % 4) = 0 /\ ((year % 100) # 0 \/ (year % 400) = 0) THEN 29 ELSE 28
    [] month \in {4, 6, 9, 11} -> 30
    [] OTHER -> 31

NoDate == <<0, 0, 0>>

parseMrzDate(glyphs, kind) ==
  LET Two(i) == 10 * glyphs[i] + glyphs[i + 1]
      year   == expandYear(Two(1), kind)
  IN IF /\ \A i \in 1..6 : glyphs[i] \in Digits
        /\ Two(3) \in 1..12
        /\ Two(5) \in 1..DaysIn(Two(3), year)
     THEN <<year, Two(3), Two(5)>> ELSE NoDate

toYymmdd(date) ==
  LET Pair(n) == <<(n % 100) \div 10, n % 10>>
  IN Pair(date[1]) \o Pair(date[2]) \o Pair(date[3])

pad(group, n) == [i \in 1..n |-> IF i <= Len(group) THEN group[i] ELSE Filler]

Formats == {"TD1", "TD2", "TD3"}

\* What the composite digit runs over, in each format. Only TD3 has a check digit
\* for its optional group.
Composite(z) ==
  LET number == Append(z.number, z.numberCd)
      dates  == Append(z.dob, z.dobCd) \o Append(z.expiry, z.expiryCd)
  IN CASE z.format = "TD3" -> number \o dates \o Append(z.optional, z.optionalCd)
       [] z.format = "TD2" -> number \o dates \o z.optional
       [] z.format = "TD1" -> number \o z.optional \o dates \o pad(<<>>, 11)

OptionalLength(format) ==
  CASE format = "TD3" -> 14 [] format = "TD2" -> 7 [] format = "TD1" -> 15

\* A zone that conforms: of a passport, or of a card.
buildMrz(format, number, dob, expiry, optional) ==
  LET padded  == pad(number, 9)
      birth   == toYymmdd(dob)
      expires == toYymmdd(expiry)
      extra   == pad(optional, OptionalLength(format))
      z == [format   |-> format,  compositeCd |-> Filler,
            number   |-> padded,  numberCd    |-> computeCheckDigit(padded),
            dob      |-> birth,   dobCd       |-> computeCheckDigit(birth),
            expiry   |-> expires, expiryCd    |-> computeCheckDigit(expires),
            optional |-> extra,   optionalCd  |-> computeCheckDigit(extra)]
  IN [z EXCEPT !.compositeCd = computeCheckDigit(Composite(z))]

\* What reading a zone finds. A wrong digit of the optional group is a warning.
parseMrz(z) ==
  LET dob    == parseMrzDate(z.dob, "birth")
      expiry == parseMrzDate(z.expiry, "expiry")
  IN [dob |-> dob, expiry |-> expiry,
      valid |-> /\ dob # NoDate /\ expiry # NoDate
                /\ verifyDigit(z.number, z.numberCd, FALSE)
                /\ verifyDigit(z.dob, z.dobCd, FALSE)
                /\ verifyDigit(z.expiry, z.expiryCd, FALSE)
                /\ verifyDigit(Composite(z), z.compositeCd, FALSE)
                /\ \E i \in 1..9 : z.number[i] # Filler,
      warning |-> z.format = "TD3" /\ ~verifyDigit(z.optional, z.optionalCd, TRUE)]
=============================================================================
