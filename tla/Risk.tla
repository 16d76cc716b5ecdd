-------------------------------- MODULE Risk --------------------------------
(* Risk scoring and the facts a decision rests on (risk.ts). A snapshot is a *)
(* record; -1 stands for a number nobody has supplied and "" for a country.  *)
(* Scores in [0, 1] are percentages.                                         *)
EXTENDS Countries, RejectLabels, Integers, Sequences, SequencesExt, TLC

DdLevels == <<"SDD", "CDD", "EDD">>
Rank(ddLevel) == CHOOSE i \in DOMAIN DdLevels : DdLevels[i] = ddLevel

\* A percent, and one, of a fraction with seven decimals.
Percent == 100000
Whole   == 100 * Percent

\* 100 * (1 - the product of (1 - w/100)), rounded.
combineRiskFactors(weights) ==
  LET survival[i \in 0..Len(weights)] ==
        IF i = 0 THEN Whole
        ELSE (survival[i - 1] * (100 - Max({0, Min({100, weights[i]})}))) \div 100
  IN (Whole - survival[Len(weights)] + Percent \div 2) \div Percent

riskLevelFor(score) ==
  CASE score >= 80 -> "CRITICAL"
    [] score >= 55 /\ score < 80 -> "HIGH"
    [] score >= 30 /\ score < 55 -> "MEDIUM"
    [] OTHER -> "LOW"

\* Mutant: the level is what the score alone asks for.
ddLevelOfScore(score, current, forceEdd) ==
  IF forceEdd \/ score >= 55 THEN "EDD" ELSE IF score >= 25 THEN "CDD" ELSE "SDD"

\* Due diligence only goes up.
ddLevelFor(score, current, forceEdd) ==
  LET computed == IF forceEdd \/ score >= 55 THEN "EDD"
                  ELSE IF score >= 25 THEN "CDD" ELSE "SDD"
  IN IF Rank(computed) >= Rank(current) THEN computed ELSE current

\* Factors of weight 0 are filtered out first, and would take nothing away.
assessRisk(weights, current, forceEdd) ==
  LET score == combineRiskFactors(weights)
  IN [score |-> score, level |-> riskLevelFor(score),
      ddLevel |-> ddLevelFor(score, current, forceEdd)]

\* The weight of each intrinsic factor, 0 where it does not apply.
deriveRiskFactors(s) ==
  LET d == s.device IN
  << CountryScore(s.country),
     IF s.nationality = s.country THEN 0
     ELSE (CountryScore(s.nationality) * 6 + 5) \div 10,
     IF s.confirmedSanctionsHits > 0 THEN 100
     ELSE IF s.openHits > 0 THEN Min({60, 25 + s.openHits * 10}) ELSE 0,
     IF s.pepHits = 0 THEN 0
     ELSE CASE s.maxPepTier <= 1 -> 50
            [] s.maxPepTier = 2  -> 40
            [] s.maxPepTier = 3  -> 22
            [] OTHER             -> 15,
     IF s.adverseMediaHits > 0 THEN 30 ELSE 0,
     riskWeightFor(UNION {c.labels : c \in s.checks}),
     IF d.isEmulator \/ d.isRooted THEN 30 ELSE 0,
     IF d.isTor THEN 20 ELSE IF d.isVpn \/ d.isProxy THEN 10 ELSE 0,
     IF d.botScore >= 60 THEN 25 ELSE 0,
     IF s.faceMatchCount > 0 /\ ~s.sameIdentity THEN 85 ELSE 0,
     IF s.identityMatchCount > 0 THEN 50 ELSE 0,
     IF s.deviceSharedWithCount >= 5 THEN 40 ELSE 0,
     IF s.spoofDetected THEN 95 ELSE 0,
     IF s.faceMatch >= 0 /\ s.faceMatch < 80
     THEN Min({70, (80 - s.faceMatch) * 2}) ELSE 0,
     IF s.emailDisposable THEN 12 ELSE 0,
     IF s.phoneVoip THEN 10 ELSE 0 >>

\* "All required passed" needs every required step complete and no failure.
allRequiredPassed(s) ==
  /\ s.required \subseteq s.completed
  /\ \A c \in s.checks : c.result # "FAIL" /\ c.status \notin {"PENDING", "RUNNING"}

Count(checks, result)      == Cardinality({c \in checks : c.result = result})

\* The names of the facts of an applicant decision.
ApplicantFacts ==
  {"applicant.reviewStatus", "applicant.riskScore", "applicant.ddLevel",
   "applicant.submissionAttempts", "applicant.country", "applicant.nationality",
   "applicant.ipCountry", "applicant.age", "document.issuingCountry",
   "document.expiryDate", "document.authenticityScore", "document.tamperFlags",
   "checks.failedCount", "checks.warningCount", "checks.allRequiredPassed",
   "screening.trigger", "screening.openHits", "screening.newHits",
   "screening.confirmedSanctionsHits", "screening.pepHits", "screening.maxPepTier",
   "screening.adverseMediaHits", "screening.adverseMediaCategories",
   "screening.openHitListTypes", "device.isVpn", "device.isTor", "device.isProxy",
   "device.isEmulator", "device.isRooted", "device.botScore",
   "duplicate.identityMatchCount", "duplicate.faceMatchCount",
   "duplicate.sameIdentity", "duplicate.deviceSharedWithCount",
   "liveness.spoofDetected", "faceMatch.score", "match.nameSimilarity",
   "match.dobMatches", "match.countryMatches"}

\* Those that somebody has supplied. `document` is the identity document the
\* snapshot has picked, or a record that says there is none.
Supplied(fact, s) ==
  LET doc == s.document
  IN CASE fact = "applicant.country"          -> s.country # ""
       [] fact = "applicant.nationality"      -> s.nationality # ""
       [] fact = "applicant.ipCountry"        -> s.ipCountry # ""
       [] fact = "applicant.age"              -> s.age >= 0
       [] fact = "document.issuingCountry"    -> doc.present /\ doc.country # ""
       [] fact = "document.expiryDate"        -> doc.present /\ doc.extracted
       [] fact = "document.authenticityScore" -> doc.present /\ doc.authenticity >= 0
       [] fact = "document.tamperFlags"       -> doc.present
       [] fact = "faceMatch.score"            -> s.faceMatch >= 0
       [] fact = "match.nameSimilarity"       ->
            doc.present /\ s.name # "" /\ doc.name # ""
       [] fact = "match.dobMatches"           ->
            doc.present /\ doc.age >= 0 /\ s.age >= 0
       [] fact = "match.countryMatches"       -> s.ipCountry # "" /\ s.country # ""
       [] OTHER                               -> TRUE

FactOf(fact, s) ==
  LET doc == s.document
  IN CASE fact = "applicant.reviewStatus"       -> s.reviewStatus
       [] fact = "applicant.riskScore"          -> s.riskScore
       [] fact = "applicant.ddLevel"            -> s.ddLevel
       [] fact = "applicant.submissionAttempts" -> s.submissionAttempts
       [] fact = "applicant.country"            -> s.country
       [] fact = "applicant.nationality"        -> s.nationality
       [] fact = "applicant.ipCountry"          -> s.ipCountry
       [] fact = "applicant.age"                -> s.age
       [] fact = "document.issuingCountry"      -> doc.country
       [] fact = "document.expiryDate"          -> doc.expiredFor
       [] fact = "document.authenticityScore"   -> doc.authenticity
       [] fact = "document.tamperFlags"         -> doc.tamperFlags
       [] fact = "checks.failedCount"           -> Count(s.checks, "FAIL")
       [] fact = "checks.warningCount"          -> Count(s.checks, "WARNING")
       [] fact = "checks.allRequiredPassed"     -> allRequiredPassed(s)
       [] fact = "screening.trigger"            -> s.trigger
       [] fact = "screening.openHits"           -> s.openHits
       [] fact = "screening.newHits"            -> s.openHits
       [] fact = "screening.confirmedSanctionsHits" -> s.confirmedSanctionsHits
       [] fact = "screening.pepHits"            -> s.pepHits
       [] fact = "screening.maxPepTier"         ->
            IF s.pepHits > 0 THEN s.maxPepTier ELSE 99
       [] fact = "screening.adverseMediaHits"   -> s.adverseMediaHits
       [] fact = "screening.adverseMediaCategories" -> s.adverseMediaCategories
       [] fact = "screening.openHitListTypes"   -> s.openHitListTypes
       [] fact = "device.isVpn"                 -> s.device.isVpn
       [] fact = "device.isTor"                 -> s.device.isTor
       [] fact = "device.isProxy"               -> s.device.isProxy
       [] fact = "device.isEmulator"            -> s.device.isEmulator
       [] fact = "device.isRooted"              -> s.device.isRooted
       [] fact = "device.botScore"              -> s.device.botScore
       [] fact = "duplicate.identityMatchCount" -> s.identityMatchCount
       [] fact = "duplicate.faceMatchCount"     -> s.faceMatchCount
       [] fact = "duplicate.sameIdentity"       -> s.sameIdentity
       [] fact = "duplicate.deviceSharedWithCount" -> s.deviceSharedWithCount
       [] fact = "liveness.spoofDetected"       -> s.spoofDetected
       [] fact = "faceMatch.score"              -> s.faceMatch
       [] fact = "match.nameSimilarity"         -> IF doc.name = s.name THEN 100 ELSE 0
       [] fact = "match.dobMatches"             -> doc.age = s.age
       [] fact = "match.countryMatches"         -> s.ipCountry = s.country

\* The facts of an applicant decision.
buildApplicantFacts(s) ==
  [fact \in {f \in ApplicantFacts : Supplied(f, s)} |-> FactOf(fact, s)]
=============================================================================
