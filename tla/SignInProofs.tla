---------------------------- MODULE SignInProofs ----------------------------
(* What is proved about SignIn, for any number of tabs, limits and requests:  *)
(* that a password alone does not get past a second factor, that the lockouts *)
(* come for cause, and that a code opens one session.                         *)
EXTENDS SignIn, TLAPS

\* A second factor is on from the start or mandated, and nobody has shown a code.
Guarded == (tenant.enrolled \/ tenant.requireTwoFactor) /\ spent = {}

Columns == {"failedLoginAttempts", "lockedUntil", "mfaSecret", "mfaEnabledAt",
            "mfaLastStep", "mfaFailedAttempts", "mfaLockedUntil", "mfaRecoveryHashes"}

\* The shapes of the variables, as far as the proof needs them.
Shapes ==
  /\ DOMAIN user = Columns
  /\ DOMAIN tokens = Tabs /\ DOMAIN requests = Tabs
  /\ tenant.enrolled \in BOOLEAN /\ tenant.requireTwoFactor \in BOOLEAN

\* The factor of an account is as it began.
AsBegun(row) ==
  /\ row.mfaEnabledAt = tenant.enrolled
  /\ row.mfaSecret = IF tenant.enrolled THEN 1 ELSE 0

\* While a code is still owed: no tab has a session, hence none a request that needs
\* one; and a login has read the factor as it began.
CodeOwed ==
  Guarded =>
    /\ AsBegun(user)
    /\ \A t \in Tabs :
         /\ tokens[t].kind # "user"
         /\ requests[t].at \notin {"enrol", "confirm", "disable"}
         /\ requests[t].at = "login" =>
              AsBegun(requests[t].read) /\ requests[t].mandated = tenant.requireTwoFactor

IInv == Shapes /\ CodeOwed

\* The initial states satisfy it.
LEMMA InitOwed == Init => IInv
<1> SUFFICES ASSUME Init PROVE IInv
  OBVIOUS
<1>1. Shapes
  BY DEF Init, Shapes, Columns
<1>2. AsBegun(user)
  BY DEF Init, AsBegun
<1>3. \A t \in Tabs : tokens[t].kind = "none" /\ requests[t].at = "idle"
  BY DEF Init, NoToken, Waiting
<1> QED BY <1>1, <1>2, <1>3 DEF IInv, CodeOwed

\* A step that touches neither the account's factor, nor a session, nor a request.
LEMMA Untouched ==
  ASSUME IInv, UNCHANGED <<tenant, user, tokens, requests, spent>>
  PROVE  IInv'
  BY DEF IInv, Shapes, CodeOwed, Guarded, AsBegun

\* A request begun keeps it, if it may be begun without a session.
LEMMA BeginOwed ==
  ASSUME IInv, NEW t \in Tabs, NEW request, NEW fault, Begin(t, request, fault),
         Guarded => /\ request.at \notin {"enrol", "confirm", "disable"}
                    /\ request.at = "login" =>
                         AsBegun(request.read) /\ request.mandated = tenant.requireTwoFactor
  PROVE  IInv'
<1>1. /\ UNCHANGED <<tenant, user, tokens, spent>>
      /\ requests' = [requests EXCEPT ![t] = request]
  BY DEF Begin
<1>2. Shapes'
  BY <1>1 DEF IInv, Shapes
<1>3. CodeOwed'
  <2> SUFFICES ASSUME Guarded, NEW u \in Tabs
               PROVE  /\ AsBegun(user)'
                      /\ tokens'[u].kind # "user"
                      /\ requests'[u].at \notin {"enrol", "confirm", "disable"}
                      /\ requests'[u].at = "login" =>
                           /\ AsBegun(requests[u].read)'
                           /\ requests'[u].mandated = tenant.requireTwoFactor
    BY <1>1 DEF CodeOwed, Guarded
  <2>1. CASE u = t
    BY <1>1, <2>1 DEF IInv, Shapes, CodeOwed, AsBegun
  <2>2. CASE u # t
    <3>1. requests'[u] = requests[u]
      BY <1>1, <2>2 DEF IInv, Shapes
    <3> QED BY <1>1, <3>1 DEF IInv, CodeOwed, AsBegun
  <2> QED BY <2>1, <2>2
<1> QED BY <1>2, <1>3 DEF IInv

\* Reading keeps it: what needs a session cannot be asked for without one.
LEMMA RequestOwed ==
  ASSUME IInv, NEW t \in Tabs, Request(t)
  PROVE  IInv'
<1>1. ASSUME NEW right \in BOOLEAN, LoginRead(t, right) PROVE IInv'
  <2> DEFINE request == [at |-> "login", right |-> right, read |-> user,
                         locked |-> user.lockedUntil > now,
                         mandated |-> tenant.requireTwoFactor]
  <2>1. Begin(t, request, {})
    BY <1>1 DEF LoginRead
  <2>2. Guarded => AsBegun(request.read) /\ request.mandated = tenant.requireTwoFactor
    BY DEF IInv, CodeOwed
  <2>3. request.at = "login"
    OBVIOUS
  <2> HIDE DEF request
  <2> QED BY <2>1, <2>2, <2>3, BeginOwed
<1>2. Guarded => ~authenticateBearer(t)
  BY DEF IInv, CodeOwed, authenticateBearer, verifyToken
<1>3. CASE EnrolRead(t)
  BY <1>2, <1>3, BeginOwed DEF EnrolRead
<1>4. ASSUME NEW code \in Codes, CodeRead(t, code) PROVE IInv'
  <2>1. PICK request, fault : Begin(t, request, fault) /\ request.at = "code"
    BY <1>4 DEF CodeRead
  <2> QED BY <2>1, BeginOwed
<1>5. ASSUME NEW code \in Codes, ConfirmRead(t, code) PROVE IInv'
  <2>1. ~Guarded
    BY <1>2, <1>5 DEF ConfirmRead
  <2>2. PICK request, fault : Begin(t, request, fault)
    BY <1>5 DEF ConfirmRead
  <2> QED BY <2>1, <2>2, BeginOwed
<1>6. ASSUME NEW code \in Codes, DisableRead(t, code) PROVE IInv'
  <2>1. ~Guarded
    BY <1>2, <1>6 DEF DisableRead
  <2>2. PICK request, fault : Begin(t, request, fault)
    BY <1>6 DEF DisableRead
  <2> QED BY <2>1, <2>2, BeginOwed
<1> QED BY <1>1, <1>3, <1>4, <1>5, <1>6 DEF Request

\* A request that has been answered keeps it, if what it has written does.
LEMMA EndOwed ==
  ASSUME IInv, NEW t \in Tabs, End(t), UNCHANGED <<tenant, spent>>,
         DOMAIN user' = Columns, DOMAIN tokens' = Tabs,
         Guarded => AsBegun(user)' /\ \A u \in Tabs : tokens'[u].kind # "user"
  PROVE  IInv'
<1>1. requests' = [requests EXCEPT ![t] = Waiting]
  BY DEF End
<1>2. Shapes'
  BY <1>1 DEF IInv, Shapes
<1>3. CodeOwed'
  <2> SUFFICES ASSUME Guarded, NEW u \in Tabs
               PROVE  /\ requests'[u].at \notin {"enrol", "confirm", "disable"}
                      /\ requests'[u].at = "login" =>
                           /\ AsBegun(requests[u].read)'
                           /\ requests'[u].mandated = tenant.requireTwoFactor
    BY DEF CodeOwed, Guarded
  <2>1. CASE u = t
    <3>1. requests'[u] = Waiting
      BY <1>1, <2>1 DEF IInv, Shapes
    <3> QED BY <3>1 DEF Waiting
  <2>2. CASE u # t
    <3>1. requests'[u] = requests[u]
      BY <1>1, <2>2 DEF IInv, Shapes
    <3> QED BY <3>1 DEF IInv, CodeOwed, AsBegun
  <2> QED BY <2>1, <2>2
<1> QED BY <1>2, <1>3 DEF IInv

\* Answering keeps it: a right password buys a challenge, and a code shown is a
\* code spent.
LEMMA AnswerOwed ==
  ASSUME IInv, NEW t \in Tabs, Answer(t)
  PROVE  IInv'
<1>1. DOMAIN user = Columns /\ DOMAIN tokens = Tabs
  BY DEF IInv, Shapes
<1>2. CASE LoginFails(t)
  <2>1. /\ DOMAIN user' = Columns
        /\ user'.mfaEnabledAt = user.mfaEnabledAt /\ user'.mfaSecret = user.mfaSecret
    BY <1>1, <1>2 DEF LoginFails, Columns
  <2>2. End(t) /\ UNCHANGED <<tenant, spent, tokens>>
    BY <1>2 DEF LoginFails
  <2> QED BY <1>1, <2>1, <2>2, EndOwed DEF IInv, CodeOwed, AsBegun
<1>3. CASE LoginPasses(t)
  <2>1. /\ DOMAIN user' = Columns
        /\ user'.mfaEnabledAt = user.mfaEnabledAt /\ user'.mfaSecret = user.mfaSecret
    BY <1>1, <1>3 DEF LoginPasses, Columns
  <2>2. End(t) /\ UNCHANGED <<tenant, spent>>
    BY <1>3 DEF LoginPasses
  <2>3. DOMAIN tokens' = Tabs /\ \A u \in Tabs \ {t} : tokens'[u] = tokens[u]
    BY <1>1, <1>3 DEF LoginPasses
  <2>4. ASSUME Guarded PROVE tokens'[t].kind # "user"
    <3> DEFINE r == requests[t]
    <3>1. AsBegun(r.read) /\ r.mandated = tenant.requireTwoFactor
      BY <1>3, <2>4 DEF LoginPasses, IInv, CodeOwed
    <3>2. (r.read.mfaEnabledAt /\ r.read.mfaSecret # 0) \/ r.mandated
      BY <2>4, <3>1 DEF AsBegun, Guarded
    <3>3. tokens'[t] \in {Token("mfa-challenge", now + ChallengeTtl),
                          Token("mfa-enrol", now + 2 * ChallengeTtl)}
      BY <1>1, <1>3, <3>2 DEF LoginPasses
    <3> QED BY <3>3 DEF Token
  <2>5. Guarded => AsBegun(user)' /\ \A u \in Tabs : tokens'[u].kind # "user"
    BY <2>1, <2>2, <2>3, <2>4 DEF IInv, CodeOwed, AsBegun
  <2> QED BY <2>1, <2>2, <2>3, <2>5, EndOwed
<1>4. CASE CodeFails(t)
  <2>1. /\ DOMAIN user' = Columns
        /\ user'.mfaEnabledAt = user.mfaEnabledAt /\ user'.mfaSecret = user.mfaSecret
    BY <1>1, <1>4 DEF CodeFails, Columns
  <2>2. End(t) /\ UNCHANGED <<tenant, spent, tokens>>
    BY <1>4 DEF CodeFails
  <2> QED BY <1>1, <2>1, <2>2, EndOwed DEF IInv, CodeOwed, AsBegun
<1>5. CASE CodePasses(t)
  <2>1. spent' # {} /\ UNCHANGED tenant
    BY <1>5 DEF CodePasses
  <2>2. DOMAIN user' = Columns
    BY <1>1, <1>5 DEF CodePasses, Accept
  <2>3. DOMAIN tokens' = Tabs /\ DOMAIN requests' = Tabs
    BY <1>1, <1>5 DEF CodePasses, End, IInv, Shapes
  <2> QED BY <2>1, <2>2, <2>3 DEF IInv, Shapes, CodeOwed, Guarded
<1>6. CASE EnrolWrite(t) \/ ConfirmWrite(t) \/ DisableWrite(t)
  <2>1. ~Guarded
    BY <1>6 DEF EnrolWrite, ConfirmWrite, DisableWrite, IInv, CodeOwed
  <2>2. End(t) /\ UNCHANGED <<tenant, spent, tokens>> /\ DOMAIN user' = DOMAIN user
    BY <1>6 DEF EnrolWrite, ConfirmWrite, DisableWrite
  <2> QED BY <1>1, <2>1, <2>2, EndOwed
<1> QED BY <1>2, <1>3, <1>4, <1>5, <1>6 DEF Answer

\* Every step keeps it.
LEMMA NextOwed == IInv /\ [Next]_vars => IInv'
<1> SUFFICES ASSUME IInv, [Next]_vars PROVE IInv'
  OBVIOUS
<1>1. CASE Tick \/ Scan \/ UNCHANGED vars
  BY <1>1, Untouched DEF Tick, Scan, vars
<1>2. ASSUME NEW t \in Tabs, SignOut(t) PROVE IInv'
  <2>1. /\ UNCHANGED <<tenant, user, requests, spent>> /\ DOMAIN tokens' = Tabs
        /\ \A u \in Tabs : tokens'[u] = tokens[u] \/ tokens'[u] = NoToken
    BY <1>2 DEF SignOut, IInv, Shapes
  <2>2. NoToken.kind # "user"
    BY DEF NoToken
  <2>3. ASSUME Guarded PROVE \A u \in Tabs : tokens'[u].kind # "user"
    BY <2>1, <2>2, <2>3 DEF IInv, CodeOwed
  <2> QED BY <2>1, <2>3 DEF IInv, Shapes, CodeOwed, Guarded, AsBegun
<1>3. ASSUME NEW t \in Tabs, Request(t) \/ Answer(t) PROVE IInv'
  BY <1>3, RequestOwed, AnswerOwed
<1> QED BY <1>1, <1>2, <1>3 DEF Next

\* In no interleaving of any number of tabs does a password alone, where a second
\* factor is on or mandated, open a session or change the factor.
THEOREM PasswordAloneOpensNothing == Spec => []SecondFactorFirst
<1>1. IInv => SecondFactorFirst
  BY DEF IInv, CodeOwed, Guarded, AsBegun, SecondFactorFirst
<1> QED BY <1>1, InitOwed, NextOwed, PTL DEF Spec

----------------------------------------------------------------------------
(* What is on record.                                                      *)

\* The codes of the first n sheets.
Sheets(n) == UNION {RecoveryCodes(s) : s \in 1..n}

\* A code that was given out: by the authenticator, or on a sheet.
Genuine(code) ==
  \/ code.kind = "totp" /\ code.secret \in 1..issued /\ code.step \in 0..MaxTime
  \/ code \in Sheets(issued)

\* A request under way has what it may have read and been shown.
KnownRequest(r) ==
  /\ r.at \in {"idle", "login", "code", "enrol", "confirm", "disable"}
  /\ r.at = "code" =>
       /\ r.read.mfaRecoveryHashes \subseteq Sheets(issued)
       /\ r.ok \/ r.usedRecovery => Genuine(r.code)
       /\ r.ok => r.code.kind = "totp"
  /\ r.at = "confirm" => Genuine(r.code) /\ r.code.kind = "totp"

Kinds == {"none", "mfa-challenge", "mfa-enrol", "user"}

\* Nothing is on record of a secret that was not issued.
Known ==
  /\ now \in 0..MaxTime /\ issued \in Nat /\ phone \in 0..issued
  /\ user.mfaSecret \in 0..issued
  /\ user.mfaLastStep \in NoStep..(MaxTime + 1)
  /\ user.mfaRecoveryHashes \subseteq Sheets(issued)
  /\ \A code \in spent : Genuine(code)
  /\ \A t \in Tabs : tokens[t].kind \in Kinds /\ KnownRequest(requests[t])

\* A sheet stays a sheet.
LEMMA SheetsGrow ==
  ASSUME NEW n \in Nat
  PROVE  /\ Sheets(n) \subseteq Sheets(n + 1)
         /\ RecoveryCodes(n + 1) \subseteq Sheets(n + 1)
<1>1. (1..n) \subseteq 1..(n + 1) /\ n + 1 \in 1..(n + 1)
  OBVIOUS
<1> QED BY <1>1, Zenon DEF Sheets

\* The codes of a sheet name it.
LEMMA SheetsNamed ==
  ASSUME NEW n \in Nat, NEW code \in Sheets(n)
  PROVE  code.kind = "recovery" /\ code.secret \in 1..n
BY DEF Sheets, RecoveryCodes

\* What a person types was given out, or is a slip.
LEMMA TypedCodes ==
  ASSUME Known, NEW code \in Codes
  PROVE  Genuine(code) \/ code.kind = "wrong"
<1>1. CASE code = WrongCode
  BY <1>1 DEF WrongCode
<1>2. CASE code \in {[kind |-> "totp", secret |-> phone, step |-> s] :
                        s \in {n \in {now - 1, now} : phone # 0 /\ n >= 0}}
  <2>1. PICK s \in {now - 1, now} : /\ phone # 0 /\ s >= 0
                                    /\ code = [kind |-> "totp", secret |-> phone, step |-> s]
    BY <1>2
  <2>2. phone \in 1..issued /\ s \in 0..MaxTime
    BY <2>1, SignInAssumption DEF Known
  <2> QED BY <2>1, <2>2 DEF Genuine
<1>3. CASE code \in UNION {RecoveryCodes(s) : s \in 1..issued}
  BY <1>3 DEF Genuine, Sheets
<1> QED BY <1>1, <1>2, <1>3 DEF Codes

\* What was given out stays given out when another secret is.
LEMMA GenuineStays ==
  ASSUME Known, issued' \in {issued, issued + 1}, NEW code, Genuine(code)
  PROVE  Genuine(code)'
<1>1. Sheets(issued) \subseteq Sheets(issued')
  BY SheetsGrow DEF Known
<1>2. (1..issued) \subseteq 1..issued'
  BY DEF Known
<1> QED BY <1>1, <1>2, Zenon DEF Genuine

\* So does what a request under way has been shown.
LEMMA RequestStays ==
  ASSUME Known, issued' \in {issued, issued + 1}, NEW r, KnownRequest(r)
  PROVE  KnownRequest(r)'
<1>1. Sheets(issued) \subseteq Sheets(issued')
  BY SheetsGrow DEF Known
<1>2. Genuine(r.code) => Genuine(r.code)'
  BY GenuineStays
<1> QED BY <1>1, <1>2 DEF KnownRequest

\* The initial states know no more than the first secret.
LEMMA InitKnown == Init => Known
<1> SUFFICES ASSUME Init PROVE Known
  OBVIOUS
<1>1. issued \in {0, 1} /\ now \in 0..MaxTime
  BY SignInAssumption DEF Init
<1>2. user.mfaSecret = issued /\ user.mfaLastStep = NoStep
      /\ user.mfaRecoveryHashes = Sheets(issued)
  BY DEF Init, Sheets
<1>3. \A t \in Tabs : tokens[t].kind = "none" /\ requests[t].at = "idle"
  BY DEF Init, NoToken, Waiting
<1>4. spent = {} /\ phone = issued
  BY DEF Init
<1>5. \A t \in Tabs : tokens[t].kind \in Kinds /\ KnownRequest(requests[t])
  BY <1>3 DEF KnownRequest, Kinds
<1>6. NoStep \in NoStep..(MaxTime + 1)
  BY SignInAssumption DEF NoStep
<1> QED BY <1>1, <1>2, <1>4, <1>5, <1>6 DEF Known

\* A request begun keeps it.
LEMMA BeginKnown ==
  ASSUME IInv, Known, NEW t \in Tabs, NEW request, NEW fault, Begin(t, request, fault),
         KnownRequest(request)
  PROVE  Known'
<1>1. /\ UNCHANGED <<user, now, tokens, phone, issued, spent>>
      /\ requests' = [requests EXCEPT ![t] = request]
  BY DEF Begin
<1>2. \A u \in Tabs : requests'[u] \in {request, requests[u]}
  BY <1>1 DEF IInv, Shapes
<1>3. \A u \in Tabs : KnownRequest(requests'[u])
  BY <1>2 DEF Known
<1>4. \A u \in Tabs : KnownRequest(requests[u])'
  BY <1>1, <1>3, RequestStays
<1>5. \A code \in spent : Genuine(code)'
  BY <1>1 DEF Known, Genuine
<1> QED BY <1>1, <1>4, <1>5 DEF Known

\* Reading keeps it: what is typed was given out or passes nowhere.
LEMMA RequestKnown ==
  ASSUME IInv, Known, NEW t \in Tabs, Request(t)
  PROVE  Known'
<1>1. ASSUME NEW right \in BOOLEAN, LoginRead(t, right) PROVE Known'
  <2>1. PICK request : Begin(t, request, {}) /\ request.at = "login"
    BY <1>1 DEF LoginRead
  <2> QED BY <2>1, BeginKnown DEF KnownRequest
<1>2. CASE EnrolRead(t)
  <2>1. PICK request : Begin(t, request, {}) /\ request.at = "enrol"
    BY <1>2 DEF EnrolRead
  <2> QED BY <2>1, BeginKnown DEF KnownRequest
<1>3. ASSUME NEW code \in Codes, CodeRead(t, code) PROVE Known'
  <2> DEFINE ok == verifyTotp(user.mfaSecret, code, user.mfaLastStep)
             request == [at |-> "code", code |-> code, read |-> user, ok |-> ok,
                         usedRecovery |-> ~ok /\ matchRecoveryCode(code, user.mfaRecoveryHashes)]
  <2>1. PICK fault : Begin(t, request, fault)
    BY <1>3 DEF CodeRead
  <2>2. ok => code.kind = "totp"
    BY DEF verifyTotp
  <2>3. matchRecoveryCode(code, user.mfaRecoveryHashes) => Genuine(code)
    BY DEF Known, matchRecoveryCode, Genuine
  <2>4. ok => Genuine(code)
    BY <2>2, TypedCodes
  <2>5. KnownRequest(request)
    BY <2>2, <2>3, <2>4 DEF KnownRequest, Known
  <2> HIDE DEF request
  <2> QED BY <2>1, <2>5, BeginKnown
<1>4. ASSUME NEW code \in Codes, ConfirmRead(t, code) PROVE Known'
  <2>1. PICK request, fault : /\ Begin(t, request, fault)
                              /\ request.at = "confirm" /\ request.code = code
    BY <1>4 DEF ConfirmRead
  <2>2. code.kind = "totp"
    BY <1>4 DEF ConfirmRead, verifyTotp
  <2> QED BY <2>1, <2>2, BeginKnown, TypedCodes DEF KnownRequest
<1>5. ASSUME NEW code \in Codes, DisableRead(t, code) PROVE Known'
  <2>1. PICK request : Begin(t, request, {}) /\ request.at = "disable"
    BY <1>5 DEF DisableRead
  <2> QED BY <2>1, BeginKnown DEF KnownRequest
<1> QED BY <1>1, <1>2, <1>3, <1>4, <1>5 DEF Request

\* What is answered keeps it, if what is written is of what was given out.
LEMMA EndKnown ==
  ASSUME IInv, Known, NEW t \in Tabs, End(t), UNCHANGED <<now, phone>>,
         issued' \in {issued, issued + 1},
         user'.mfaSecret \in 0..issued',
         user'.mfaLastStep \in NoStep..(MaxTime + 1),
         user'.mfaRecoveryHashes \subseteq Sheets(issued'),
         spent' = spent \/ \E code : spent' = spent \cup {code} /\ Genuine(code),
         \A u \in Tabs : tokens'[u].kind \in Kinds
  PROVE  Known'
<1>1. requests' = [requests EXCEPT ![t] = Waiting]
  BY DEF End
<1>2. \A u \in Tabs : requests'[u] \in {Waiting, requests[u]}
  BY <1>1 DEF IInv, Shapes
<1>3. KnownRequest(Waiting)
  BY DEF Waiting, KnownRequest
<1>4. \A u \in Tabs : KnownRequest(requests'[u])
  BY <1>2, <1>3 DEF Known
<1>5. \A u \in Tabs : KnownRequest(requests[u])'
  BY <1>4, RequestStays
<1>6. \A code \in spent' : Genuine(code)'
  BY GenuineStays DEF Known
<1>7. issued' \in Nat /\ phone' \in 0..issued'
  BY DEF Known
<1> QED BY <1>5, <1>6, <1>7 DEF Known

\* Answering keeps it; an enrolment issues the secret it writes.
LEMMA AnswerKnown ==
  ASSUME IInv, Known, NEW t \in Tabs, Answer(t)
  PROVE  Known'
<1>1. /\ user.mfaSecret \in 0..issued /\ user.mfaRecoveryHashes \subseteq Sheets(issued)
      /\ user.mfaLastStep \in NoStep..(MaxTime + 1) /\ issued \in Nat
      /\ \A u \in Tabs : tokens[u].kind \in Kinds
  BY DEF Known
<1>2. DOMAIN user = Columns /\ DOMAIN tokens = Tabs
  BY DEF IInv, Shapes
<1>3. CASE LoginFails(t)
  <2>1. /\ user'.mfaSecret = user.mfaSecret /\ user'.mfaLastStep = user.mfaLastStep
        /\ user'.mfaRecoveryHashes = user.mfaRecoveryHashes
    BY <1>2, <1>3 DEF LoginFails, Columns
  <2>2. End(t) /\ UNCHANGED <<now, phone, issued, spent, tokens>>
    BY <1>3 DEF LoginFails
  <2> QED BY <1>1, <2>1, <2>2, EndKnown
<1>4. CASE LoginPasses(t)
  <2>1. /\ user'.mfaSecret = user.mfaSecret /\ user'.mfaLastStep = user.mfaLastStep
        /\ user'.mfaRecoveryHashes = user.mfaRecoveryHashes
    BY <1>2, <1>4 DEF LoginPasses, Columns
  <2>2. End(t) /\ UNCHANGED <<now, phone, issued, spent>>
    BY <1>4 DEF LoginPasses
  <2>3. \E kind \in Kinds : \E exp : tokens' = [tokens EXCEPT ![t] = Token(kind, exp)]
    BY <1>4 DEF LoginPasses, Kinds
  <2>4. \A u \in Tabs : tokens'[u].kind \in Kinds
    BY <1>1, <1>2, <2>3 DEF Token
  <2> QED BY <1>1, <2>1, <2>2, <2>4, EndKnown
<1>5. CASE CodeFails(t)
  <2>1. /\ user'.mfaSecret = user.mfaSecret /\ user'.mfaLastStep = user.mfaLastStep
        /\ user'.mfaRecoveryHashes = user.mfaRecoveryHashes
    BY <1>2, <1>5 DEF CodeFails, Columns
  <2>2. End(t) /\ UNCHANGED <<now, phone, issued, spent, tokens>>
    BY <1>5 DEF CodeFails
  <2> QED BY <1>1, <2>1, <2>2, EndKnown
<1>6. CASE CodePasses(t)
  <2> DEFINE r == requests[t]
  <2>1. /\ r.read.mfaRecoveryHashes \subseteq Sheets(issued)
        /\ Genuine(r.code)
        /\ r.ok => r.code.kind = "totp"
    BY <1>6 DEF CodePasses, Known, KnownRequest
  <2>2. r.ok => r.code.step \in 0..MaxTime
    BY <2>1, <1>1, SheetsNamed DEF Genuine
  <2>3. /\ user'.mfaSecret = user.mfaSecret
        /\ user'.mfaLastStep = IF r.ok THEN r.code.step ELSE user.mfaLastStep
        /\ user'.mfaRecoveryHashes = IF r.ok THEN user.mfaRecoveryHashes
                                     ELSE r.read.mfaRecoveryHashes \ {r.code}
    BY <1>2, <1>6 DEF CodePasses, Accept, Columns
  <2>4. user'.mfaRecoveryHashes \subseteq Sheets(issued)
    BY <1>1, <2>1, <2>3
  <2>5. user'.mfaLastStep \in NoStep..(MaxTime + 1)
    BY <1>1, <2>2, <2>3, SignInAssumption DEF NoStep
  <2>6. End(t) /\ UNCHANGED <<now, phone, issued>> /\ spent' = spent \cup {r.code}
    BY <1>6 DEF CodePasses
  <2>7. \A u \in Tabs : tokens'[u].kind \in Kinds
    BY <1>1, <1>2, <1>6 DEF CodePasses, Kinds
  <2> QED BY <1>1, <2>1, <2>3, <2>4, <2>5, <2>6, <2>7, EndKnown
<1>7. CASE EnrolWrite(t)
  <2>1. /\ user'.mfaSecret = issued' /\ user'.mfaLastStep = NoStep
        /\ user'.mfaRecoveryHashes = RecoveryCodes(issued')
    BY <1>2, <1>7 DEF EnrolWrite, Columns
  <2>2. End(t) /\ UNCHANGED <<now, phone, spent, tokens>> /\ issued' = issued + 1
    BY <1>7 DEF EnrolWrite
  <2>3. issued' \in 0..issued' /\ NoStep \in NoStep..(MaxTime + 1)
    BY <1>1, <2>2, SignInAssumption DEF NoStep
  <2> QED BY <1>1, <2>1, <2>2, <2>3, SheetsGrow, EndKnown
<1>8. CASE ConfirmWrite(t)
  <2> DEFINE r == requests[t]
  <2>1. Genuine(r.code) /\ r.code.kind = "totp"
    BY <1>8 DEF ConfirmWrite, Known, KnownRequest
  <2>2. r.code.step \in 0..MaxTime
    BY <2>1, <1>1, SheetsNamed DEF Genuine
  <2>3. /\ user'.mfaSecret = user.mfaSecret /\ user'.mfaLastStep = r.code.step
        /\ user'.mfaRecoveryHashes = user.mfaRecoveryHashes
    BY <1>2, <1>8 DEF ConfirmWrite, Columns
  <2>4. End(t) /\ UNCHANGED <<now, phone, issued, spent, tokens>>
    BY <1>8 DEF ConfirmWrite
  <2>5. user'.mfaLastStep \in NoStep..(MaxTime + 1)
    BY <2>2, <2>3, SignInAssumption DEF NoStep
  <2> QED BY <1>1, <2>3, <2>4, <2>5, EndKnown
<1>9. CASE DisableWrite(t)
  <2>1. /\ user'.mfaSecret = 0 /\ user'.mfaLastStep = NoStep
        /\ user'.mfaRecoveryHashes = {}
    BY <1>2, <1>9 DEF DisableWrite, Columns
  <2>2. End(t) /\ UNCHANGED <<now, phone, issued, spent, tokens>>
    BY <1>9 DEF DisableWrite
  <2>3. 0 \in 0..issued /\ NoStep \in NoStep..(MaxTime + 1)
    BY <1>1, SignInAssumption DEF NoStep
  <2> QED BY <1>1, <2>1, <2>2, <2>3, EndKnown
<1> QED BY <1>3, <1>4, <1>5, <1>6, <1>7, <1>8, <1>9 DEF Answer

\* Every step keeps it.
LEMMA NextKnown == IInv /\ Known /\ [Next]_vars => Known'
<1> SUFFICES ASSUME IInv, Known, [Next]_vars PROVE Known'
  OBVIOUS
<1>1. ASSUME UNCHANGED <<user, tokens, requests, issued, spent>>,
             now' \in 0..MaxTime, phone' \in 0..issued
      PROVE  Known'
  BY <1>1 DEF Known, KnownRequest, Genuine
<1>2. CASE Tick
  <2>1. now' \in 0..MaxTime
    BY <1>2, SignInAssumption DEF Tick, Known
  <2> QED BY <1>1, <1>2, <2>1 DEF Tick, Known
<1>3. CASE Scan
  BY <1>1, <1>3 DEF Scan, Known
<1>4. CASE UNCHANGED vars
  BY <1>1, <1>4 DEF vars, Known
<1>5. ASSUME NEW t \in Tabs, SignOut(t) PROVE Known'
  <2>1. UNCHANGED <<user, now, requests, phone, issued, spent>>
    BY <1>5 DEF SignOut
  <2>2. \A u \in Tabs : tokens'[u].kind \in Kinds
    BY <1>5 DEF SignOut, IInv, Shapes, Known, NoToken, Kinds
  <2> QED BY <2>1, <2>2 DEF Known, KnownRequest, Genuine
<1>6. ASSUME NEW t \in Tabs, Request(t) \/ Answer(t) PROVE Known'
  BY <1>6, RequestKnown, AnswerKnown
<1> QED BY <1>2, <1>3, <1>4, <1>5, <1>6 DEF Next

\* The types of the row and of what the tabs hold, for any number of enrolments.
THEOREM TypesHold == Spec => []TypeOK
<1>1. Known => TypeOK
  BY DEF Known, TypeOK, Kinds, KnownRequest, Sheets
<1> QED BY <1>1, InitOwed, NextOwed, InitKnown, NextKnown, PTL DEF Spec

----------------------------------------------------------------------------
(* The counters.                                                           *)

\* Nobody else is at it, and what was read of the account still stands.
Alone ==
  /\ \A t, u \in Tabs : requests[t].at # "idle" /\ requests[u].at # "idle" => t = u
  /\ \A t \in Tabs : requests[t].at \in {"login", "code"} => requests[t].read = user

\* A counter has counted the mistakes since the last success, and locks at its limit;
\* past it, it may have counted fewer, since a locked account does not count.
Counted(failures, until, mistakes, limit) ==
  /\ failures \in Nat /\ until \in Nat /\ mistakes \in Nat
  /\ until = 0 => failures = mistakes /\ mistakes < limit
  /\ until # 0 => failures >= limit /\ mistakes >= limit

PasswordsCounted ==
  Counted(user.failedLoginAttempts, user.lockedUntil, wrong.password, MAX_LOGIN_FAILURES)

CodesCounted ==
  Counted(user.mfaFailedAttempts, user.mfaLockedUntil, wrong.code, MAX_FAILURES)

\* Among requests that do not overlap, both counters count.
Counters ==
  /\ DOMAIN wrong = {"password", "code"}
  /\ "overlap" \notin faults =>
       /\ Alone
       /\ PasswordsCounted /\ CodesCounted
       /\ \A t \in Tabs :
            requests[t].at = "login" /\ requests[t].locked => user.lockedUntil # 0

\* The counters start at nothing.
LEMMA InitCounters == Init => Counters
<1> SUFFICES ASSUME Init PROVE Counters
  OBVIOUS
<1>1. \A t \in Tabs : requests[t].at = "idle"
  BY DEF Init, Waiting
<1>2. wrong = [password |-> 0, code |-> 0]
  BY DEF Init
<1>3. /\ user.failedLoginAttempts = 0 /\ user.lockedUntil = 0
      /\ user.mfaFailedAttempts = 0 /\ user.mfaLockedUntil = 0
  BY DEF Init
<1>4. PasswordsCounted /\ CodesCounted
  BY <1>2, <1>3, SignInAssumption DEF PasswordsCounted, CodesCounted, Counted
<1> QED BY <1>1, <1>2, <1>4 DEF Counters, Alone

\* A request begun while nobody else is at it.
LEMMA BeginCounters ==
  ASSUME IInv, Known, Counters, NEW t \in Tabs, NEW request, NEW fault,
         Begin(t, request, fault),
         request.at \in {"login", "code"} => request.read = user,
         request.at = "login" /\ request.locked => user.lockedUntil > now
  PROVE  Counters'
<1>1. UNCHANGED <<user, wrong>> /\ requests' = [requests EXCEPT ![t] = request]
  BY DEF Begin
<1>2. requests'[t] = request /\ \A u \in Tabs \ {t} : requests'[u] = requests[u]
  BY <1>1 DEF IInv, Shapes
<1>3. SUFFICES ASSUME "overlap" \notin faults'
               PROVE  /\ Alone'
                      /\ \A u \in Tabs : requests'[u].at = "login" /\ requests'[u].locked
                                           => user.lockedUntil # 0
  <2>1. "overlap" \in faults => "overlap" \in faults'
    BY DEF Begin
  <2> QED BY <1>1, <1>3, <2>1 DEF Counters, PasswordsCounted, CodesCounted
<1>4. \A u \in Tabs : requests[u] = Waiting
  BY <1>3 DEF Begin
<1>5. \A u \in Tabs \ {t} : requests'[u].at = "idle"
  BY <1>2, <1>4 DEF Waiting
<1>6. Alone'
  BY <1>1, <1>2, <1>5 DEF Alone
<1>7. user.lockedUntil > now => user.lockedUntil # 0
  BY DEF Known
<1> QED BY <1>2, <1>5, <1>6, <1>7

\* Reading keeps it.
LEMMA RequestCounters ==
  ASSUME IInv, Known, Counters, NEW t \in Tabs, Request(t)
  PROVE  Counters'
<1>1. ASSUME NEW right \in BOOLEAN, LoginRead(t, right) PROVE Counters'
  <2>1. PICK request : /\ Begin(t, request, {})
                       /\ request.read = user /\ request.locked = (user.lockedUntil > now)
    BY <1>1 DEF LoginRead
  <2> QED BY <2>1, BeginCounters
<1>2. ASSUME NEW code \in Codes, CodeRead(t, code) PROVE Counters'
  <2>1. PICK request, fault : /\ Begin(t, request, fault)
                              /\ request.at = "code" /\ request.read = user
    BY <1>2 DEF CodeRead
  <2> QED BY <2>1, BeginCounters
<1>3. ASSUME NEW request, NEW fault, Begin(t, request, fault),
             request.at \in {"enrol", "confirm", "disable"}
      PROVE  Counters'
  BY <1>3, BeginCounters
<1>4. CASE EnrolRead(t)
  BY <1>3, <1>4 DEF EnrolRead
<1>5. ASSUME NEW code \in Codes, ConfirmRead(t, code) \/ DisableRead(t, code) PROVE Counters'
  BY <1>3, <1>5 DEF ConfirmRead, DisableRead
<1> QED BY <1>1, <1>2, <1>4, <1>5 DEF Request

\* The request answered was the only one: nobody is left with a stale read.
LEMMA EndAlone ==
  ASSUME IInv, Alone, NEW t \in Tabs, requests[t].at # "idle", End(t)
  PROVE  Alone' /\ \A u \in Tabs : requests'[u].at = "idle"
<1>1. \A u \in Tabs : requests'[u] = IF u = t THEN Waiting ELSE requests[u]
  BY DEF End, IInv, Shapes
<1>2. \A u \in Tabs : requests'[u].at = "idle"
  BY <1>1 DEF Alone, Waiting
<1> QED BY <1>2 DEF Alone

\* Answering keeps it: what was read of the counters is what they are.
LEMMA AnswerCounters ==
  ASSUME IInv, Known, Counters, NEW t \in Tabs, Answer(t)
  PROVE  Counters'
<1> DEFINE r == requests[t]
<1>1. /\ DOMAIN user = Columns /\ DOMAIN wrong = {"password", "code"}
      /\ now \in Nat /\ Lockout \in Nat \ {0}
  BY SignInAssumption DEF IInv, Shapes, Counters, Known
<1>2. /\ End(t) /\ r.at # "idle"
      /\ "overlap" \notin faults' => "overlap" \notin faults
  BY DEF Answer, LoginFails, LoginPasses, CodeFails, CodePasses, EnrolWrite, ConfirmWrite,
         DisableWrite
<1>3. DOMAIN wrong' = {"password", "code"}
  BY <1>1 DEF Answer, LoginFails, LoginPasses, CodeFails, CodePasses, EnrolWrite,
              ConfirmWrite, DisableWrite
<1>4. SUFFICES ASSUME "overlap" \notin faults
               PROVE  PasswordsCounted' /\ CodesCounted'
  BY <1>2, <1>3, EndAlone DEF Counters
<1>5. /\ Alone /\ PasswordsCounted /\ CodesCounted
      /\ r.at \in {"login", "code"} => r.read = user
      /\ r.at = "login" /\ r.locked => user.lockedUntil # 0
  BY <1>4 DEF Counters, Alone
<1>6. ASSUME user'.failedLoginAttempts = user.failedLoginAttempts,
             user'.lockedUntil = user.lockedUntil, wrong'.password = wrong.password
      PROVE  PasswordsCounted'
  BY <1>5, <1>6 DEF PasswordsCounted
<1>7. ASSUME user'.mfaFailedAttempts = user.mfaFailedAttempts,
             user'.mfaLockedUntil = user.mfaLockedUntil, wrong'.code = wrong.code
      PROVE  CodesCounted'
  BY <1>5, <1>7 DEF CodesCounted
<1>8. ASSUME user'.mfaFailedAttempts = 0, user'.mfaLockedUntil = 0, wrong'.code = 0
      PROVE  CodesCounted'
  BY <1>8, SignInAssumption DEF CodesCounted, Counted
<1>9. CASE LoginFails(t)
  <2>1. CodesCounted'
    <3>1. /\ user'.mfaFailedAttempts = user.mfaFailedAttempts
          /\ user'.mfaLockedUntil = user.mfaLockedUntil /\ wrong'.code = wrong.code
      BY <1>1, <1>9 DEF LoginFails, Columns
    <3> QED BY <3>1, <1>7
  <2>2. CASE r.locked
    <3>1. user' = user /\ wrong'.password \in {wrong.password, wrong.password + 1}
      BY <1>1, <1>9, <2>2 DEF LoginFails
    <3>2. user.lockedUntil # 0
      BY <1>5, <1>9, <2>2 DEF LoginFails
    <3>3. PasswordsCounted'
      BY <1>5, <3>1, <3>2, SignInAssumption DEF PasswordsCounted, Counted
    <3> QED BY <2>1, <3>3
  <2>3. CASE ~r.locked
    <3>1. r.read = user /\ ~r.right
      BY <1>5, <1>9, <2>3 DEF LoginFails
    <3> DEFINE failures == user.failedLoginAttempts + 1
    <3>2. /\ user'.failedLoginAttempts = failures
          /\ user'.lockedUntil = IF tooMany(failures, MAX_LOGIN_FAILURES)
                                 THEN now + Lockout ELSE user.lockedUntil
          /\ wrong'.password = wrong.password + 1
      BY <1>1, <1>9, <2>3, <3>1 DEF LoginFails, Columns
    <3>3. PasswordsCounted'
      BY <1>1, <1>5, <3>2, SignInAssumption DEF PasswordsCounted, Counted, tooMany
    <3> QED BY <2>1, <3>3
  <2> QED BY <2>2, <2>3
<1>10. CASE LoginPasses(t)
  <2>1. CodesCounted'
    <3>1. /\ user'.mfaFailedAttempts = user.mfaFailedAttempts
          /\ user'.mfaLockedUntil = user.mfaLockedUntil /\ wrong'.code = wrong.code
      BY <1>1, <1>10 DEF LoginPasses, Columns
    <3> QED BY <3>1, <1>7
  <2>2. r.read = user
    BY <1>5, <1>10 DEF LoginPasses
  <2>3. wrong'.password = 0
    BY <1>1, <1>10 DEF LoginPasses
  <2>4. user'.failedLoginAttempts = 0 /\ user'.lockedUntil = 0
    <3>1. CASE r.read.failedLoginAttempts > 0 \/ r.read.lockedUntil > 0
      BY <1>1, <1>10, <3>1 DEF LoginPasses, Columns
    <3>2. CASE ~(r.read.failedLoginAttempts > 0 \/ r.read.lockedUntil > 0)
      <4>1. user' = user
        BY <1>10, <3>2 DEF LoginPasses
      <4> QED BY <1>5, <2>2, <3>2, <4>1 DEF PasswordsCounted, Counted
    <3> QED BY <3>1, <3>2
  <2>5. PasswordsCounted'
    BY <2>3, <2>4, SignInAssumption DEF PasswordsCounted, Counted
  <2> QED BY <2>1, <2>5
<1>11. CASE CodeFails(t)
  <2> DEFINE failures == user.mfaFailedAttempts + 1
  <2>1. r.read = user
    BY <1>5, <1>11 DEF CodeFails
  <2>2. /\ user'.mfaFailedAttempts = failures
        /\ user'.mfaLockedUntil = IF tooMany(failures, MAX_FAILURES)
                                  THEN now + Lockout ELSE user.mfaLockedUntil
        /\ wrong'.code = wrong.code + 1
    BY <1>1, <1>11, <2>1 DEF CodeFails, Columns
  <2>3. CodesCounted'
    BY <1>1, <1>5, <2>2, SignInAssumption DEF CodesCounted, Counted, tooMany
  <2>4. /\ user'.failedLoginAttempts = user.failedLoginAttempts
        /\ user'.lockedUntil = user.lockedUntil /\ wrong'.password = wrong.password
    BY <1>1, <1>11 DEF CodeFails, Columns
  <2> QED BY <1>6, <2>3, <2>4
<1>12. CASE CodePasses(t)
  <2>1. /\ user'.failedLoginAttempts = user.failedLoginAttempts
        /\ user'.lockedUntil = user.lockedUntil /\ wrong'.password = wrong.password
        /\ user'.mfaFailedAttempts = 0 /\ user'.mfaLockedUntil = 0 /\ wrong'.code = 0
    BY <1>1, <1>12 DEF CodePasses, Accept, Columns
  <2> QED BY <1>6, <1>8, <2>1
<1>13. CASE EnrolWrite(t)
  <2>1. /\ user'.failedLoginAttempts = user.failedLoginAttempts
        /\ user'.lockedUntil = user.lockedUntil /\ wrong'.password = wrong.password
        /\ user'.mfaFailedAttempts = 0 /\ user'.mfaLockedUntil = 0 /\ wrong'.code = 0
    BY <1>1, <1>13 DEF EnrolWrite, Columns
  <2> QED BY <1>6, <1>8, <2>1
<1>14. CASE ConfirmWrite(t)
  <2>1. /\ user'.failedLoginAttempts = user.failedLoginAttempts
        /\ user'.lockedUntil = user.lockedUntil /\ wrong' = wrong
        /\ user'.mfaFailedAttempts = user.mfaFailedAttempts
        /\ user'.mfaLockedUntil = user.mfaLockedUntil
    BY <1>1, <1>14 DEF ConfirmWrite, Columns
  <2> QED BY <1>6, <1>7, <2>1
<1>15. CASE DisableWrite(t)
  <2>1. /\ user'.failedLoginAttempts = user.failedLoginAttempts
        /\ user'.lockedUntil = user.lockedUntil /\ wrong'.password = wrong.password
        /\ user'.mfaFailedAttempts = 0 /\ user'.mfaLockedUntil = 0 /\ wrong'.code = 0
    BY <1>1, <1>15 DEF DisableWrite, Columns
  <2> QED BY <1>6, <1>8, <2>1
<1> QED BY <1>9, <1>10, <1>11, <1>12, <1>13, <1>14, <1>15 DEF Answer

\* Every step keeps it.
LEMMA NextCounters == IInv /\ Known /\ Counters /\ [Next]_vars => Counters'
<1> SUFFICES ASSUME IInv, Known, Counters, [Next]_vars PROVE Counters'
  OBVIOUS
<1>1. ASSUME UNCHANGED <<user, requests, wrong, faults>> PROVE Counters'
  BY <1>1 DEF Counters, Alone, PasswordsCounted, CodesCounted
<1>2. CASE Tick \/ Scan \/ UNCHANGED vars
  BY <1>1, <1>2 DEF Tick, Scan, vars
<1>3. ASSUME NEW t \in Tabs, SignOut(t) PROVE Counters'
  BY <1>1, <1>3 DEF SignOut
<1>4. ASSUME NEW t \in Tabs, Request(t) \/ Answer(t) PROVE Counters'
  BY <1>4, RequestCounters, AnswerCounters
<1> QED BY <1>2, <1>3, <1>4 DEF Next

\* Among requests that do not overlap, an account is locked exactly when as many
\* wrong passwords, or codes, as the limit have come since the last success.
THEOREM LockoutsHold == Spec => []LocksForCause
<1>1. Counters => LocksForCause
  BY SignInAssumption DEF Counters, PasswordsCounted, CodesCounted, Counted, LocksForCause
<1> QED
  BY <1>1, InitOwed, NextOwed, InitKnown, NextKnown, InitCounters, NextCounters, PTL DEF Spec

----------------------------------------------------------------------------
(* Codes that have opened a session.                                       *)

\* Nothing has set a last step back, or may have.
Orderly == faults \cap {"overlap", "reconfirmed", "unconfirmed"} = {}

\* The account does not take the code any more: its secret is another one, or its
\* step is used up; and it is on no list.
UsedUp(code) ==
  /\ code.kind = "totp" => \/ code.secret # user.mfaSecret
                           \/ user.mfaEnabledAt /\ code.step <= user.mfaLastStep
  /\ code \notin user.mfaRecoveryHashes

\* What a request under way has found out of the account is still true of it.
StillTrue(r) ==
  /\ r.at = "code" =>
       /\ user.mfaEnabledAt
       /\ r.ok => r.code.secret = user.mfaSecret /\ r.code.step > user.mfaLastStep
       /\ r.usedRecovery => r.code \in user.mfaRecoveryHashes
  /\ r.at = "confirm" => ~user.mfaEnabledAt

\* While all is in order, what has opened a session is used up.
Once ==
  Orderly =>
    /\ "reuse" \notin faults
    /\ \A code \in spent : UsedUp(code)
    /\ \A t \in Tabs : StillTrue(requests[t])

\* Nothing has opened a session yet.
LEMMA InitOnce == Init => Once
<1> SUFFICES ASSUME Init PROVE Once
  OBVIOUS
<1>1. \A t \in Tabs : requests[t].at = "idle"
  BY DEF Init, Waiting
<1>2. spent = {} /\ faults = {}
  BY DEF Init
<1> QED BY <1>1, <1>2 DEF Once, StillTrue

\* A request begun, if what it has found out is true.
LEMMA BeginOnce ==
  ASSUME IInv, Once, NEW t \in Tabs, NEW request, NEW fault, Begin(t, request, fault),
         "reuse" \notin fault,
         Orderly' => StillTrue(request)
  PROVE  Once'
<1>1. UNCHANGED <<user, spent>> /\ requests' = [requests EXCEPT ![t] = request]
  BY DEF Begin
<1>2. faults' = faults \cup fault \cup {"overlap" : u \in {v \in Tabs : requests[v] # Waiting}}
  BY DEF Begin
<1>3. SUFFICES ASSUME Orderly'
               PROVE  /\ "reuse" \notin faults'
                      /\ \A code \in spent : UsedUp(code)
                      /\ \A u \in Tabs : StillTrue(requests'[u])
  BY <1>1 DEF Once, UsedUp, StillTrue
<1>4. Orderly
  BY <1>2, <1>3 DEF Orderly
<1>5. "reuse" \notin faults'
  BY <1>2, <1>4 DEF Once
<1>6. \A u \in Tabs : requests'[u] \in {request, requests[u]}
  BY <1>1 DEF IInv, Shapes
<1> QED BY <1>3, <1>4, <1>5, <1>6 DEF Once

\* Reading keeps it: a reading that is out of order leaves a fault.
LEMMA RequestOnce ==
  ASSUME IInv, Known, Once, NEW t \in Tabs, Request(t)
  PROVE  Once'
<1>1. ASSUME NEW right \in BOOLEAN, LoginRead(t, right) PROVE Once'
  <2>1. PICK request : Begin(t, request, {}) /\ request.at = "login"
    BY <1>1 DEF LoginRead
  <2> QED BY <2>1, BeginOnce DEF StillTrue
<1>2. CASE EnrolRead(t)
  <2>1. PICK request : Begin(t, request, {}) /\ request.at = "enrol"
    BY <1>2 DEF EnrolRead
  <2> QED BY <2>1, BeginOnce DEF StillTrue
<1>3. ASSUME NEW code \in Codes, CodeRead(t, code) PROVE Once'
  <2> DEFINE ok == verifyTotp(user.mfaSecret, code, user.mfaLastStep)
             request == [at |-> "code", code |-> code, read |-> user, ok |-> ok,
                         usedRecovery |-> ~ok /\ matchRecoveryCode(code, user.mfaRecoveryHashes)]
             fault == {"unconfirmed" : x \in {TRUE} \cap {~user.mfaEnabledAt}}
  <2>1. Begin(t, request, fault)
    BY <1>3 DEF CodeRead
  <2>2. ASSUME Orderly' PROVE user.mfaEnabledAt
    <3>1. fault \subseteq faults'
      BY <2>1 DEF Begin
    <3>2. "unconfirmed" \notin fault
      BY <2>2, <3>1 DEF Orderly
    <3> QED BY <3>2
  <2>3. /\ ok => code.secret = user.mfaSecret /\ code.step > user.mfaLastStep
        /\ ~ok /\ matchRecoveryCode(code, user.mfaRecoveryHashes) =>
             code \in user.mfaRecoveryHashes
    BY DEF verifyTotp, matchRecoveryCode
  <2>4. Orderly' => StillTrue(request)
    BY <2>2, <2>3 DEF StillTrue
  <2>5. "reuse" \notin fault
    OBVIOUS
  <2> HIDE DEF request, fault
  <2> QED BY <2>1, <2>4, <2>5, BeginOnce
<1>4. ASSUME NEW code \in Codes, ConfirmRead(t, code) PROVE Once'
  <2> DEFINE fault == {"reconfirmed" : x \in {TRUE} \cap {user.mfaEnabledAt}}
  <2>1. PICK request : Begin(t, request, fault) /\ request.at = "confirm"
    BY <1>4 DEF ConfirmRead
  <2>2. ASSUME Orderly' PROVE ~user.mfaEnabledAt
    <3>1. fault \subseteq faults'
      BY <2>1 DEF Begin
    <3>2. "reconfirmed" \notin fault
      BY <2>2, <3>1 DEF Orderly
    <3> QED BY <3>2
  <2>3. "reuse" \notin fault
    OBVIOUS
  <2> HIDE DEF fault
  <2> QED BY <2>1, <2>2, <2>3, BeginOnce DEF StillTrue
<1>5. ASSUME NEW code \in Codes, DisableRead(t, code) PROVE Once'
  <2>1. PICK request : Begin(t, request, {}) /\ request.at = "disable"
    BY <1>5 DEF DisableRead
  <2> QED BY <2>1, BeginOnce DEF StillTrue
<1> QED BY <1>1, <1>2, <1>3, <1>4, <1>5 DEF Request

\* Answering keeps it: an accepted code is used up, a new secret is nobody's code.
LEMMA AnswerOnce ==
  ASSUME IInv, Known, Counters, Once, NEW t \in Tabs, Answer(t)
  PROVE  Once'
<1> DEFINE r == requests[t]
<1>1. /\ DOMAIN user = Columns /\ issued \in Nat
      /\ user.mfaSecret \in 0..issued
      /\ user.mfaLastStep \in Int
      /\ user.mfaRecoveryHashes \subseteq Sheets(issued)
      /\ \A code \in spent : Genuine(code)
      /\ KnownRequest(r)
  BY SignInAssumption DEF IInv, Shapes, Known, NoStep
<1>2. End(t) /\ r.at # "idle" /\ faults \subseteq faults'
  BY DEF Answer, LoginFails, LoginPasses, CodeFails, CodePasses, EnrolWrite, ConfirmWrite,
         DisableWrite
<1>3. SUFFICES ASSUME Orderly'
               PROVE  "reuse" \notin faults' /\ \A code \in spent' : UsedUp(code)'
  <2>1. CASE ~Orderly'
    BY <2>1 DEF Once
  <2>2. CASE Orderly'
    <3>1. "overlap" \notin faults
      BY <1>2, <2>2 DEF Orderly
    <3>2. \A u \in Tabs : requests'[u].at = "idle"
      BY <1>2, <3>1, EndAlone DEF Counters
    <3>3. \A u \in Tabs : StillTrue(requests[u])'
      BY <3>2 DEF StillTrue
    <3> QED BY <1>3, <2>2, <3>3 DEF Once
  <2> QED BY <2>1, <2>2
<1>4. Orderly /\ "overlap" \notin faults
  BY <1>2, <1>3 DEF Orderly
<1>5. /\ "reuse" \notin faults /\ \A code \in spent : UsedUp(code)
      /\ StillTrue(r)
      /\ r.at \in {"login", "code"} => r.read = user
  BY <1>4 DEF Once, Counters, Alone
<1>6. ASSUME NEW n \in Nat, NEW code, Genuine(code), issued = n
      PROVE  /\ code.secret \in 1..n
             /\ code.kind = "totp" => code.step \in Nat
             /\ code.kind = "totp" => code \notin Sheets(n)
  BY <1>6, SheetsNamed, SignInAssumption DEF Genuine
<1>7. ASSUME user'.mfaSecret = user.mfaSecret, user'.mfaEnabledAt = user.mfaEnabledAt,
             user'.mfaLastStep = user.mfaLastStep,
             user'.mfaRecoveryHashes = user.mfaRecoveryHashes,
             UNCHANGED <<spent, faults>>
      PROVE  "reuse" \notin faults' /\ \A code \in spent' : UsedUp(code)'
  BY <1>5, <1>7 DEF UsedUp
<1>8. CASE LoginFails(t)
  <2>1. /\ user'.mfaSecret = user.mfaSecret /\ user'.mfaEnabledAt = user.mfaEnabledAt
        /\ user'.mfaLastStep = user.mfaLastStep
        /\ user'.mfaRecoveryHashes = user.mfaRecoveryHashes
    BY <1>1, <1>8 DEF LoginFails, Columns
  <2> QED BY <1>7, <1>8, <2>1 DEF LoginFails
<1>9. CASE LoginPasses(t)
  <2>1. /\ user'.mfaSecret = user.mfaSecret /\ user'.mfaEnabledAt = user.mfaEnabledAt
        /\ user'.mfaLastStep = user.mfaLastStep
        /\ user'.mfaRecoveryHashes = user.mfaRecoveryHashes
    BY <1>1, <1>9 DEF LoginPasses, Columns
  <2> QED BY <1>7, <1>9, <2>1 DEF LoginPasses
<1>10. CASE CodeFails(t)
  <2>1. /\ user'.mfaSecret = user.mfaSecret /\ user'.mfaEnabledAt = user.mfaEnabledAt
        /\ user'.mfaLastStep = user.mfaLastStep
        /\ user'.mfaRecoveryHashes = user.mfaRecoveryHashes
    BY <1>1, <1>10 DEF CodeFails, Columns
  <2> QED BY <1>7, <1>10, <2>1 DEF CodeFails
<1>11. CASE CodePasses(t)
  <2>1. /\ r.at = "code" /\ r.read = user /\ user.mfaEnabledAt
        /\ Genuine(r.code)
        /\ r.ok => /\ r.code.kind = "totp" /\ r.code.secret = user.mfaSecret
                   /\ r.code.step > user.mfaLastStep
        /\ ~r.ok => r.code \in user.mfaRecoveryHashes
    BY <1>1, <1>5, <1>11 DEF CodePasses, StillTrue, KnownRequest
  <2>2. /\ user'.mfaSecret = user.mfaSecret /\ user'.mfaEnabledAt = user.mfaEnabledAt
        /\ user'.mfaLastStep = IF r.ok THEN r.code.step ELSE user.mfaLastStep
        /\ user'.mfaRecoveryHashes = IF r.ok THEN user.mfaRecoveryHashes
                                     ELSE user.mfaRecoveryHashes \ {r.code}
    BY <1>1, <1>11, <2>1 DEF CodePasses, Accept, Columns
  <2>3. /\ spent' = spent \cup {r.code}
        /\ faults' = faults \cup {"reuse" : c \in spent \cap {r.code}}
    BY <1>11 DEF CodePasses
  <2>4. r.code \notin spent
    <3> SUFFICES ASSUME r.code \in spent PROVE FALSE
      OBVIOUS
    <3>1. UsedUp(r.code)
      BY <1>5
    <3>2. CASE r.ok
      <4>1. r.code.step \in Nat
        BY <1>1, <1>6, <2>1, <3>2
      <4> QED BY <1>1, <2>1, <3>1, <3>2, <4>1 DEF UsedUp
    <3>3. CASE ~r.ok
      BY <2>1, <3>1, <3>3 DEF UsedUp
    <3> QED BY <3>2, <3>3
  <2>5. "reuse" \notin faults'
    BY <1>5, <2>3, <2>4
  <2>6. ASSUME NEW code, code = r.code PROVE UsedUp(code)'
    <3>1. CASE r.ok
      <4>1. code.step \in Nat /\ code \notin user.mfaRecoveryHashes
        BY <1>1, <1>6, <2>1, <2>6, <3>1
      <4> QED BY <2>1, <2>2, <2>6, <3>1, <4>1 DEF UsedUp
    <3>2. CASE ~r.ok
      <4>1. code.kind = "recovery"
        BY <1>1, <2>1, <2>6, <3>2, SheetsNamed
      <4> QED BY <2>2, <2>6, <3>2, <4>1 DEF UsedUp
    <3> QED BY <3>1, <3>2
  <2>7. ASSUME NEW code \in spent PROVE UsedUp(code)'
    <3>1. UsedUp(code) /\ (code.kind = "totp" => code.step \in Nat)
      BY <1>1, <1>5, <1>6
    <3>2. user'.mfaRecoveryHashes \subseteq user.mfaRecoveryHashes
      BY <2>2
    <3>3. r.ok => r.code.step \in Nat
      BY <1>1, <1>6, <2>1
    <3>4. user'.mfaLastStep \in Int /\ user'.mfaLastStep >= user.mfaLastStep
      BY <1>1, <2>1, <2>2, <3>3
    <3> QED BY <1>1, <2>2, <3>1, <3>2, <3>4 DEF UsedUp
  <2> QED BY <2>3, <2>5, <2>6, <2>7
<1>12. CASE EnrolWrite(t)
  <2>1. /\ user'.mfaSecret = issued + 1 /\ user'.mfaRecoveryHashes = RecoveryCodes(issued + 1)
        /\ UNCHANGED <<spent, faults>>
    BY <1>1, <1>12 DEF EnrolWrite, Columns
  <2>2. ASSUME NEW code \in spent PROVE UsedUp(code)'
    <3>1. code.secret \in 1..issued
      BY <1>1, <1>6
    <3>2. \A c \in RecoveryCodes(issued + 1) : c.secret = issued + 1
      BY DEF RecoveryCodes
    <3>3. code.secret # issued + 1
      BY <1>1, <3>1
    <3> QED BY <2>1, <3>2, <3>3 DEF UsedUp
  <2> QED BY <1>5, <2>1, <2>2
<1>13. CASE ConfirmWrite(t)
  <2>1. /\ user'.mfaSecret = user.mfaSecret
        /\ user'.mfaRecoveryHashes = user.mfaRecoveryHashes
        /\ UNCHANGED <<spent, faults>>
    BY <1>1, <1>13 DEF ConfirmWrite, Columns
  <2>2. ~user.mfaEnabledAt
    BY <1>5, <1>13 DEF ConfirmWrite, StillTrue
  <2>3. \A code \in spent : UsedUp(code)'
    BY <1>5, <2>1, <2>2 DEF UsedUp
  <2> QED BY <1>5, <2>1, <2>3
<1>14. CASE DisableWrite(t)
  <2>1. user'.mfaSecret = 0 /\ user'.mfaRecoveryHashes = {} /\ UNCHANGED <<spent, faults>>
    BY <1>1, <1>14 DEF DisableWrite, Columns
  <2>2. ASSUME NEW code \in spent PROVE UsedUp(code)'
    <3>1. code.secret \in 1..issued
      BY <1>1, <1>6
    <3> QED BY <1>1, <2>1, <3>1 DEF UsedUp
  <2> QED BY <1>5, <2>1, <2>2
<1> QED BY <1>8, <1>9, <1>10, <1>11, <1>12, <1>13, <1>14 DEF Answer

\* Every step keeps it.
LEMMA NextOnce == IInv /\ Known /\ Counters /\ Once /\ [Next]_vars => Once'
<1> SUFFICES ASSUME IInv, Known, Counters, Once, [Next]_vars PROVE Once'
  OBVIOUS
<1>1. ASSUME UNCHANGED <<user, requests, spent, faults>> PROVE Once'
  BY <1>1 DEF Once, Orderly, UsedUp, StillTrue
<1>2. CASE Tick \/ Scan \/ UNCHANGED vars
  BY <1>1, <1>2 DEF Tick, Scan, vars
<1>3. ASSUME NEW t \in Tabs, SignOut(t) PROVE Once'
  BY <1>1, <1>3 DEF SignOut
<1>4. ASSUME NEW t \in Tabs, Request(t) \/ Answer(t) PROVE Once'
  BY <1>4, RequestOnce, AnswerOnce
<1> QED BY <1>2, <1>3, <1>4 DEF Next

\* Among requests that do not overlap, and unless a confirmation may have set the
\* last step back, no code opens two sessions.
THEOREM CodesHold == Spec => []CodesWorkOnce
<1>1. Once => CodesWorkOnce
  BY DEF Once, Orderly, CodesWorkOnce
<1> QED
  BY <1>1, InitOwed, NextOwed, InitKnown, NextKnown, InitCounters, NextCounters,
     InitOnce, NextOnce, PTL DEF Spec
=============================================================================
