------------------------------- MODULE SignIn -------------------------------
(***************************************************************************)
(* One operator's account: the password step, the second factor, enrolment *)
(* and the lockouts (routes/config.ts, routes/twofactor.ts, totp.ts and    *)
(* auth.ts). Every handler reads the user row, decides on what it read and *)
(* writes it back in a later statement; requests of two browser tabs       *)
(* interleave between. Time is counted in the 30-second steps of a code.   *)
(***************************************************************************)
EXTENDS Integers, FiniteSets

CONSTANTS
  Tabs,                \* browser tabs that sign in to the account
  MAX_LOGIN_FAILURES,  \* wrong passwords tolerated (the code: 8)
  MAX_FAILURES,        \* wrong codes tolerated (the code: 5)
  Lockout,             \* steps a lockout lasts (the code: 30)
  ChallengeTtl,        \* steps a challenge is good for (the code: 10)
  MaxTime,             \* bound on time
  MaxRequests,         \* bound on requests
  MaxSecrets           \* bound on enrolments

ASSUME SignInAssumption ==
  /\ MAX_LOGIN_FAILURES \in Nat \ {0} /\ MAX_FAILURES \in Nat \ {0}
  /\ Lockout \in Nat \ {0} /\ ChallengeTtl \in Nat \ {0}
  /\ MaxTime \in Nat /\ MaxRequests \in Nat /\ MaxSecrets \in Nat

VARIABLES
  tenant,            \* its setting, and whether the account began enrolled
  user,              \* the row of the account
  now,
  tokens,            \* what each tab holds
  requests,          \* the request of each tab: what it asked and what it read
  phone,             \* the secret the authenticator was set up with, 0 for none
  issued,            \* secrets generated
  made,              \* requests made
  spent,             \* history: codes that have opened a session
  proven,            \* history: secrets a code was shown for in a confirmation
  wrong,             \* history: failures of either kind since the last success
  faults             \* history: "overlap" of requests, "reconfirmed" a factor that is on,
                     \* "unconfirmed" is one a code was shown of, "reuse" of a code

vars == <<tenant, user, now, tokens, requests, phone, issued, made,
          spent, proven, wrong, faults>>

----------------------------------------------------------------------------
NoStep == -1

NoToken          == [kind |-> "none", exp |-> 0, by |-> "none"]
Token(kind, exp) == [kind |-> kind, exp |-> exp, by |-> "password"]

Waiting == [at |-> "idle"]

RecoveryCodes(secret) == {[kind |-> "recovery", secret |-> secret, step |-> i] : i \in 1..2}
WrongCode             == [kind |-> "wrong", secret |-> 0, step |-> 0]

\* What a person may type: what the authenticator shows or showed a moment ago,
\* a recovery code of any sheet they kept, or a slip of the finger.
Codes ==
  {WrongCode}
    \cup {[kind |-> "totp", secret |-> phone, step |-> s] :
            s \in {n \in {now - 1, now} : phone # 0 /\ n >= 0}}
    \cup UNION {RecoveryCodes(s) : s \in 1..issued}

\* Mutant: the code of a step already used passes again.
verifyTotpOfWindow(secret, code, lastUsedStep) ==
  code.kind = "totp" /\ code.secret = secret /\ code.step \in (now - 1)..(now + 1)

\* The code of one of the three steps around now, newer than the last one used.
verifyTotp(secret, code, lastUsedStep) ==
  /\ code.kind = "totp"
  /\ code.secret = secret
  /\ code.step \in (now - 1)..(now + 1)
  /\ code.step > lastUsedStep

matchRecoveryCode(code, hashes) == code \in hashes

\* A token that has expired opens nothing.
verifyToken(token, kind) == token.kind = kind /\ token.exp >= now

\* Mutant: whatever names the user authenticates as the user.
authenticateAnyone(t) == tokens[t].kind # "none" /\ tokens[t].exp >= now

\* Only a session authenticates a request; a challenge does not.
authenticateBearer(t) == verifyToken(tokens[t], "user")

\* An account without a second factor, or with the first secret confirmed.
Init ==
  /\ tenant \in [requireTwoFactor : BOOLEAN, enrolled : BOOLEAN]
  /\ issued = IF tenant.enrolled THEN 1 ELSE 0
  /\ user = [failedLoginAttempts |-> 0, lockedUntil |-> 0, mfaSecret |-> issued,
             mfaEnabledAt |-> tenant.enrolled, mfaLastStep |-> NoStep,
             mfaFailedAttempts |-> 0, mfaLockedUntil |-> 0,
             mfaRecoveryHashes |-> UNION {RecoveryCodes(i) : i \in 1..issued}]
  /\ now = 0
  /\ tokens = [t \in Tabs |-> NoToken]
  /\ requests = [t \in Tabs |-> Waiting]
  /\ phone = issued /\ made = 0
  /\ spent = {} /\ proven = 1..issued /\ faults = {}
  /\ wrong = [password |-> 0, code |-> 0]

Tick ==
  /\ now < MaxTime
  /\ now' = now + 1
  /\ UNCHANGED <<tenant, user, tokens, requests, phone, issued, made, spent, proven,
                 wrong, faults>>

\* The person scans the secret the last enrolment showed.
Scan ==
  /\ phone # issued
  /\ phone' = issued
  /\ UNCHANGED <<tenant, user, now, tokens, requests, issued, made, spent, proven,
                 wrong, faults>>

\* Mutant: one failure more than the limit is let pass.
tooManyByOne(failures, limit) == failures > limit

tooMany(failures, limit) == failures >= limit

\* A handler has read the row: what it read decides what it writes.
Begin(t, request, fault) ==
  /\ requests[t] = Waiting
  /\ made < MaxRequests
  /\ made' = made + 1
  /\ requests' = [requests EXCEPT ![t] = request]
  /\ faults' = faults \cup fault
                    \cup {"overlap" : u \in {v \in Tabs : requests[v] # Waiting}}
  /\ UNCHANGED <<tenant, user, now, tokens, phone, issued, spent, proven, wrong>>

End(t) == requests' = [requests EXCEPT ![t] = Waiting]

----------------------------------------------------------------------------
(* The password.                                                           *)

LoginRead(t, right) ==
  Begin(t, [at |-> "login", right |-> right, read |-> user,
            locked |-> user.lockedUntil > now, mandated |-> tenant.requireTwoFactor], {})

\* A wrong password and a locked account look the same; only the former counts.
LoginFails(t) ==
  LET r == requests[t]
      failures == r.read.failedLoginAttempts + 1
  IN /\ r.at = "login"
     /\ ~r.right \/ r.locked
     /\ user' = IF r.locked THEN user
                ELSE [user EXCEPT !.failedLoginAttempts = failures,
                        !.lockedUntil = IF tooMany(failures, MAX_LOGIN_FAILURES)
                                        THEN now + Lockout ELSE @]
     /\ wrong' = IF r.right THEN wrong ELSE [wrong EXCEPT !.password = @ + 1]
     /\ End(t)
     /\ UNCHANGED <<tenant, now, tokens, phone, issued, made, spent, proven, faults>>

\* The right password buys a session, or a challenge where a second factor is on
\* or mandated. Nothing accepts the enrolment challenge of an account without one.
LoginPasses(t) ==
  LET r == requests[t] IN
    /\ r.at = "login"
    /\ r.right /\ ~r.locked
    /\ user' = IF r.read.failedLoginAttempts > 0 \/ r.read.lockedUntil > 0
               THEN [user EXCEPT !.failedLoginAttempts = 0, !.lockedUntil = 0]
               ELSE user
    /\ tokens' = [tokens EXCEPT ![t] =
         IF r.read.mfaEnabledAt /\ r.read.mfaSecret # 0
         THEN Token("mfa-challenge", now + ChallengeTtl)
         ELSE IF r.mandated THEN Token("mfa-enrol", now + 2 * ChallengeTtl)
         ELSE Token("user", MaxTime)]
    /\ wrong' = [wrong EXCEPT !.password = 0]
    /\ End(t)
    /\ UNCHANGED <<tenant, now, phone, issued, made, spent, proven, faults>>

----------------------------------------------------------------------------
(* The code.                                                               *)

\* A challenge of before the factor was turned off is good for the next one, too,
\* confirmed or not.
CodeRead(t, code) ==
  /\ verifyToken(tokens[t], "mfa-challenge")
  /\ user.mfaSecret # 0
  /\ user.mfaLockedUntil <= now
  /\ LET ok == verifyTotp(user.mfaSecret, code, user.mfaLastStep) IN
       Begin(t, [at |-> "code", code |-> code, read |-> user, ok |-> ok,
                 usedRecovery |-> ~ok /\ matchRecoveryCode(code, user.mfaRecoveryHashes)],
             {"unconfirmed" : x \in {TRUE} \cap {~user.mfaEnabledAt}})

CodeFails(t) ==
  LET r == requests[t]
      failures == r.read.mfaFailedAttempts + 1
  IN /\ r.at = "code"
     /\ ~r.ok /\ ~r.usedRecovery
     /\ user' = [user EXCEPT !.mfaFailedAttempts = failures,
                   !.mfaLockedUntil = IF tooMany(failures, MAX_FAILURES)
                                      THEN now + Lockout ELSE @]
     /\ wrong' = [wrong EXCEPT !.code = @ + 1]
     /\ End(t)
     /\ UNCHANGED <<tenant, now, tokens, phone, issued, made, spent, proven, faults>>

\* An accepted code is spent: the step, or the recovery code on the list as read.
Accept(read, code, ok) ==
  [user EXCEPT !.mfaFailedAttempts = 0, !.mfaLockedUntil = 0,
               !.mfaLastStep = IF ok THEN code.step ELSE @,
               !.mfaRecoveryHashes =
                 IF ok THEN @ ELSE read.mfaRecoveryHashes \ {code}]

CodePasses(t) ==
  LET r == requests[t] IN
    /\ r.at = "code"
    /\ r.ok \/ r.usedRecovery
    /\ user' = Accept(r.read, r.code, r.ok)
    /\ tokens' = [tokens EXCEPT ![t] =
                    [kind |-> "user", exp |-> MaxTime, by |-> "code"]]
    /\ spent' = spent \cup {r.code}
    /\ faults' = faults \cup {"reuse" : c \in spent \cap {r.code}}
    /\ wrong' = [wrong EXCEPT !.code = 0]
    /\ End(t)
    /\ UNCHANGED <<tenant, now, phone, issued, made, proven>>

----------------------------------------------------------------------------
(* Setting the second factor up, and turning it off.                       *)

EnrolRead(t) ==
  /\ authenticateBearer(t)
  /\ ~user.mfaEnabledAt
  /\ issued < MaxSecrets
  /\ Begin(t, [at |-> "enrol"], {})

\* The row starts over with a new secret, not enabled yet.
EnrolWrite(t) ==
  /\ requests[t].at = "enrol"
  /\ issued' = issued + 1
  /\ user' = [user EXCEPT !.mfaSecret = issued',
                !.mfaRecoveryHashes = RecoveryCodes(issued'),
                !.mfaEnabledAt = FALSE, !.mfaLastStep = NoStep,
                !.mfaFailedAttempts = 0, !.mfaLockedUntil = 0]
  /\ wrong' = [wrong EXCEPT !.code = 0]
  /\ End(t)
  /\ UNCHANGED <<tenant, now, tokens, phone, made, spent, proven, faults>>

\* Confirming takes a code of the secret just read; a step used before passes.
ConfirmRead(t, code) ==
  /\ authenticateBearer(t)
  /\ user.mfaSecret # 0
  /\ verifyTotp(user.mfaSecret, code, NoStep)
  /\ Begin(t, [at |-> "confirm", code |-> code],
           {"reconfirmed" : x \in {TRUE} \cap {user.mfaEnabledAt}})

ConfirmWrite(t) ==
  LET r == requests[t] IN
    /\ r.at = "confirm"
    /\ user' = [user EXCEPT !.mfaEnabledAt = TRUE, !.mfaLastStep = r.code.step]
    /\ proven' = proven \cup {r.code.secret}
    /\ End(t)
    /\ UNCHANGED <<tenant, now, tokens, phone, issued, made, spent, wrong, faults>>

DisableRead(t, code) ==
  /\ authenticateBearer(t)
  /\ ~tenant.requireTwoFactor
  /\ user.mfaSecret # 0 /\ user.mfaEnabledAt
  /\ verifyTotp(user.mfaSecret, code, user.mfaLastStep)
  /\ Begin(t, [at |-> "disable"], {})

DisableWrite(t) ==
  /\ requests[t].at = "disable"
  /\ user' = [user EXCEPT !.mfaSecret = 0, !.mfaEnabledAt = FALSE,
                !.mfaLastStep = NoStep, !.mfaRecoveryHashes = {},
                !.mfaFailedAttempts = 0, !.mfaLockedUntil = 0]
  /\ wrong' = [wrong EXCEPT !.code = 0]
  /\ End(t)
  /\ UNCHANGED <<tenant, now, tokens, phone, issued, made, spent, proven, faults>>

SignOut(t) ==
  /\ requests[t] = Waiting
  /\ tokens[t].kind = "user"
  /\ tokens' = [tokens EXCEPT ![t] = NoToken]
  /\ UNCHANGED <<tenant, user, now, requests, phone, issued, made, spent, proven, wrong,
                 faults>>

Request(t) ==
  \/ \E right \in BOOLEAN : LoginRead(t, right)
  \/ EnrolRead(t)
  \/ \E code \in Codes : CodeRead(t, code) \/ ConfirmRead(t, code) \/ DisableRead(t, code)

Answer(t) ==
  \/ LoginFails(t) \/ LoginPasses(t)
  \/ CodeFails(t) \/ CodePasses(t)
  \/ EnrolWrite(t) \/ ConfirmWrite(t) \/ DisableWrite(t)

Next == Tick \/ Scan \/ \E t \in Tabs : Request(t) \/ Answer(t) \/ SignOut(t)

Spec == Init /\ [][Next]_vars

----------------------------------------------------------------------------
\* Types of the account's row and of what the tabs hold.
TypeOK ==
  /\ user.mfaSecret \in 0..issued
  /\ user.mfaLastStep \in NoStep..(MaxTime + 1)
  /\ user.mfaRecoveryHashes \subseteq UNION {RecoveryCodes(s) : s \in 1..issued}
  /\ \A t \in Tabs : tokens[t].kind \in {"none", "mfa-challenge", "mfa-enrol", "user"}
  /\ \A t \in Tabs :
       requests[t].at \in {"idle", "login", "code", "enrol", "confirm", "disable"}

\* Where a second factor is on from the start, or mandated, a correct password
\* alone opens no session and changes no second factor, in any interleaving:
\* the challenge it buys is good for presenting a code and nothing else.
SecondFactorFirst ==
  (tenant.enrolled \/ tenant.requireTwoFactor) /\ spent = {} =>
    /\ \A t \in Tabs : tokens[t].kind # "user"
    /\ user.mfaEnabledAt = tenant.enrolled
    /\ user.mfaSecret = IF tenant.enrolled THEN 1 ELSE 0

\* Among requests that do not overlap, a code opens one session: a step is used up
\* by a later one, a recovery code is struck off, and starting over changes both.
\* Unless a confirmation sets the last step back, which takes a factor that was on
\* already, or one a code was shown of before it was.
CodesWorkOnce ==
  "reuse" \in faults => faults \cap {"overlap", "reconfirmed", "unconfirmed"} # {}

\* Among requests that do not overlap, an account stops accepting passwords, or
\* codes, exactly when so many wrong ones have come since the last right one:
\* the two counters keep apart whatever is done in between.
LocksForCause ==
  "overlap" \notin faults =>
    /\ (user.lockedUntil # 0 <=> wrong.password >= MAX_LOGIN_FAILURES)
    /\ (user.mfaLockedUntil # 0 <=> wrong.code >= MAX_FAILURES)

\* twofactor.ts: "Nothing is switched on until a code proves the authenticator
\* was actually configured". Violated: an enrolment in another tab replaces the
\* secret between the confirmation's read and its write.
EnabledIsProven == user.mfaEnabledAt => user.mfaSecret \in proven
=============================================================================
