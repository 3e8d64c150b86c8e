------------------------------- MODULE Accounts -------------------------------
(***************************************************************************)
(* Sign-up, verification, sessions and the principal of a request          *)
(* (app/routers/auth.py, app/auth), served by replicas over one database.  *)
(*                                                                         *)
(* A replica runs one handler at a time (no handler suspends), but the     *)
(* statements of two replicas interleave, each commits on its own, and a   *)
(* replica may die between two of them.                                    *)
(*                                                                         *)
(* An account is named by its address, which users.email makes unique; a   *)
(* token and a session by its number, of which the code keeps the hash.    *)
(***************************************************************************)
EXTENDS Naturals, Sequences

CONSTANTS
    Replicas,
    Emails,
    AllowedEmails,     \* those whose domain the allow-list admits
    VerificationTtl,
    SessionTtl,
    RaceIsConflict,    \* the backend's duplicate error is one signup_service.py:109 catches
    Setups             \* deployments: the auth modes and whether an API key is set

ASSUME AccountsAssumption ==
    /\ VerificationTtl \in Nat /\ SessionTtl \in Nat /\ RaceIsConflict \in BOOLEAN
    /\ AllowedEmails \subseteq Emails
    /\ Setups \subseteq [modes : SUBSET {"password", "apikey"}, key : BOOLEAN]

VARIABLES
    setup,     \* the deployment, fixed at the start
    now,       \* the clock, one for all replicas and the database
    users,     \* status per registered address
    tokens,    \* the rows of email_verification_tokens, in the order of issue
    sessions,  \* the rows of sessions by number
    job,       \* the handler each replica is in
    answer,    \* the last answer given
    mailed,    \* history: the mails handed to the mailer
    presented, \* history: the tokens whose look-up succeeded
    verified,  \* history: every verification answered 200: its token, and how many were
               \* answered before it looked the token up
    minted,    \* history: every session ever opened
    ended      \* history: the sessions logged out of

rowVars == <<users, tokens, sessions>>
linkHistory == <<mailed, presented, verified>>
historyVars == <<linkHistory, minted, ended>>
accountVars == <<setup, now, rowVars, job, answer, historyVars>>

Idle == [at |-> "idle"]
-----------------------------------------------------------------------------
Registered(e) == e \in DOMAIN users
Active(e) == Registered(e) /\ users[e] = "active"

\* find_active: unused and not expired.
Presentable(n) == n \in DOMAIN tokens /\ ~tokens[n].used /\ now < tokens[n].expires

\* The row is there, however old.
KnownSession(s) == s \in DOMAIN sessions

\* lookup_active_user_id.
LiveSession(s) == s \in DOMAIN sessions /\ now < sessions[s].expires

Reply(op, code, who) == answer' = [op |-> op, code |-> code, who |-> who]
Goto(r, step) == job' = [job EXCEPT ![r] = step]
Free(r) == job[r] = Idle

AccountsInit ==
    /\ setup \in Setups
    /\ now = 0
    /\ users = [e \in {} |-> ""]
    /\ tokens = <<>>
    /\ sessions = [s \in {} |-> {}]
    /\ job = [r \in Replicas |-> Idle]
    /\ answer = [op |-> "none", code |-> 0, who |-> {}]
    /\ mailed = {}
    /\ presented = {}
    /\ verified = <<>>
    /\ minted = <<>>
    /\ ended = {}
-----------------------------------------------------------------------------
(***************************************************************************)
(* POST /auth/signup: the domain, the address, then user, token, mail.     *)
(***************************************************************************)
SignUp(r, e) ==
    /\ Free(r)
    /\ \/ /\ e \notin AllowedEmails
          /\ Reply("signup", 403, e) /\ UNCHANGED job
       \/ /\ e \in AllowedEmails /\ Registered(e)
          /\ Reply("signup", 409, e) /\ UNCHANGED job
       \/ /\ e \in AllowedEmails /\ ~Registered(e)
          /\ Goto(r, [at |-> "insertUser", email |-> e]) /\ UNCHANGED answer
    /\ UNCHANGED <<setup, now, rowVars, historyVars>>

\* The lost race is taken for a won one.
InsertOrKeepUser(r) == LET e == job[r].email IN
    /\ job[r].at = "insertUser"
    /\ users' = [x \in DOMAIN users \cup {e} |-> IF Registered(x) THEN users[x] ELSE "pending"]
    /\ Goto(r, [at |-> "issueToken", email |-> e])
    /\ UNCHANGED <<setup, now, tokens, sessions, answer, historyVars>>

\* users.email is UNIQUE: the loser of a race is a 409, on a backend whose error is
\* not recognised a 500.
InsertUser(r) == LET e == job[r].email IN
    /\ job[r].at = "insertUser"
    /\ \/ /\ Registered(e)
          /\ Reply("signup", IF RaceIsConflict THEN 409 ELSE 500, e)
          /\ Goto(r, Idle)
          /\ UNCHANGED users
       \/ /\ ~Registered(e)
          /\ users' = [x \in DOMAIN users \cup {e} |-> IF x = e THEN "pending" ELSE users[x]]
          /\ Goto(r, [at |-> "issueToken", email |-> e])
          /\ UNCHANGED answer
    /\ UNCHANGED <<setup, now, tokens, sessions, historyVars>>

IssueToken(r) == LET e == job[r].email IN
    /\ job[r].at = "issueToken"
    /\ tokens' = Append(tokens, [user |-> e, expires |-> now + VerificationTtl, used |-> FALSE])
    /\ Goto(r, [at |-> "mail", email |-> e, token |-> Len(tokens) + 1])
    /\ UNCHANGED <<setup, now, users, sessions, answer, historyVars>>

SendMail(r) ==
    /\ job[r].at = "mail"
    /\ mailed' = mailed \cup {[to |-> job[r].email, token |-> job[r].token]}
    /\ Reply("signup", 202, job[r].email)
    /\ Goto(r, Idle)
    /\ UNCHANGED <<setup, now, rowVars, presented, verified, minted, ended>>
-----------------------------------------------------------------------------
(***************************************************************************)
(* POST /auth/verify: the token is looked up, the account activated, the   *)
(* token consumed.  Only who was mailed a token can present it.            *)
(***************************************************************************)

\* The link is found: job and history note it.
Presents(r, n) ==
    /\ Goto(r, [at |-> "activate", token |-> n, asked |-> Len(verified)])
    /\ presented' = presented \cup {n}

SpendAtOnce(r, n) ==
    /\ Free(r) /\ Presentable(n) /\ \E m \in mailed : m.token = n
    /\ Presents(r, n)
    /\ tokens' = [tokens EXCEPT ![n].used = TRUE]
    /\ UNCHANGED <<setup, now, users, sessions, answer, mailed, verified, minted, ended>>

\* A link is found however often it was used.
VerifyAgain(r, n) ==
    /\ Free(r) /\ \E m \in mailed : m.token = n
    /\ n \in DOMAIN tokens /\ now < tokens[n].expires
    /\ Presents(r, n)
    /\ UNCHANGED <<setup, now, rowVars, answer, mailed, verified, minted, ended>>

Verify(r, n) ==
    /\ Free(r) /\ \E m \in mailed : m.token = n
    /\ \/ /\ ~Presentable(n)
          /\ Reply("verify", 404, n) /\ UNCHANGED <<job, presented>>
       \/ /\ Presentable(n)
          /\ Presents(r, n) /\ UNCHANGED answer
    /\ UNCHANGED <<setup, now, rowVars, mailed, verified, minted, ended>>

Activate(r) ==
    /\ job[r].at = "activate"
    /\ users' = [users EXCEPT ![tokens[job[r].token].user] = "active"]
    /\ Goto(r, [at |-> "consume", token |-> job[r].token, asked |-> job[r].asked])
    /\ UNCHANGED <<setup, now, tokens, sessions, answer, historyVars>>

\* And the row of the user, which is never deleted, is read back.
Consume(r) == LET n == job[r].token IN
    /\ job[r].at = "consume"
    /\ tokens' = [tokens EXCEPT ![n].used = TRUE]
    /\ verified' = Append(verified, [token |-> n, asked |-> job[r].asked])
    /\ Reply("verify", 200, tokens[n].user)
    /\ Goto(r, Idle)
    /\ UNCHANGED <<setup, now, users, sessions, mailed, presented, minted, ended>>
-----------------------------------------------------------------------------
(***************************************************************************)
(* POST /auth/login, POST /auth/logout.                                    *)
(***************************************************************************)

\* The password is not asked whose account it opens.
LogInUnverified(r, e, rightPassword) ==
    /\ Free(r) /\ Registered(e) /\ rightPassword
    /\ Goto(r, [at |-> "openSession", email |-> e])
    /\ UNCHANGED <<setup, now, rowVars, answer, historyVars>>

LogIn(r, e, rightPassword) ==
    /\ Free(r)
    /\ \/ /\ ~Active(e) \/ ~rightPassword
          /\ Reply("login", 401, e) /\ UNCHANGED job
       \/ /\ Active(e) /\ rightPassword
          /\ Goto(r, [at |-> "openSession", email |-> e]) /\ UNCHANGED answer
    /\ UNCHANGED <<setup, now, rowVars, historyVars>>

OpenSession(r) == LET e == job[r].email
                      s == Len(minted) + 1 IN
    /\ job[r].at = "openSession"
    /\ sessions' = [x \in DOMAIN sessions \cup {s} |->
                       IF x = s THEN [user |-> e, expires |-> now + SessionTtl] ELSE sessions[x]]
    /\ minted' = Append(minted, [user |-> e, at |-> now])
    /\ Reply("login", 200, e)
    /\ Goto(r, Idle)
    /\ UNCHANGED <<setup, now, users, tokens, linkHistory, ended>>

\* One statement, and a 204 whether or not the session was there.
LogOut(r, s) ==
    /\ Free(r)
    /\ sessions' = [x \in DOMAIN sessions \ {s} |-> sessions[x]]
    /\ ended' = ended \cup {s}
    /\ Reply("logout", 204, s)
    /\ UNCHANGED <<setup, now, users, tokens, job, linkHistory, minted>>
-----------------------------------------------------------------------------
(***************************************************************************)
(* The principal of a request to a protected route: the providers in the   *)
(* order of their registration, then 401, or the anonymous service where   *)
(* nothing is configured.  A session is looked up and then its user; no    *)
(* user is ever deleted, so one step.                                      *)
(***************************************************************************)
Credentials == [session : 0 .. Len(minted), key : {"none", "wrong", "right"}]

Providers ==
    (IF setup.key \/ "apikey" \in setup.modes THEN <<"apikey">> ELSE <<>>)
    \o (IF "password" \in setup.modes THEN <<"password">> ELSE <<>>)

AuthConfigured == setup.modes # {} \/ setup.key

KeyAccepted(c) == setup.key /\ c.key = "right"
SessionAccepted(c) == LiveSession(c.session) /\ Registered(sessions[c.session].user)

Accepts(provider, c) ==
    CASE provider = "apikey"   -> KeyAccepted(c)
      [] provider = "password" -> SessionAccepted(c)

\* The places in the registry of the providers that accept the request.
Accepting(c) == {i \in DOMAIN Providers : Accepts(Providers[i], c)}

Access(r, c) ==
    /\ Free(r)
    /\ \/ \E i \in Accepting(c) :
             /\ \A j \in Accepting(c) : i <= j
             /\ Reply("access", 200, [by |-> Providers[i], session |-> c.session])
       \/ /\ Accepting(c) = {} /\ (AuthConfigured \/ Providers # <<>>)
          /\ Reply("access", 401, c)
       \/ /\ Accepting(c) = {} /\ ~AuthConfigured /\ Providers = <<>>
          /\ Reply("access", 200, [by |-> "anonymous", session |-> c.session])
    /\ UNCHANGED <<setup, now, rowVars, job, historyVars>>
-----------------------------------------------------------------------------
\* The replica dies in the middle of a request; nothing of it was a transaction.
Crash(r) ==
    /\ ~Free(r)
    /\ Goto(r, Idle)
    /\ UNCHANGED <<setup, now, rowVars, answer, historyVars>>

Elapse ==
    /\ now' = now + 1
    /\ UNCHANGED <<setup, rowVars, job, answer, historyVars>>

ReplicaNext(r) ==
    \/ \E e \in Emails : SignUp(r, e) \/ \E ok \in BOOLEAN : LogIn(r, e, ok)
    \/ InsertUser(r) \/ IssueToken(r) \/ SendMail(r)
    \/ \E n \in DOMAIN tokens : Verify(r, n)
    \/ Activate(r) \/ Consume(r)
    \/ OpenSession(r) \/ \E s \in DOMAIN minted : LogOut(r, s)
    \/ \E c \in Credentials : Access(r, c)
    \/ Crash(r)

AccountsNext == (\E r \in Replicas : ReplicaNext(r)) \/ Elapse

AccountsSpec == AccountsInit /\ [][AccountsNext]_accountVars
-----------------------------------------------------------------------------
(***************************************************************************)
(* Properties.                                                             *)
(***************************************************************************)

\* However many replicas sign an address up at once, one of them mails it, and
\* one link.
OneLinkPerAddress ==
    \A m1, m2 \in mailed : m1.to = m2.to => m1 = m2

\* The account is activated before its token is consumed: a replica that dies in
\* between leaves a link that still works, never a spent one on a pending account,
\* which no second sign-up could replace.
NoTokenIsSpentInVain ==
    \A n \in DOMAIN tokens : tokens[n].used => Active(tokens[n].user)

\* Whoever holds a session has presented the link mailed to the account's address: an
\* account whose link was mailed and never used has none, whatever the replicas did
\* between the look-up of a link, the activation and the login.
SessionsBelongToReachedAddresses ==
    \A s \in DOMAIN minted :
        \E m \in mailed : m.to = minted[s].user /\ m.token \in presented

\* "stamped consumed so it is strictly single-use" (verification_service.py:6), which
\* holds between verifications that do not overlap: two of one link are answered 200
\* only if the later one had looked the link up before the earlier one was answered.
LinksWorkTwiceOnlyByOverlap ==
    \A i, j \in DOMAIN verified :
        (i < j /\ verified[i].token = verified[j].token) => verified[j].asked < i

\* No replica serves a session that was logged out of at any replica, nor one older
\* than its lifetime (the replicas' clocks agree, see now).
DeadSessionsStayDead ==
    [][ \A s \in DOMAIN minted :
          (answer' # answer /\ answer'.op = "access"
           /\ answer'.code = 200 /\ answer'.who = [by |-> "password", session |-> s])
          => s \notin ended /\ now < minted[s].at + SessionTtl ]_accountVars

\* "The token expires; if it has, request a new one by signing up again."
\* (verification_email.py:17): a sign-up is not refused once the link of the account
\* has expired and the account is still pending.
SigningUpAgainHelps ==
    [][ \A n \in DOMAIN tokens :
          (/\ ~tokens[n].used /\ now >= tokens[n].expires
           /\ ~Active(tokens[n].user)
           /\ answer' # answer /\ answer'.op = "signup")
          => ~(answer'.code = 409 /\ answer'.who = tokens[n].user) ]_accountVars
=============================================================================
