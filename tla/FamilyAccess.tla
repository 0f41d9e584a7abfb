---------------------------- MODULE FamilyAccess ----------------------------
(***************************************************************************)
(* Accounts, logins, sessions, password recovery and family memberships    *)
(* (api/auth.py and the account tables of api/storage.py).                 *)
(*                                                                         *)
(* A login is a sequence of transactions with a slow password check in     *)
(* between; requests of several parents, or guesses of one, interleave     *)
(* there.  An account is the email it was created with, and its password   *)
(* is the number of times one has been set.  Memberships, sessions and     *)
(* reset tokens are numbered as they are inserted.                         *)
(***************************************************************************)
EXTENDS Integers, Sequences, FiniteSets

CONSTANTS
    Emails,
    Families,
    Handlers,            \* requests served at the same time
    AnyFamily,           \* a login that names no family
    MAX_LOGIN_ATTEMPTS,
    LOGIN_WINDOW, SESSION_TTL, PASSWORD_RESET_TTL,   \* in ticks
    MaxTime, MaxPassword, MaxMemberships, MaxSessions, MaxTokens   \* bounds

ASSUME AccessConstants ==
    /\ IsFiniteSet(Handlers)
    /\ AnyFamily \notin Families
    /\ MAX_LOGIN_ATTEMPTS \in Nat \ {0} /\ MaxPassword \in Nat \ {0}
    /\ {LOGIN_WINDOW, SESSION_TTL, PASSWORD_RESET_TTL, MaxTime,
        MaxMemberships, MaxSessions, MaxTokens} \subseteq Nat

VARIABLES
    now,
    accounts,       \* the password of each email's account, 0 without an account
    memberships,
    sessions,       \* auth_sessions
    attempts,       \* login_attempts of each email: when
    tokens,         \* password_reset_tokens
    handlers        \* logins and authenticated requests in progress

vars == <<now, accounts, memberships, sessions, attempts, tokens, handlers>>

Membership == [account: Emails, family: Families, owner: BOOLEAN, active: BOOLEAN]

\* "under" is a history field: the account's password when the session was opened.
Session == [member: Nat, expires: Nat, revoked: BOOLEAN, under: Nat]

Token == [account: Emails, expires: Nat, used: BOOLEAN]

\* A login has counted the attempts, failed, checked the password, found the family,
\* or cleared the attempts; a request has resolved its session, or checked its CSRF token.
\* row is the membership, or the session of a request.
Idle == [step |-> "IDLE"]

LoginStep == {"COUNTED", "FAILED", "VERIFIED", "SCOPED", "CLEARED"}

Handler ==
    {Idle} \cup [step: LoginStep, email: Emails, row: Nat]
           \cup [step: {"RESOLVED", "CHECKED"}, row: Nat]

TypeOK ==
    /\ now \in 0..MaxTime
    /\ accounts \in [Emails -> 0..MaxPassword]
    /\ memberships \in Seq(Membership)
    /\ sessions \in Seq(Session)
    /\ attempts \in [Emails -> Seq(0..MaxTime)]
    /\ tokens \in Seq(Token)
    /\ handlers \in [Handlers -> Handler]
    /\ \A s \in DOMAIN sessions : sessions[s].member \in DOMAIN memberships
    /\ \A h \in Handlers :
          /\ handlers[h].step \in {"SCOPED", "CLEARED"} => handlers[h].row \in DOMAIN memberships
          /\ handlers[h].step \in {"RESOLVED", "CHECKED"} => handlers[h].row \in DOMAIN sessions

Init ==
    /\ now = 0
    /\ accounts = [e \in Emails |-> 0]
    /\ memberships = <<>> /\ sessions = <<>> /\ tokens = <<>>
    /\ attempts = [e \in Emails |-> <<>>]
    /\ handlers = [h \in Handlers |-> Idle]

Tick ==
    /\ now < MaxTime
    /\ now' = now + 1
    /\ UNCHANGED <<accounts, memberships, sessions, attempts, tokens, handlers>>

-----------------------------------------------------------------------------
(* Accounts and memberships: one transaction each, called by the operator *)

\* The email is unique.
CreateAccount(e) ==
    /\ accounts[e] = 0
    /\ accounts' = [accounts EXCEPT ![e] = 1]
    /\ UNCHANGED <<now, memberships, sessions, attempts, tokens, handlers>>

InsertMembership(e, f, owner) ==
    /\ Len(memberships) < MaxMemberships
    /\ memberships' = Append(memberships,
           [account |-> e, family |-> f, owner |-> owner, active |-> TRUE])
    /\ UNCHANGED <<now, accounts, sessions, attempts, tokens, handlers>>

Members(f) == {m \in DOMAIN memberships : memberships[m].family = f}

CreateFamilyWithOwner(e, f) ==
    /\ accounts[e] # 0
    /\ Members(f) = {}
    /\ InsertMembership(e, f, TRUE)

\* Mutation: only an active membership counts against UNIQUE(account_id, family_id).
NotActiveMember(e, f) ==
    \A m \in Members(f) : memberships[m].account = e => ~memberships[m].active

\* UNIQUE(account_id, family_id), revoked rows included.
NotMember(e, f) == \A m \in Members(f) : memberships[m].account # e

AddMembership(e, f, owner) ==
    /\ accounts[e] # 0 /\ Members(f) # {}
    /\ NotMember(e, f)
    /\ InsertMembership(e, f, owner)

OtherOwner(m) ==
    \E o \in Members(memberships[m].family) :
        o # m /\ memberships[o].owner /\ memberships[o].active

\* BEGIN IMMEDIATE: the last active owner stays.
RevokeMembership(m) ==
    /\ memberships[m].active
    /\ memberships[m].owner => OtherOwner(m)
    /\ memberships' = [memberships EXCEPT ![m].active = FALSE]
    /\ UNCHANGED <<now, accounts, sessions, attempts, tokens, handlers>>

-----------------------------------------------------------------------------
(* login *)

Continue(h, step) == handlers' = [handlers EXCEPT ![h].step = step]

Finish(h) == handlers' = [handlers EXCEPT ![h] = Idle]

\* Attempts are recorded in the order of time: the old ones come first.
Old(e) == {i \in DOMAIN attempts[e] : attempts[e][i] < now - LOGIN_WINDOW}

\* login_attempt_count deletes what is older than the window, for every email.
Pruned(e) == SubSeq(attempts[e], Cardinality(Old(e)) + 1, Len(attempts[e]))

\* Mutation: one attempt more.
AllowedOneMore(e) == Len(Pruned(e)) <= MAX_LOGIN_ATTEMPTS

Allowed(e) == Len(Pruned(e)) < MAX_LOGIN_ATTEMPTS

CountAttempts(h, e) ==
    /\ handlers[h] = Idle
    /\ attempts' = [d \in Emails |-> Pruned(d)]
    /\ IF Allowed(e)
       THEN handlers' = [handlers EXCEPT
                ![h] = [step |-> "COUNTED", email |-> e, row |-> 0]]
       ELSE UNCHANGED handlers      \* LoginRateLimited
    /\ UNCHANGED <<now, accounts, memberships, sessions, tokens>>

\* The credentials are read and the password checked against what was read; an email
\* without an account is checked against a dummy.
VerifyPassword(h) ==
    /\ handlers[h].step = "COUNTED"
    /\ \/ Continue(h, "FAILED")
       \/ accounts[handlers[h].email] # 0 /\ Continue(h, "VERIFIED")
    /\ UNCHANGED <<now, accounts, memberships, sessions, attempts, tokens>>

RecordAttempt(h) ==
    /\ handlers[h].step = "FAILED"
    /\ attempts' = [attempts EXCEPT ![handlers[h].email] = Append(@, now)]
    /\ Finish(h)
    /\ UNCHANGED <<now, accounts, memberships, sessions, tokens>>

\* The account's active memberships, of the family the login names if it names one.
Scopes(e, f) ==
    {m \in DOMAIN memberships :
        /\ memberships[m].account = e /\ memberships[m].active
        /\ f \in {AnyFamily, memberships[m].family}}

\* active_family_scope: the oldest, or the login counts as failed. f is the family the
\* login names, which nothing before has looked at.
FindScope(h, f) ==
    /\ handlers[h].step = "VERIFIED"
    /\ LET scopes == Scopes(handlers[h].email, f)
       IN  IF scopes = {} THEN Continue(h, "FAILED")
           ELSE \E m \in scopes :
                   /\ \A o \in scopes : m <= o
                   /\ handlers' = [handlers EXCEPT ![h].step = "SCOPED", ![h].row = m]
    /\ UNCHANGED <<now, accounts, memberships, sessions, attempts, tokens>>

ClearAttempts(h) ==
    /\ handlers[h].step = "SCOPED"
    /\ attempts' = [attempts EXCEPT ![handlers[h].email] = <<>>]
    /\ Continue(h, "CLEARED")
    /\ UNCHANGED <<now, accounts, memberships, sessions, tokens>>

CreateAuthSession(h) ==
    /\ handlers[h].step = "CLEARED"
    /\ Len(sessions) < MaxSessions
    /\ sessions' = Append(sessions,
           [member |-> handlers[h].row, expires |-> now + SESSION_TTL, revoked |-> FALSE,
            under |-> accounts[handlers[h].email]])
    /\ Finish(h)
    /\ UNCHANGED <<now, accounts, memberships, attempts, tokens>>

-----------------------------------------------------------------------------
(* Authenticated requests that change this state *)

\* A session that has been neither revoked nor outlived.
Open(s) == ~sessions[s].revoked /\ now < sessions[s].expires

\* resolve_family_scope: the membership must still be active too.
Resolves(s) == Open(s) /\ memberships[sessions[s].member].active

AccountOf(s) == memberships[sessions[s].member].account

ResolveScope(h, s) ==
    /\ handlers[h] = Idle
    /\ Resolves(s)
    /\ handlers' = [handlers EXCEPT ![h] = [step |-> "RESOLVED", row |-> s]]
    /\ UNCHANGED <<now, accounts, memberships, sessions, attempts, tokens>>

\* require_mutation_scope reads the session a second time, for its CSRF token.
CheckCsrf(h) ==
    /\ handlers[h].step = "RESOLVED"
    /\ IF Open(handlers[h].row) THEN Continue(h, "CHECKED") ELSE Finish(h)
    /\ UNCHANGED <<now, accounts, memberships, sessions, attempts, tokens>>

\* Mutation: the rows are deleted.
DeleteSessions(set) ==
    [s \in DOMAIN sessions \ set |-> sessions[s]]

RevokeSessions(set) ==
    [s \in DOMAIN sessions |->
        IF s \in set THEN [sessions[s] EXCEPT !.revoked = TRUE] ELSE sessions[s]]

AccountSessions(e) == {s \in DOMAIN sessions : AccountOf(s) = e}

\* Logout closes the request's session, logout-all those of its account.
Logout(h) ==
    /\ handlers[h].step = "CHECKED"
    /\ sessions' = RevokeSessions({handlers[h].row})
    /\ Finish(h)
    /\ UNCHANGED <<now, accounts, memberships, attempts, tokens>>

LogoutAll(h) ==
    /\ handlers[h].step = "CHECKED"
    /\ sessions' = RevokeSessions(AccountSessions(AccountOf(handlers[h].row)))
    /\ Finish(h)
    /\ UNCHANGED <<now, accounts, memberships, attempts, tokens>>

-----------------------------------------------------------------------------
(* Password recovery *)

\* Mutation: earlier tokens stay open.
KeepTokens(e) == tokens

CloseTokens(e) ==
    [t \in DOMAIN tokens |->
        IF tokens[t].account = e THEN [tokens[t] EXCEPT !.used = TRUE] ELSE tokens[t]]

\* A new token closes the account's earlier ones.
CreateResetToken(e) ==
    /\ accounts[e] # 0
    /\ Len(tokens) < MaxTokens
    /\ tokens' = Append(CloseTokens(e),
           [account |-> e, expires |-> now + PASSWORD_RESET_TTL, used |-> FALSE])
    /\ UNCHANGED <<now, accounts, memberships, sessions, attempts, handlers>>

\* Mutation: resetting the password leaves the sessions open.
KeepSessions(e) == sessions

ClosedByReset(e) == RevokeSessions(AccountSessions(e))

\* BEGIN IMMEDIATE: the token is used, the password set and the sessions closed together.
ConsumeResetToken(t) ==
    /\ ~tokens[t].used /\ now < tokens[t].expires
    /\ accounts[tokens[t].account] < MaxPassword
    /\ tokens' = [tokens EXCEPT ![t].used = TRUE]
    /\ accounts' = [accounts EXCEPT ![tokens[t].account] = @ + 1]
    /\ sessions' = ClosedByReset(tokens[t].account)
    /\ UNCHANGED <<now, memberships, attempts, handlers>>

-----------------------------------------------------------------------------
Operator ==
    \/ \E e \in Emails : CreateAccount(e)
    \/ \E e \in Emails, f \in Families : CreateFamilyWithOwner(e, f)
    \/ \E e \in Emails, f \in Families, owner \in BOOLEAN : AddMembership(e, f, owner)
    \/ \E m \in DOMAIN memberships : RevokeMembership(m)

Login(h) ==
    \/ \E e \in Emails : CountAttempts(h, e)
    \/ VerifyPassword(h) \/ RecordAttempt(h)
    \/ \E f \in Families \cup {AnyFamily} : FindScope(h, f)
    \/ ClearAttempts(h)
    \/ CreateAuthSession(h)

Request(h) ==
    \/ \E s \in DOMAIN sessions : ResolveScope(h, s)
    \/ CheckCsrf(h) \/ Logout(h) \/ LogoutAll(h)

Recovery ==
    \/ \E e \in Emails : CreateResetToken(e)
    \/ \E t \in DOMAIN tokens : ConsumeResetToken(t)

Next ==
    \/ Tick
    \/ Operator
    \/ \E h \in Handlers : Login(h) \/ Request(h)
    \/ Recovery

Spec == Init /\ [][Next]_vars

-----------------------------------------------------------------------------
(* Properties *)

\* Logins of one email that may still fail.
Guessing(e) ==
    {h \in Handlers : /\ handlers[h].step \in {"COUNTED", "VERIFIED", "FAILED"}
                      /\ handlers[h].email = e}

\* The attempts are counted long before a failure is recorded. However many logins race,
\* the failures in the window and those still possible exceed the limit by no more than
\* the other requests that can be in progress.
GuessesBounded ==
    \A e \in Emails :
        Len(attempts[e]) + Cardinality(Guessing(e))
            <= MAX_LOGIN_ATTEMPTS + Cardinality(Handlers) - 1

\* Whatever was in flight, an account has at most one token that sets its password, and
\* a session opened before the password was last reset is closed.
ResetTakesOver ==
    /\ \A t, u \in DOMAIN tokens :
          tokens[t].account = tokens[u].account /\ ~tokens[t].used /\ ~tokens[u].used => t = u
    /\ \A s \in DOMAIN sessions :
          sessions[s].under # accounts[AccountOf(s)] => sessions[s].revoked

\* The last owner of a family cannot be revoked, in whatever order owners go.
FamilyHasOwner ==
    \A f \in Families :
        Members(f) # {} => \E m \in Members(f) : memberships[m].owner /\ memberships[m].active

\* Once a session gives access to nothing, or a parent is out of a family, nothing that
\* was in flight and no later call gives the access back.
OutForGood ==
    [][/\ \A s \in DOMAIN sessions : ~Resolves(s) => ~Resolves(s)'
       /\ \A m \in DOMAIN memberships :
             Scopes(memberships[m].account, memberships[m].family) = {} =>
             Scopes(memberships[m].account, memberships[m].family)' = {}]_vars
=============================================================================
