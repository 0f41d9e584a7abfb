------------------------- MODULE FamilyAccessProofs -------------------------
(***************************************************************************)
(* Proofs about FamilyAccess for every set of emails, families and         *)
(* requests served at the same time.                                       *)
(***************************************************************************)
EXTENDS FamilyAccess, FiniteSetTheorems, SequenceTheorems, TLAPS

-----------------------------------------------------------------------------
(* Type correctness *)

\* The old attempts are a prefix that can be cut off.
LEMMA PrunedShorter ==
    ASSUME TypeOK, NEW e \in Emails
    PROVE  /\ Pruned(e) \in Seq(0..MaxTime)
           /\ Len(Pruned(e)) <= Len(attempts[e])
  <1>1. attempts[e] \in Seq(0..MaxTime) /\ Len(attempts[e]) \in Nat
    BY DEF TypeOK
  <1>2. IsFiniteSet(1..Len(attempts[e])) /\ Old(e) \subseteq 1..Len(attempts[e])
    <2>1. IsFiniteSet(1..Len(attempts[e]))
      BY <1>1, FS_Interval
    <2>2. DOMAIN attempts[e] = 1..Len(attempts[e])
      BY <1>1
    <2> QED BY <2>1, <2>2 DEF Old
  <1>3. Cardinality(Old(e)) \in Nat
    BY <1>2, FS_Subset, FS_CardinalityType
  <1> DEFINE s == attempts[e]
             k == Cardinality(Old(e)) + 1
  <1>4. s \in Seq(0..MaxTime) /\ k \in Nat \ {0} /\ Len(s) \in Nat
    BY <1>1, <1>3
  <1> HIDE DEF s, k
  <1>5. \A i \in k..Len(s) : s[i] \in 0..MaxTime
    <2>1. \A i \in k..Len(s) : i \in 1..Len(s)
      BY <1>4
    <2> QED BY <1>4, <2>1, ElementOfSeq
  <1>6. /\ SubSeq(s, k, Len(s)) \in Seq(0..MaxTime)
        /\ Len(SubSeq(s, k, Len(s))) = IF k <= Len(s) THEN Len(s) - k + 1 ELSE 0
    BY <1>4, <1>5, SubSeqProperties
  <1>7. Len(SubSeq(s, k, Len(s))) <= Len(s)
    BY <1>4, <1>6
  <1> QED BY <1>6, <1>7 DEF Pruned, s, k

\* A step of a login that goes on keeps its email and membership.
LEMMA LoginContinues ==
    ASSUME TypeOK, NEW h \in Handlers, NEW step \in LoginStep,
           handlers[h].step \in LoginStep, Continue(h, step)
    PROVE  /\ handlers' \in [Handlers -> Handler]
           /\ handlers'[h] = [handlers[h] EXCEPT !.step = step]
           /\ handlers'[h].step = step
           /\ handlers'[h].row = handlers[h].row
           /\ handlers'[h].email = handlers[h].email
           /\ \A g \in Handlers : g # h => handlers'[g] = handlers[g]
  <1>1. handlers[h] \in [step: LoginStep, email: Emails, row: Nat]
    <2>1. handlers[h] \in Handler
      BY DEF TypeOK
    <2>2. handlers[h].step \notin {"IDLE", "RESOLVED", "CHECKED"}
      BY DEF LoginStep
    <2>3. handlers[h] # Idle /\ handlers[h] \notin [step: {"RESOLVED", "CHECKED"}, row: Nat]
      BY <2>2 DEF Idle
    <2> QED BY <2>1, <2>3 DEF Handler
  <1>2. [handlers[h] EXCEPT !.step = step] \in Handler
    BY <1>1 DEF Handler
  <1>3. handlers' = [handlers EXCEPT ![h] = [handlers[h] EXCEPT !.step = step]]
    BY DEF Continue
  <1> QED BY <1>1, <1>2, <1>3 DEF TypeOK

\* A login that has found its membership.
ScopedHandler(h, m) ==
    /\ handlers' \in [Handlers -> Handler]
    /\ handlers'[h].step = "SCOPED"
    /\ handlers'[h].row = m
    /\ handlers'[h].email = handlers[h].email
    /\ \A g \in Handlers : g # h => handlers'[g] = handlers[g]

LEMMA HandlerScoped ==
    ASSUME TypeOK, NEW h \in Handlers, NEW m \in Nat, handlers[h].step \in LoginStep,
           handlers' = [handlers EXCEPT ![h].step = "SCOPED", ![h].row = m]
    PROVE  ScopedHandler(h, m)
  <1> DEFINE new == [handlers[h] EXCEPT !.step = "SCOPED", !.row = m]
  <1>1. handlers[h] \in [step: LoginStep, email: Emails, row: Nat]
    <2>1. handlers[h] \in Handler
      BY DEF TypeOK
    <2>2. handlers[h].step \notin {"IDLE", "RESOLVED", "CHECKED"}
      BY DEF LoginStep
    <2>3. handlers[h] # Idle /\ handlers[h] \notin [step: {"RESOLVED", "CHECKED"}, row: Nat]
      BY <2>2 DEF Idle
    <2> QED BY <2>1, <2>3 DEF Handler
  <1>2. /\ new \in [step: LoginStep, email: Emails, row: Nat]
        /\ new.step = "SCOPED" /\ new.row = m /\ new.email = handlers[h].email
    BY <1>1 DEF LoginStep
  <1>3. handlers' = [handlers EXCEPT ![h] = new]
    OBVIOUS
  <1> HIDE DEF new
  <1>4. new \in Handler
    BY <1>2 DEF Handler
  <1>5. handlers' \in [Handlers -> Handler] /\ handlers'[h] = new
    BY <1>3, <1>4 DEF TypeOK
  <1>6. \A g \in Handlers : g # h => handlers'[g] = handlers[g]
    BY <1>3 DEF TypeOK
  <1> QED BY <1>2, <1>5, <1>6 DEF ScopedHandler

LEMMA HandlerFinishes ==
    ASSUME TypeOK, NEW h \in Handlers, Finish(h)
    PROVE  /\ handlers' \in [Handlers -> Handler]
           /\ handlers'[h] = Idle
           /\ \A g \in Handlers : g # h => handlers'[g] = handlers[g]
  BY DEF TypeOK, Finish, Handler

\* Revoking sessions changes nothing else about them.
LEMMA SessionsRevoked ==
    ASSUME TypeOK, NEW set, sessions' = RevokeSessions(set)
    PROVE  /\ sessions' \in Seq(Session)
           /\ DOMAIN sessions' = DOMAIN sessions
           /\ \A s \in DOMAIN sessions :
                 /\ sessions'[s].member = sessions[s].member
                 /\ sessions'[s].expires = sessions[s].expires
                 /\ sessions'[s].under = sessions[s].under
                 /\ sessions'[s].revoked = (sessions[s].revoked \/ s \in set)
  <1>1. sessions \in Seq(Session) /\ DOMAIN sessions = 1..Len(sessions)
    BY DEF TypeOK
  <1>2. \A s \in DOMAIN sessions : sessions[s] \in Session
    BY <1>1
  <1>3. \A s \in DOMAIN sessions :
           sessions'[s] = IF s \in set THEN [sessions[s] EXCEPT !.revoked = TRUE] ELSE sessions[s]
    BY DEF RevokeSessions
  <1>4. \A s \in DOMAIN sessions :
           /\ sessions'[s] \in Session
           /\ sessions'[s].member = sessions[s].member
           /\ sessions'[s].expires = sessions[s].expires
           /\ sessions'[s].under = sessions[s].under
           /\ sessions'[s].revoked = (sessions[s].revoked \/ s \in set)
    BY <1>2, <1>3 DEF Session
  <1>5. sessions' = [s \in 1..Len(sessions) |-> sessions'[s]]
    BY <1>1 DEF RevokeSessions
  <1>6. sessions' \in [1..Len(sessions) -> Session]
    BY <1>1, <1>4, <1>5
  <1>7. sessions' \in Seq(Session)
    BY <1>1, <1>6, SeqDef
  <1> QED BY <1>1, <1>4, <1>6, <1>7

\* What a handler refers to is still there.
LEMMA HandlersTyped ==
    ASSUME TypeOK, NEW h \in Handlers,
           handlers' \in [Handlers -> Handler],
           \A g \in Handlers : g # h => handlers'[g] = handlers[g],
           handlers'[h].step \in {"SCOPED", "CLEARED"} => handlers'[h].row \in DOMAIN memberships,
           handlers'[h].step \in {"RESOLVED", "CHECKED"} => handlers'[h].row \in DOMAIN sessions,
           DOMAIN memberships \subseteq DOMAIN memberships',
           DOMAIN sessions \subseteq DOMAIN sessions'
    PROVE  \A g \in Handlers :
              /\ handlers'[g].step \in {"SCOPED", "CLEARED"} => handlers'[g].row \in DOMAIN memberships'
              /\ handlers'[g].step \in {"RESOLVED", "CHECKED"} => handlers'[g].row \in DOMAIN sessions'
  BY DEF TypeOK

\* A new membership leaves the others as they are.
LEMMA MembershipInserted ==
    ASSUME TypeOK, NEW e \in Emails, NEW f \in Families, NEW owner \in BOOLEAN,
           InsertMembership(e, f, owner)
    PROVE  /\ memberships' \in Seq(Membership)
           /\ DOMAIN memberships' = DOMAIN memberships \cup {Len(memberships) + 1}
           /\ Len(memberships) + 1 \notin DOMAIN memberships
           /\ \A m \in DOMAIN memberships : memberships'[m] = memberships[m]
           /\ memberships'[Len(memberships) + 1] =
                 [account |-> e, family |-> f, owner |-> owner, active |-> TRUE]
  <1> DEFINE new == [account |-> e, family |-> f, owner |-> owner, active |-> TRUE]
  <1>1. new \in Membership
    BY DEF Membership
  <1>2. memberships \in Seq(Membership) /\ memberships' = Append(memberships, new)
    BY DEF TypeOK, InsertMembership
  <1> HIDE DEF new
  <1>3. /\ memberships' \in Seq(Membership)
        /\ Len(memberships') = Len(memberships) + 1
        /\ \A m \in 1..Len(memberships) : memberships'[m] = memberships[m]
        /\ memberships'[Len(memberships) + 1] = new
    BY <1>1, <1>2, AppendProperties
  <1>4. /\ DOMAIN memberships = 1..Len(memberships) /\ Len(memberships) \in Nat
        /\ DOMAIN memberships' = 1..Len(memberships')
    BY <1>2, <1>3
  <1>5. DOMAIN memberships' = DOMAIN memberships \cup {Len(memberships) + 1}
    BY <1>3, <1>4
  <1> QED BY <1>3, <1>4, <1>5 DEF new

\* A new session belongs to the membership its login found.
LEMMA SessionCreated ==
    ASSUME TypeOK, NEW h \in Handlers, CreateAuthSession(h)
    PROVE  /\ sessions' \in Seq(Session)
           /\ DOMAIN sessions' = DOMAIN sessions \cup {Len(sessions) + 1}
           /\ Len(sessions) + 1 \notin DOMAIN sessions
           /\ \A s \in DOMAIN sessions : sessions'[s] = sessions[s]
           /\ sessions'[Len(sessions) + 1].member = handlers[h].row
           /\ sessions'[Len(sessions) + 1].under = accounts[handlers[h].email]
           /\ handlers[h].row \in DOMAIN memberships
           /\ handlers[h].email \in Emails
  <1> DEFINE new == [member |-> handlers[h].row, expires |-> now + SESSION_TTL,
                     revoked |-> FALSE, under |-> accounts[handlers[h].email]]
  <1>1. handlers[h] \in [step: LoginStep, email: Emails, row: Nat]
    <2>1. handlers[h] \in Handler /\ handlers[h].step = "CLEARED"
      BY DEF TypeOK, CreateAuthSession
    <2> QED BY <2>1 DEF Handler, Idle
  <1>2. now \in Nat /\ SESSION_TTL \in Nat /\ MaxPassword \in Nat /\ accounts[handlers[h].email] \in Nat
    BY <1>1, AccessConstants DEF TypeOK
  <1>3. new \in Session
    BY <1>1, <1>2 DEF Session
  <1>4. sessions \in Seq(Session) /\ sessions' = Append(sessions, new)
    BY DEF TypeOK, CreateAuthSession
  <1>5. handlers[h].row \in DOMAIN memberships
    BY DEF TypeOK, CreateAuthSession
  <1>6. new.member = handlers[h].row /\ new.under = accounts[handlers[h].email]
    OBVIOUS
  <1> HIDE DEF new
  <1>7. /\ sessions' \in Seq(Session)
        /\ Len(sessions') = Len(sessions) + 1
        /\ \A s \in 1..Len(sessions) : sessions'[s] = sessions[s]
        /\ sessions'[Len(sessions) + 1] = new
    BY <1>3, <1>4, AppendProperties
  <1>8. /\ DOMAIN sessions = 1..Len(sessions) /\ Len(sessions) \in Nat
        /\ DOMAIN sessions' = 1..Len(sessions')
    BY <1>4, <1>7
  <1>9. DOMAIN sessions' = DOMAIN sessions \cup {Len(sessions) + 1}
    BY <1>7, <1>8
  <1> QED BY <1>1, <1>5, <1>6, <1>7, <1>8, <1>9

\* A token closed before an account's new one stays the token it was.
LEMMA TokensClosed ==
    ASSUME TypeOK, NEW e \in Emails
    PROVE  /\ CloseTokens(e) \in Seq(Token)
           /\ Len(CloseTokens(e)) = Len(tokens)
           /\ \A t \in DOMAIN tokens :
                 /\ CloseTokens(e)[t].account = tokens[t].account
                 /\ CloseTokens(e)[t].used = (tokens[t].used \/ tokens[t].account = e)
  <1>1. tokens \in Seq(Token) /\ DOMAIN tokens = 1..Len(tokens) /\ Len(tokens) \in Nat
    BY DEF TypeOK
  <1>2. \A t \in DOMAIN tokens : tokens[t] \in Token
    BY <1>1
  <1>3. \A t \in DOMAIN tokens :
           /\ CloseTokens(e)[t] \in Token
           /\ CloseTokens(e)[t].account = tokens[t].account
           /\ CloseTokens(e)[t].used = (tokens[t].used \/ tokens[t].account = e)
    BY <1>2 DEF CloseTokens, Token
  <1>4. CloseTokens(e) \in [1..Len(tokens) -> Token]
    BY <1>1, <1>3 DEF CloseTokens
  <1>5. CloseTokens(e) \in Seq(Token) /\ Len(CloseTokens(e)) = Len(tokens)
    BY <1>1, <1>4, SeqDef
  <1> QED BY <1>3, <1>5

LEMMA MembershipRevoked ==
    ASSUME TypeOK, NEW m \in DOMAIN memberships, RevokeMembership(m)
    PROVE  /\ memberships' \in Seq(Membership)
           /\ DOMAIN memberships' = DOMAIN memberships
           /\ \A o \in DOMAIN memberships :
                 /\ memberships'[o].account = memberships[o].account
                 /\ memberships'[o].family = memberships[o].family
                 /\ memberships'[o].owner = memberships[o].owner
                 /\ memberships'[o].active = (memberships[o].active /\ o # m)
  <1>1. /\ memberships \in Seq(Membership) /\ DOMAIN memberships = 1..Len(memberships)
        /\ Len(memberships) \in Nat
    BY DEF TypeOK
  <1>2. \A o \in DOMAIN memberships : memberships[o] \in Membership
    BY <1>1
  <1>3. memberships' = [memberships EXCEPT ![m] = [memberships[m] EXCEPT !.active = FALSE]]
    BY DEF RevokeMembership
  <1>4. \A o \in DOMAIN memberships :
           memberships'[o] = IF o = m THEN [memberships[o] EXCEPT !.active = FALSE] ELSE memberships[o]
    BY <1>1, <1>3
  <1>5. \A o \in DOMAIN memberships :
           /\ memberships'[o] \in Membership
           /\ memberships'[o].account = memberships[o].account
           /\ memberships'[o].family = memberships[o].family
           /\ memberships'[o].owner = memberships[o].owner
           /\ memberships'[o].active = (memberships[o].active /\ o # m)
    BY <1>2, <1>4 DEF Membership
  <1>6. memberships' \in [1..Len(memberships) -> Membership]
    BY <1>1, <1>3, <1>5
  <1>7. memberships' \in Seq(Membership)
    BY <1>1, <1>6, SeqDef
  <1> QED BY <1>1, <1>5, <1>6, <1>7

LEMMA TokenCreated ==
    ASSUME TypeOK, NEW e \in Emails, CreateResetToken(e)
    PROVE  /\ tokens' \in Seq(Token)
           /\ DOMAIN tokens' = DOMAIN tokens \cup {Len(tokens) + 1}
           /\ tokens'[Len(tokens) + 1].account = e
           /\ \A t \in DOMAIN tokens :
                 /\ t # Len(tokens) + 1
                 /\ tokens'[t].account = tokens[t].account
                 /\ tokens'[t].used = (tokens[t].used \/ tokens[t].account = e)
  <1> DEFINE new == [account |-> e, expires |-> now + PASSWORD_RESET_TTL, used |-> FALSE]
             old == CloseTokens(e)
  <1>1. tokens \in Seq(Token) /\ DOMAIN tokens = 1..Len(tokens) /\ Len(tokens) \in Nat
    BY DEF TypeOK
  <1>2. new \in Token /\ new.account = e
    BY AccessConstants DEF Token, TypeOK
  <1>3. /\ old \in Seq(Token) /\ Len(old) = Len(tokens)
        /\ \A t \in DOMAIN tokens :
              /\ old[t].account = tokens[t].account
              /\ old[t].used = (tokens[t].used \/ tokens[t].account = e)
    BY TokensClosed
  <1>4. tokens' = Append(old, new)
    BY DEF CreateResetToken
  <1> HIDE DEF new, old
  <1>5. /\ tokens' \in Seq(Token) /\ Len(tokens') = Len(old) + 1
        /\ \A t \in 1..Len(old) : tokens'[t] = old[t]
        /\ tokens'[Len(old) + 1] = new
    BY <1>2, <1>3, <1>4, AppendProperties
  <1>6. DOMAIN tokens' = 1..Len(tokens')
    BY <1>5
  <1>7. DOMAIN tokens' = DOMAIN tokens \cup {Len(tokens) + 1}
    BY <1>1, <1>3, <1>5, <1>6
  <1> QED BY <1>1, <1>2, <1>3, <1>5, <1>7

LEMMA TokenConsumed ==
    ASSUME TypeOK, NEW t \in DOMAIN tokens, ConsumeResetToken(t)
    PROVE  /\ tokens' \in Seq(Token)
           /\ DOMAIN tokens' = DOMAIN tokens
           /\ tokens[t].account \in Emails
           /\ \A u \in DOMAIN tokens :
                 /\ tokens'[u].account = tokens[u].account
                 /\ tokens'[u].used = (tokens[u].used \/ u = t)
  <1>1. tokens \in Seq(Token) /\ DOMAIN tokens = 1..Len(tokens) /\ Len(tokens) \in Nat
    BY DEF TypeOK
  <1>2. \A u \in DOMAIN tokens : tokens[u] \in Token
    BY <1>1
  <1>3. tokens' = [tokens EXCEPT ![t] = [tokens[t] EXCEPT !.used = TRUE]]
    BY DEF ConsumeResetToken
  <1>4. \A u \in DOMAIN tokens :
           tokens'[u] = IF u = t THEN [tokens[u] EXCEPT !.used = TRUE] ELSE tokens[u]
    BY <1>1, <1>3
  <1>5. \A u \in DOMAIN tokens :
           /\ tokens'[u] \in Token
           /\ tokens'[u].account = tokens[u].account
           /\ tokens'[u].used = (tokens[u].used \/ u = t)
    BY <1>2, <1>4 DEF Token
  <1>6. tokens' \in [1..Len(tokens) -> Token]
    BY <1>1, <1>3, <1>5
  <1>7. tokens' \in Seq(Token)
    BY <1>1, <1>6, SeqDef
  <1>8. tokens[t].account \in Emails
    BY <1>2 DEF Token
  <1> QED BY <1>1, <1>5, <1>6, <1>7, <1>8

LEMMA TypeInit == Init => TypeOK
  BY AccessConstants DEF Init, TypeOK, Handler, Idle

LEMMA LoginTyped ==
    ASSUME TypeOK, NEW h \in Handlers, Login(h)
    PROVE  TypeOK'
  <1>1. CASE \E e \in Emails : CountAttempts(h, e)
    <2> PICK e \in Emails : CountAttempts(h, e)
      BY <1>1
    <2>1. attempts' \in [Emails -> Seq(0..MaxTime)]
      BY PrunedShorter DEF CountAttempts
    <2>2. handlers' \in [Handlers -> Handler]
      <3>1. [step |-> "COUNTED", email |-> e, row |-> 0] \in Handler
        BY DEF Handler, LoginStep
      <3> QED BY <3>1 DEF CountAttempts, TypeOK
    <2>3. handlers'[h].step \notin {"SCOPED", "CLEARED", "RESOLVED", "CHECKED"}
      BY DEF CountAttempts, TypeOK, Idle
    <2>4. \A g \in Handlers : g # h => handlers'[g] = handlers[g]
      BY DEF CountAttempts, TypeOK
    <2>5. UNCHANGED <<now, accounts, memberships, sessions, tokens>>
      BY DEF CountAttempts
    <2>6. \A g \in Handlers :
             /\ handlers'[g].step \in {"SCOPED", "CLEARED"} => handlers'[g].row \in DOMAIN memberships'
             /\ handlers'[g].step \in {"RESOLVED", "CHECKED"} => handlers'[g].row \in DOMAIN sessions'
      BY <2>2, <2>3, <2>4, <2>5, HandlersTyped
    <2> QED BY <2>1, <2>2, <2>5, <2>6 DEF TypeOK
  <1>2. CASE VerifyPassword(h)
    <2>1. PICK step \in {"FAILED", "VERIFIED"} : Continue(h, step)
      BY <1>2 DEF VerifyPassword
    <2>2. handlers[h].step \in LoginStep /\ step \in LoginStep
      BY <1>2 DEF VerifyPassword, LoginStep
    <2>3. UNCHANGED <<now, accounts, memberships, sessions, attempts, tokens>>
      BY <1>2 DEF VerifyPassword
    <2>4. /\ handlers' \in [Handlers -> Handler] /\ handlers'[h].step = step
          /\ \A g \in Handlers : g # h => handlers'[g] = handlers[g]
      BY <2>1, <2>2, LoginContinues
    <2>5. \A g \in Handlers :
             /\ handlers'[g].step \in {"SCOPED", "CLEARED"} => handlers'[g].row \in DOMAIN memberships'
             /\ handlers'[g].step \in {"RESOLVED", "CHECKED"} => handlers'[g].row \in DOMAIN sessions'
      BY <2>3, <2>4, HandlersTyped
    <2> QED BY <2>3, <2>4, <2>5 DEF TypeOK
  <1>3. CASE RecordAttempt(h)
    <2>1. handlers[h].email \in Emails
      <3>1. handlers[h] \in Handler /\ handlers[h].step = "FAILED"
        BY <1>3 DEF RecordAttempt, TypeOK
      <3> QED BY <3>1 DEF Handler, Idle
    <2>2. attempts' \in [Emails -> Seq(0..MaxTime)]
      <3>1. Append(attempts[handlers[h].email], now) \in Seq(0..MaxTime)
        BY <2>1, AppendProperties DEF TypeOK
      <3> QED BY <1>3, <2>1, <3>1 DEF RecordAttempt, TypeOK
    <2>3. UNCHANGED <<now, accounts, memberships, sessions, tokens>> /\ Finish(h)
      BY <1>3 DEF RecordAttempt
    <2>4. /\ handlers' \in [Handlers -> Handler] /\ handlers'[h].step = "IDLE"
          /\ \A g \in Handlers : g # h => handlers'[g] = handlers[g]
      BY <2>3, HandlerFinishes DEF Idle
    <2>5. \A g \in Handlers :
             /\ handlers'[g].step \in {"SCOPED", "CLEARED"} => handlers'[g].row \in DOMAIN memberships'
             /\ handlers'[g].step \in {"RESOLVED", "CHECKED"} => handlers'[g].row \in DOMAIN sessions'
      BY <2>3, <2>4, HandlersTyped
    <2> QED BY <2>2, <2>3, <2>4, <2>5 DEF TypeOK
  <1>4. CASE \E f \in Families \cup {AnyFamily} : FindScope(h, f)
    <2> PICK f \in Families \cup {AnyFamily} : FindScope(h, f)
      BY <1>4
    <2>1. UNCHANGED <<now, accounts, memberships, sessions, attempts, tokens>>
      BY DEF FindScope
    <2>2. handlers[h].step \in LoginStep
      BY DEF FindScope, LoginStep
    <2>3. CASE Continue(h, "FAILED")
      <3>1. /\ handlers' \in [Handlers -> Handler] /\ handlers'[h].step = "FAILED"
            /\ \A g \in Handlers : g # h => handlers'[g] = handlers[g]
        BY <2>2, <2>3, LoginContinues DEF LoginStep
      <3>2. \A g \in Handlers :
               /\ handlers'[g].step \in {"SCOPED", "CLEARED"} => handlers'[g].row \in DOMAIN memberships'
               /\ handlers'[g].step \in {"RESOLVED", "CHECKED"} => handlers'[g].row \in DOMAIN sessions'
        BY <2>1, <3>1, HandlersTyped
      <3> QED BY <2>1, <3>1, <3>2 DEF TypeOK
    <2>4. CASE \E m \in Scopes(handlers[h].email, f) :
                  handlers' = [handlers EXCEPT ![h].step = "SCOPED", ![h].row = m]
      <3> PICK m \in Scopes(handlers[h].email, f) :
                  handlers' = [handlers EXCEPT ![h].step = "SCOPED", ![h].row = m]
        BY <2>4
      <3>1. m \in DOMAIN memberships /\ m \in Nat
        BY DEF Scopes, TypeOK
      <3>2. ScopedHandler(h, m)
        BY <2>2, <3>1, HandlerScoped
      <3>3. \A g \in Handlers :
               /\ handlers'[g].step \in {"SCOPED", "CLEARED"} => handlers'[g].row \in DOMAIN memberships'
               /\ handlers'[g].step \in {"RESOLVED", "CHECKED"} => handlers'[g].row \in DOMAIN sessions'
        BY <2>1, <3>1, <3>2, HandlersTyped DEF ScopedHandler
      <3> QED BY <2>1, <3>2, <3>3 DEF TypeOK, ScopedHandler
    <2> QED BY <2>3, <2>4 DEF FindScope
  <1>5. CASE ClearAttempts(h)
    <2>1. handlers[h].step \in LoginStep /\ handlers[h].step = "SCOPED" /\ Continue(h, "CLEARED")
      BY <1>5 DEF ClearAttempts, LoginStep
    <2>2. /\ handlers' \in [Handlers -> Handler] /\ handlers'[h].step = "CLEARED"
          /\ handlers'[h].row = handlers[h].row
          /\ \A g \in Handlers : g # h => handlers'[g] = handlers[g]
      BY <2>1, LoginContinues DEF LoginStep
    <2>3. UNCHANGED <<now, accounts, memberships, sessions, tokens>>
      BY <1>5 DEF ClearAttempts
    <2>4. attempts' \in [Emails -> Seq(0..MaxTime)]
      <3>1. <<>> \in Seq(0..MaxTime)
        OBVIOUS
      <3>2. attempts \in [Emails -> Seq(0..MaxTime)]
        BY DEF TypeOK
      <3>3. attempts' = [attempts EXCEPT ![handlers[h].email] = <<>>]
        BY <1>5 DEF ClearAttempts
      <3> HIDE <1>5
      <3> QED BY <3>1, <3>2, <3>3
    <2>5. handlers[h].row \in DOMAIN memberships
      BY <2>1 DEF TypeOK
    <2>6. \A g \in Handlers :
             /\ handlers'[g].step \in {"SCOPED", "CLEARED"} => handlers'[g].row \in DOMAIN memberships'
             /\ handlers'[g].step \in {"RESOLVED", "CHECKED"} => handlers'[g].row \in DOMAIN sessions'
      BY <2>2, <2>3, <2>5, HandlersTyped
    <2> QED BY <2>2, <2>3, <2>4, <2>6 DEF TypeOK
  <1>6. CASE CreateAuthSession(h)
    <2>1. UNCHANGED <<now, accounts, memberships, attempts, tokens>> /\ Finish(h)
      BY <1>6 DEF CreateAuthSession
    <2>2. /\ handlers' \in [Handlers -> Handler] /\ handlers'[h].step = "IDLE"
          /\ \A g \in Handlers : g # h => handlers'[g] = handlers[g]
      BY <2>1, HandlerFinishes DEF Idle
    <2>3. /\ sessions' \in Seq(Session)
          /\ DOMAIN sessions \subseteq DOMAIN sessions'
          /\ \A s \in DOMAIN sessions' : sessions'[s].member \in DOMAIN memberships
      BY <1>6, SessionCreated DEF TypeOK
    <2>4. \A g \in Handlers :
             /\ handlers'[g].step \in {"SCOPED", "CLEARED"} => handlers'[g].row \in DOMAIN memberships'
             /\ handlers'[g].step \in {"RESOLVED", "CHECKED"} => handlers'[g].row \in DOMAIN sessions'
      BY <2>1, <2>2, <2>3, HandlersTyped
    <2> QED BY <2>1, <2>2, <2>3, <2>4 DEF TypeOK
  <1> QED BY <1>1, <1>2, <1>3, <1>4, <1>5, <1>6 DEF Login

LEMMA RequestTyped ==
    ASSUME TypeOK, NEW h \in Handlers, Request(h)
    PROVE  TypeOK'
  <1>1. CASE \E s \in DOMAIN sessions : ResolveScope(h, s)
    <2> PICK s \in DOMAIN sessions : ResolveScope(h, s)
      BY <1>1
    <2>1. UNCHANGED <<now, accounts, memberships, sessions, attempts, tokens>>
      BY DEF ResolveScope
    <2>2. [step |-> "RESOLVED", row |-> s] \in Handler
      BY DEF Handler, TypeOK
    <2>3. /\ handlers' \in [Handlers -> Handler] /\ handlers'[h].step = "RESOLVED"
          /\ handlers'[h].row = s
          /\ \A g \in Handlers : g # h => handlers'[g] = handlers[g]
      BY <2>2 DEF ResolveScope, TypeOK
    <2>4. \A g \in Handlers :
             /\ handlers'[g].step \in {"SCOPED", "CLEARED"} => handlers'[g].row \in DOMAIN memberships'
             /\ handlers'[g].step \in {"RESOLVED", "CHECKED"} => handlers'[g].row \in DOMAIN sessions'
      BY <2>1, <2>3, HandlersTyped
    <2> QED BY <2>1, <2>3, <2>4 DEF TypeOK
  <1>2. CASE CheckCsrf(h)
    <2>1. UNCHANGED <<now, accounts, memberships, sessions, attempts, tokens>>
      BY <1>2 DEF CheckCsrf
    <2>2. /\ handlers' \in [Handlers -> Handler]
          /\ handlers'[h].step \in {"IDLE", "CHECKED"}
          /\ handlers'[h].step = "CHECKED" => handlers'[h].row = handlers[h].row
          /\ \A g \in Handlers : g # h => handlers'[g] = handlers[g]
      <3>1. CASE Finish(h)
        BY <3>1, HandlerFinishes DEF Idle
      <3>2. CASE Continue(h, "CHECKED")
        <4>1. handlers[h] \in [step: {"RESOLVED", "CHECKED"}, row: Nat]
          <5>1. handlers[h] \in Handler /\ handlers[h].step = "RESOLVED"
            BY <1>2 DEF CheckCsrf, TypeOK
          <5> QED BY <5>1 DEF Handler, Idle, LoginStep
        <4>2. /\ [handlers[h] EXCEPT !.step = "CHECKED"] \in Handler
              /\ [handlers[h] EXCEPT !.step = "CHECKED"].row = handlers[h].row
              /\ [handlers[h] EXCEPT !.step = "CHECKED"].step = "CHECKED"
          BY <4>1 DEF Handler
        <4>3. handlers' = [handlers EXCEPT ![h] = [handlers[h] EXCEPT !.step = "CHECKED"]]
          BY <3>2 DEF Continue
        <4> QED BY <4>2, <4>3 DEF TypeOK
      <3> QED BY <1>2, <3>1, <3>2 DEF CheckCsrf
    <2>3. handlers[h].row \in DOMAIN sessions
      BY <1>2 DEF CheckCsrf, TypeOK
    <2>4. \A g \in Handlers :
             /\ handlers'[g].step \in {"SCOPED", "CLEARED"} => handlers'[g].row \in DOMAIN memberships'
             /\ handlers'[g].step \in {"RESOLVED", "CHECKED"} => handlers'[g].row \in DOMAIN sessions'
      BY <2>1, <2>2, <2>3, HandlersTyped
    <2> QED BY <2>1, <2>2, <2>4 DEF TypeOK
  <1>3. CASE Logout(h) \/ LogoutAll(h)
    <2>1. PICK set : sessions' = RevokeSessions(set)
      BY <1>3 DEF Logout, LogoutAll
    <2>2. UNCHANGED <<now, accounts, memberships, attempts, tokens>> /\ Finish(h)
      BY <1>3 DEF Logout, LogoutAll
    <2>3. /\ sessions' \in Seq(Session) /\ DOMAIN sessions' = DOMAIN sessions
          /\ \A s \in DOMAIN sessions' : sessions'[s].member \in DOMAIN memberships
      BY <2>1, SessionsRevoked DEF TypeOK
    <2>4. /\ handlers' \in [Handlers -> Handler] /\ handlers'[h].step = "IDLE"
          /\ \A g \in Handlers : g # h => handlers'[g] = handlers[g]
      BY <2>2, HandlerFinishes DEF Idle
    <2>5. \A g \in Handlers :
             /\ handlers'[g].step \in {"SCOPED", "CLEARED"} => handlers'[g].row \in DOMAIN memberships'
             /\ handlers'[g].step \in {"RESOLVED", "CHECKED"} => handlers'[g].row \in DOMAIN sessions'
      BY <2>2, <2>3, <2>4, HandlersTyped
    <2> QED BY <2>2, <2>3, <2>4, <2>5 DEF TypeOK
  <1> QED BY <1>1, <1>2, <1>3 DEF Request

LEMMA OperatorTyped ==
    ASSUME TypeOK, Operator
    PROVE  TypeOK'
  <1>1. CASE \E e \in Emails : CreateAccount(e)
    <2> PICK e \in Emails : CreateAccount(e)
      BY <1>1
    <2>1. accounts' \in [Emails -> 0..MaxPassword]
      BY AccessConstants DEF CreateAccount, TypeOK
    <2> QED BY <2>1 DEF CreateAccount, TypeOK
  <1>2. CASE \E e \in Emails, f \in Families, owner \in BOOLEAN : InsertMembership(e, f, owner)
    <2> PICK e \in Emails, f \in Families, owner \in BOOLEAN : InsertMembership(e, f, owner)
      BY <1>2
    <2>1. memberships' \in Seq(Membership) /\ DOMAIN memberships \subseteq DOMAIN memberships'
      BY MembershipInserted
    <2>2. UNCHANGED <<now, accounts, sessions, attempts, tokens, handlers>>
      BY DEF InsertMembership
    <2> QED BY <2>1, <2>2 DEF TypeOK
  <1>3. CASE \E m \in DOMAIN memberships : RevokeMembership(m)
    <2> PICK m \in DOMAIN memberships : RevokeMembership(m)
      BY <1>3
    <2>1. memberships' \in Seq(Membership) /\ DOMAIN memberships = DOMAIN memberships'
      BY MembershipRevoked
    <2>2. UNCHANGED <<now, accounts, sessions, attempts, tokens, handlers>>
      BY DEF RevokeMembership
    <2> QED BY <2>1, <2>2 DEF TypeOK
  <1> QED BY <1>1, <1>2, <1>3 DEF Operator, CreateFamilyWithOwner, AddMembership

LEMMA RecoveryTyped ==
    ASSUME TypeOK, Recovery
    PROVE  TypeOK'
  <1>1. CASE \E e \in Emails : CreateResetToken(e)
    <2> PICK e \in Emails : CreateResetToken(e)
      BY <1>1
    <2>1. tokens' \in Seq(Token)
      BY TokenCreated
    <2> QED BY <2>1 DEF CreateResetToken, TypeOK
  <1>2. CASE \E t \in DOMAIN tokens : ConsumeResetToken(t)
    <2> PICK t \in DOMAIN tokens : ConsumeResetToken(t)
      BY <1>2
    <2>1. tokens' \in Seq(Token) /\ tokens[t].account \in Emails
      BY TokenConsumed
    <2>2. accounts' \in [Emails -> 0..MaxPassword]
      <3>1. accounts[tokens[t].account] + 1 \in 0..MaxPassword
        <4>1. accounts[tokens[t].account] \in 0..MaxPassword
          BY <2>1 DEF TypeOK
        <4>2. accounts[tokens[t].account] < MaxPassword
          BY DEF ConsumeResetToken
        <4> QED BY <4>1, <4>2, AccessConstants
      <3> QED BY <2>1, <3>1 DEF ConsumeResetToken, TypeOK
    <2>3. /\ sessions' \in Seq(Session) /\ DOMAIN sessions' = DOMAIN sessions
          /\ \A s \in DOMAIN sessions' : sessions'[s].member \in DOMAIN memberships
      BY SessionsRevoked DEF ConsumeResetToken, ClosedByReset, TypeOK
    <2>4. UNCHANGED <<now, memberships, attempts, handlers>>
      BY DEF ConsumeResetToken
    <2> QED BY <2>1, <2>2, <2>3, <2>4 DEF TypeOK
  <1> QED BY <1>1, <1>2 DEF Recovery

LEMMA TypeStep == TypeOK /\ [Next]_vars => TypeOK'
  <1> SUFFICES ASSUME TypeOK, [Next]_vars PROVE TypeOK'
    OBVIOUS
  <1>1. CASE Tick
    BY <1>1, AccessConstants DEF Tick, TypeOK
  <1>2. CASE UNCHANGED vars
    BY <1>2 DEF vars, TypeOK
  <1> QED BY <1>1, <1>2, LoginTyped, RequestTyped, OperatorTyped, RecoveryTyped DEF Next

\* Whatever requests, logins, recoveries and operators interleave, the tables stay well
\* typed: every session refers to a membership, every handler to what it found.
THEOREM AccessTypeCorrect == Spec => []TypeOK
  BY TypeInit, TypeStep, PTL DEF Spec

-----------------------------------------------------------------------------
(* Guesses *)

\* A login that only goes on, or out, guesses no more than before.
LEMMA GuessingShrinks ==
    ASSUME TypeOK, GuessesBounded, NEW e \in Emails,
           Guessing(e)' \subseteq Guessing(e),
           Len(attempts'[e]) \in Nat, Len(attempts'[e]) <= Len(attempts[e])
    PROVE  Len(attempts'[e]) + Cardinality(Guessing(e)')
              <= MAX_LOGIN_ATTEMPTS + Cardinality(Handlers) - 1
  <1>1. IsFiniteSet(Guessing(e))
    BY AccessConstants, FS_Subset DEF Guessing
  <1>2. /\ Cardinality(Guessing(e)') <= Cardinality(Guessing(e))
        /\ Cardinality(Guessing(e)') \in Nat /\ Cardinality(Guessing(e)) \in Nat
    BY <1>1, FS_Subset, FS_CardinalityType
  <1>3. Len(attempts[e]) \in Nat /\ Cardinality(Handlers) \in Nat /\ MAX_LOGIN_ATTEMPTS \in Nat
    BY AccessConstants, FS_CardinalityType DEF TypeOK
  <1>4. Len(attempts[e]) + Cardinality(Guessing(e))
           <= MAX_LOGIN_ATTEMPTS + Cardinality(Handlers) - 1
    BY DEF GuessesBounded
  <1> HIDE DEF GuessesBounded
  <1> QED BY <1>2, <1>3, <1>4

LEMMA CountedBounded ==
    ASSUME TypeOK, GuessesBounded, NEW h \in Handlers, NEW c \in Emails, CountAttempts(h, c)
    PROVE  GuessesBounded'
  <1> SUFFICES ASSUME NEW e \in Emails
               PROVE  Len(attempts'[e]) + Cardinality(Guessing(e)')
                         <= MAX_LOGIN_ATTEMPTS + Cardinality(Handlers) - 1
    BY DEF GuessesBounded
  <1>1. attempts'[e] = Pruned(e)
    BY DEF CountAttempts
  <1>2. Len(attempts'[e]) \in Nat /\ Len(attempts'[e]) <= Len(attempts[e])
    BY <1>1, PrunedShorter
  <1>3. CASE e = c /\ Allowed(e)
    <2>1. Len(attempts'[e]) < MAX_LOGIN_ATTEMPTS
      BY <1>1, <1>3 DEF Allowed
    <2>2. Guessing(e)' \subseteq Handlers
      BY DEF Guessing
    <2>3. /\ Cardinality(Guessing(e)') <= Cardinality(Handlers)
          /\ Cardinality(Guessing(e)') \in Nat /\ Cardinality(Handlers) \in Nat
      BY <2>2, AccessConstants, FS_Subset, FS_CardinalityType
    <2>4. MAX_LOGIN_ATTEMPTS \in Nat
      BY AccessConstants
    <2> QED BY <1>2, <2>1, <2>3, <2>4
  <1>4. CASE ~(e = c /\ Allowed(e))
    <2>1. Guessing(e)' \subseteq Guessing(e)
      <3>1. CASE UNCHANGED handlers
        BY <3>1 DEF Guessing
      <3>2. CASE e # c /\ handlers' = [handlers EXCEPT
                              ![h] = [step |-> "COUNTED", email |-> c, row |-> 0]]
        <4>1. handlers'[h].email = c /\ \A g \in Handlers : g # h => handlers'[g] = handlers[g]
          BY <3>2 DEF TypeOK
        <4> QED BY <3>2, <4>1 DEF Guessing
      <3> QED BY <1>4, <3>1, <3>2 DEF CountAttempts
    <2> QED BY <1>2, <2>1, GuessingShrinks
  <1> QED BY <1>3, <1>4

LEMMA RecordedBounded ==
    ASSUME TypeOK, GuessesBounded, NEW h \in Handlers, RecordAttempt(h)
    PROVE  GuessesBounded'
  <1> SUFFICES ASSUME NEW e \in Emails
               PROVE  Len(attempts'[e]) + Cardinality(Guessing(e)')
                         <= MAX_LOGIN_ATTEMPTS + Cardinality(Handlers) - 1
    BY DEF GuessesBounded
  <1>1. /\ handlers'[h] = Idle /\ \A g \in Handlers : g # h => handlers'[g] = handlers[g]
        /\ handlers[h].step = "FAILED"
    BY HandlerFinishes DEF RecordAttempt
  <1>2. Guessing(e)' = Guessing(e) \ {h}
    BY <1>1 DEF Guessing, Idle
  <1>3. Len(attempts[e]) \in Nat /\ attempts[e] \in Seq(0..MaxTime) /\ now \in 0..MaxTime
    BY DEF TypeOK
  <1>4. CASE handlers[h].email # e
    <2>1. attempts'[e] = attempts[e]
      BY <1>4 DEF RecordAttempt, TypeOK
    <2>2. Guessing(e)' \subseteq Guessing(e)
      BY <1>2
    <2>3. Len(attempts'[e]) \in Nat /\ Len(attempts'[e]) <= Len(attempts[e])
      BY <1>3, <2>1
    <2> QED BY <2>2, <2>3, GuessingShrinks
  <1>5. CASE handlers[h].email = e
    <2>1. attempts'[e] = Append(attempts[e], now)
      BY <1>5 DEF RecordAttempt, TypeOK
    <2>2. Len(attempts'[e]) = Len(attempts[e]) + 1
      BY <1>3, <2>1, AppendProperties
    <2>3. h \in Guessing(e) /\ IsFiniteSet(Guessing(e))
      BY <1>1, <1>5, AccessConstants, FS_Subset DEF Guessing
    <2>4. Cardinality(Guessing(e)') = Cardinality(Guessing(e)) - 1 /\ Cardinality(Guessing(e)) \in Nat
      BY <1>2, <2>3, FS_RemoveElement, FS_CardinalityType
    <2>5. Len(attempts[e]) + Cardinality(Guessing(e))
             <= MAX_LOGIN_ATTEMPTS + Cardinality(Handlers) - 1
      BY DEF GuessesBounded
    <2>6. Cardinality(Handlers) \in Nat /\ MAX_LOGIN_ATTEMPTS \in Nat
      BY AccessConstants, FS_CardinalityType
    <2> QED BY <1>3, <2>2, <2>4, <2>5, <2>6
  <1> QED BY <1>4, <1>5

\* No other step counts, or lets another login guess.
LEMMA GuessesStep == TypeOK /\ GuessesBounded /\ [Next]_vars => GuessesBounded'
  <1> SUFFICES ASSUME TypeOK, GuessesBounded, [Next]_vars PROVE GuessesBounded'
    OBVIOUS
  <1>1. ASSUME NEW h \in Handlers, UNCHANGED attempts,
               \A g \in Handlers : g # h => handlers'[g] = handlers[g],
               \/ handlers'[h].step \notin {"COUNTED", "VERIFIED", "FAILED"}
               \/ /\ handlers[h].step \in {"COUNTED", "VERIFIED", "FAILED"}
                  /\ handlers'[h].email = handlers[h].email
        PROVE  GuessesBounded'
    <2>1. \A e \in Emails : Guessing(e)' \subseteq Guessing(e)
      BY <1>1 DEF Guessing
    <2>2. \A e \in Emails : Len(attempts[e]) \in Nat /\ attempts'[e] = attempts[e]
      BY <1>1 DEF TypeOK
    <2>3. \A e \in Emails : Len(attempts'[e]) + Cardinality(Guessing(e)')
                               <= MAX_LOGIN_ATTEMPTS + Cardinality(Handlers) - 1
      BY <2>1, <2>2, GuessingShrinks
    <2> QED BY <2>3 DEF GuessesBounded
  <1>2. CASE UNCHANGED <<attempts, handlers>>
    BY <1>2 DEF GuessesBounded, Guessing
  <1>3. ASSUME NEW h \in Handlers, Login(h) PROVE GuessesBounded'
    <2>1. CASE \E e \in Emails : CountAttempts(h, e)
      BY <2>1, CountedBounded
    <2>2. CASE VerifyPassword(h)
      <3>1. PICK step \in {"FAILED", "VERIFIED"} : Continue(h, step)
        BY <2>2 DEF VerifyPassword
      <3>2. /\ handlers[h].step \in LoginStep /\ step \in LoginStep
            /\ handlers[h].step = "COUNTED" /\ UNCHANGED attempts
        BY <2>2 DEF VerifyPassword, LoginStep
      <3>3. /\ handlers'[h].email = handlers[h].email
            /\ \A g \in Handlers : g # h => handlers'[g] = handlers[g]
        BY <3>1, <3>2, LoginContinues
      <3> QED BY <1>1, <3>2, <3>3
    <2>3. CASE RecordAttempt(h)
      BY <2>3, RecordedBounded
    <2>4. CASE \E f \in Families \cup {AnyFamily} : FindScope(h, f)
      <3> PICK f \in Families \cup {AnyFamily} : FindScope(h, f)
        BY <2>4
      <3>1. handlers[h].step \in LoginStep /\ handlers[h].step = "VERIFIED" /\ UNCHANGED attempts
        BY DEF FindScope, LoginStep
      <3>2. CASE Continue(h, "FAILED")
        <4>1. /\ handlers'[h].email = handlers[h].email
              /\ \A g \in Handlers : g # h => handlers'[g] = handlers[g]
          BY <3>1, <3>2, LoginContinues DEF LoginStep
        <4> QED BY <1>1, <3>1, <4>1
      <3>3. CASE \E m \in Scopes(handlers[h].email, f) :
                    handlers' = [handlers EXCEPT ![h].step = "SCOPED", ![h].row = m]
        <4> PICK m \in Scopes(handlers[h].email, f) :
                    handlers' = [handlers EXCEPT ![h].step = "SCOPED", ![h].row = m]
          BY <3>3
        <4>1. m \in Nat
          BY DEF Scopes, TypeOK
        <4>2. ScopedHandler(h, m)
          BY <3>1, <4>1, HandlerScoped
        <4> QED BY <1>1, <3>1, <4>2 DEF ScopedHandler
      <3> QED BY <3>2, <3>3 DEF FindScope
    <2>5. CASE ClearAttempts(h)
      <3>1. handlers[h].step \in LoginStep /\ Continue(h, "CLEARED")
        BY <2>5 DEF ClearAttempts, LoginStep
      <3>2. /\ handlers'[h].step = "CLEARED"
            /\ \A g \in Handlers : g # h => handlers'[g] = handlers[g]
        BY <3>1, LoginContinues DEF LoginStep
      <3>3. \A e \in Emails : Guessing(e)' \subseteq Guessing(e)
        BY <3>2 DEF Guessing
      <3>4. \A e \in Emails : Len(attempts'[e]) \in Nat /\ Len(attempts'[e]) <= Len(attempts[e])
        <4>1. \A e \in Emails : Len(attempts[e]) \in Nat
          BY DEF TypeOK
        <4>2. \A e \in Emails : attempts'[e] \in {attempts[e], <<>>}
          BY <2>5 DEF ClearAttempts, TypeOK
        <4> QED BY <4>1, <4>2
      <3>5. \A e \in Emails : Len(attempts'[e]) + Cardinality(Guessing(e)')
                                 <= MAX_LOGIN_ATTEMPTS + Cardinality(Handlers) - 1
        BY <3>3, <3>4, GuessingShrinks
      <3> QED BY <3>5 DEF GuessesBounded
    <2>6. CASE CreateAuthSession(h)
      <3>1. Finish(h) /\ UNCHANGED attempts
        BY <2>6 DEF CreateAuthSession
      <3>2. /\ handlers'[h].step = "IDLE"
            /\ \A g \in Handlers : g # h => handlers'[g] = handlers[g]
        BY <3>1, HandlerFinishes DEF Idle
      <3> QED BY <1>1, <3>1, <3>2
    <2> QED BY <1>3, <2>1, <2>2, <2>3, <2>4, <2>5, <2>6 DEF Login
  <1>4. ASSUME NEW h \in Handlers, Request(h) PROVE GuessesBounded'
    <2>1. UNCHANGED attempts
      BY <1>4 DEF Request, ResolveScope, CheckCsrf, Logout, LogoutAll
    <2>2. /\ handlers'[h].step \in {"IDLE", "RESOLVED", "CHECKED"}
          /\ \A g \in Handlers : g # h => handlers'[g] = handlers[g]
      <3>1. CASE Finish(h)
        BY <3>1, HandlerFinishes DEF Idle
      <3>2. CASE Continue(h, "CHECKED") /\ handlers[h].step = "RESOLVED"
        <4>1. handlers[h] \in [step: {"RESOLVED", "CHECKED"}, row: Nat]
          <5>1. handlers[h] \in Handler
            BY DEF TypeOK
          <5> QED BY <3>2, <5>1 DEF Handler, Idle, LoginStep
        <4>2. [handlers[h] EXCEPT !.step = "CHECKED"].step = "CHECKED"
          BY <4>1
        <4>3. handlers' = [handlers EXCEPT ![h] = [handlers[h] EXCEPT !.step = "CHECKED"]]
          BY <3>2 DEF Continue
        <4> QED BY <4>2, <4>3 DEF TypeOK
      <3>3. CASE \E s \in DOMAIN sessions : ResolveScope(h, s)
        BY <3>3 DEF ResolveScope, TypeOK
      <3> QED BY <1>4, <3>1, <3>2, <3>3 DEF Request, CheckCsrf, Logout, LogoutAll
    <2> QED BY <1>1, <2>1, <2>2
  <1>5. CASE Tick \/ Operator \/ Recovery \/ UNCHANGED vars
    BY <1>2, <1>5 DEF Tick, Operator, CreateAccount, CreateFamilyWithOwner, AddMembership,
       InsertMembership, RevokeMembership, Recovery, CreateResetToken, ConsumeResetToken, vars
  <1> QED BY <1>3, <1>4, <1>5 DEF Next

LEMMA GuessesInit == Init => GuessesBounded
  <1> SUFFICES ASSUME Init, NEW e \in Emails
               PROVE  Len(attempts[e]) + Cardinality(Guessing(e))
                         <= MAX_LOGIN_ATTEMPTS + Cardinality(Handlers) - 1
    BY DEF GuessesBounded
  <1>1. Len(attempts[e]) = 0 /\ Guessing(e) = {}
    BY DEF Init, Guessing, Idle
  <1>2. Cardinality(Guessing(e)) = 0
    BY <1>1, FS_EmptySet
  <1> QED BY <1>1, <1>2, AccessConstants, FS_CardinalityType

\* However many logins are served at the same time, the failures counted in the window and
\* the passwords still being checked stay below the limit and the other requests together.
THEOREM GuessesAlwaysBounded == Spec => []GuessesBounded
  <1>1. Init => TypeOK /\ GuessesBounded
    BY TypeInit, GuessesInit
  <1>2. (TypeOK /\ GuessesBounded) /\ [Next]_vars => (TypeOK /\ GuessesBounded)'
    BY TypeStep, GuessesStep
  <1> QED BY <1>1, <1>2, PTL DEF Spec

-----------------------------------------------------------------------------
(* Password resets *)

\* Memberships are of accounts, and a login that has found its membership found one of
\* its own account.
LoginsJustified ==
    /\ \A m \in DOMAIN memberships : accounts[memberships[m].account] # 0
    /\ \A h \in Handlers : handlers[h].step \in {"SCOPED", "CLEARED"} =>
          memberships[handlers[h].row].account = handlers[h].email

ResetInv == TypeOK /\ LoginsJustified /\ ResetTakesOver

LEMMA ResetInvInit == Init => ResetInv
  <1> SUFFICES ASSUME Init PROVE ResetInv
    OBVIOUS
  <1>1. TypeOK
    BY TypeInit
  <1>2. DOMAIN memberships = {} /\ DOMAIN sessions = {} /\ DOMAIN tokens = {}
    BY DEF Init
  <1>3. \A h \in Handlers : handlers[h].step = "IDLE"
    BY DEF Init, Idle
  <1> QED BY <1>1, <1>2, <1>3 DEF ResetInv, LoginsJustified, ResetTakesOver

\* The account of a session is one of the emails.
LEMMA SessionAccount ==
    ASSUME TypeOK, NEW s \in DOMAIN sessions
    PROVE  /\ sessions[s].member \in DOMAIN memberships
           /\ AccountOf(s) \in Emails
  <1>1. sessions[s].member \in DOMAIN memberships /\ memberships \in Seq(Membership)
    BY DEF TypeOK
  <1>2. memberships[sessions[s].member] \in Membership
    BY <1>1
  <1> QED BY <1>1, <1>2 DEF AccountOf, Membership

\* The history of sessions when only some are revoked.
LEMMA UnderKept ==
    ASSUME ResetInv, NEW set, sessions' = RevokeSessions(set), UNCHANGED <<accounts, memberships>>
    PROVE  \A s \in DOMAIN sessions' :
              sessions'[s].under # accounts'[AccountOf(s)'] => sessions'[s].revoked
  <1>1. /\ DOMAIN sessions' = DOMAIN sessions
        /\ \A s \in DOMAIN sessions :
              /\ sessions'[s].member = sessions[s].member
              /\ sessions'[s].under = sessions[s].under
              /\ sessions'[s].revoked = (sessions[s].revoked \/ s \in set)
    <2>1. TypeOK
      BY DEF ResetInv
    <2> QED BY <2>1, SessionsRevoked
  <1>2. \A s \in DOMAIN sessions : AccountOf(s)' = AccountOf(s)
    BY <1>1 DEF AccountOf
  <1>3. \A s \in DOMAIN sessions : sessions[s].under # accounts[AccountOf(s)] => sessions[s].revoked
    BY DEF ResetInv, ResetTakesOver
  <1>4. \A s \in DOMAIN sessions : sessions[s].revoked => sessions'[s].revoked
    BY <1>1
  <1> SUFFICES ASSUME NEW s \in DOMAIN sessions, sessions'[s].under # accounts'[AccountOf(s)']
               PROVE  sessions'[s].revoked
    BY <1>1
  <1>5. sessions[s].under # accounts[AccountOf(s)]
    BY <1>1, <1>2
  <1> QED BY <1>3, <1>4, <1>5

LEMMA ResetOperator ==
    ASSUME ResetInv, Operator
    PROVE  (LoginsJustified /\ ResetTakesOver)'
  <1> USE DEF ResetInv
  <1>1. CASE \E e \in Emails : CreateAccount(e)
    <2> PICK e \in Emails : CreateAccount(e)
      BY <1>1
    <2>1. /\ UNCHANGED <<memberships, sessions, tokens, handlers>>
          /\ accounts[e] = 0 /\ \A d \in Emails \ {e} : accounts'[d] = accounts[d]
          /\ accounts'[e] = 1
      BY DEF CreateAccount, TypeOK
    <2>2. \A m \in DOMAIN memberships : memberships[m].account \in Emails \ {e}
      <3>1. \A m \in DOMAIN memberships : memberships[m] \in Membership
        BY DEF TypeOK
      <3> QED BY <2>1, <3>1 DEF LoginsJustified, Membership
    <2>3. LoginsJustified'
      BY <2>1, <2>2 DEF LoginsJustified
    <2>4. \A s \in DOMAIN sessions : AccountOf(s) \in Emails \ {e} /\ AccountOf(s)' = AccountOf(s)
      BY <2>1, <2>2, SessionAccount DEF AccountOf
    <2>5. ResetTakesOver'
      BY <2>1, <2>4 DEF ResetTakesOver
    <2> QED BY <2>3, <2>5
  <1>2. ASSUME NEW e \in Emails, NEW f \in Families, NEW owner \in BOOLEAN,
               InsertMembership(e, f, owner), accounts[e] # 0
        PROVE  (LoginsJustified /\ ResetTakesOver)'
    <2>1. UNCHANGED <<accounts, sessions, tokens, handlers>>
      BY <1>2 DEF InsertMembership
    <2>2. /\ \A m \in DOMAIN memberships : memberships'[m] = memberships[m]
          /\ \A m \in DOMAIN memberships' : m \in DOMAIN memberships \/ memberships'[m].account = e
      <3> DEFINE last == Len(memberships) + 1
      <3>1. /\ DOMAIN memberships' = DOMAIN memberships \cup {last}
            /\ \A m \in DOMAIN memberships : memberships'[m] = memberships[m]
            /\ memberships'[last] =
                  [account |-> e, family |-> f, owner |-> owner, active |-> TRUE]
        BY <1>2, MembershipInserted
      <3>2. memberships'[last].account = e
        BY <3>1
      <3> HIDE DEF last
      <3> QED BY <3>1, <3>2
    <2>3. LoginsJustified'
      BY <1>2, <2>1, <2>2 DEF LoginsJustified, TypeOK
    <2>4. \A s \in DOMAIN sessions : AccountOf(s)' = AccountOf(s)
      BY <2>1, <2>2, SessionAccount DEF AccountOf
    <2>5. ResetTakesOver'
      BY <2>1, <2>4 DEF ResetTakesOver
    <2> QED BY <2>3, <2>5
  <1>3. CASE \E m \in DOMAIN memberships : RevokeMembership(m)
    <2> PICK m \in DOMAIN memberships : RevokeMembership(m)
      BY <1>3
    <2>1. UNCHANGED <<accounts, sessions, tokens, handlers>>
      BY DEF RevokeMembership
    <2>2. /\ DOMAIN memberships' = DOMAIN memberships
          /\ \A o \in DOMAIN memberships : memberships'[o].account = memberships[o].account
      BY MembershipRevoked
    <2>3. LoginsJustified'
      BY <2>1, <2>2 DEF LoginsJustified, TypeOK
    <2>4. \A s \in DOMAIN sessions : AccountOf(s)' = AccountOf(s)
      BY <2>1, <2>2, SessionAccount DEF AccountOf
    <2>5. ResetTakesOver'
      BY <2>1, <2>4 DEF ResetTakesOver
    <2> QED BY <2>3, <2>5
  <1> QED BY <1>1, <1>2, <1>3 DEF Operator, CreateFamilyWithOwner, AddMembership

\* Steps of a login before the last write neither sessions, passwords nor tokens.
LEMMA ResetLogin ==
    ASSUME ResetInv, NEW h \in Handlers, Login(h)
    PROVE  (LoginsJustified /\ ResetTakesOver)'
  <1> USE DEF ResetInv
  <1>1. ASSUME UNCHANGED <<accounts, memberships, sessions, tokens>>,
               \A g \in Handlers : g # h => handlers'[g] = handlers[g],
               handlers'[h].step \in {"SCOPED", "CLEARED"} =>
                  memberships[handlers'[h].row].account = handlers'[h].email
        PROVE  (LoginsJustified /\ ResetTakesOver)'
    <2>1. LoginsJustified'
      BY <1>1 DEF LoginsJustified
    <2>2. ResetTakesOver'
      BY <1>1 DEF ResetTakesOver, AccountOf
    <2> QED BY <2>1, <2>2
  <1>2. CASE \E e \in Emails : CountAttempts(h, e)
    <2>1. /\ UNCHANGED <<accounts, memberships, sessions, tokens>>
          /\ \A g \in Handlers : g # h => handlers'[g] = handlers[g]
          /\ handlers'[h].step \in {"IDLE", "COUNTED"}
      BY <1>2 DEF CountAttempts, TypeOK, Idle
    <2> QED BY <1>1, <2>1
  <1>3. CASE VerifyPassword(h)
    <2>1. PICK step \in {"FAILED", "VERIFIED"} : Continue(h, step)
      BY <1>3 DEF VerifyPassword
    <2>2. /\ handlers[h].step \in LoginStep /\ step \in LoginStep
          /\ UNCHANGED <<accounts, memberships, sessions, tokens>>
      BY <1>3 DEF VerifyPassword, LoginStep
    <2>3. /\ handlers'[h].step = step
          /\ \A g \in Handlers : g # h => handlers'[g] = handlers[g]
      BY <2>1, <2>2, LoginContinues
    <2> QED BY <1>1, <2>2, <2>3
  <1>4. CASE RecordAttempt(h)
    <2>1. UNCHANGED <<accounts, memberships, sessions, tokens>> /\ Finish(h)
      BY <1>4 DEF RecordAttempt
    <2>2. /\ handlers'[h].step = "IDLE"
          /\ \A g \in Handlers : g # h => handlers'[g] = handlers[g]
      BY <2>1, HandlerFinishes DEF Idle
    <2> QED BY <1>1, <2>1, <2>2
  <1>5. CASE \E f \in Families \cup {AnyFamily} : FindScope(h, f)
    <2> PICK f \in Families \cup {AnyFamily} : FindScope(h, f)
      BY <1>5
    <2>1. /\ UNCHANGED <<accounts, memberships, sessions, tokens>>
          /\ handlers[h].step \in LoginStep
      BY DEF FindScope, LoginStep
    <2>2. CASE Continue(h, "FAILED")
      <3>1. /\ handlers'[h].step = "FAILED"
            /\ \A g \in Handlers : g # h => handlers'[g] = handlers[g]
        BY <2>1, <2>2, LoginContinues DEF LoginStep
      <3> QED BY <1>1, <2>1, <3>1
    <2>3. CASE \E m \in Scopes(handlers[h].email, f) :
                  handlers' = [handlers EXCEPT ![h].step = "SCOPED", ![h].row = m]
      <3> PICK m \in Scopes(handlers[h].email, f) :
                  handlers' = [handlers EXCEPT ![h].step = "SCOPED", ![h].row = m]
        BY <2>3
      <3>1. m \in Nat /\ memberships[m].account = handlers[h].email
        BY DEF Scopes, TypeOK
      <3>2. ScopedHandler(h, m)
        BY <2>1, <3>1, HandlerScoped
      <3> QED BY <1>1, <2>1, <3>1, <3>2 DEF ScopedHandler
    <2> QED BY <2>2, <2>3 DEF FindScope
  <1>6. CASE ClearAttempts(h)
    <2>1. /\ handlers[h].step = "SCOPED" /\ Continue(h, "CLEARED")
          /\ UNCHANGED <<accounts, memberships, sessions, tokens>>
      BY <1>6 DEF ClearAttempts
    <2>2. /\ handlers'[h].row = handlers[h].row /\ handlers'[h].email = handlers[h].email
          /\ \A g \in Handlers : g # h => handlers'[g] = handlers[g]
      BY <2>1, LoginContinues DEF LoginStep
    <2>3. memberships[handlers[h].row].account = handlers[h].email
      BY <2>1 DEF LoginsJustified
    <2> QED BY <1>1, <2>1, <2>2, <2>3
  <1>7. CASE CreateAuthSession(h)
    <2>1. /\ UNCHANGED <<accounts, memberships, tokens>> /\ Finish(h)
          /\ handlers[h].step = "CLEARED"
      BY <1>7 DEF CreateAuthSession
    <2>2. /\ handlers'[h].step = "IDLE"
          /\ \A g \in Handlers : g # h => handlers'[g] = handlers[g]
      BY <2>1, HandlerFinishes DEF Idle
    <2>3. LoginsJustified'
      BY <2>1, <2>2 DEF LoginsJustified
    <2>4. memberships[handlers[h].row].account = handlers[h].email
      BY <2>1 DEF LoginsJustified
    <2>5. \A s \in DOMAIN sessions' :
             sessions'[s].under # accounts'[AccountOf(s)'] => sessions'[s].revoked
      BY <1>7, <2>1, <2>4, SessionCreated DEF AccountOf, ResetTakesOver
    <2> QED BY <2>1, <2>3, <2>5 DEF ResetTakesOver
  <1> QED BY <1>2, <1>3, <1>4, <1>5, <1>6, <1>7 DEF Login

LEMMA ResetRequest ==
    ASSUME ResetInv, NEW h \in Handlers, Request(h)
    PROVE  (LoginsJustified /\ ResetTakesOver)'
  <1>0. TypeOK /\ LoginsJustified /\ ResetTakesOver
    BY DEF ResetInv
  <1>1. ASSUME UNCHANGED <<accounts, memberships, tokens>>,
               \A g \in Handlers : g # h => handlers'[g] = handlers[g],
               handlers'[h].step \notin {"SCOPED", "CLEARED"},
               NEW set, sessions' = RevokeSessions(set)
        PROVE  (LoginsJustified /\ ResetTakesOver)'
    <2>1. LoginsJustified'
      BY <1>0, <1>1 DEF LoginsJustified
    <2>2. \A s \in DOMAIN sessions' :
             sessions'[s].under # accounts'[AccountOf(s)'] => sessions'[s].revoked
      BY <1>1, UnderKept
    <2> QED BY <1>0, <1>1, <2>1, <2>2 DEF ResetTakesOver
  <1>2. sessions' = sessions => sessions' = RevokeSessions({})
    BY <1>0 DEF RevokeSessions, TypeOK
  <1>3. CASE \E s \in DOMAIN sessions : ResolveScope(h, s)
    <2>1. /\ UNCHANGED <<accounts, memberships, sessions, tokens>>
          /\ \A g \in Handlers : g # h => handlers'[g] = handlers[g]
          /\ handlers'[h].step = "RESOLVED"
      BY <1>0, <1>3 DEF ResolveScope, TypeOK
    <2> QED BY <1>1, <1>2, <2>1
  <1>4. CASE CheckCsrf(h)
    <2>1. UNCHANGED <<accounts, memberships, sessions, tokens>>
      BY <1>4 DEF CheckCsrf
    <2>2. CASE Continue(h, "CHECKED")
      <3>1. handlers[h] \in [step: {"RESOLVED", "CHECKED"}, row: Nat]
        <4>1. handlers[h] \in Handler
          BY <1>0 DEF TypeOK
        <4> QED BY <1>4, <4>1 DEF CheckCsrf, Handler, Idle, LoginStep
      <3>2. [handlers[h] EXCEPT !.step = "CHECKED"].step = "CHECKED"
        BY <3>1
      <3>3. handlers' = [handlers EXCEPT ![h] = [handlers[h] EXCEPT !.step = "CHECKED"]]
        BY <2>2 DEF Continue
      <3>4. /\ handlers'[h].step = "CHECKED"
            /\ \A g \in Handlers : g # h => handlers'[g] = handlers[g]
        BY <1>0, <3>2, <3>3 DEF TypeOK
      <3> QED BY <1>1, <1>2, <2>1, <3>4
    <2>3. CASE Finish(h)
      <3>1. /\ handlers'[h].step = "IDLE"
            /\ \A g \in Handlers : g # h => handlers'[g] = handlers[g]
        BY <1>0, <2>3, HandlerFinishes DEF Idle
      <3> QED BY <1>1, <1>2, <2>1, <3>1
    <2> QED BY <1>4, <2>2, <2>3 DEF CheckCsrf
  <1>5. CASE Logout(h) \/ LogoutAll(h)
    <2>1. /\ UNCHANGED <<accounts, memberships, tokens>> /\ Finish(h)
          /\ \E set : sessions' = RevokeSessions(set)
      BY <1>5 DEF Logout, LogoutAll
    <2>2. /\ handlers'[h].step = "IDLE"
          /\ \A g \in Handlers : g # h => handlers'[g] = handlers[g]
      BY <1>0, <2>1, HandlerFinishes DEF Idle
    <2> QED BY <1>1, <2>1, <2>2
  <1> QED BY <1>3, <1>4, <1>5 DEF Request

LEMMA ResetRecovery ==
    ASSUME ResetInv, Recovery
    PROVE  (LoginsJustified /\ ResetTakesOver)'
  <1>0. TypeOK /\ LoginsJustified /\ ResetTakesOver
    BY DEF ResetInv
  <1>1. CASE \E e \in Emails : CreateResetToken(e)
    <2> PICK e \in Emails : CreateResetToken(e)
      BY <1>1
    <2>1. UNCHANGED <<accounts, memberships, sessions, handlers>>
      BY DEF CreateResetToken
    <2>2. LoginsJustified'
      BY <1>0, <2>1 DEF LoginsJustified
    <2>3. \A s \in DOMAIN sessions' :
             sessions'[s].under # accounts'[AccountOf(s)'] => sessions'[s].revoked
      BY <1>0, <2>1 DEF ResetTakesOver, AccountOf
    <2>4. \A t, u \in DOMAIN tokens' :
             tokens'[t].account = tokens'[u].account /\ ~tokens'[t].used /\ ~tokens'[u].used
                => t = u
      <3> DEFINE last == Len(tokens) + 1
      <3>1. /\ DOMAIN tokens' = DOMAIN tokens \cup {last}
            /\ tokens'[last].account = e
            /\ \A t \in DOMAIN tokens :
                  /\ tokens'[t].account = tokens[t].account
                  /\ tokens'[t].used = (tokens[t].used \/ tokens[t].account = e)
        BY <1>0, TokenCreated
      <3> HIDE DEF last
      <3>2. \A t \in DOMAIN tokens :
               ~tokens'[t].used => ~tokens[t].used /\ tokens'[t].account # e
        BY <3>1
      <3>3. \A t, u \in DOMAIN tokens :
               tokens[t].account = tokens[u].account /\ ~tokens[t].used /\ ~tokens[u].used
                  => t = u
        BY <1>0 DEF ResetTakesOver
      <3> QED BY <3>1, <3>2, <3>3
    <2> QED BY <2>2, <2>3, <2>4 DEF ResetTakesOver
  <1>2. CASE \E t \in DOMAIN tokens : ConsumeResetToken(t)
    <2> PICK t \in DOMAIN tokens : ConsumeResetToken(t)
      BY <1>2
    <2> DEFINE owner == tokens[t].account
    <2>1. /\ UNCHANGED <<memberships, handlers>>
          /\ sessions' = RevokeSessions(AccountSessions(owner))
          /\ accounts' = [accounts EXCEPT ![owner] = @ + 1]
      BY DEF ConsumeResetToken, ClosedByReset
    <2>2. /\ DOMAIN tokens' = DOMAIN tokens /\ owner \in Emails
          /\ \A u \in DOMAIN tokens :
                /\ tokens'[u].account = tokens[u].account
                /\ tokens'[u].used = (tokens[u].used \/ u = t)
      BY <1>0, TokenConsumed
    <2>3. /\ DOMAIN sessions' = DOMAIN sessions
          /\ \A s \in DOMAIN sessions :
                /\ sessions'[s].member = sessions[s].member
                /\ sessions'[s].under = sessions[s].under
                /\ sessions'[s].revoked = (sessions[s].revoked \/ s \in AccountSessions(owner))
      BY <1>0, <2>1, SessionsRevoked
    <2> HIDE DEF owner
    <2>4. /\ \A e \in Emails : accounts[e] \in Nat
          /\ accounts'[owner] = accounts[owner] + 1
          /\ \A e \in Emails : e # owner => accounts'[e] = accounts[e]
      BY <1>0, <2>1, <2>2, AccessConstants DEF TypeOK
    <2>5. LoginsJustified'
      <3>1. \A m \in DOMAIN memberships : memberships[m].account \in Emails
        <4>1. \A m \in DOMAIN memberships : memberships[m] \in Membership
          BY <1>0 DEF TypeOK
        <4> QED BY <4>1 DEF Membership
      <3>2. \A m \in DOMAIN memberships : accounts'[memberships[m].account] # 0
        BY <1>0, <2>2, <2>4, <3>1 DEF LoginsJustified
      <3> QED BY <1>0, <2>1, <3>2 DEF LoginsJustified
    <2>6. \A s \in DOMAIN sessions' :
             sessions'[s].under # accounts'[AccountOf(s)'] => sessions'[s].revoked
      <3> TAKE s \in DOMAIN sessions'
      <3>1. s \in DOMAIN sessions /\ AccountOf(s)' = AccountOf(s) /\ AccountOf(s) \in Emails
        <4>1. s \in DOMAIN sessions
          BY <2>3
        <4>2. AccountOf(s) \in Emails
          BY <1>0, <4>1, SessionAccount
        <4>3. AccountOf(s)' = AccountOf(s)
          BY <2>1, <2>3, <4>1 DEF AccountOf
        <4> QED BY <4>1, <4>2, <4>3
      <3>2. CASE AccountOf(s) = owner
        <4>1. s \in AccountSessions(owner)
          BY <3>1, <3>2 DEF AccountSessions
        <4> QED BY <2>3, <3>1, <4>1
      <3>3. CASE AccountOf(s) # owner
        <4>1. sessions[s].under # accounts[AccountOf(s)] => sessions[s].revoked
          BY <1>0, <3>1 DEF ResetTakesOver
        <4>2. accounts'[AccountOf(s)'] = accounts[AccountOf(s)]
          BY <2>4, <3>1, <3>3
        <4> QED BY <2>3, <3>1, <4>1, <4>2
      <3> QED BY <3>2, <3>3
    <2>7. \A u, v \in DOMAIN tokens' :
             tokens'[u].account = tokens'[v].account /\ ~tokens'[u].used /\ ~tokens'[v].used
                => u = v
      <3>1. \A u \in DOMAIN tokens : ~tokens'[u].used => ~tokens[u].used
        BY <2>2
      <3>2. \A u, v \in DOMAIN tokens :
               tokens[u].account = tokens[v].account /\ ~tokens[u].used /\ ~tokens[v].used
                  => u = v
        BY <1>0 DEF ResetTakesOver
      <3> QED BY <2>2, <3>1, <3>2
    <2> QED BY <2>5, <2>6, <2>7 DEF ResetTakesOver
  <1> QED BY <1>1, <1>2 DEF Recovery

LEMMA ResetStep == ResetInv /\ [Next]_vars => ResetInv'
  <1> SUFFICES ASSUME ResetInv, [Next]_vars PROVE ResetInv'
    OBVIOUS
  <1>1. TypeOK'
    BY TypeStep DEF ResetInv
  <1>2. CASE Tick \/ UNCHANGED vars
    <2>1. UNCHANGED <<accounts, memberships, sessions, tokens, handlers>>
      BY <1>2 DEF Tick, vars
    <2> QED BY <1>1, <2>1 DEF ResetInv, LoginsJustified, ResetTakesOver, AccountOf
  <1>3. CASE Operator
    BY <1>1, <1>3, ResetOperator DEF ResetInv
  <1>4. CASE Recovery
    BY <1>1, <1>4, ResetRecovery DEF ResetInv
  <1>5. CASE \E h \in Handlers : Login(h) \/ Request(h)
    BY <1>1, <1>5, ResetLogin, ResetRequest DEF ResetInv
  <1> QED BY <1>2, <1>3, <1>4, <1>5 DEF Next

\* Whatever was in flight when a password is reset, no other token can set it again and
\* no session opened under an earlier password is left open.
THEOREM ResetAlwaysTakesOver == Spec => []ResetTakesOver
  <1>1. ResetInv => ResetTakesOver
    BY DEF ResetInv
  <1> QED BY <1>1, ResetInvInit, ResetStep, PTL DEF Spec

-----------------------------------------------------------------------------
(* Lost access *)

\* What a step does to the rows that give access: time goes on, memberships and sessions
\* stay and only close, and a new membership is of an account new to its family.
OnlyCloses ==
    /\ now' >= now
    /\ DOMAIN memberships \subseteq DOMAIN memberships'
    /\ \A m \in DOMAIN memberships :
          /\ memberships'[m].account = memberships[m].account
          /\ memberships'[m].family = memberships[m].family
          /\ memberships'[m].active => memberships[m].active
    /\ \A n \in DOMAIN memberships' \ DOMAIN memberships, m \in DOMAIN memberships :
          memberships'[n].family = memberships[m].family =>
             memberships'[n].account # memberships[m].account
    /\ \A s \in DOMAIN sessions :
          /\ sessions'[s].member = sessions[s].member
          /\ sessions'[s].expires = sessions[s].expires
          /\ sessions[s].revoked => sessions'[s].revoked

\* Steps that leave the memberships alone.
LEMMA SessionsOnlyClose ==
    ASSUME TypeOK, UNCHANGED <<now, memberships>>,
           \A s \in DOMAIN sessions :
              /\ sessions'[s].member = sessions[s].member
              /\ sessions'[s].expires = sessions[s].expires
              /\ sessions[s].revoked => sessions'[s].revoked
    PROVE  OnlyCloses
  BY DEF TypeOK, OnlyCloses

\* An account gets no second membership of a family, be its first one revoked.
LEMMA InsertedOnlyCloses ==
    ASSUME TypeOK, NEW e \in Emails, NEW f \in Families, NEW owner \in BOOLEAN,
           InsertMembership(e, f, owner),
           \A m \in Members(f) : memberships[m].account # e
    PROVE  OnlyCloses
  <1> DEFINE last == Len(memberships) + 1
  <1>1. /\ DOMAIN memberships' = DOMAIN memberships \cup {last}
        /\ \A m \in DOMAIN memberships : memberships'[m] = memberships[m]
        /\ memberships'[last] = [account |-> e, family |-> f, owner |-> owner, active |-> TRUE]
    BY MembershipInserted
  <1>2. memberships'[last].account = e /\ memberships'[last].family = f
    BY <1>1
  <1>3. UNCHANGED <<now, sessions>> /\ now \in Nat
    BY DEF InsertMembership, TypeOK
  <1>4. \A m \in DOMAIN memberships : memberships[m].family = f => memberships[m].account # e
    BY DEF Members
  <1> HIDE DEF last
  <1> QED BY <1>1, <1>2, <1>3, <1>4 DEF OnlyCloses

LEMMA StepOnlyCloses ==
    ASSUME TypeOK, [Next]_vars
    PROVE  OnlyCloses
  <1>1. CASE UNCHANGED <<now, memberships, sessions>>
    BY <1>1, SessionsOnlyClose
  <1>2. CASE Tick
    BY <1>2 DEF Tick, TypeOK, OnlyCloses
  <1>3. CASE Operator
    <2>1. ASSUME NEW e \in Emails, NEW f \in Families, CreateFamilyWithOwner(e, f)
          PROVE  OnlyCloses
      BY <2>1, InsertedOnlyCloses DEF CreateFamilyWithOwner
    <2>2. ASSUME NEW e \in Emails, NEW f \in Families, NEW owner \in BOOLEAN,
                 AddMembership(e, f, owner)
          PROVE  OnlyCloses
      BY <2>2, InsertedOnlyCloses DEF AddMembership, NotMember
    <2>3. ASSUME NEW m \in DOMAIN memberships, RevokeMembership(m)
          PROVE  OnlyCloses
      <3>1. UNCHANGED <<now, sessions>> /\ now \in Nat
        BY <2>3 DEF RevokeMembership, TypeOK
      <3>2. /\ DOMAIN memberships' = DOMAIN memberships
            /\ \A o \in DOMAIN memberships :
                  /\ memberships'[o].account = memberships[o].account
                  /\ memberships'[o].family = memberships[o].family
                  /\ memberships'[o].active = (memberships[o].active /\ o # m)
        BY <2>3, MembershipRevoked
      <3>3. \A o \in DOMAIN memberships : memberships'[o].active => memberships[o].active
        BY <3>2
      <3> QED BY <3>1, <3>2, <3>3 DEF OnlyCloses
    <2>4. ASSUME NEW e \in Emails, CreateAccount(e)
          PROVE  OnlyCloses
      BY <1>1, <2>4 DEF CreateAccount
    <2> QED BY <1>3, <2>1, <2>2, <2>3, <2>4 DEF Operator
  <1>4. ASSUME NEW set, sessions' = RevokeSessions(set), UNCHANGED <<now, memberships>>
        PROVE  OnlyCloses
    BY <1>4, SessionsRevoked, SessionsOnlyClose
  <1>5. ASSUME NEW h \in Handlers, Login(h)
        PROVE  OnlyCloses
    <2>1. CASE CreateAuthSession(h)
      <3>1. UNCHANGED <<now, memberships>>
        BY <2>1 DEF CreateAuthSession
      <3>2. \A s \in DOMAIN sessions : sessions'[s] = sessions[s]
        BY <2>1, SessionCreated
      <3> QED BY <3>1, <3>2, SessionsOnlyClose
    <2> QED BY <1>1, <1>5, <2>1 DEF Login, CountAttempts, VerifyPassword, RecordAttempt,
               FindScope, ClearAttempts
  <1>6. ASSUME NEW h \in Handlers, Request(h)
        PROVE  OnlyCloses
    BY <1>1, <1>4, <1>6 DEF Request, ResolveScope, CheckCsrf, Logout, LogoutAll
  <1>7. CASE Recovery
    BY <1>1, <1>4, <1>7 DEF Recovery, CreateResetToken, ConsumeResetToken, ClosedByReset
  <1> QED BY <1>1, <1>2, <1>3, <1>5, <1>6, <1>7 DEF Next, vars

\* A session that resolves no scope does not do so later.
LEMMA ClosedStaysClosed ==
    ASSUME TypeOK, TypeOK', OnlyCloses, NEW s \in DOMAIN sessions, ~Resolves(s)
    PROVE  ~Resolves(s)'
  <1>1. /\ sessions[s].member \in DOMAIN memberships
        /\ sessions[s].expires \in Nat /\ now \in Nat /\ now' \in Nat
    <2>1. sessions[s] \in Session
      BY DEF TypeOK
    <2> QED BY <2>1 DEF TypeOK, Session
  <1> QED BY <1>1 DEF OnlyCloses, Resolves, Open

\* A parent without an active membership of a family does not get one later.
LEMMA OutStaysOut ==
    ASSUME TypeOK, TypeOK', OnlyCloses, NEW m \in DOMAIN memberships,
           Scopes(memberships[m].account, memberships[m].family) = {}
    PROVE  Scopes(memberships[m].account, memberships[m].family)' = {}
  <1>1. \A o \in DOMAIN memberships : memberships[o].family # AnyFamily
    <2>1. \A o \in DOMAIN memberships : memberships[o] \in Membership
      BY DEF TypeOK
    <2> QED BY <2>1, AccessConstants DEF Membership
  <1> SUFFICES ASSUME NEW o \in DOMAIN memberships',
                      memberships'[o].account = memberships'[m].account,
                      memberships'[o].active,
                      memberships'[m].family \in {AnyFamily, memberships'[o].family}
               PROVE  FALSE
    BY DEF Scopes
  <1>2. /\ memberships'[m].account = memberships[m].account
        /\ memberships'[m].family = memberships[m].family
    BY DEF OnlyCloses
  <1>3. memberships'[o].family = memberships[m].family
    BY <1>1, <1>2
  <1>4. o \in DOMAIN memberships
    BY <1>2, <1>3 DEF OnlyCloses
  <1>5. /\ memberships[o].account = memberships[m].account
        /\ memberships[o].family = memberships[m].family /\ memberships[o].active
    BY <1>2, <1>3, <1>4 DEF OnlyCloses
  <1> QED BY <1>4, <1>5 DEF Scopes

\* Access that is lost, of a session or of a parent to a family, stays lost whatever logins,
\* requests, resets and operators do.
THEOREM LostAccessStaysLost == Spec => OutForGood
  <1>1. TypeOK /\ [Next]_vars =>
           /\ \A s \in DOMAIN sessions : ~Resolves(s) => ~Resolves(s)'
           /\ \A m \in DOMAIN memberships :
                 Scopes(memberships[m].account, memberships[m].family) = {} =>
                 Scopes(memberships[m].account, memberships[m].family)' = {}
    <2> SUFFICES ASSUME TypeOK, [Next]_vars
                 PROVE  /\ \A s \in DOMAIN sessions : ~Resolves(s) => ~Resolves(s)'
                        /\ \A m \in DOMAIN memberships :
                              Scopes(memberships[m].account, memberships[m].family) = {} =>
                              Scopes(memberships[m].account, memberships[m].family)' = {}
      OBVIOUS
    <2>1. TypeOK' /\ OnlyCloses
      BY TypeStep, StepOnlyCloses
    <2> QED BY <2>1, ClosedStaysClosed, OutStaysOut
  <1> QED BY <1>1, AccessTypeCorrect, PTL DEF Spec, OutForGood

-----------------------------------------------------------------------------
(* Owners *)

LEMMA OwnerInserted ==
    ASSUME TypeOK, FamilyHasOwner,
           NEW e \in Emails, NEW f \in Families, NEW owner \in BOOLEAN,
           InsertMembership(e, f, owner), owner \/ Members(f) # {}
    PROVE  FamilyHasOwner'
  <1> DEFINE last == Len(memberships) + 1
  <1>1. /\ DOMAIN memberships' = DOMAIN memberships \cup {last}
        /\ \A m \in DOMAIN memberships : memberships'[m] = memberships[m]
        /\ memberships'[last] = [account |-> e, family |-> f, owner |-> owner, active |-> TRUE]
    BY MembershipInserted
  <1>2. /\ memberships'[last].family = f
        /\ memberships'[last].owner = owner /\ memberships'[last].active
    BY <1>1
  <1> HIDE DEF last
  <1> SUFFICES ASSUME NEW g \in Families, NEW n \in Members(g)'
               PROVE  \E m \in Members(g)' : memberships'[m].owner /\ memberships'[m].active
    BY DEF FamilyHasOwner
  <1>3. CASE Members(g) # {}
    <2>1. PICK m \in Members(g) : memberships[m].owner /\ memberships[m].active
      BY <1>3 DEF FamilyHasOwner
    <2>2. m \in Members(g)' /\ memberships'[m] = memberships[m]
      BY <1>1 DEF Members
    <2> QED BY <2>1, <2>2
  <1>4. CASE Members(g) = {}
    <2>1. n = last /\ g = f
      BY <1>1, <1>2, <1>4 DEF Members
    <2> QED BY <1>2, <1>4, <2>1
  <1> QED BY <1>3, <1>4

LEMMA OwnerRevoked ==
    ASSUME TypeOK, FamilyHasOwner, NEW m \in DOMAIN memberships, RevokeMembership(m)
    PROVE  FamilyHasOwner'
  <1>1. /\ DOMAIN memberships' = DOMAIN memberships
        /\ \A o \in DOMAIN memberships :
              /\ memberships'[o].family = memberships[o].family
              /\ memberships'[o].owner = memberships[o].owner
              /\ memberships'[o].active = (memberships[o].active /\ o # m)
    BY MembershipRevoked
  <1>2. \A g \in Families : Members(g)' = Members(g)
    BY <1>1 DEF Members
  <1>3. \A o \in DOMAIN memberships : o # m /\ memberships[o].owner /\ memberships[o].active =>
           memberships'[o].owner /\ memberships'[o].active
    BY <1>1
  <1> SUFFICES ASSUME NEW g \in Families, Members(g) # {}
               PROVE  \E o \in Members(g) : memberships'[o].owner /\ memberships'[o].active
    BY <1>2 DEF FamilyHasOwner
  <1>4. PICK o \in Members(g) : memberships[o].owner /\ memberships[o].active
    BY DEF FamilyHasOwner
  <1>5. CASE o # m
    BY <1>3, <1>4, <1>5 DEF Members
  <1>6. CASE o = m
    <2>1. PICK p \in Members(memberships[m].family) :
             p # m /\ memberships[p].owner /\ memberships[p].active
      BY <1>4, <1>6 DEF RevokeMembership, OtherOwner
    <2>2. p \in Members(g)
      BY <1>4, <1>6 DEF Members
    <2> QED BY <1>3, <2>1, <2>2 DEF Members
  <1> QED BY <1>5, <1>6

\* In whatever order owners are added and revoked, a family that has members has an
\* active owner.
THEOREM FamilyAlwaysHasOwner == Spec => []FamilyHasOwner
  <1>1. Init => FamilyHasOwner
    BY DEF Init, FamilyHasOwner, Members
  <1>2. TypeOK /\ FamilyHasOwner /\ [Next]_vars => FamilyHasOwner'
    <2> SUFFICES ASSUME TypeOK, FamilyHasOwner, [Next]_vars PROVE FamilyHasOwner'
      OBVIOUS
    <2>1. CASE UNCHANGED memberships
      BY <2>1 DEF FamilyHasOwner, Members
    <2>2. ASSUME NEW e \in Emails, NEW f \in Families, CreateFamilyWithOwner(e, f)
          PROVE  FamilyHasOwner'
      BY <2>2, OwnerInserted DEF CreateFamilyWithOwner
    <2>3. ASSUME NEW e \in Emails, NEW f \in Families, NEW owner \in BOOLEAN,
                 AddMembership(e, f, owner)
          PROVE  FamilyHasOwner'
      BY <2>3, OwnerInserted DEF AddMembership
    <2>4. ASSUME NEW h \in Handlers, Login(h) \/ Request(h)
          PROVE  UNCHANGED memberships
      BY <2>4 DEF Login, CountAttempts, VerifyPassword, RecordAttempt, FindScope,
         ClearAttempts, CreateAuthSession, Request, ResolveScope, CheckCsrf, Logout, LogoutAll
    <2>5. Tick \/ Recovery \/ UNCHANGED vars => UNCHANGED memberships
      BY DEF Tick, Recovery, CreateResetToken, ConsumeResetToken, vars
    <2>6. CASE Operator
      BY <2>1, <2>2, <2>3, <2>6, OwnerRevoked DEF Operator, CreateAccount
    <2> QED BY <2>1, <2>4, <2>5, <2>6 DEF Next
  <1> QED BY <1>1, <1>2, AccessTypeCorrect, PTL DEF Spec
=============================================================================
