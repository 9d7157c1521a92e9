--------------------------- MODULE SessionsProofs ---------------------------
(***************************************************************************)
(* The safety properties of Sessions, and that it implements SessionBook,  *)
(* for any accounts, sessions and handlers and any number of seconds and   *)
(* passwords.                                                              *)
(***************************************************************************)
EXTENDS Sessions, TLAPS

(* A handler at work knows its account; one that signs out has the account's *)
(* token, one that renews a session of the account.                          *)
WorkingAt(h) ==
    /\ req[h].pc # "idle" => req[h].user \in Users
    /\ req[h].pc = "signout" => /\ req[h].token \in issued
                                /\ req[h].token.sub = req[h].user
    /\ req[h].pc \in {"renew", "update"} => /\ req[h].session \in Sessions
                                            /\ tokens[req[h].session].owner = req[h].user

Working == \A h \in Handlers : WorkingAt(h)

(* A session has an owner, and while it is open a token that was handed out for her. *)
Owned ==
    \A s \in Sessions :
        /\ IF tokens[s].state = "none" THEN tokens[s].owner = None ELSE tokens[s].owner \in Users
        /\ tokens[s].state = "open" => /\ tokens[s].accessToken \in issued
                                      /\ tokens[s].accessToken.sub = tokens[s].owner

(* Two open sessions share a token only if it was handed out twice. *)
Shared ==
    \A s, r \in Open :
        s # r /\ tokens[s].accessToken = tokens[r].accessToken => tokens[s].accessToken \in twice

SessionInv == Working /\ Owned /\ Shared /\ left \subseteq issued /\ SignedOutIsRefused

-----------------------------------------------------------------------------
LEMMA InitInv == Init => TypeOK /\ SessionInv /\ PasswordTold
<1> SUFFICES ASSUME Init PROVE TypeOK /\ SessionInv /\ PasswordTold
  OBVIOUS
<1>1. Idle \in Requests /\ NoDocument \in Documents /\ 0 \in Seconds /\ 0 \in Passwords
  BY BoundsAssumption DEF Idle, Requests, Steps, NoDocument, Documents, Seconds, Passwords
<1>2. TypeOK
  <2>1. users \in [Users -> Accounts]
    BY <1>1 DEF Init, Accounts
  <2> QED BY <1>1, <2>1 DEF Init, TypeOK
<1>3. Open = {} /\ Working /\ Owned
  BY DEF Init, Open, Working, WorkingAt, Owned, Idle, NoDocument
<1>4. PasswordTold
  BY DEF Init, PasswordTold
<1> QED BY <1>2, <1>3, <1>4 DEF Init, SessionInv, Shared, SignedOutIsRefused, WithAccess

(* What ending leaves of a document. *)
LEMMA EndedKeeps ==
    ASSUME NEW doc \in Documents
    PROVE  Ended(doc) \in Documents /\ Ended(doc).state = "ended" /\ Ended(doc).owner = doc.owner
BY DEF Ended, NoDocument, Documents

LEMMA TypeStep == TypeOK /\ Working /\ [Next]_vars => TypeOK'
<1> SUFFICES ASSUME TypeOK, Working, [Next]_vars PROVE TypeOK'
  OBVIOUS
<1> USE BoundsAssumption DEF TypeOK, historyVars, Seconds, Passwords
<1>1. ASSUME NEW h \in Handlers, NEW u \in Users, ResetPassword(h, u) PROVE TypeOK'
  BY <1>1 DEF ResetPassword, Begin, Idle, Requests, Steps
<1>2. ASSUME NEW h \in Handlers, NEW u \in Users, NEW p \in Passwords, Login(h, u, p) PROVE TypeOK'
  BY <1>2 DEF Login, Begin, Idle, Requests, Steps
<1>3. ASSUME NEW h \in Handlers, NEW t \in AccessTokens, NEW u \in Users, Logout(h, t, u) PROVE TypeOK'
  BY <1>3 DEF Logout, Begin, Idle, Requests, Steps
<1>4. ASSUME NEW h \in Handlers, NEW r \in RefreshTokens, RefreshToken(h, r) PROVE TypeOK'
  <2>1. PICK s \in Sessions : Begin(h, [Idle EXCEPT !.pc = "renew", !.user = r.sub, !.session = s])
    BY <1>4 DEF RefreshToken, WithRefresh, Open
  <2>2. [Idle EXCEPT !.pc = "renew", !.user = r.sub, !.session = s] \in Requests
    <3>1. r.sub \in Users /\ 0 \in Seconds /\ 0 \in Passwords
      BY DEF RefreshTokens
    <3> HIDE DEF Seconds, Passwords
    <3> QED BY <3>1 DEF Idle, Requests, Steps
  <2> QED BY <1>4, <2>1, <2>2 DEF RefreshToken, Begin
<1>5. ASSUME NEW h \in Handlers, NEW s \in Sessions, NewToken(h, s) PROVE TypeOK'
  <2>1. req[h].user \in Users /\ req[h].iat \in Seconds
    BY <1>5 DEF NewToken, Working, WorkingAt, Requests
  <2>2. /\ Access(req[h].user, req[h].iat, "login") \in AccessTokens
        /\ [sub |-> req[h].user, iat |-> req[h].iat] \in RefreshTokens
    BY <2>1 DEF Access, AccessTokens, RefreshTokens
  <2> QED BY <1>5, <2>1, <2>2 DEF NewToken, Issue, Done, Idle, Requests, Steps, Documents
<1>6. ASSUME NEW h \in Handlers, SignTokens(h) \/ SignAccess(h) PROVE TypeOK'
  BY <1>6, SMTT(30) DEF SignTokens, SignAccess, Requests, Steps
<1>7. ASSUME NEW h \in Handlers, DeleteToken(h) PROVE TypeOK'
  <2>1. \A s \in Sessions : Ended(tokens[s]) \in Documents
    BY EndedKeeps
  <2>2. tokens' \in [Sessions -> Documents]
    BY <1>7, <2>1 DEF DeleteToken, Deleted, WithAccess, Open
  <2>3. left' \subseteq AccessTokens
    BY <1>7 DEF DeleteToken, Working, WorkingAt
  <2> QED BY <1>7, <2>2, <2>3 DEF DeleteToken, Done, Idle, Requests, Steps
<1>8. ASSUME NEW h \in Handlers, UpdateToken(h) PROVE TypeOK'
  <2>1. req[h].user \in Users /\ req[h].iat \in Seconds /\ req[h].session \in Sessions
    BY <1>8 DEF UpdateToken, Working, WorkingAt, Requests
  <2>2. Access(req[h].user, req[h].iat, "refresh") \in AccessTokens
    BY <2>1 DEF Access, AccessTokens
  <2>3. Renewed(tokens[req[h].session], Access(req[h].user, req[h].iat, "refresh")) \in Documents
    BY <2>1, <2>2 DEF Renewed, Documents
  <2> QED BY <1>8, <2>1, <2>2, <2>3 DEF UpdateToken, Issue, Done, Idle, Requests, Steps
<1>9. ASSUME NEW h \in Handlers, UpdateUserPassword(h) PROVE TypeOK'
  <2>1. req[h].user \in Users
    BY <1>9 DEF UpdateUserPassword, Working, WorkingAt
  <2>2. Fresh(req[h].user) \in Passwords
    BY <1>9, <2>1 DEF UpdateUserPassword, Fresh, Accounts
  <2>3. [users[req[h].user] EXCEPT !.password = Fresh(req[h].user)] \in Accounts
    <3>1. users[req[h].user] \in Accounts
      BY <2>1
    <3> HIDE DEF Passwords
    <3> QED BY <2>2, <3>1, Zenon DEF Accounts
  <2>4. users' \in [Users -> Accounts]
    BY <1>9, <2>3 DEF UpdateUserPassword
  <2>5. [req[h] EXCEPT !.pc = "sessions", !.password = Fresh(req[h].user)] \in Requests
    <3> HIDE DEF Passwords
    <3> QED BY <2>2 DEF Requests, Steps
  <2> QED BY <1>9, <2>4, <2>5 DEF UpdateUserPassword
<1>10. ASSUME NEW h \in Handlers, DeleteAllSession(h) PROVE TypeOK'
  <2>1. \A s \in Sessions : Ended(tokens[s]) \in Documents
    BY EndedKeeps
  <2>2. [req[h] EXCEPT !.pc = "mail"] \in Requests
    <3> HIDE DEF Passwords, Seconds
    <3> QED BY DEF Requests, Steps
  <2> QED BY <1>10, <2>1, <2>2 DEF DeleteAllSession
<1>11. ASSUME NEW h \in Handlers, MailPassword(h) PROVE TypeOK'
  <2>1. req[h].user \in Users /\ req[h].password \in Passwords
    BY <1>11 DEF MailPassword, Working, WorkingAt, Requests
  <2> QED BY <1>11, <2>1 DEF MailPassword, Mailed, Done, Idle, Requests, Steps
<1>12. ASSUME NEW h \in Handlers, Cut(h) PROVE TypeOK'
  <2>1. req[h].password \in Passwords /\ (req[h].pc # "idle" => req[h].user \in Users)
    BY DEF Working, WorkingAt, Requests
  <2>2. lost' \in [Users -> SUBSET Passwords]
    BY <1>12, <2>1 DEF Cut
  <2> QED BY <1>12, <2>2 DEF Cut, Done, Idle, Requests, Steps
<1>13. ASSUME NEW s \in Sessions, Expire(s) PROVE TypeOK'
  BY <1>13, EndedKeeps DEF Expire
<1>14. CASE Tick
  BY <1>14 DEF Tick
<1>15. ASSUME NEW u \in Users, NEW verified \in BOOLEAN, SetVerified(u, verified) PROVE TypeOK'
  <2>1. [users[u] EXCEPT !.verified = verified] \in Accounts
    <3>1. users[u] \in Accounts
      OBVIOUS
    <3> QED BY <3>1, Zenon DEF Accounts
  <2> QED BY <1>15, <2>1 DEF SetVerified
<1>16. ASSUME NEW u \in Users, NEW verified \in BOOLEAN, Make(u, verified)
       PROVE  users' \in [Users -> Accounts] /\ 1 \in Passwords
  <2>1. users[u].password = 0 /\ 1 \in Passwords
    BY <1>16 DEF Make
  <2>2. [verified |-> verified, password |-> 1] \in Accounts
    BY <2>1 DEF Accounts
  <2> QED BY <1>16, <2>1, <2>2 DEF Make
<1>17. ASSUME NEW u \in Users,
              SingUp(u) \/ \E verified \in BOOLEAN : CreateUserUntold(u, verified)
       PROVE  TypeOK'
  BY <1>16, <1>17 DEF SingUp, CreateUserUntold
<1>18. ASSUME NEW h \in Handlers, NEW u \in Users, NEW verified \in BOOLEAN, CreateUser(h, u, verified) PROVE TypeOK'
  <2>1. [Idle EXCEPT !.pc = "mail", !.user = u, !.password = 1] \in Requests
    <3>1. 0 \in Seconds /\ 1 \in Passwords
      BY <1>16, <1>18 DEF CreateUser
    <3> HIDE DEF Seconds, Passwords
    <3> QED BY <3>1 DEF Idle, Requests, Steps
  <2> QED BY <1>16, <1>18, <2>1 DEF CreateUser, Begin
<1>19. CASE UNCHANGED vars
  BY <1>19 DEF vars
<1> QED
  BY <1>1, <1>2, <1>3, <1>4, <1>5, <1>6, <1>7, <1>8, <1>9, <1>10, <1>11, <1>12, <1>13, <1>14, <1>15, <1>17, <1>18, <1>19
     DEF Next

-----------------------------------------------------------------------------
(* What renewing leaves of a document. *)
LEMMA RenewedKeeps ==
    ASSUME NEW doc \in Documents, NEW t
    PROVE  /\ Renewed(doc, t).state = doc.state /\ Renewed(doc, t).owner = doc.owner
           /\ doc.state = "open" => Renewed(doc, t).accessToken = t
           /\ doc.state # "open" => Renewed(doc, t) = doc
BY DEF Renewed, Documents

(* A step leaves the sessions alone, ends some, opens one or renews one. *)
LEMMA TokensMove ==
    ASSUME TypeOK, Working, Owned, [Next]_vars
    PROVE  \/ UNCHANGED <<tokens, issued, twice>>
           \/ /\ UNCHANGED <<issued, twice>>
              /\ \A s \in Sessions : tokens'[s] = tokens[s] \/ (s \in Open /\ tokens'[s] = Ended(tokens[s]))
           \/ \E h \in Handlers, s \in Sessions : NewToken(h, s)
           \/ \E h \in Handlers : UpdateToken(h) /\ tokens[req[h].session].state = "open"
<1> USE DEF TypeOK, historyVars
<1>1. ASSUME NEW h \in Handlers, DeleteToken(h) PROVE
        /\ UNCHANGED <<issued, twice>>
        /\ \A s \in Sessions : tokens'[s] = tokens[s] \/ (s \in Open /\ tokens'[s] = Ended(tokens[s]))
  BY <1>1 DEF DeleteToken, Deleted, WithAccess
<1>2. ASSUME NEW h \in Handlers, DeleteAllSession(h) PROVE
        /\ UNCHANGED <<issued, twice>>
        /\ \A s \in Sessions : tokens'[s] = tokens[s] \/ (s \in Open /\ tokens'[s] = Ended(tokens[s]))
  BY <1>2 DEF DeleteAllSession, MatchedBySpread
<1>3. ASSUME NEW s \in Sessions, Expire(s) PROVE
        /\ UNCHANGED <<issued, twice>>
        /\ \A r \in Sessions : tokens'[r] = tokens[r] \/ (r \in Open /\ tokens'[r] = Ended(tokens[r]))
  BY <1>3 DEF Expire
<1>4. ASSUME NEW h \in Handlers, UpdateToken(h), tokens[req[h].session].state # "open"
      PROVE  UNCHANGED <<tokens, issued, twice>>
  <2>1. req[h].session \in Sessions
    BY <1>4 DEF UpdateToken, Working, WorkingAt
  <2> QED BY <1>4, <2>1 DEF UpdateToken, Renewed
<1> QED
  BY <1>1, <1>2, <1>3, <1>4
     DEF Next, vars, ResetPassword, Login, Logout, RefreshToken, SignTokens, SignAccess, UpdateUserPassword,
         MailPassword, Cut, Tick, SetVerified, SingUp, CreateUser, CreateUserUntold

(* Sessions keep their owner, tokens stay handed out. *)
Kept ==
    /\ issued \subseteq issued' /\ twice \subseteq twice'
    /\ \A s \in Sessions : tokens[s].state # "none" =>
          tokens'[s].state # "none" /\ tokens'[s].owner = tokens[s].owner

LEMMA Keeps == TypeOK /\ Working /\ Owned /\ [Next]_vars => Kept
<1> SUFFICES ASSUME TypeOK, Working, Owned, [Next]_vars PROVE Kept
  OBVIOUS
<1>1. tokens \in [Sessions -> Documents]
  BY DEF TypeOK
<1>2. CASE UNCHANGED <<tokens, issued, twice>>
  BY <1>2 DEF Kept
<1>3. ASSUME UNCHANGED <<issued, twice>>,
             \A s \in Sessions : tokens'[s] = tokens[s] \/ (s \in Open /\ tokens'[s] = Ended(tokens[s]))
      PROVE  Kept
  BY <1>1, <1>3, EndedKeeps DEF Kept
<1>4. ASSUME NEW h \in Handlers, NEW s \in Sessions, NewToken(h, s) PROVE Kept
  <2>1. \A r \in Sessions \ {s} : tokens'[r] = tokens[r]
    BY <1>1, <1>4 DEF NewToken
  <2> QED BY <1>4, <2>1 DEF Kept, NewToken, Issue
<1>5. ASSUME NEW h \in Handlers, UpdateToken(h), tokens[req[h].session].state = "open" PROVE Kept
  <2>1. req[h].session \in Sessions
    BY <1>5 DEF UpdateToken, Working, WorkingAt
  <2>2. /\ \A r \in Sessions \ {req[h].session} : tokens'[r] = tokens[r]
        /\ tokens'[req[h].session] = Renewed(tokens[req[h].session], Access(req[h].user, req[h].iat, "refresh"))
    BY <1>1, <1>5, <2>1 DEF UpdateToken
  <2> QED BY <1>1, <1>5, <2>1, <2>2, RenewedKeeps DEF Kept, UpdateToken, Issue
<1> QED BY <1>2, <1>3, <1>4, <1>5, TokensMove

LEMMA WorkingStep == TypeOK /\ SessionInv /\ [Next]_vars => Working'
<1> SUFFICES ASSUME TypeOK, Working, Owned, [Next]_vars, Kept PROVE Working'
  BY Keeps DEF SessionInv
<1>1. req \in [Handlers -> Requests] /\ tokens \in [Sessions -> Documents]
  BY DEF TypeOK
<1>2. ASSUME NEW h \in Handlers, req'[h] = req[h] PROVE WorkingAt(h)'
  <2>1. WorkingAt(h)
    BY DEF Working
  <2>2. ASSUME req[h].pc \in {"renew", "update"} PROVE tokens'[req[h].session].owner = req[h].user
    <3>1. req[h].user \in Users /\ req[h].session \in Sessions /\ tokens[req[h].session].owner = req[h].user
      BY <2>1, <2>2 DEF WorkingAt
    <3>2. tokens[req[h].session].state # "none"
      BY <3>1, NoneAssumption DEF Owned
    <3> QED BY <3>1, <3>2 DEF Kept
  <2>3. req[h].pc = "signout" => req[h].token \in issued'
    BY <2>1 DEF WorkingAt, Kept
  <2> QED BY <1>2, <2>1, <2>2, <2>3 DEF WorkingAt
<1>3. ASSUME NEW h \in Handlers, WorkingAt(h)', \A g \in Handlers \ {h} : req'[g] = req[g]
      PROVE  Working'
  BY <1>2, <1>3 DEF Working
<1>4. ASSUME NEW h \in Handlers, NEW u \in Users,
             \/ ResetPassword(h, u) \/ \E p \in Passwords : Login(h, u, p)
             \/ \E verified \in BOOLEAN : CreateUser(h, u, verified)
      PROVE  Working'
  <2>1. PICK pc \in {"password", "sign", "mail"} :
            \/ Begin(h, [Idle EXCEPT !.pc = pc, !.user = u])
            \/ Begin(h, [Idle EXCEPT !.pc = pc, !.user = u, !.password = 1])
    BY <1>4 DEF ResetPassword, Login, CreateUser
  <2>2. /\ \A g \in Handlers \ {h} : req'[g] = req[g]
        /\ req'[h].pc = pc /\ req'[h].user = u
    BY <1>1, <2>1 DEF Begin, Idle
  <2> QED BY <1>3, <2>2 DEF WorkingAt
<1>5. ASSUME NEW h \in Handlers, NEW t \in AccessTokens, NEW u \in Users, Logout(h, t, u) PROVE Working'
  <2>1. t \in issued /\ t.sub = u
    BY <1>5 DEF Logout, CanActivate, VerifyUserCredentials, WithAccess, Open, Owned
  <2>2. /\ \A g \in Handlers \ {h} : req'[g] = req[g]
        /\ req'[h].pc = "signout" /\ req'[h].user = u /\ req'[h].token = t
    BY <1>1, <1>5 DEF Logout, Begin, Idle
  <2> QED BY <1>3, <2>1, <2>2 DEF WorkingAt, Kept
<1>6. ASSUME NEW h \in Handlers, NEW r \in RefreshTokens, RefreshToken(h, r) PROVE Working'
  <2>1. PICK s \in WithRefresh(r) : Begin(h, [Idle EXCEPT !.pc = "renew", !.user = r.sub, !.session = s])
    BY <1>6 DEF RefreshToken
  <2>2. s \in Sessions /\ tokens[s].state = "open" /\ tokens[s].owner = r.sub /\ r.sub \in Users
    BY DEF WithRefresh, Open, RefreshTokens
  <2>3. /\ \A g \in Handlers \ {h} : req'[g] = req[g]
        /\ req'[h].pc = "renew" /\ req'[h].user = r.sub /\ req'[h].session = s
    BY <1>1, <2>1 DEF Begin, Idle
  <2> QED BY <1>3, <2>2, <2>3 DEF WorkingAt, Kept
<1>7. ASSUME NEW h \in Handlers,
             \/ (\E s \in Sessions : NewToken(h, s)) \/ DeleteToken(h) \/ UpdateToken(h)
             \/ MailPassword(h) \/ Cut(h)
      PROVE  Working'
  <2>1. (\A g \in Handlers \ {h} : req'[g] = req[g]) /\ req'[h].pc = "idle"
    BY <1>1, <1>7 DEF NewToken, DeleteToken, UpdateToken, MailPassword, Cut, Done, Idle
  <2> QED BY <1>3, <2>1 DEF WorkingAt
<1>8. ASSUME NEW h \in Handlers, SignTokens(h) \/ SignAccess(h) PROVE Working'
  <2>1. /\ \A g \in Handlers \ {h} : req'[g] = req[g]
        /\ req'[h].user = req[h].user /\ req'[h].session = req[h].session
        /\ \/ req[h].pc = "sign" /\ req'[h].pc = "session"
           \/ req[h].pc = "renew" /\ req'[h].pc = "update"
    BY <1>1, <1>8 DEF SignTokens, SignAccess, Requests
  <2> QED BY <1>3, <1>8, <2>1 DEF SignTokens, SignAccess, Working, WorkingAt
<1>9. ASSUME NEW h \in Handlers, UpdateUserPassword(h) \/ DeleteAllSession(h) PROVE Working'
  <2>1. /\ \A g \in Handlers \ {h} : req'[g] = req[g]
        /\ req[h].pc # "idle" /\ req'[h].user = req[h].user /\ req'[h].pc \in {"sessions", "mail"}
    BY <1>1, <1>9 DEF UpdateUserPassword, DeleteAllSession, Requests
  <2> QED BY <1>3, <2>1 DEF Working, WorkingAt
<1>10. CASE \/ (\E s \in Sessions : Expire(s)) \/ Tick
            \/ (\E u \in Users : SingUp(u))
            \/ (\E u \in Users, verified \in BOOLEAN : CreateUserUntold(u, verified) \/ SetVerified(u, verified))
            \/ UNCHANGED vars
  BY <1>2, <1>10 DEF Expire, Tick, SingUp, CreateUserUntold, SetVerified, vars, Working
<1> QED BY <1>4, <1>5, <1>6, <1>7, <1>8, <1>9, <1>10 DEF Next

-----------------------------------------------------------------------------
(* What a session that was opened or renewed by a step is like. *)
LEMMA Opens ==
    ASSUME TypeOK, Working, Owned, NEW h \in Handlers, NEW s \in Sessions, NewToken(h, s)
    PROVE  LET t == Access(req[h].user, req[h].iat, "login")
           IN  /\ req[h].user \in Users /\ t.sub = req[h].user
               /\ tokens[s].state = "none" /\ tokens[s].owner = None
               /\ tokens'[s].state = "open" /\ tokens'[s].owner = req[h].user /\ tokens'[s].accessToken = t
               /\ \A r \in Sessions \ {s} : tokens'[r] = tokens[r]
               /\ issued' = issued \cup {t} /\ (t \in issued => t \in twice')
               /\ twice \subseteq twice' /\ left' = left
BY DEF TypeOK, NewToken, Working, WorkingAt, Owned, Access, Issue

LEMMA Renews ==
    ASSUME TypeOK, Working, NEW h \in Handlers, UpdateToken(h), tokens[req[h].session].state = "open"
    PROVE  LET t == Access(req[h].user, req[h].iat, "refresh")
               s == req[h].session
           IN  /\ s \in Sessions /\ t.sub = req[h].user /\ tokens[s].owner = req[h].user
               /\ tokens'[s].state = "open" /\ tokens'[s].owner = req[h].user /\ tokens'[s].accessToken = t
               /\ \A r \in Sessions \ {s} : tokens'[r] = tokens[r]
               /\ issued' = issued \cup {t} /\ (t \in issued => t \in twice')
               /\ twice \subseteq twice' /\ left' = left
<1>1. req[h].session \in Sessions /\ tokens[req[h].session].owner = req[h].user
  BY DEF UpdateToken, Working, WorkingAt
<1>2. tokens \in [Sessions -> Documents]
  BY DEF TypeOK
<1>3. /\ tokens'[req[h].session] = Renewed(tokens[req[h].session], Access(req[h].user, req[h].iat, "refresh"))
      /\ \A r \in Sessions \ {req[h].session} : tokens'[r] = tokens[r]
  BY <1>1, <1>2 DEF UpdateToken
<1>4. Access(req[h].user, req[h].iat, "refresh").sub = req[h].user
  BY DEF Access
<1> QED BY <1>1, <1>2, <1>3, <1>4, RenewedKeeps DEF UpdateToken, Issue

LEMMA OwnedStep == TypeOK /\ SessionInv /\ [Next]_vars => Owned'
<1> SUFFICES ASSUME TypeOK, Working, Owned, [Next]_vars PROVE Owned'
  BY DEF SessionInv
<1>1. tokens \in [Sessions -> Documents]
  BY DEF TypeOK
<1>2. CASE UNCHANGED <<tokens, issued, twice>>
  BY <1>2 DEF Owned
<1>3. ASSUME UNCHANGED <<issued, twice>>,
             \A s \in Sessions : tokens'[s] = tokens[s] \/ (s \in Open /\ tokens'[s] = Ended(tokens[s]))
      PROVE  Owned'
  BY <1>1, <1>3, EndedKeeps DEF Owned, Open
<1>4. ASSUME NEW h \in Handlers, NEW s \in Sessions, NewToken(h, s) PROVE Owned'
  BY <1>4, Opens DEF Owned
<1>5. ASSUME NEW h \in Handlers, UpdateToken(h), tokens[req[h].session].state = "open" PROVE Owned'
  BY <1>5, Renews DEF Owned
<1> QED BY <1>2, <1>3, <1>4, <1>5, TokensMove

LEMMA SharedStep == TypeOK /\ SessionInv /\ [Next]_vars => Shared'
<1> SUFFICES ASSUME TypeOK, Working, Owned, Shared, [Next]_vars PROVE Shared'
  BY DEF SessionInv
<1>1. tokens \in [Sessions -> Documents]
  BY DEF TypeOK
<1>2. CASE UNCHANGED <<tokens, issued, twice>>
  BY <1>2 DEF Shared, Open
<1>3. ASSUME UNCHANGED <<issued, twice>>,
             \A s \in Sessions : tokens'[s] = tokens[s] \/ (s \in Open /\ tokens'[s] = Ended(tokens[s]))
      PROVE  Shared'
  <2>1. \A s \in Open' : s \in Open /\ tokens'[s] = tokens[s]
    BY <1>1, <1>3, EndedKeeps DEF Open
  <2> QED BY <1>3, <2>1 DEF Shared
<1>4. ASSUME NEW h \in Handlers, NEW s \in Sessions, NewToken(h, s) PROVE Shared'
  <2>1. \A r \in Open' : r = s \/ (r \in Open /\ tokens'[r] = tokens[r] /\ tokens[r].accessToken \in issued)
    BY <1>4, Opens DEF Open, Owned
  <2> QED BY <1>4, <2>1, Opens DEF Shared
<1>5. ASSUME NEW h \in Handlers, UpdateToken(h), tokens[req[h].session].state = "open" PROVE Shared'
  <2>1. \A r \in Open' : \/ r = req[h].session
                         \/ r \in Open /\ tokens'[r] = tokens[r] /\ tokens[r].accessToken \in issued
    BY <1>5, Renews DEF Open, Owned
  <2> QED BY <1>5, <2>1, Renews DEF Shared
<1> QED BY <1>2, <1>3, <1>4, <1>5, TokensMove

-----------------------------------------------------------------------------
LEMMA LeftStep == TypeOK /\ SessionInv /\ [Next]_vars => (left \subseteq issued /\ SignedOutIsRefused)'
<1> SUFFICES ASSUME TypeOK, Working, Owned, Shared, left \subseteq issued, SignedOutIsRefused, [Next]_vars
             PROVE  (left \subseteq issued /\ SignedOutIsRefused)'
  BY DEF SessionInv
<1>1. tokens \in [Sessions -> Documents]
  BY DEF TypeOK
<1>2. ASSUME NEW h \in Handlers, DeleteToken(h) PROVE (left \subseteq issued /\ SignedOutIsRefused)'
  <2> PICK t : t = req[h].token
    OBVIOUS
  <2>1. t \in issued /\ t.sub = req[h].user
    BY <1>2 DEF DeleteToken, Working, WorkingAt
  <2>2. Deleted(t, req[h].user) = WithAccess(t)
    BY <2>1 DEF Deleted, WithAccess, Open, Owned
  <2>3. UNCHANGED <<issued, twice>> /\ left' = left \cup {t}
    BY <1>2 DEF DeleteToken
  <2>4. \A s \in Open' : s \in Open /\ tokens'[s] = tokens[s]
    BY <1>1, <1>2, EndedKeeps DEF DeleteToken, Open, Deleted, WithAccess
  <2>5. ASSUME WithAccess(t)' # {} PROVE t \in twice
    <3>1. PICK r \in Open' : tokens'[r].accessToken = t
      BY <2>5 DEF WithAccess
    <3>2. r \in WithAccess(t)
      BY <2>4, <3>1 DEF WithAccess
    <3>3. PICK s \in WithAccess(t) : tokens' = [tokens EXCEPT ![s] = Ended(@)]
      BY <1>2, <2>2, <3>2 DEF DeleteToken
    <3>4. s \in Sessions /\ tokens'[s].state = "ended"
      BY <1>1, <3>3, EndedKeeps DEF WithAccess, Open
    <3>5. r # s
      BY <3>1, <3>4 DEF Open
    <3> QED BY <3>2, <3>3, <3>5 DEF Shared, WithAccess
  <2>6. ASSUME NEW a \in left, WithAccess(a)' # {} PROVE a \in twice
    BY <2>4, <2>6 DEF SignedOutIsRefused, WithAccess
  <2> QED BY <2>1, <2>3, <2>5, <2>6 DEF SignedOutIsRefused
<1>3. ASSUME ~ \E h \in Handlers : DeleteToken(h) PROVE left' = left
  BY <1>3
     DEF Next, vars, historyVars, ResetPassword, Login, Logout, RefreshToken, NewToken, SignTokens, SignAccess,
         UpdateToken, UpdateUserPassword, DeleteAllSession, MailPassword, Cut, Expire, Tick, SetVerified,
         SingUp, CreateUser, CreateUserUntold
<1>4. CASE UNCHANGED <<left, tokens, issued, twice>>
  BY <1>4 DEF SignedOutIsRefused, WithAccess, Open
<1>5. ASSUME UNCHANGED <<left, issued, twice>>,
             \A s \in Sessions : tokens'[s] = tokens[s] \/ (s \in Open /\ tokens'[s] = Ended(tokens[s]))
      PROVE  (left \subseteq issued /\ SignedOutIsRefused)'
  <2>1. \A s \in Open' : s \in Open /\ tokens'[s] = tokens[s]
    BY <1>1, <1>5, EndedKeeps DEF Open
  <2> QED BY <1>5, <2>1 DEF SignedOutIsRefused, WithAccess
<1>6. ASSUME NEW h \in Handlers, NEW s \in Sessions, NewToken(h, s)
      PROVE  (left \subseteq issued /\ SignedOutIsRefused)'
  <2>1. \A r \in Open' : r = s \/ (r \in Open /\ tokens'[r] = tokens[r])
    BY <1>6, Opens DEF Open
  <2>2. ASSUME NEW a \in left, WithAccess(a)' # {} PROVE a \in twice'
    <3>1. PICK r \in Open' : tokens'[r].accessToken = a
      BY <2>2 DEF WithAccess
    <3>2. CASE r = s
      BY <1>6, <3>1, <3>2, Opens
    <3>3. CASE r \in Open /\ tokens'[r] = tokens[r]
      BY <1>6, <3>1, <3>3, Opens DEF SignedOutIsRefused, WithAccess
    <3> QED BY <2>1, <3>2, <3>3
  <2> QED BY <1>6, <2>2, Opens DEF SignedOutIsRefused
<1>7. ASSUME NEW h \in Handlers, UpdateToken(h), tokens[req[h].session].state = "open"
      PROVE  (left \subseteq issued /\ SignedOutIsRefused)'
  <2>1. \A r \in Open' : r = req[h].session \/ (r \in Open /\ tokens'[r] = tokens[r])
    BY <1>7, Renews DEF Open
  <2>2. ASSUME NEW a \in left, WithAccess(a)' # {} PROVE a \in twice'
    <3>1. PICK r \in Open' : tokens'[r].accessToken = a
      BY <2>2 DEF WithAccess
    <3>2. CASE r = req[h].session
      BY <1>7, <3>1, <3>2, Renews
    <3>3. CASE r \in Open /\ tokens'[r] = tokens[r]
      BY <1>7, <3>1, <3>3, Renews DEF SignedOutIsRefused, WithAccess
    <3> QED BY <2>1, <3>2, <3>3
  <2> QED BY <1>7, <2>2, Renews DEF SignedOutIsRefused
<1> QED BY <1>2, <1>3, <1>4, <1>5, <1>6, <1>7, TokensMove

LEMMA PasswordStep == TypeOK /\ SessionInv /\ PasswordTold /\ [Next]_vars => PasswordTold'
<1> SUFFICES ASSUME TypeOK, Working, PasswordTold, [Next]_vars PROVE PasswordTold'
  BY DEF SessionInv
<1> USE DEF PasswordTold
<1>1. /\ req \in [Handlers -> Requests] /\ users \in [Users -> Accounts]
      /\ told \in [Users -> SUBSET Passwords] /\ lost \in [Users -> SUBSET Passwords]
  BY DEF TypeOK
<1>2. ASSUME NEW h \in Handlers, UpdateUserPassword(h) PROVE PasswordTold'
  <2>1. req[h].user \in Users
    BY <1>2 DEF UpdateUserPassword, Working, WorkingAt
  <2>2. /\ req'[h].pc = "sessions" /\ req'[h].user = req[h].user /\ req'[h].password = Fresh(req[h].user)
        /\ \A g \in Handlers \ {h} : req'[g] = req[g]
    BY <1>1, <1>2 DEF UpdateUserPassword, Requests
  <2>3. /\ users'[req[h].user].password = Fresh(req[h].user)
        /\ \A u \in Users \ {req[h].user} : users'[u] = users[u]
    BY <1>1, <1>2, <2>1 DEF UpdateUserPassword, Accounts
  <2>4. UNCHANGED <<told, lost>> /\ req[h].pc = "password"
    BY <1>2 DEF UpdateUserPassword, historyVars
  <2> QED BY <2>1, <2>2, <2>3, <2>4
<1>3. ASSUME NEW h \in Handlers, DeleteAllSession(h) PROVE PasswordTold'
  <2>1. /\ req'[h].pc = "mail" /\ req'[h].user = req[h].user /\ req'[h].password = req[h].password
        /\ \A g \in Handlers \ {h} : req'[g] = req[g]
    BY <1>1, <1>3 DEF DeleteAllSession, Requests
  <2> QED BY <1>3, <2>1 DEF DeleteAllSession, historyVars
<1>4. ASSUME NEW h \in Handlers, MailPassword(h) PROVE PasswordTold'
  <2>1. req[h].user \in Users
    BY <1>4 DEF MailPassword, Working, WorkingAt
  <2>2. /\ req[h].password \in told'[req[h].user] /\ \A u \in Users : told[u] \subseteq told'[u]
        /\ \A g \in Handlers \ {h} : req'[g] = req[g]
    BY <1>1, <1>4, <2>1 DEF MailPassword, Mailed, Done
  <2> QED BY <1>4, <2>2 DEF MailPassword
<1>5. ASSUME NEW h \in Handlers, Cut(h) PROVE PasswordTold'
  <2>1. /\ \A u \in Users : lost[u] \subseteq lost'[u]
        /\ req[h].pc \in {"sessions", "mail"} => req[h].password \in lost'[req[h].user]
        /\ \A g \in Handlers \ {h} : req'[g] = req[g]
    BY <1>1, <1>5 DEF Cut, Done, Working, WorkingAt
  <2> QED BY <1>5, <2>1 DEF Cut
<1>6. ASSUME NEW u \in Users, NEW verified \in BOOLEAN, SetVerified(u, verified) PROVE PasswordTold'
  <2>1. \A v \in Users : users'[v].password = users[v].password
    BY <1>1, <1>6 DEF SetVerified, Accounts
  <2> QED BY <1>6, <2>1 DEF SetVerified, historyVars
<1>7. ASSUME NEW h \in Handlers, UNCHANGED <<users, told, lost>>, req[h].pc \notin {"sessions", "mail"},
             \A g \in Handlers \ {h} : req'[g] = req[g]
      PROVE  PasswordTold'
  BY <1>7
<1>8. ASSUME NEW h \in Handlers,
             \/ \E u \in Users : ResetPassword(h, u) \/ \E p \in Passwords : Login(h, u, p)
             \/ \E t \in AccessTokens : \E u \in Users : Logout(h, t, u)
             \/ \E r \in RefreshTokens : RefreshToken(h, r)
             \/ \E s \in Sessions : NewToken(h, s)
             \/ SignTokens(h) \/ DeleteToken(h) \/ SignAccess(h) \/ UpdateToken(h)
      PROVE  PasswordTold'
  <2>1. UNCHANGED <<users, told, lost>> /\ req[h].pc \notin {"sessions", "mail"}
    <3>1. Idle.pc = "idle"
      BY DEF Idle
    <3>2. UNCHANGED <<users, told, lost>>
      BY <1>8 DEF ResetPassword, Login, Logout, RefreshToken, NewToken, SignTokens, DeleteToken, SignAccess,
                  UpdateToken, historyVars
    <3>3. req[h] = Idle \/ req[h].pc \in {"sign", "session", "signout", "renew", "update"}
      BY <1>8 DEF ResetPassword, Login, Logout, RefreshToken, NewToken, SignTokens, DeleteToken, SignAccess,
                  UpdateToken, Begin
    <3> QED BY <3>1, <3>2, <3>3
  <2>2. \A g \in Handlers \ {h} : req'[g] = req[g]
    BY <1>1, <1>8, ZenonT(40) DEF ResetPassword, Login, Logout, RefreshToken, NewToken, SignTokens, DeleteToken, SignAccess,
                      UpdateToken, Begin, Done
  <2> QED BY <1>7, <2>1, <2>2
<1>9. CASE (\E s \in Sessions : Expire(s)) \/ Tick \/ UNCHANGED vars
  BY <1>9 DEF Expire, Tick, vars, historyVars
<1>10. ASSUME NEW u \in Users, SingUp(u) \/ \E verified \in BOOLEAN : CreateUserUntold(u, verified) PROVE PasswordTold'
  <2>1. /\ users'[u].password = 1 /\ \A v \in Users \ {u} : users'[v] = users[v]
        /\ req' = req /\ \A v \in Users : told[v] \subseteq told'[v] /\ lost[v] \subseteq lost'[v]
        /\ 1 \in told'[u] \cup lost'[u]
    BY <1>1, <1>10 DEF SingUp, CreateUserUntold, Make
  <2> QED BY <2>1
<1>11. ASSUME NEW h \in Handlers, NEW u \in Users, NEW verified \in BOOLEAN, CreateUser(h, u, verified) PROVE PasswordTold'
  <2>1. /\ users'[u].password = 1 /\ \A v \in Users \ {u} : users'[v] = users[v]
        /\ UNCHANGED <<told, lost>> /\ req[h].pc = "idle"
        /\ req'[h].pc = "mail" /\ req'[h].user = u /\ req'[h].password = 1
        /\ \A g \in Handlers \ {h} : req'[g] = req[g]
    BY <1>1, <1>11 DEF CreateUser, Make, Begin, Idle, historyVars
  <2> QED BY <2>1
<1> QED BY <1>2, <1>3, <1>4, <1>5, <1>6, <1>8, <1>9, <1>10, <1>11 DEF Next

-----------------------------------------------------------------------------
LEMMA Invariance == Spec => [](TypeOK /\ SessionInv /\ PasswordTold)
<1>1. TypeOK /\ SessionInv /\ [Next]_vars => SessionInv'
  BY WorkingStep, OwnedStep, SharedStep, LeftStep DEF SessionInv
<1>2. TypeOK /\ SessionInv /\ [Next]_vars => TypeOK'
  BY TypeStep DEF SessionInv
<1> QED BY InitInv, <1>1, <1>2, PasswordStep, PTL DEF Spec

(* The handlers of sign-in, refresh, sign-out and reset keep the types of sessions and *)
(* accounts, and what they write at their last await is typed.                         *)
THEOREM TypeCorrect == Spec => []TypeOK
BY Invariance, PTL

(* A token whose sign-out was answered opens no session again, unless an equal one was *)
(* handed out, for any number of sign-ins, refreshes and handlers under way.           *)
THEOREM SignedOutStays == Spec => []SignedOutIsRefused
<1>1. SessionInv => SignedOutIsRefused
  BY DEF SessionInv
<1> QED BY Invariance, <1>1, PTL

(* The password of an account is one its owner chose, has been or is about to be told,  *)
(* but for mails that were cut or not asked for, however resets and the creation of     *)
(* accounts overlap.                                                                    *)
THEOREM PasswordKnown == Spec => []PasswordTold
BY Invariance, PTL

(* The sessions implement the session book: no overlap reopens or passes on a session. *)
THEOREM Implementation == Spec => ImplementsSessionBook
<1> DEFINE owner == [s \in Sessions |-> tokens[s].owner]
<1>1. Init => Book!Init
  BY DEF Init, Book!Init, Open, NoDocument
<1>2. ASSUME TypeOK, SessionInv, [Next]_vars PROVE Book!Next \/ UNCHANGED <<owner, Open>>
  <2> USE DEF SessionInv
  <2>1. tokens \in [Sessions -> Documents] /\ tokens' \in [Sessions -> Documents]
    BY <1>2, TypeStep DEF TypeOK
  <2>2. CASE UNCHANGED <<tokens, issued, twice>>
    BY <2>2 DEF Open
  <2>3. ASSUME \A s \in Sessions : tokens'[s] = tokens[s] \/ (s \in Open /\ tokens'[s] = Ended(tokens[s]))
        PROVE  Book!Next
    <3>1. Open' \subseteq Open
      BY <2>1, <2>3, EndedKeeps DEF Open
    <3>2. Open' = Open \ (Open \ Open')
      BY <3>1
    <3>3. owner' = owner
      BY <2>1, <2>3, EndedKeeps
    <3> QED BY <3>2, <3>3 DEF Book!Next, Book!End
  <2>4. ASSUME NEW h \in Handlers, NEW s \in Sessions, NewToken(h, s) PROVE Book!Next
    <3>1. owner' = [owner EXCEPT ![s] = req[h].user] /\ owner[s] = None /\ req[h].user \in Users
      BY <1>2, <2>4, Opens
    <3>2. Open' = Open \cup {s}
      BY <1>2, <2>4, Opens DEF Open
    <3> QED BY <3>1, <3>2 DEF Book!Next, Book!SignIn
  <2>5. ASSUME NEW h \in Handlers, UpdateToken(h), tokens[req[h].session].state = "open"
        PROVE  UNCHANGED <<owner, Open>>
    <3>1. owner' = owner
      BY <1>2, <2>5, Renews
    <3>2. Open' = Open
      BY <1>2, <2>5, Renews DEF Open
    <3> QED BY <3>1, <3>2
  <2> QED BY <1>2, <2>2, <2>3, <2>4, <2>5, TokensMove
<1> QED BY Invariance, <1>1, <1>2, PTL DEF Spec, ImplementsSessionBook, Book!Spec
=============================================================================
