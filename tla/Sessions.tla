------------------------------- MODULE Sessions -------------------------------
(***************************************************************************)
(* Signing in, staying signed in and signing out (auth, token): requests   *)
(* for an account, cut at their awaits, over the documents of the tokens   *)
(* collection.  A JSON web token is what it says: two that say the same in *)
(* the same second are the same string.  Whether a token has expired is    *)
(* not modelled: an expired one is refused, which ends nothing.            *)
(***************************************************************************)
EXTENDS Naturals

CONSTANTS
    Users,          \* accounts; more of how they are made and verified is in Accounts
    Sessions,       \* ids of token documents
    Handlers,       \* requests served at once
    MaxSecond,      \* bound: seconds that pass
    MaxPassword,    \* bound: passwords an account has had, counted from 1; 0 before it is made
    None

ASSUME NoneAssumption == None \notin Users \cup Sessions
ASSUME BoundsAssumption == MaxSecond \in Nat /\ MaxPassword \in Nat \ {0}

VARIABLES
    users,          \* what these routes read of an account
    tokens,         \* the token documents
    req,            \* the handlers
    second,         \* the clock, as far as a token shows it (iat)
    issued,         \* history: access tokens handed out
    twice,          \* history: access tokens handed out more than once
    left,           \* history: access tokens whose sign-out was answered
    told,           \* history: passwords their owner has chosen or been mailed
    lost            \* history: passwords whose mail was cut short, or that nobody asked to mail

historyVars == <<issued, twice, left, told, lost>>
vars == <<users, tokens, req, second, historyVars>>

-----------------------------------------------------------------------------
Seconds   == 0..MaxSecond
Passwords == 0..MaxPassword

Accounts == [verified : BOOLEAN, password : Passwords]

(* The payload: who, the second, and the fields that sign-in and refresh put  *)
(* in differently.                                                            *)
AccessTokens  == [sub : Users, iat : Seconds, by : {"login", "refresh"}]
RefreshTokens == [sub : Users, iat : Seconds]

(* The fields of a token document; those a session is looked up by are kept. *)
TokenFields == {"accessToken", "refreshToken", "platform", "userAgent", "ip", "owner",
                "expiredAt"}
Documents == [state : {"none", "open", "ended"}, owner : Users \cup {None},
              accessToken : AccessTokens \cup {None}, refreshToken : RefreshTokens \cup {None}]
NoDocument == [state |-> "none", owner |-> None, accessToken |-> None, refreshToken |-> None]

Steps == {"idle", "sign", "session", "signout", "renew", "update", "password", "sessions", "mail"}
Requests == [pc : Steps, user : Users \cup {None}, token : AccessTokens \cup {None},
             session : Sessions \cup {None}, iat : Seconds, password : Passwords]
Idle == [pc |-> "idle", user |-> None, token |-> None, session |-> None, iat |-> 0, password |-> 0]

Open == {s \in Sessions : tokens[s].state = "open"}

(* findToken, by access token in the guard and by refresh token in a refresh. *)
WithAccess(t)  == {s \in Open : tokens[s].accessToken = t}
WithRefresh(r) == {s \in Open : tokens[s].refreshToken = r /\ tokens[s].owner = r.sub}

(* Mutant: user.id is undefined on what the service loads. *)
AccessOfNobody(u, iat, by) == [sub |-> None, iat |-> iat, by |-> by]

Access(u, iat, by) == [sub |-> u, iat |-> iat, by |-> by]

Issue(t) ==
    /\ issued' = issued \cup {t}
    /\ twice' = IF t \in issued THEN twice \cup {t} ELSE twice

-----------------------------------------------------------------------------
Init ==
    /\ users = [u \in Users |-> [verified |-> FALSE, password |-> 0]]
    /\ tokens = [s \in Sessions |-> NoDocument]
    /\ req = [h \in Handlers |-> Idle]
    /\ second = 0
    /\ issued = {} /\ twice = {} /\ left = {}
    /\ told = [u \in Users |-> {}] /\ lost = [u \in Users |-> {}]

Begin(h, r) == req[h] = Idle /\ req' = [req EXCEPT ![h] = r]

Done(h) == req' = [req EXCEPT ![h] = Idle]

-----------------------------------------------------------------------------
(* The account is saved, with the password it is made with. *)
Make(u, verified) ==
    /\ users[u].password = 0
    /\ users' = [users EXCEPT ![u] = [verified |-> verified, password |-> 1]]

(* Who signs up chooses the password. *)
SingUp(u) ==
    /\ Make(u, FALSE)
    /\ told' = [told EXCEPT ![u] = @ \cup {1}]
    /\ UNCHANGED <<tokens, req, second, issued, twice, left, lost>>

(* An administrator has a password generated, and mailed if asked to: this account's *)
(* mail is still to come ...                                                         *)
CreateUser(h, u, verified) ==
    /\ Make(u, verified)
    /\ Begin(h, [Idle EXCEPT !.pc = "mail", !.user = u, !.password = 1])
    /\ UNCHANGED <<tokens, second, historyVars>>

(* ... or, with sendToEmail false, never comes.  The accounts of one import share    *)
(* nothing: each is a handler.                                                       *)
CreateUserUntold(u, verified) ==
    /\ Make(u, verified)
    /\ lost' = [lost EXCEPT ![u] = @ \cup {1}]
    /\ UNCHANGED <<tokens, req, second, issued, twice, left, told>>

-----------------------------------------------------------------------------
(* singIn: the account as it is read now decides, whatever is written to it next. *)
SingIn(u, password) == users[u].verified /\ users[u].password = password

(* The login route; an address without an account, or what singIn refuses, has no effect. *)
Login(h, u, password) ==
    /\ SingIn(u, password)
    /\ Begin(h, [Idle EXCEPT !.pc = "sign", !.user = u])
    /\ UNCHANGED <<users, tokens, second, historyVars>>

(* After lastLogin is written, which no route reads, both tokens are signed. *)
SignTokens(h) ==
    /\ req[h].pc = "sign"
    /\ req' = [req EXCEPT ![h].pc = "session", ![h].iat = second]
    /\ UNCHANGED <<users, tokens, second, historyVars>>

(* newToken, and the answer with both tokens. *)
NewToken(h, s) ==
    LET r == req[h]
        t == Access(r.user, r.iat, "login")
    IN  /\ r.pc = "session"
        /\ tokens[s].state = "none"
        /\ tokens' = [tokens EXCEPT ![s] =
                        [state |-> "open", owner |-> r.user, accessToken |-> t,
                         refreshToken |-> [sub |-> r.user, iat |-> r.iat]]]
        /\ Issue(t)
        /\ Done(h)
        /\ UNCHANGED <<users, second, left, told, lost>>

-----------------------------------------------------------------------------
(* The owner of the session the guard finds for a token; an account is not deleted. *)
VerifyUserCredentials(t) == {tokens[s].owner : s \in WithAccess(t)}

(* The guard in front of every route that is not public: with a token no session *)
(* has, the request is refused.                                                  *)
CanActivate(t, u) == u \in VerifyUserCredentials(t)

(* The logout route.  The other guarded routes only learn from the guard who asks. *)
Logout(h, t, u) ==
    /\ CanActivate(t, u)
    /\ Begin(h, [Idle EXCEPT !.pc = "signout", !.user = u, !.token = t])
    /\ UNCHANGED <<users, tokens, second, historyVars>>

(* Mutant: the filter names a field the documents do not have (id for owner). *)
DeletedNone(t, u) == {}

(* findOneAndDelete takes one of the documents that match, if there is one. *)
Deleted(t, u) == {s \in WithAccess(t) : tokens[s].owner = u}

(* A document that is gone leaves nothing but whose it was. *)
Ended(doc) == [NoDocument EXCEPT !.state = "ended", !.owner = doc.owner]

DeleteToken(h) ==
    LET matching == Deleted(req[h].token, req[h].user)
    IN  /\ req[h].pc = "signout"
        /\ \/ /\ matching = {}
              /\ UNCHANGED tokens
           \/ \E s \in matching : tokens' = [tokens EXCEPT ![s] = Ended(@)]
        /\ left' = left \cup {req[h].token}
        /\ Done(h)
        /\ UNCHANGED <<users, second, issued, twice, told, lost>>

-----------------------------------------------------------------------------
(* The refresh route: the session is found first, then the account, which goes *)
(* into the new token.                                                         *)
RefreshToken(h, r) ==
    /\ \E s \in WithRefresh(r) : Begin(h, [Idle EXCEPT !.pc = "renew", !.user = r.sub, !.session = s])
    /\ UNCHANGED <<users, tokens, second, historyVars>>

SignAccess(h) ==
    /\ req[h].pc = "renew"
    /\ req' = [req EXCEPT ![h].pc = "update", ![h].iat = second]
    /\ UNCHANGED <<users, tokens, second, historyVars>>

(* Mutant: findByIdAndUpdate with upsert brings the document back. *)
RenewedByUpsert(doc, t) == [doc EXCEPT !.state = "open", !.accessToken = t]

(* findByIdAndUpdate finds the session if it is still there. *)
Renewed(doc, t) == IF doc.state = "open" THEN [doc EXCEPT !.accessToken = t] ELSE doc

(* Without the session the handler fails on the null document and answers 403. *)
UpdateToken(h) ==
    LET r == req[h]
        t == Access(r.user, r.iat, "refresh")
    IN  /\ r.pc = "update"
        /\ tokens' = [tokens EXCEPT ![r.session] = Renewed(@, t)]
        /\ IF tokens[r.session].state = "open" THEN Issue(t) ELSE UNCHANGED <<issued, twice>>
        /\ Done(h)
        /\ UNCHANGED <<users, second, left, told, lost>>

-----------------------------------------------------------------------------
(* The reset route, for a verified account. *)
ResetPassword(h, u) ==
    /\ users[u].verified
    /\ Begin(h, [Idle EXCEPT !.pc = "password", !.user = u])
    /\ UNCHANGED <<users, tokens, second, historyVars>>

(* Sixteen random characters: a password the account has not had; passwords *)
(* are numbered as they come.                                                *)
Fresh(u) == users[u].password + 1

UpdateUserPassword(h) ==
    LET u == req[h].user
        password == Fresh(u)
    IN  /\ req[h].pc = "password"
        /\ password <= MaxPassword
        /\ users' = [users EXCEPT ![u].password = password]
        /\ req' = [req EXCEPT ![h].pc = "sessions", ![h].password = password]
        /\ UNCHANGED <<tokens, second, historyVars>>

(* deleteMany({ ...id }): the spread of an ObjectId is its buffer, which is no *)
(* field of a session, and a filter matches the documents that have its fields. *)
FilterOfSpreadId == {"buffer"}
MatchedBySpread(u) == {s \in Open : tokens[s].owner = u /\ FilterOfSpreadId \subseteq TokenFields}

DeleteAllSession(h) ==
    /\ req[h].pc = "sessions"
    /\ tokens' = [s \in Sessions |-> IF s \in MatchedBySpread(req[h].user) THEN Ended(tokens[s])
                                                                          ELSE tokens[s]]
    /\ req' = [req EXCEPT ![h].pc = "mail"]
    /\ UNCHANGED <<users, second, historyVars>>

(* Mutant: the mail is filled in with a password generated for it. *)
MailedAnother(h) == [told EXCEPT ![req[h].user] = @ \cup {1}]

Mailed(h) == [told EXCEPT ![req[h].user] = @ \cup {req[h].password}]

MailPassword(h) ==
    /\ req[h].pc = "mail"
    /\ told' = Mailed(h)
    /\ Done(h)
    /\ UNCHANGED <<users, tokens, second, issued, twice, left, lost>>

-----------------------------------------------------------------------------
(* A call fails or the process dies: the request is forgotten, its writes are not. *)
Cut(h) ==
    /\ req[h] # Idle
    /\ lost' = IF req[h].pc \in {"sessions", "mail"}
                 THEN [lost EXCEPT ![req[h].user] = @ \cup {req[h].password}] ELSE lost
    /\ Done(h)
    /\ UNCHANGED <<users, tokens, second, issued, twice, left, told>>

(* The TTL index on expiredAt. *)
Expire(s) ==
    /\ s \in Open
    /\ tokens' = [tokens EXCEPT ![s] = Ended(@)]
    /\ UNCHANGED <<users, req, second, historyVars>>

Tick ==
    /\ second < MaxSecond
    /\ second' = second + 1
    /\ UNCHANGED <<users, tokens, req, historyVars>>

(* Accounts and the administrators' update decide who is verified. *)
SetVerified(u, verified) ==
    /\ users[u].password # 0 /\ users[u].verified # verified
    /\ users' = [users EXCEPT ![u].verified = verified]
    /\ UNCHANGED <<tokens, req, second, historyVars>>

Next ==
    \/ \E h \in Handlers :
          \/ \E u \in Users, verified \in BOOLEAN : CreateUser(h, u, verified)
          \/ \E u \in Users : ResetPassword(h, u) \/ \E p \in Passwords : Login(h, u, p)
          \/ \E t \in AccessTokens : \E u \in Users : Logout(h, t, u)
          \/ \E r \in RefreshTokens : RefreshToken(h, r)
          \/ \E s \in Sessions : NewToken(h, s)
          \/ SignTokens(h) \/ DeleteToken(h) \/ SignAccess(h) \/ UpdateToken(h)
          \/ UpdateUserPassword(h) \/ DeleteAllSession(h) \/ MailPassword(h) \/ Cut(h)
    \/ \E s \in Sessions : Expire(s)
    \/ Tick
    \/ \E u \in Users : SingUp(u)
    \/ \E u \in Users, verified \in BOOLEAN : CreateUserUntold(u, verified) \/ SetVerified(u, verified)

Spec == Init /\ [][Next]_vars

-----------------------------------------------------------------------------
(* Every variable has its type, and a handler at work names what it is about. *)
TypeOK ==
    /\ users \in [Users -> Accounts]
    /\ tokens \in [Sessions -> Documents]
    /\ req \in [Handlers -> Requests]
    /\ second \in Seconds
    /\ issued \subseteq AccessTokens /\ twice \subseteq AccessTokens /\ left \subseteq AccessTokens
    /\ told \in [Users -> SUBSET Passwords] /\ lost \in [Users -> SUBSET Passwords]

(* Sessions are kept as SessionBook promises: a refresh that overlaps a       *)
(* sign-out, a sign-in or the TTL index neither brings an ended session back  *)
(* nor passes one on to another account.                                      *)
Book == INSTANCE SessionBook WITH owner <- [s \in Sessions |-> tokens[s].owner], open <- Open
ImplementsSessionBook == Book!Spec

(* A token whose sign-out was answered is refused from then on, also when a   *)
(* refresh was under way, unless an equal one was handed out a second time:   *)
(* two within one second for one account are the same string.                 *)
SignedOutIsRefused ==
    \A t \in left : WithAccess(t) # {} => t \in twice

(* The password of an account is one its owner chose, was mailed or is about   *)
(* to be, also when resets overlap each other and the mail of a new account:   *)
(* nobody knows it only where the mail of this very password was cut short, or *)
(* where an administrator created or imported the account and asked for none,  *)
(* and it has not been reset since.                                            *)
PasswordTold ==
    \A u \in Users :
        \/ users[u].password \in {0} \cup told[u] \cup lost[u]
        \/ \E h \in Handlers : /\ req[h].pc \in {"sessions", "mail"}
                               /\ req[h].user = u
                               /\ req[h].password = users[u].password

(* resetPassword is to cancel the sessions: auth.controller.ts:216 has "error *)
(* cancelling the sessions" as an answer.  The account has none that was open *)
(* when its new password is mailed.                                           *)
ResetEndsSessions ==
    [][\A h \in Handlers :
          (req[h].pc = "sessions" /\ req'[h].pc = "mail") =>
              \A s \in Open : tokens[s].owner = req[h].user => s \notin Open']_vars
=============================================================================
