--------------------------- MODULE AccountsProofs ---------------------------
(***************************************************************************)
(* The safety properties of Accounts, and that it implements AddressBook,  *)
(* for any accounts, addresses, covers and handlers.                       *)
(***************************************************************************)
EXTENDS Accounts, TLAPS

(* What a handler at work is about is on record: its account is stored, its cover *)
(* compressed once it says so, and an account whose document is about to be       *)
(* discarded is verified, or was set back since.                                  *)
NamedAt(h) ==
    /\ req[h].pc \notin {"idle", "insert"} => req[h].user \in Stored
    /\ req[h].pc \in {"folder", "verification", "compress", "uncover", "profile"} => req[h].email \in Emails
    /\ req[h].pc \in {"compress", "uncover", "profile"} => req[h].cover \in Covers
    /\ req[h].pc \in {"uncover", "profile"} => req[h].cover \in stored
    /\ req[h].pc = "discard" => users[req[h].user].verified \/ req[h].user \in stranded

Named == \A h \in Handlers : NamedAt(h)

AccountInv == TypeOK /\ Named /\ mailed \subseteq Stored /\ Verifiable /\ CoverKept

-----------------------------------------------------------------------------
LEMMA NewDocument ==
    ASSUME NEW e \in Emails, NEW verified \in BOOLEAN
    PROVE  LET doc == [NoUser EXCEPT !.email = e, !.verified = verified]
           IN  /\ doc \in UserDocuments
               /\ doc.email = e /\ doc.verified = verified /\ doc.cover = None
<1>1. NoUser \in UserDocuments /\ NoUser.cover = None
  BY Zenon DEF NoUser, UserDocuments
<1>2. [[NoUser EXCEPT !.email = e] EXCEPT !.verified = verified] \in UserDocuments
  BY <1>1, Zenon DEF UserDocuments
<1> QED BY <1>1, <1>2 DEF UserDocuments

(* What a step makes of the accounts: nothing, one more, a new address or cover, *)
(* or what an administrator or the verification makes of one.  A new account is  *)
(* signed up by a handler, or imported.                                          *)
Opens(u, e, verified) ==
    /\ u \notin Stored /\ Unique(u, e) /\ users' = Inserted(u, e, verified)
    /\ \/ verified \/ u \in stranded'
       \/ \E h \in Handlers : req'[h].user = u /\ req'[h].pc = "folder"
Moves(u, e, c) ==
    /\ u \in Stored /\ Unique(u, e) /\ c \in stored \cup {None}
    /\ \/ users' = [users EXCEPT ![u].email = e]
       \/ users' = [users EXCEPT ![u].email = e, ![u].cover = c]

LEMMA OpensTo ==
    ASSUME TypeOK, NEW u \in Users, NEW e \in Emails, NEW verified \in BOOLEAN, Opens(u, e, verified)
    PROVE  /\ users' \in [Users -> UserDocuments]
           /\ users'[u].email = e /\ users'[u].verified = verified /\ users'[u].cover = None
           /\ \A v \in Users \ {u} : users'[v] = users[v]
BY NewDocument DEF TypeOK, Opens, Inserted

LEMMA MovesTo ==
    ASSUME TypeOK, NEW u \in Users, NEW e \in Emails, NEW c \in Covers \cup {None}, Moves(u, e, c)
    PROVE  /\ users' \in [Users -> UserDocuments]
           /\ users'[u].email = e /\ users'[u].verified = users[u].verified
           /\ users'[u].cover \in {users[u].cover, c}
           /\ \A v \in Users \ {u} : users'[v] = users[v]
<1>1. users \in [Users -> UserDocuments] /\ users[u] \in UserDocuments
  BY DEF TypeOK
<1>2. /\ [users[u] EXCEPT !.email = e] \in UserDocuments
      /\ [[users[u] EXCEPT !.email = e] EXCEPT !.cover = c] \in UserDocuments
  BY <1>1, Zenon DEF UserDocuments
<1>3. CASE users' = [users EXCEPT ![u].email = e]
  BY <1>1, <1>2, <1>3 DEF UserDocuments
<1>4. CASE users' = [users EXCEPT ![u].email = e, ![u].cover = c]
  BY <1>1, <1>2, <1>4 DEF UserDocuments
<1> QED BY <1>3, <1>4 DEF Moves

LEMMA JudgesTo ==
    ASSUME TypeOK, NEW u \in Users, NEW e \in Emails, NEW verified \in BOOLEAN, UpdateUser(u, e, verified)
    PROVE  /\ users' \in [Users -> UserDocuments]
           /\ users'[u].email = e /\ users'[u].verified = verified /\ users'[u].cover = users[u].cover
           /\ \A v \in Users \ {u} : users'[v] = users[v]
<1>1. users \in [Users -> UserDocuments] /\ users[u] \in UserDocuments
  BY DEF TypeOK
<1>2. [[users[u] EXCEPT !.email = e] EXCEPT !.verified = verified] \in UserDocuments
  BY <1>1, Zenon DEF UserDocuments
<1> QED BY <1>1, <1>2 DEF UpdateUser, UserDocuments

LEMMA VerifiesTo ==
    ASSUME TypeOK, Named, NEW h \in Handlers, SetVerified(h)
    PROVE  LET u == req[h].user
           IN
           /\ u \in Stored /\ users' \in [Users -> UserDocuments]
           /\ users'[u].email = users[u].email /\ users'[u].verified /\ users'[u].cover = users[u].cover
           /\ \A v \in Users \ {u} : users'[v] = users[v]
<1> DEFINE u == req[h].user
<1>1. u \in Users /\ u \in Stored
  BY DEF SetVerified, Named, NamedAt, Stored
<1>2. users \in [Users -> UserDocuments] /\ users[u] \in UserDocuments
  BY <1>1 DEF TypeOK
<1>3. [users[u] EXCEPT !.verified = TRUE] \in UserDocuments
  BY <1>2, Zenon DEF UserDocuments
<1> QED BY <1>1, <1>2, <1>3 DEF SetVerified, UserDocuments

LEMMA NewUserOpens ==
    ASSUME TypeOK, NEW h \in Handlers, NEW u \in Users, NEW e \in Emails, NEW verified \in BOOLEAN,
           NewUser(h, u, e, verified)
    PROVE  Opens(u, e, verified)
<1>1. req'[h].user = u /\ req'[h].pc = "folder"
  BY DEF TypeOK, NewUser, Begin, Idle
<1> QED BY <1>1 DEF NewUser, Opens

LEMMA UsersMove ==
    ASSUME TypeOK, Named, [Next]_vars
    PROVE  \/ users' = users
           \/ \E u \in Users, e \in Emails, verified \in BOOLEAN : Opens(u, e, verified)
           \/ \E u \in Users, e \in Emails, c \in Covers \cup {None} : Moves(u, e, c)
           \/ \E u \in Users, e \in Emails, verified \in BOOLEAN : UpdateUser(u, e, verified)
           \/ \E h \in Handlers : SetVerified(h)
<1>1. req \in [Handlers -> Requests]
  BY DEF TypeOK
<1>2. ASSUME NEW h \in Handlers, NEW u \in Users, NEW e \in Emails, NEW verified \in BOOLEAN,
             NewUser(h, u, e, verified)
      PROVE  Opens(u, e, verified)
  BY <1>2, NewUserOpens
<1>3. ASSUME NEW h \in Handlers, NEW u \in Users, NEW e \in Emails, InsertMany(h, u, e)
      PROVE  users' = users \/ Opens(u, e, req[h].flag)
  BY <1>3 DEF InsertMany, Opens
<1>4. \A h \in Handlers : req[h].flag \in BOOLEAN
  BY <1>1, Zenon DEF Requests
<1>5. ASSUME NEW h \in Handlers, NEW u \in Users, NEW e \in Emails, UpdateByUser(h, u, e)
      PROVE  Moves(u, e, None)
  BY <1>5 DEF UpdateByUser, Moves
<1>6. ASSUME NEW h \in Handlers, UpdateProfile(h)
      PROVE  users' = users \/ \E u \in Users, e \in Emails, c \in Covers \cup {None} : Moves(u, e, c)
  <2>1. req[h].user \in Stored /\ req[h].email \in Emails /\ req[h].cover \in Covers \cap stored
    BY <1>6 DEF UpdateProfile, Named, NamedAt
  <2> QED BY <1>6, <2>1 DEF UpdateProfile, Moves, Stored
<1>7. ASSUME NEW h \in Handlers, NEW u \in Users, NEW e \in Emails, InsertMany(h, u, e)
      PROVE  users' = users \/ \E verified \in BOOLEAN : Opens(u, e, verified)
  BY <1>3, <1>4, <1>7
<1>8. ASSUME NEW h \in Handlers,
             \/ \E u \in Users : ResendVerification(h, u) \/ VerifyUser(h, u)
             \/ \E u \in Users, e \in Emails, c \in Covers : UpdateCover(h, u, e, c)
             \/ CreateUserStorage(h) \/ CreateVerifyToken(h) \/ SendVerifyEmail(h) \/ DeleteVerifyToken(h)
             \/ Compress(h) \/ DeleteTemporary(h) \/ Cut(h) \/ \E i \in Imports : ImportUsers(h, i)
      PROVE  users' = users
  BY <1>8
     DEF UpdateCover, ResendVerification, VerifyUser, CreateUserStorage, CreateVerifyToken,
         SendVerifyEmail, DeleteVerifyToken, Compress, DeleteTemporary, Cut, ImportUsers
<1>9. ASSUME NEW h \in Handlers, NEW u \in Users, NEW e \in Emails,
             Register(h, u, e) \/ \E verified \in BOOLEAN : CreateUser(h, u, e, verified)
      PROVE  \E verified \in BOOLEAN : Opens(u, e, verified)
  BY <1>2, <1>9 DEF Register, CreateUser
<1>10. ASSUME NEW h \in Handlers, NEW u \in Users, NEW e \in Emails, UpdateByUser(h, u, e)
       PROVE  \E c \in Covers \cup {None} : Moves(u, e, c)
  BY <1>5, <1>10
<1>11. CASE UNCHANGED vars \/ \E c \in Covers : UploadCover(c)
  BY <1>11 DEF vars, UploadCover
<1>12. CASE \E h \in Handlers, u \in Users :
              \/ \E e \in Emails :
                    \/ Register(h, u, e) \/ InsertMany(h, u, e) \/ UpdateByUser(h, u, e)
                    \/ \E c \in Covers : UpdateCover(h, u, e, c)
                    \/ \E verified \in BOOLEAN : CreateUser(h, u, e, verified)
              \/ ResendVerification(h, u) \/ VerifyUser(h, u)
  <2>1. PICK h \in Handlers, u \in Users :
              \/ \E e \in Emails :
                    \/ Register(h, u, e) \/ InsertMany(h, u, e) \/ UpdateByUser(h, u, e)
                    \/ \E c \in Covers : UpdateCover(h, u, e, c)
                    \/ \E verified \in BOOLEAN : CreateUser(h, u, e, verified)
              \/ ResendVerification(h, u) \/ VerifyUser(h, u)
    BY <1>12
  <2>2. CASE \E e \in Emails : \/ Register(h, u, e)
                               \/ \E verified \in BOOLEAN : CreateUser(h, u, e, verified)
    BY <1>9, <2>2
  <2>3. CASE \E e \in Emails : InsertMany(h, u, e)
    BY <1>7, <2>3
  <2>4. CASE \E e \in Emails : UpdateByUser(h, u, e)
    BY <1>10, <2>4
  <2>5. CASE \/ \E e \in Emails, c \in Covers : UpdateCover(h, u, e, c)
             \/ ResendVerification(h, u) \/ VerifyUser(h, u)
    BY <1>8, <2>5
  <2> QED BY <2>1, <2>2, <2>3, <2>4, <2>5
<1>13. CASE \E h \in Handlers :
              \/ CreateUserStorage(h) \/ CreateVerifyToken(h) \/ SendVerifyEmail(h)
              \/ SetVerified(h) \/ DeleteVerifyToken(h)
              \/ Compress(h) \/ DeleteTemporary(h) \/ UpdateProfile(h) \/ Cut(h)
              \/ \E i \in Imports : ImportUsers(h, i)
  BY <1>6, <1>8, <1>13
<1> QED BY <1>11, <1>12, <1>13 DEF Next

LEMMA StoredGrows == TypeOK /\ Named /\ [Next]_vars => Stored \subseteq Stored'
<1> SUFFICES ASSUME TypeOK, Named, [Next]_vars PROVE Stored \subseteq Stored'
  OBVIOUS
<1>1. \A e \in Emails : e # None
  BY NoneAssumption
<1>2. CASE users' = users
  BY <1>2 DEF Stored
<1>3. ASSUME NEW u \in Users, NEW e \in Emails, NEW verified \in BOOLEAN, Opens(u, e, verified)
      PROVE  Stored \subseteq Stored'
  BY <1>1, <1>3, OpensTo DEF Stored
<1>4. ASSUME NEW u \in Users, NEW e \in Emails, NEW c \in Covers \cup {None}, Moves(u, e, c)
      PROVE  Stored \subseteq Stored'
  BY <1>1, <1>4, MovesTo DEF Stored
<1>5. ASSUME NEW u \in Users, NEW e \in Emails, NEW verified \in BOOLEAN, UpdateUser(u, e, verified)
      PROVE  Stored \subseteq Stored'
  BY <1>1, <1>5, JudgesTo DEF Stored
<1>6. ASSUME NEW h \in Handlers, SetVerified(h) PROVE Stored \subseteq Stored'
  BY <1>6, VerifiesTo DEF Stored
<1> QED BY <1>2, <1>3, <1>4, <1>5, <1>6, UsersMove

-----------------------------------------------------------------------------
LEMMA IdleRequest == Idle \in Requests
BY Zenon DEF Idle, Requests, Steps

LEMMA FieldSet ==
    ASSUME NEW r \in Requests
    PROVE  /\ \A pc \in Steps : [r EXCEPT !.pc = pc] \in Requests
           /\ \A u \in Users : [r EXCEPT !.user = u] \in Requests
           /\ \A e \in Emails : [r EXCEPT !.email = e] \in Requests
           /\ \A flag \in BOOLEAN : [r EXCEPT !.flag = flag] \in Requests
           /\ \A es \in SUBSET Emails : [r EXCEPT !.emails = es] \in Requests
           /\ \A c \in Covers : [r EXCEPT !.cover = c] \in Requests
BY Zenon DEF Requests

LEMMA RequestsTyped == TypeOK /\ [Next]_vars => req' \in [Handlers -> Requests]
<1> SUFFICES ASSUME req \in [Handlers -> Requests], [Next]_vars PROVE req' \in [Handlers -> Requests]
  BY DEF TypeOK
<1>1. ASSUME NEW h \in Handlers, NEW r \in Requests, Begin(h, r) PROVE req' \in [Handlers -> Requests]
  BY <1>1 DEF Begin
<1>2. ASSUME NEW h \in Handlers, NEW pc \in Steps, Goto(h, pc) PROVE req' \in [Handlers -> Requests]
  BY <1>2, FieldSet DEF Goto
<1>3. ASSUME NEW h \in Handlers, Done(h) PROVE req' \in [Handlers -> Requests]
  BY <1>3, IdleRequest DEF Done
<1>4. "folder" \in Steps /\ "verification" \in Steps /\ "mail" \in Steps /\ "insert" \in Steps /\
      "verified" \in Steps /\ "discard" \in Steps /\ "compress" \in Steps /\ "uncover" \in Steps /\
      "profile" \in Steps
  BY DEF Steps
<1>5. ASSUME NEW h \in Handlers, NEW u \in Users, NEW e \in Emails, NEW verified \in BOOLEAN,
             NewUser(h, u, e, verified)
      PROVE  req' \in [Handlers -> Requests]
  <2>1. [[[[Idle EXCEPT !.pc = "folder"] EXCEPT !.user = u] EXCEPT !.email = e] EXCEPT !.flag = verified] \in Requests
    BY IdleRequest, FieldSet, <1>4
  <2> QED BY <1>1, <1>5, <2>1 DEF NewUser
<1>6. ASSUME NEW h \in Handlers, NEW u \in Users, NEW e \in Emails, NEW c \in Covers, UpdateCover(h, u, e, c)
      PROVE  req' \in [Handlers -> Requests]
  <2>1. [[[[Idle EXCEPT !.pc = "compress"] EXCEPT !.user = u] EXCEPT !.email = e] EXCEPT !.cover = c] \in Requests
    BY IdleRequest, FieldSet, <1>4
  <2> QED BY <1>1, <1>6, <2>1 DEF UpdateCover
<1>7. ASSUME NEW h \in Handlers, NEW u \in Users, ResendVerification(h, u) \/ VerifyUser(h, u)
      PROVE  req' \in [Handlers -> Requests]
  <2>1. /\ [[Idle EXCEPT !.pc = "mail"] EXCEPT !.user = u] \in Requests
        /\ [[Idle EXCEPT !.pc = "verified"] EXCEPT !.user = u] \in Requests
    BY IdleRequest, FieldSet, <1>4
  <2> QED BY <1>1, <1>7, <2>1 DEF ResendVerification, VerifyUser
<1>8. ASSUME NEW h \in Handlers, NEW i \in Imports, ImportUsers(h, i) PROVE req' \in [Handlers -> Requests]
  <2>1. i.emails \in SUBSET Emails /\ i.verified \in BOOLEAN
    BY Zenon DEF Imports
  <2>2. [[[Idle EXCEPT !.pc = "insert"] EXCEPT !.emails = i.emails] EXCEPT !.flag = i.verified] \in Requests
    BY <2>1, IdleRequest, FieldSet, <1>4
  <2> QED BY <1>1, <1>8, <2>2 DEF ImportUsers
<1>9. ASSUME NEW h \in Handlers, NEW u \in Users, NEW e \in Emails, InsertMany(h, u, e)
      PROVE  req' \in [Handlers -> Requests]
  <2>1. req[h].emails \ {e} \in SUBSET Emails
    BY DEF Requests
  <2>2. [req[h] EXCEPT !.emails = req[h].emails \ {e}] \in Requests
    BY <2>1, FieldSet
  <2>3. Done(h) \/ req' = [req EXCEPT ![h].emails = req[h].emails \ {e}]
    BY <1>9 DEF InsertMany
  <2> QED BY <1>3, <2>2, <2>3
<1>10. ASSUME NEW h \in Handlers,
              \/ CreateUserStorage(h) \/ CreateVerifyToken(h) \/ SendVerifyEmail(h) \/ SetVerified(h)
              \/ DeleteVerifyToken(h) \/ Compress(h) \/ DeleteTemporary(h) \/ UpdateProfile(h) \/ Cut(h)
       PROVE  req' \in [Handlers -> Requests]
  <2>1. Done(h) \/ \E pc \in Steps : Goto(h, pc)
    BY <1>4, <1>10 DEF CreateUserStorage, CreateVerifyToken, SendVerifyEmail, SetVerified, DeleteVerifyToken,
                       Compress, DeleteTemporary, UpdateProfile, Cut
  <2> QED BY <1>2, <1>3, <2>1
<1>11. CASE \/ \E h \in Handlers, u \in Users, e \in Emails : UpdateByUser(h, u, e)
            \/ \E c \in Covers : UploadCover(c)
            \/ \E u \in Users, e \in Emails, verified \in BOOLEAN : UpdateUser(u, e, verified)
            \/ UNCHANGED vars
  BY <1>11 DEF UpdateByUser, UploadCover, UpdateUser, vars
<1> QED
  BY <1>5, <1>6, <1>7, <1>8, <1>9, <1>10, <1>11 DEF Next, Register, CreateUser

(* What a step makes of the covers, the documents of verification, the mails and *)
(* the accounts left without one.                                                *)
LEMMA FilesMove ==
    ASSUME [Next]_vars
    PROVE  \/ UNCHANGED files
           \/ \E c \in Covers : UploadCover(c)
           \/ \E h \in Handlers : Compress(h) \/ DeleteTemporary(h)
<1>1. ASSUME NEW h \in Handlers, NEW u \in Users, NEW e \in Emails,
             \/ Register(h, u, e) \/ InsertMany(h, u, e) \/ UpdateByUser(h, u, e)
             \/ \E c \in Covers : UpdateCover(h, u, e, c)
             \/ \E verified \in BOOLEAN : CreateUser(h, u, e, verified)
      PROVE  UNCHANGED files
  BY <1>1 DEF Register, CreateUser, NewUser, InsertMany, UpdateByUser, UpdateCover
<1>2. ASSUME NEW h \in Handlers,
             \/ \E u \in Users : ResendVerification(h, u) \/ VerifyUser(h, u)
             \/ CreateUserStorage(h) \/ CreateVerifyToken(h) \/ SendVerifyEmail(h) \/ SetVerified(h)
             \/ DeleteVerifyToken(h) \/ UpdateProfile(h) \/ Cut(h) \/ \E i \in Imports : ImportUsers(h, i)
      PROVE  UNCHANGED files
  BY <1>2 DEF ResendVerification, VerifyUser, CreateUserStorage, CreateVerifyToken, SendVerifyEmail, SetVerified,
              DeleteVerifyToken, UpdateProfile, Cut, ImportUsers
<1>3. ASSUME NEW u \in Users, NEW e \in Emails, NEW verified \in BOOLEAN, UpdateUser(u, e, verified)
      PROVE  UNCHANGED files
  BY <1>3 DEF UpdateUser
<1> QED BY <1>1, <1>2, <1>3 DEF Next, vars

LEMMA RestMoves ==
    ASSUME [Next]_vars
    PROVE  \/ UNCHANGED <<verifications, mailed, stranded>>
           \/ \E h \in Handlers :
                 \/ CreateVerifyToken(h) \/ DeleteVerifyToken(h) \/ SendVerifyEmail(h) \/ SetVerified(h) \/ Cut(h)
                 \/ \E u \in Users, e \in Emails : InsertMany(h, u, e)
           \/ \E u \in Users, e \in Emails, verified \in BOOLEAN : UpdateUser(u, e, verified)
<1>1. ASSUME NEW h \in Handlers, NEW u \in Users, NEW e \in Emails,
             \/ Register(h, u, e) \/ UpdateByUser(h, u, e)
             \/ \E c \in Covers : UpdateCover(h, u, e, c)
             \/ \E verified \in BOOLEAN : CreateUser(h, u, e, verified)
      PROVE  UNCHANGED <<verifications, mailed, stranded>>
  BY <1>1 DEF Register, CreateUser, NewUser, UpdateByUser, UpdateCover
<1>2. ASSUME NEW h \in Handlers,
             \/ \E u \in Users : ResendVerification(h, u) \/ VerifyUser(h, u)
             \/ CreateUserStorage(h) \/ UpdateProfile(h) \/ Compress(h) \/ DeleteTemporary(h)
             \/ \E i \in Imports : ImportUsers(h, i)
      PROVE  UNCHANGED <<verifications, mailed, stranded>>
  BY <1>2 DEF ResendVerification, VerifyUser, CreateUserStorage, UpdateProfile, Compress, DeleteTemporary,
              ImportUsers
<1>3. ASSUME NEW c \in Covers, UploadCover(c) PROVE UNCHANGED <<verifications, mailed, stranded>>
  BY <1>3 DEF UploadCover
<1> QED BY <1>1, <1>2, <1>3 DEF Next, vars

LEMMA TypeStep == TypeOK /\ Named /\ [Next]_vars => TypeOK'
<1> SUFFICES ASSUME TypeOK, Named, [Next]_vars PROVE TypeOK'
  OBVIOUS
<1>1. req' \in [Handlers -> Requests]
  BY RequestsTyped
<1>2. users' \in [Users -> UserDocuments]
  BY UsersMove, OpensTo, MovesTo, JudgesTo, VerifiesTo DEF TypeOK
<1>3. temporary' \subseteq Covers /\ stored' \subseteq Covers /\ uploaded' \subseteq Covers
  BY FilesMove DEF files, TypeOK, UploadCover, Compress, CompressCover, DeleteTemporary
<1>4. verifications' \in [Users -> Emails \cup {None}] /\ mailed' \subseteq Users /\ stranded' \subseteq Users
  <2>1. CASE UNCHANGED <<verifications, mailed, stranded>>
    BY <2>1 DEF TypeOK
  <2>2. ASSUME NEW h \in Handlers, CreateVerifyToken(h)
        PROVE  verifications' \in [Users -> Emails \cup {None}] /\ mailed' \subseteq Users /\ stranded' \subseteq Users
    <3>1. req[h].user \in Users /\ req[h].email \in Emails
      BY <2>2 DEF CreateVerifyToken, Named, NamedAt, Stored
    <3> QED BY <2>2, <3>1 DEF CreateVerifyToken, VerifyToken, Strand, TypeOK
  <2>3. ASSUME NEW h \in Handlers, DeleteVerifyToken(h) \/ SendVerifyEmail(h) \/ SetVerified(h) \/ Cut(h)
        PROVE  verifications' \in [Users -> Emails \cup {None}] /\ mailed' \subseteq Users /\ stranded' \subseteq Users
    <3>1. req[h].pc \notin {"idle", "insert"} => req[h].user \in Users
      BY DEF Named, NamedAt, Stored
    <3> QED BY <2>3, <3>1 DEF DeleteVerifyToken, SendVerifyEmail, SetVerified, Cut, Strand, TypeOK
  <2>4. ASSUME NEW h \in Handlers, NEW u \in Users, NEW e \in Emails, InsertMany(h, u, e)
        PROVE  verifications' \in [Users -> Emails \cup {None}] /\ mailed' \subseteq Users /\ stranded' \subseteq Users
    BY <2>4 DEF InsertMany, TypeOK
  <2>5. ASSUME NEW u \in Users, NEW e \in Emails, NEW verified \in BOOLEAN, UpdateUser(u, e, verified)
        PROVE  verifications' \in [Users -> Emails \cup {None}] /\ mailed' \subseteq Users /\ stranded' \subseteq Users
    BY <2>5 DEF UpdateUser, TypeOK
  <2> QED BY <2>1, <2>2, <2>3, <2>4, <2>5, RestMoves
<1> QED BY <1>1, <1>2, <1>3, <1>4 DEF TypeOK

-----------------------------------------------------------------------------
(* An account that is verified or has been set back stays one of the two. *)
LEMMA VerdictKept ==
    ASSUME TypeOK, Named, [Next]_vars, NEW u \in Stored, users[u].verified \/ u \in stranded
    PROVE  users'[u].verified \/ u \in stranded'
<1>1. u \in Users
  BY DEF Stored
<1>2. ASSUME NEW v \in Users, NEW e \in Emails, NEW verified \in BOOLEAN, UpdateUser(v, e, verified)
      PROVE  users'[u].verified \/ u \in stranded'
  BY <1>1, <1>2, JudgesTo DEF UpdateUser
<1>3. ASSUME NEW h \in Handlers, SetVerified(h) PROVE users'[u].verified \/ u \in stranded'
  BY <1>1, <1>3, VerifiesTo DEF SetVerified
<1>4. ASSUME ~ \E h \in Handlers : SetVerified(h),
             ~ \E v \in Users, e \in Emails, verified \in BOOLEAN : UpdateUser(v, e, verified)
      PROVE  users'[u].verified \/ u \in stranded'
  <2>1. users'[u].verified = users[u].verified
    <3>1. ASSUME NEW v \in Users, NEW e \in Emails, NEW verified \in BOOLEAN, Opens(v, e, verified)
          PROVE  users'[u].verified = users[u].verified
      BY <1>1, <3>1, OpensTo DEF Opens
    <3>2. ASSUME NEW v \in Users, NEW e \in Emails, NEW c \in Covers \cup {None}, Moves(v, e, c)
          PROVE  users'[u].verified = users[u].verified
      BY <1>1, <3>2, MovesTo
    <3> QED BY <1>4, <3>1, <3>2, UsersMove
  <2>2. stranded \subseteq stranded'
    BY <1>4, RestMoves DEF CreateVerifyToken, DeleteVerifyToken, SendVerifyEmail, Cut, InsertMany, Strand
  <2> QED BY <2>1, <2>2
<1> QED BY <1>2, <1>3, <1>4

LEMMA StoredCoversGrow == [Next]_vars => stored \subseteq stored'
BY FilesMove DEF files, UploadCover, Compress, CompressCover, DeleteTemporary

LEMMA MailedStep == TypeOK /\ Named /\ mailed \subseteq Stored /\ [Next]_vars => (mailed \subseteq Stored)'
<1> SUFFICES ASSUME TypeOK, Named, mailed \subseteq Stored, [Next]_vars PROVE mailed' \subseteq Stored'
  OBVIOUS
<1>1. Stored \subseteq Stored'
  BY StoredGrows
<1>2. \A h \in Handlers : req[h].pc = "mail" => req[h].user \in Stored
  BY DEF Named, NamedAt
<1>3. ASSUME NEW h \in Handlers, SendVerifyEmail(h) PROVE mailed' \subseteq Stored'
  BY <1>1, <1>2, <1>3 DEF SendVerifyEmail
<1>4. ASSUME NEW h \in Handlers,
             \/ CreateVerifyToken(h) \/ DeleteVerifyToken(h) \/ SetVerified(h) \/ Cut(h)
             \/ \E u \in Users, e \in Emails : InsertMany(h, u, e)
      PROVE  mailed' = mailed
  BY <1>4 DEF CreateVerifyToken, DeleteVerifyToken, SetVerified, Cut, InsertMany, files
<1>5. ASSUME NEW u \in Users, NEW e \in Emails, NEW verified \in BOOLEAN, UpdateUser(u, e, verified)
      PROVE  mailed' = mailed
  BY <1>5 DEF UpdateUser
<1> QED BY <1>1, <1>3, <1>4, <1>5, RestMoves

LEMMA NamedStep == TypeOK /\ Named /\ mailed \subseteq Stored /\ [Next]_vars => Named'
<1> SUFFICES ASSUME TypeOK, Named, mailed \subseteq Stored, [Next]_vars PROVE Named'
  OBVIOUS
<1>1. req \in [Handlers -> Requests] /\ None \notin Emails /\ Stored \subseteq Users
  BY NoneAssumption DEF TypeOK, Stored
<1>2. Stored \subseteq Stored' /\ stored \subseteq stored'
  BY StoredGrows, StoredCoversGrow
<1>3. ASSUME NEW h \in Handlers, req'[h] = req[h] PROVE NamedAt(h)'
  <2>1. NamedAt(h)
    BY DEF Named
  <2>2. req[h].pc = "discard" => (users[req[h].user].verified \/ req[h].user \in stranded)'
    BY <1>3, <2>1, VerdictKept DEF NamedAt
  <2> QED BY <1>2, <1>3, <2>1, <2>2 DEF NamedAt
<1>4. ASSUME NEW h \in Handlers, NamedAt(h)', \A g \in Handlers \ {h} : req'[g] = req[g]
      PROVE  Named'
  BY <1>3, <1>4 DEF Named
<1>5. ASSUME NEW h \in Handlers, NEW u \in Users, NEW e \in Emails, NEW verified \in BOOLEAN,
             NewUser(h, u, e, verified)
      PROVE  Named'
  <2>1. /\ \A g \in Handlers \ {h} : req'[g] = req[g]
        /\ req'[h].pc = "folder" /\ req'[h].user = u /\ req'[h].email = e
    BY <1>1, <1>5 DEF NewUser, Begin, Idle
  <2>2. Opens(u, e, verified)
    BY <1>5, NewUserOpens
  <2>3. u \in Stored'
    BY <1>1, <2>2, OpensTo DEF Stored
  <2> QED BY <1>4, <2>1, <2>3 DEF NamedAt
<1>6. ASSUME NEW h \in Handlers, NEW u \in Users, NEW e \in Emails, NEW c \in Covers, UpdateCover(h, u, e, c)
      PROVE  Named'
  <2>1. /\ \A g \in Handlers \ {h} : req'[g] = req[g]
        /\ req'[h].pc = "compress" /\ req'[h].user = u /\ req'[h].email = e /\ req'[h].cover = c
    BY <1>1, <1>6 DEF UpdateCover, Begin, Idle
  <2> QED BY <1>2, <1>4, <1>6, <2>1 DEF NamedAt, UpdateCover
<1>7. ASSUME NEW h \in Handlers, NEW u \in Users, ResendVerification(h, u) \/ VerifyUser(h, u)
      PROVE  Named'
  <2>1. /\ \A g \in Handlers \ {h} : req'[g] = req[g]
        /\ req'[h].pc \in {"mail", "verified"} /\ req'[h].user = u
    BY <1>1, <1>7 DEF ResendVerification, VerifyUser, Begin, Idle
  <2> QED BY <1>2, <1>4, <1>7, <2>1 DEF NamedAt, ResendVerification, VerifyUser
<1>8. ASSUME NEW h \in Handlers,
             \/ \E i \in Imports : ImportUsers(h, i)
             \/ \E u \in Users, e \in Emails : InsertMany(h, u, e)
             \/ SendVerifyEmail(h) \/ DeleteVerifyToken(h) \/ UpdateProfile(h) \/ Cut(h)
      PROVE  Named'
  <2>1. /\ \A g \in Handlers \ {h} : req'[g] = req[g]
        /\ req'[h].pc \in {"idle", "insert"}
    <3>1. ASSUME Done(h) PROVE req'[h].pc = "idle" /\ \A g \in Handlers \ {h} : req'[g] = req[g]
      BY <1>1, <3>1 DEF Done, Idle
    <3>2. CASE \E i \in Imports : ImportUsers(h, i)
      BY <1>1, <3>2 DEF ImportUsers, Begin, Idle
    <3>3. CASE \E u \in Users, e \in Emails : InsertMany(h, u, e)
      <4> PICK u \in Users, e \in Emails : InsertMany(h, u, e)
        BY <3>3
      <4>1. \/ Done(h)
            \/ req[h].pc = "insert" /\ req' = [req EXCEPT ![h].emails = req[h].emails \ {e}]
        BY Zenon DEF InsertMany
      <4>2. CASE req[h].pc = "insert" /\ req' = [req EXCEPT ![h].emails = req[h].emails \ {e}]
        BY <1>1, <4>2 DEF Requests
      <4> QED BY <3>1, <4>1, <4>2
    <3>4. CASE SendVerifyEmail(h) \/ DeleteVerifyToken(h) \/ UpdateProfile(h) \/ Cut(h)
      BY <3>1, <3>4 DEF SendVerifyEmail, DeleteVerifyToken, UpdateProfile, Cut
    <3> QED BY <1>8, <3>2, <3>3, <3>4
  <2> QED BY <1>4, <2>1 DEF NamedAt
<1>9. ASSUME NEW h \in Handlers, CreateUserStorage(h) \/ CreateVerifyToken(h) PROVE Named'
  <2>1. /\ \A g \in Handlers \ {h} : req'[g] = req[g]
        /\ \/ req'[h].pc = "idle"
           \/ /\ req'[h].pc \in {"verification", "mail"} /\ req[h].pc \in {"folder", "verification"}
              /\ req'[h].user = req[h].user /\ req'[h].email = req[h].email
    <3>1. CASE Done(h)
      BY <1>1, <3>1 DEF Done, Idle
    <3>2. ASSUME NEW pc \in {"verification", "mail"}, Goto(h, pc), req[h].pc \in {"folder", "verification"}
          PROVE  /\ \A g \in Handlers \ {h} : req'[g] = req[g]
                 /\ req'[h].pc \in {"verification", "mail"} /\ req[h].pc \in {"folder", "verification"}
                 /\ req'[h].user = req[h].user /\ req'[h].email = req[h].email
      BY <1>1, <3>2 DEF Goto, Requests
    <3>3. \/ Done(h)
          \/ \E pc \in {"verification", "mail"} : Goto(h, pc) /\ req[h].pc \in {"folder", "verification"}
      BY <1>9 DEF CreateUserStorage, CreateVerifyToken
    <3> QED BY <3>1, <3>2, <3>3
  <2> QED BY <1>2, <1>4, <2>1 DEF Named, NamedAt
<1>10. ASSUME NEW h \in Handlers, SetVerified(h) PROVE Named'
  <2>1. /\ \A g \in Handlers \ {h} : req'[g] = req[g]
        /\ req'[h].pc = "discard" /\ req'[h].user = req[h].user
    BY <1>1, <1>10 DEF SetVerified, Goto, Requests
  <2> QED BY <1>2, <1>4, <1>10, <2>1, VerifiesTo DEF NamedAt
<1>11. ASSUME NEW h \in Handlers, Compress(h) \/ DeleteTemporary(h) PROVE Named'
  <2>1. /\ \A g \in Handlers \ {h} : req'[g] = req[g]
        /\ req[h].pc \in {"compress", "uncover"} /\ req'[h].pc \in {"uncover", "profile"}
        /\ req'[h].user = req[h].user /\ req'[h].email = req[h].email /\ req'[h].cover = req[h].cover
    BY <1>1, <1>11 DEF Compress, DeleteTemporary, Goto, Requests
  <2>2. req[h].cover \in stored'
    BY <1>2, <1>11 DEF Compress, CompressCover, DeleteTemporary, Named, NamedAt
  <2> QED BY <1>2, <1>4, <2>1, <2>2 DEF Named, NamedAt
<1>12. CASE \/ \E h \in Handlers, u \in Users, e \in Emails : UpdateByUser(h, u, e)
            \/ \E c \in Covers : UploadCover(c)
            \/ \E u \in Users, e \in Emails, verified \in BOOLEAN : UpdateUser(u, e, verified)
            \/ UNCHANGED vars
  BY <1>3, <1>12 DEF UpdateByUser, UploadCover, UpdateUser, vars, Named
<1> QED
  BY <1>5, <1>6, <1>7, <1>8, <1>9, <1>10, <1>11, <1>12 DEF Next, Register, CreateUser

-----------------------------------------------------------------------------
(* What vouches for an account: it is verified, or has a document, or the sign-up *)
(* that writes one is at work; else it counts as stranded.                        *)
Vouched(u) ==
    \/ u \in stranded \/ users[u].verified \/ verifications[u] # None
    \/ \E h \in Handlers : req[h].user = u /\ req[h].pc \in {"folder", "verification"}

LEMMA VerifiableByVouched == Verifiable <=> \A u \in Stored : Vouched(u)
BY DEF Verifiable, Vouched

LEMMA DocumentsMove ==
    [Next]_vars => \/ verifications' = verifications
                   \/ \E h \in Handlers : CreateVerifyToken(h) \/ DeleteVerifyToken(h)
<1> SUFFICES ASSUME [Next]_vars
             PROVE  \/ verifications' = verifications
                    \/ \E h \in Handlers : CreateVerifyToken(h) \/ DeleteVerifyToken(h)
  OBVIOUS
<1>1. ASSUME NEW h \in Handlers,
             \/ SendVerifyEmail(h) \/ SetVerified(h) \/ Cut(h)
             \/ \E u \in Users, e \in Emails : InsertMany(h, u, e)
      PROVE  verifications' = verifications
  BY <1>1 DEF SendVerifyEmail, SetVerified, Cut, InsertMany
<1>2. ASSUME NEW u \in Users, NEW e \in Emails, NEW verified \in BOOLEAN, UpdateUser(u, e, verified)
      PROVE  verifications' = verifications
  BY <1>2 DEF UpdateUser
<1> QED BY <1>1, <1>2, RestMoves

(* A sign-up at work stays at work, or is taken on, or is cut. *)
LEMMA SignUpMoves ==
    ASSUME req \in [Handlers -> Requests], [Next]_vars,
           NEW g \in Handlers, req[g].pc \in {"folder", "verification"}
    PROVE  req'[g] = req[g] \/ CreateUserStorage(g) \/ CreateVerifyToken(g) \/ Cut(g)
<1>1. req[g] # Idle
  BY DEF Idle
<1>2. ASSUME NEW h \in Handlers, NEW r, Begin(h, r) PROVE req'[g] = req[g]
  BY <1>1, <1>2 DEF Begin
<1>3. ASSUME NEW h \in Handlers \ {g}, Done(h) \/ \E pc \in Steps : Goto(h, pc) PROVE req'[g] = req[g]
  BY <1>3 DEF Done, Goto
<1>4. ASSUME NEW h \in Handlers, NEW u \in Users, NEW e \in Emails,
             \/ Register(h, u, e) \/ UpdateByUser(h, u, e)
             \/ \E c \in Covers : UpdateCover(h, u, e, c)
             \/ \E verified \in BOOLEAN : CreateUser(h, u, e, verified)
      PROVE  req'[g] = req[g]
  BY <1>2, <1>4 DEF Register, CreateUser, NewUser, UpdateByUser, UpdateCover
<1>5. ASSUME NEW h \in Handlers,
             \/ \E u \in Users : ResendVerification(h, u) \/ VerifyUser(h, u)
             \/ \E i \in Imports : ImportUsers(h, i)
      PROVE  req'[g] = req[g]
  BY <1>2, <1>5 DEF ResendVerification, VerifyUser, ImportUsers
<1>6. ASSUME NEW h \in Handlers, NEW u \in Users, NEW e \in Emails, InsertMany(h, u, e)
      PROVE  req'[g] = req[g]
  <2>1. h # g
    BY <1>6 DEF InsertMany
  <2>2. Done(h) \/ req' = [req EXCEPT ![h].emails = req[h].emails \ {e}]
    BY <1>6, Zenon DEF InsertMany
  <2> QED BY <1>3, <2>1, <2>2
<1>7. ASSUME NEW h \in Handlers,
             \/ SendVerifyEmail(h) \/ SetVerified(h) \/ DeleteVerifyToken(h)
             \/ Compress(h) \/ DeleteTemporary(h) \/ UpdateProfile(h)
      PROVE  req'[g] = req[g]
  <2>1. h # g
    BY <1>7 DEF SendVerifyEmail, SetVerified, DeleteVerifyToken, Compress, DeleteTemporary, UpdateProfile
  <2>2. Done(h) \/ \E pc \in Steps : Goto(h, pc)
    BY <1>7 DEF SendVerifyEmail, SetVerified, DeleteVerifyToken, Compress, DeleteTemporary, UpdateProfile, Steps
  <2> QED BY <1>3, <2>1, <2>2
<1>8. ASSUME NEW h \in Handlers \ {g}, CreateUserStorage(h) \/ CreateVerifyToken(h) \/ Cut(h)
      PROVE  req'[g] = req[g]
  BY <1>3, <1>8 DEF CreateUserStorage, CreateVerifyToken, Cut, Steps
<1>9. CASE \/ \E c \in Covers : UploadCover(c)
           \/ \E u \in Users, e \in Emails, verified \in BOOLEAN : UpdateUser(u, e, verified)
           \/ UNCHANGED vars
  BY <1>9 DEF UploadCover, UpdateUser, vars
<1> QED BY <1>4, <1>5, <1>6, <1>7, <1>8, <1>9 DEF Next

LEMMA VerifiableStep == TypeOK /\ Named /\ Verifiable /\ [Next]_vars => Verifiable'
<1> SUFFICES ASSUME TypeOK, Named, Verifiable, [Next]_vars, NEW u \in Users, u \in Stored'
             PROVE  Vouched(u)'
  BY VerifiableByVouched DEF Stored, Verifiable, Vouched
<1>1. req \in [Handlers -> Requests] /\ req' \in [Handlers -> Requests] /\ None \notin Emails
  BY RequestsTyped, NoneAssumption DEF TypeOK
<1>2. CASE u \notin Stored
  <2>1. PICK e \in Emails, verified \in BOOLEAN : Opens(u, e, verified)
    <3>1. ASSUME NEW v \in Users, NEW e \in Emails, NEW verified \in BOOLEAN, Opens(v, e, verified)
          PROVE  v = u
      BY <1>2, <3>1, OpensTo DEF Stored
    <3>2. ASSUME NEW v \in Users, NEW e \in Emails, NEW c \in Covers \cup {None}, Moves(v, e, c)
          PROVE  FALSE
      BY <1>2, <3>2, MovesTo DEF Stored, Moves
    <3>3. ASSUME NEW v \in Users, NEW e \in Emails, NEW verified \in BOOLEAN, UpdateUser(v, e, verified)
          PROVE  FALSE
      BY <1>2, <3>3, JudgesTo DEF Stored, UpdateUser
    <3>4. ASSUME NEW h \in Handlers, SetVerified(h) PROVE FALSE
      BY <1>2, <3>4, VerifiesTo DEF Stored
    <3>5. users' # users
      BY <1>2 DEF Stored
    <3> QED BY <3>1, <3>2, <3>3, <3>4, <3>5, UsersMove
  <2>2. users'[u].verified = verified
    BY <2>1, OpensTo
  <2> QED BY <2>1, <2>2 DEF Opens, Vouched
<1>3. CASE u \in Stored
  <2>1. Vouched(u)
    BY <1>3, VerifiableByVouched
  <2>2. CASE users[u].verified \/ u \in stranded
    BY <1>3, <2>2, VerdictKept DEF Vouched
  <2>3. CASE verifications[u] # None
    <3>1. CASE verifications' = verifications
      BY <2>3, <3>1 DEF Vouched
    <3>2. ASSUME NEW h \in Handlers, CreateVerifyToken(h) PROVE Vouched(u)'
      <4>1. req[h].user \in Users /\ req[h].email \in Emails
        BY <3>2 DEF CreateVerifyToken, Named, NamedAt, Stored
      <4>2. verifications'[u] # None
        BY <1>1, <2>3, <3>2, <4>1 DEF CreateVerifyToken, VerifyToken, TypeOK
      <4> QED BY <4>2 DEF Vouched
    <3>3. ASSUME NEW h \in Handlers, DeleteVerifyToken(h) PROVE Vouched(u)'
      <4>1. CASE req[h].user = u
        BY <1>3, <3>3, <4>1, VerdictKept DEF DeleteVerifyToken, Named, NamedAt, Vouched
      <4>2. CASE req[h].user # u
        <5>1. verifications'[u] = verifications[u]
          BY <3>3, <4>2 DEF DeleteVerifyToken, TypeOK
        <5> QED BY <2>3, <5>1 DEF Vouched
      <4> QED BY <4>1, <4>2
    <3> QED BY <3>1, <3>2, <3>3, DocumentsMove
  <2>4. ASSUME NEW g \in Handlers, req[g].user = u, req[g].pc \in {"folder", "verification"}
        PROVE  Vouched(u)'
    <3>1. CASE req'[g] = req[g]
      BY <2>4, <3>1 DEF Vouched
    <3>2. CASE CreateUserStorage(g)
      BY <1>1, <2>4, <3>2 DEF CreateUserStorage, Goto, Requests, Vouched
    <3>3. ASSUME Strand(u), users' = users PROVE Vouched(u)'
      BY <3>3 DEF Strand, Vouched
    <3>4. CASE CreateVerifyToken(g)
      <4>1. req[g].email \in Emails
        BY <2>4 DEF Named, NamedAt
      <4>2. \/ Strand(u) /\ users' = users
            \/ verifications' = [verifications EXCEPT ![u] = req[g].email]
        BY <2>4, <3>4 DEF CreateVerifyToken, VerifyToken
      <4>3. CASE verifications' = [verifications EXCEPT ![u] = req[g].email]
        <5>1. verifications'[u] # None
          BY <1>1, <4>1, <4>3 DEF TypeOK
        <5> QED BY <5>1 DEF Vouched
      <4> QED BY <3>3, <4>2, <4>3
    <3>5. CASE Cut(g)
      <4>1. Strand(u) /\ users' = users
        BY <2>4, <3>5 DEF Cut
      <4> QED BY <3>3, <4>1
    <3> QED BY <1>1, <2>4, <3>1, <3>2, <3>4, <3>5, SignUpMoves
  <2> QED BY <2>1, <2>2, <2>3, <2>4 DEF Vouched
<1> QED BY <1>2, <1>3

LEMMA CoverStep == TypeOK /\ Named /\ CoverKept /\ [Next]_vars => CoverKept'
<1> SUFFICES ASSUME TypeOK, Named, CoverKept, [Next]_vars PROVE CoverKept'
  OBVIOUS
<1>1. None \notin Emails /\ None \notin stored /\ stored \subseteq Covers /\ stored \subseteq stored'
  BY StoredCoversGrow, NoneAssumption DEF TypeOK
<1>2. \A v \in Users : users[v].cover # None => users[v].cover \in stored \/ v \notin Stored
  BY DEF CoverKept, GetCover, Stored
<1>3. ASSUME NEW u \in Users, u \in Stored', users'[u].cover # None PROVE users'[u].cover \in stored'
  <2>1. CASE users' = users
    BY <1>1, <1>2, <1>3, <2>1 DEF Stored
  <2>2. ASSUME NEW v \in Users, NEW e \in Emails, NEW verified \in BOOLEAN, Opens(v, e, verified)
        PROVE  users'[u].cover \in stored'
    BY <1>1, <1>2, <1>3, <2>2, OpensTo DEF Stored
  <2>3. ASSUME NEW v \in Users, NEW e \in Emails, NEW c \in Covers \cup {None}, Moves(v, e, c)
        PROVE  users'[u].cover \in stored'
    <3>1. v \in Stored /\ c \in stored \cup {None}
      BY <2>3 DEF Moves
    <3> QED BY <1>1, <1>2, <1>3, <2>3, <3>1, MovesTo DEF Stored
  <2>4. ASSUME NEW v \in Users, NEW e \in Emails, NEW verified \in BOOLEAN, UpdateUser(v, e, verified)
        PROVE  users'[u].cover \in stored'
    <3>1. v \in Stored
      BY <2>4 DEF UpdateUser
    <3> QED BY <1>1, <1>2, <1>3, <2>4, <3>1, JudgesTo DEF Stored
  <2>5. ASSUME NEW h \in Handlers, SetVerified(h) PROVE users'[u].cover \in stored'
    BY <1>1, <1>2, <1>3, <2>5, VerifiesTo DEF Stored
  <2> QED BY <2>1, <2>2, <2>3, <2>4, <2>5, UsersMove
<1>4. uploaded' \subseteq temporary' \cup stored'
  <2>1. uploaded \subseteq temporary \cup stored
    BY DEF CoverKept
  <2>2. \A h \in Handlers : req[h].pc = "uncover" => req[h].cover \in stored
    BY DEF Named, NamedAt
  <2> QED BY <2>1, <2>2, FilesMove DEF files, UploadCover, Compress, CompressCover, DeleteTemporary
<1> QED BY <1>3, <1>4 DEF CoverKept, GetCover, Stored

-----------------------------------------------------------------------------
LEMMA InitInv == Init => AccountInv
<1> SUFFICES ASSUME Init PROVE AccountInv
  OBVIOUS
<1>1. NoUser \in UserDocuments /\ NoUser.email = None
  BY Zenon DEF NoUser, UserDocuments
<1>2. Stored = {}
  BY <1>1 DEF Init, Stored
<1>3. TypeOK
  BY <1>1, IdleRequest DEF Init, TypeOK
<1>4. Named
  BY DEF Init, Named, NamedAt, Idle
<1>5. mailed \subseteq Stored /\ Verifiable /\ CoverKept
  BY <1>2 DEF Init, Verifiable, CoverKept
<1> QED BY <1>3, <1>4, <1>5 DEF AccountInv

LEMMA Invariance == Spec => []AccountInv
<1>1. AccountInv /\ [Next]_vars => AccountInv'
  BY TypeStep, NamedStep, MailedStep, VerifiableStep, CoverStep DEF AccountInv
<1> QED BY InitInv, <1>1, PTL DEF Spec

-----------------------------------------------------------------------------
(* Every variable of the accounts has its type. *)
THEOREM TypeCorrect == Spec => []TypeOK
BY Invariance, PTL DEF AccountInv

(* An account that cannot sign in yet can still be verified, however registrations, *)
(* verifications, changes of address and crashes meet, if it is not of the three     *)
(* kinds Strand and its neighbours set aside (user.service.ts, verification).        *)
THEOREM AlwaysVerifiable == Spec => []Verifiable
BY Invariance, PTL DEF AccountInv

(* The cover an account shows is found and an uploaded one is not lost, however *)
(* overlapping updates of the profile are cut (user.service.ts updateByUser).   *)
THEOREM CoversKept == Spec => []CoverKept
BY Invariance, PTL DEF AccountInv

LEMMA BookStep == TypeOK /\ Named /\ [Next]_vars => [Book!Next]_([u \in Users |-> users[u].email])
<1> DEFINE address == [u \in Users |-> users[u].email]
<1> SUFFICES ASSUME TypeOK, Named, [Next]_vars PROVE [Book!Next]_address
  OBVIOUS
<1>1. \A e \in Emails : e # None
  BY NoneAssumption
<1>2. CASE users' = users
  BY <1>2
<1>3. ASSUME NEW u \in Users, NEW e \in Emails, NEW verified \in BOOLEAN, Opens(u, e, verified)
      PROVE  Book!Open(u, e)
  <2>1. u \notin Stored /\ Unique(u, e)
    BY <1>3 DEF Opens
  <2>2. address[u] = None /\ e \notin Book!Taken
    BY <1>1, <2>1 DEF Stored, Unique, Book!Taken
  <2>3. address' = [address EXCEPT ![u] = e]
    BY <1>3, OpensTo
  <2> QED BY <2>2, <2>3 DEF Book!Open
<1>4. ASSUME NEW u \in Users, NEW e \in Emails, u \in Stored, Unique(u, e),
             users'[u].email = e, \A v \in Users \ {u} : users'[v] = users[v]
      PROVE  Book!Move(u, e) \/ address' = address
  <2>1. address[u] # None /\ address' = [address EXCEPT ![u] = e]
    BY <1>4 DEF Stored
  <2>2. CASE users[u].email = e
    BY <1>4, <2>2
  <2>3. CASE users[u].email # e
    <3>1. e \notin Book!Taken
      BY <1>1, <1>4, <2>3 DEF Stored, Unique, Book!Taken
    <3> QED BY <2>1, <3>1 DEF Book!Move
  <2> QED BY <2>2, <2>3
<1>5. ASSUME NEW u \in Users, NEW e \in Emails, NEW c \in Covers \cup {None}, Moves(u, e, c)
      PROVE  Book!Move(u, e) \/ address' = address
  BY <1>4, <1>5, MovesTo DEF Moves
<1>6. ASSUME NEW u \in Users, NEW e \in Emails, NEW verified \in BOOLEAN, UpdateUser(u, e, verified)
      PROVE  Book!Move(u, e) \/ address' = address
  <2>1. u \in Stored /\ Unique(u, e)
    BY <1>6 DEF UpdateUser
  <2> QED BY <1>4, <1>6, <2>1, JudgesTo
<1>7. ASSUME NEW h \in Handlers, SetVerified(h) PROVE address' = address
  BY <1>7, VerifiesTo
<1> QED BY <1>2, <1>3, <1>5, <1>6, <1>7, UsersMove DEF Book!Next

(* The accounts implement AddressBook: an address has one owner, and an account, *)
(* once there, stays (the unique index on email, admin/user and user services).  *)
THEOREM Implementation == Spec => ImplementsAddressBook
<1>1. Init => Book!Init
  BY DEF Init, NoUser, Book!Init
<1>2. AccountInv /\ [Next]_vars => [Book!Next]_([u \in Users |-> users[u].email])
  BY BookStep DEF AccountInv
<1> QED BY <1>1, <1>2, Invariance, PTL DEF Spec, ImplementsAddressBook, Book!Spec
=============================================================================
