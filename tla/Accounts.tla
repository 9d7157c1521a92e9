------------------------------- MODULE Accounts -------------------------------
(***************************************************************************)
(* Accounts from sign-up to verification and what users and administrators *)
(* change of them later (auth, user, verification, admin/user): requests   *)
(* cut at their awaits over the users and verifications collections and    *)
(* the folders of covers.  A verification token is signed from the account *)
(* and its address, one per account, so it is named by its account.        *)
(***************************************************************************)
EXTENDS Naturals, FiniteSets

CONSTANTS
    Users,          \* ids of accounts
    Emails,         \* addresses
    Lower,          \* an address in lower case
    Covers,         \* names of uploaded covers
    Handlers,       \* requests served at once
    None

ASSUME LowerAssumption == Lower \in [Emails -> Emails]
ASSUME NoneAssumption == None \notin Users \cup Emails \cup Covers

VARIABLES
    users,          \* the account documents
    verifications,  \* the verification document of an account: the address in it
    temporary,      \* covers in temporaryCovers
    stored,         \* covers compressed into the folder of their user
    mailed,         \* accounts that were mailed their verification link
    req,            \* the handlers
    uploaded,       \* history: covers uploaded
    stranded        \* history: accounts left unverified without a document, see Strand

files == <<temporary, stored, uploaded>>
vars == <<users, verifications, files, mailed, req, stranded>>

-----------------------------------------------------------------------------
(* No route reads the other fields of an account, banned and toDelete among them;   *)
(* the password is in Sessions.                                                     *)
UserDocuments == [email : Emails \cup {None}, verified : BOOLEAN, cover : Covers \cup {None}]
NoUser == [email |-> None, verified |-> FALSE, cover |-> None]

Steps == {"idle", "folder", "verification", "mail", "insert", "verified", "discard", "compress",
          "uncover", "profile"}
Requests == [pc : Steps, user : Users \cup {None}, email : Emails \cup {None}, flag : BOOLEAN,
             emails : SUBSET Emails, cover : Covers \cup {None}]
Idle == [pc |-> "idle", user |-> None, email |-> None, flag |-> FALSE, emails |-> {}, cover |-> None]

Stored == {u \in Users : users[u].email # None}
Taken  == {users[u].email : u \in Stored}

Begin(h, r) == req[h] = Idle /\ req' = [req EXCEPT ![h] = r]
Goto(h, pc) == req' = [req EXCEPT ![h].pc = pc]
Done(h)     == req' = [req EXCEPT ![h] = Idle]

Init ==
    /\ users = [u \in Users |-> NoUser]
    /\ verifications = [u \in Users |-> None]
    /\ temporary = {} /\ stored = {} /\ uploaded = {}
    /\ mailed = {}
    /\ req = [h \in Handlers |-> Idle]
    /\ stranded = {}

-----------------------------------------------------------------------------
(* Mutant: the index is partial. *)
UniqueAmongVerified(u, e) == \A v \in Stored \ {u} : users[v].verified => users[v].email # e

(* The unique index on email. *)
Unique(u, e) == \A v \in Stored \ {u} : users[v].email # e

(* A document with the defaults of the schema. *)
Inserted(u, e, verified) == [users EXCEPT ![u] = [NoUser EXCEPT !.email = e, !.verified = verified]]

(* newUser saves the account before anything else of the sign-up; a taken address *)
(* is refused.                                                                    *)
NewUser(h, u, e, verified) ==
    /\ u \notin Stored /\ Unique(u, e)
    /\ users' = Inserted(u, e, verified)
    /\ Begin(h, [Idle EXCEPT !.pc = "folder", !.user = u, !.email = e, !.flag = verified])
    /\ UNCHANGED <<verifications, files, mailed, stranded>>

Register(h, u, e) == NewUser(h, u, e, FALSE)

(* The administrator's route signs the account up with a generated password; the  *)
(* mail that tells it and the answer change nothing here.                         *)
CreateUser(h, u, e, verified) == NewUser(h, u, e, verified)

CreateUserStorage(h) ==
    /\ req[h].pc = "folder"
    /\ Goto(h, "verification")
    /\ UNCHANGED <<users, verifications, files, mailed, stranded>>

(* getVerifyToken asks for both. *)
GetVerifyToken(u, e) == verifications[u] = e

VerifyToken(u, e) == e

(* Both the account and the address of a verification document are unique: one  *)
(* kept from an account that has moved away from the address refuses the save.  *)
TokenExists(u, e) == verifications[u] # None \/ \E v \in Users : verifications[v] = e

Strand(u) == stranded' = IF users[u].verified THEN stranded ELSE stranded \cup {u}

CreateVerifyToken(h) ==
    LET r == req[h]
    IN  /\ r.pc = "verification"
        /\ \/ /\ TokenExists(r.user, r.email)
              /\ Strand(r.user)
              /\ Done(h)
              /\ UNCHANGED verifications
           \/ /\ ~TokenExists(r.user, r.email)
              /\ verifications' = [verifications EXCEPT ![r.user] = VerifyToken(r.user, r.email)]
              /\ IF r.flag THEN Done(h) ELSE Goto(h, "mail")
              /\ UNCHANGED stranded
        /\ UNCHANGED <<users, files, mailed>>

SendVerifyEmail(h) ==
    /\ req[h].pc = "mail"
    /\ mailed' = mailed \cup {req[h].user}
    /\ Done(h)
    /\ UNCHANGED <<users, verifications, files, stranded>>

(* The document must be found by the account and the address it has now. *)
ResendVerification(h, u) ==
    /\ u \in Stored /\ ~users[u].verified
    /\ GetVerifyToken(u, users[u].email)
    /\ Begin(h, [Idle EXCEPT !.pc = "mail", !.user = u])
    /\ UNCHANGED <<users, verifications, files, mailed, stranded>>

-----------------------------------------------------------------------------
(* The link names the account and the address it was signed up with; without the *)
(* document it is refused.                                                       *)
VerifyUser(h, u) ==
    /\ u \in mailed
    /\ \E e \in Emails : GetVerifyToken(u, e)
    /\ Begin(h, [Idle EXCEPT !.pc = "verified", !.user = u])
    /\ UNCHANGED <<users, verifications, files, mailed, stranded>>

(* Mutant: the document goes first. *)
DiscardedFirst(h) ==
    /\ req[h].pc = "verified"
    /\ verifications' = [verifications EXCEPT ![req[h].user] = None]
    /\ Goto(h, "discard")
    /\ UNCHANGED <<users, files, mailed, stranded>>

SetVerified(h) ==
    /\ req[h].pc = "verified"
    /\ users' = [users EXCEPT ![req[h].user].verified = TRUE]
    /\ stranded' = stranded \ {req[h].user}
    /\ Goto(h, "discard")
    /\ UNCHANGED <<verifications, files, mailed>>

DeleteVerifyToken(h) ==
    /\ req[h].pc = "discard"
    /\ verifications' = [verifications EXCEPT ![req[h].user] = None]
    /\ Done(h)
    /\ UNCHANGED <<users, files, mailed, stranded>>

-----------------------------------------------------------------------------
(* The addresses are looked up in lower case, and stored as they came. *)
Existing(es) == {Lower[e] : e \in es} \cap Taken

(* The body of an import: addresses, and whether they count as verified. *)
Imports == [emails : SUBSET Emails \ {{}}, verified : BOOLEAN]

ImportUsers(h, i) ==
    /\ Existing(i.emails) = {}
    /\ Begin(h, [Idle EXCEPT !.pc = "insert", !.emails = i.emails, !.flag = i.verified])
    /\ UNCHANGED <<users, verifications, files, mailed, stranded>>

(* insertMany inserts in order and stops at an address that is taken by then. *)
InsertMany(h, u, e) ==
    LET r == req[h]
        rest == r.emails \ {e}
    IN  /\ r.pc = "insert" /\ e \in r.emails
        /\ \/ ~Unique(u, e) /\ Done(h) /\ UNCHANGED <<users, stranded>>
           \/ /\ u \notin Stored /\ Unique(u, e)
              /\ users' = Inserted(u, e, r.flag)
              /\ stranded' = IF r.flag THEN stranded ELSE stranded \cup {u}
              /\ IF rest = {} THEN Done(h) ELSE req' = [req EXCEPT ![h].emails = rest]
        /\ UNCHANGED <<verifications, files, mailed>>

-----------------------------------------------------------------------------
(* A cover is uploaded under a name of its own. *)
UploadCover(c) ==
    /\ c \notin uploaded
    /\ temporary' = temporary \cup {c}
    /\ uploaded' = uploaded \cup {c}
    /\ UNCHANGED <<users, verifications, stored, mailed, req, stranded>>

(* Without a cover, or with one that is not in the temporary folder, the other *)
(* fields are written at once, unless another account has the address.         *)
UpdateByUser(h, u, e) ==
    /\ req[h] = Idle /\ u \in Stored /\ Unique(u, e)
    /\ users' = [users EXCEPT ![u].email = e]
    /\ UNCHANGED <<verifications, files, mailed, req, stranded>>

UpdateCover(h, u, e, c) ==
    /\ u \in Stored /\ c \in temporary
    /\ Begin(h, [Idle EXCEPT !.pc = "compress", !.user = u, !.email = e, !.cover = c])
    /\ UNCHANGED <<users, verifications, files, mailed, stranded>>

(* Mutant: the temporary file is moved out of the way before it is compressed. *)
CompressFirst(c) == temporary' = temporary \ {c} /\ UNCHANGED stored

(* coverCompress reads the temporary file, which an overlapping request may have taken. *)
CompressCover(c) == c \in temporary /\ stored' = stored \cup {c} /\ UNCHANGED temporary

Compress(h) ==
    /\ req[h].pc = "compress"
    /\ CompressCover(req[h].cover)
    /\ Goto(h, "uncover")
    /\ UNCHANGED <<users, verifications, uploaded, mailed, stranded>>

(* fileDelete fails if the file is gone, and the update with it. *)
DeleteTemporary(h) ==
    /\ req[h].pc = "uncover" /\ req[h].cover \in temporary
    /\ temporary' = temporary \ {req[h].cover}
    /\ Goto(h, "profile")
    /\ UNCHANGED <<users, verifications, stored, uploaded, mailed, stranded>>

UpdateProfile(h) ==
    LET r == req[h]
    IN  /\ r.pc = "profile"
        /\ users' = IF Unique(r.user, r.email)
                      THEN [users EXCEPT ![r.user].email = r.email, ![r.user].cover = r.cover]
                      ELSE users
        /\ Done(h)
        /\ UNCHANGED <<verifications, files, mailed, stranded>>

(* Covers are looked for by name in the folders of users, of covers and of courses. *)
GetCover(c) == c \in stored

-----------------------------------------------------------------------------
(* The administrator's update writes what it is given and asks no questions. *)
UpdateUser(u, e, verified) ==
    /\ u \in Stored /\ Unique(u, e)
    /\ users' = [users EXCEPT ![u].email = e, ![u].verified = verified]
    /\ stranded' = IF verified THEN stranded \ {u}
                   ELSE IF users[u].verified THEN stranded \cup {u} ELSE stranded
    /\ UNCHANGED <<verifications, files, mailed, req>>

-----------------------------------------------------------------------------
(* A call fails or the process dies: what was written stays. *)
Cut(h) ==
    /\ req[h] # Idle
    /\ IF req[h].pc \in {"folder", "verification"} THEN Strand(req[h].user) ELSE UNCHANGED stranded
    /\ Done(h)
    /\ UNCHANGED <<users, verifications, files, mailed>>

Next ==
    \/ \E h \in Handlers, u \in Users :
          \/ \E e \in Emails :
                \/ Register(h, u, e) \/ InsertMany(h, u, e) \/ UpdateByUser(h, u, e)
                \/ \E c \in Covers : UpdateCover(h, u, e, c)
                \/ \E verified \in BOOLEAN : CreateUser(h, u, e, verified)
          \/ ResendVerification(h, u) \/ VerifyUser(h, u)
    \/ \E h \in Handlers :
          \/ CreateUserStorage(h) \/ CreateVerifyToken(h) \/ SendVerifyEmail(h)
          \/ SetVerified(h) \/ DeleteVerifyToken(h)
          \/ Compress(h) \/ DeleteTemporary(h) \/ UpdateProfile(h)
          \/ Cut(h)
          \/ \E i \in Imports : ImportUsers(h, i)
    \/ \E c \in Covers : UploadCover(c)
    \/ \E u \in Users, e \in Emails, verified \in BOOLEAN : UpdateUser(u, e, verified)

Spec == Init /\ [][Next]_vars

-----------------------------------------------------------------------------
(* Every variable has its type. *)
TypeOK ==
    /\ users \in [Users -> UserDocuments]
    /\ verifications \in [Users -> Emails \cup {None}]
    /\ temporary \subseteq Covers /\ stored \subseteq Covers /\ uploaded \subseteq Covers
    /\ mailed \subseteq Users /\ stranded \subseteq Users
    /\ req \in [Handlers -> Requests]

(* An account that cannot sign in yet can still be verified: its document is there  *)
(* or the sign-up that writes it is at work, however a verification, a change of    *)
(* address and a crash meet.  Stranded are those that were imported unverified, set *)
(* back by an administrator, or whose sign-up failed after the account was saved.   *)
Verifiable ==
    \A u \in Stored \ stranded :
        \/ users[u].verified
        \/ verifications[u] # None
        \/ \E h \in Handlers : req[h].user = u /\ req[h].pc \in {"folder", "verification"}

(* The accounts keep what AddressBook promises: an address has one owner, also when *)
(* an import, a registration and two updates race for it, and no account goes.      *)
Book == INSTANCE AddressBook WITH address <- [u \in Users |-> users[u].email]
ImplementsAddressBook == Book!Spec

(* The cover an account shows is found, and no uploaded cover is lost on the way *)
(* from the temporary folder, wherever the update is cut short.                   *)
CoverKept ==
    /\ \A u \in Stored : users[u].cover # None => GetCover(users[u].cover)
    /\ uploaded \subseteq temporary \cup stored
=============================================================================
