------------------------------- MODULE Contracts -------------------------------
(***************************************************************************)
(* The contract of a course and the users who sign it (admin/education/    *)
(* contract, user/education): requests that set or delete the contract of  *)
(* the course, sign it and read it meet at their awaits over the contracts,*)
(* the participants and the flag "agreement" of a purchase, and may be cut *)
(* anywhere.  The course requests around the contract are in Courses, the  *)
(* purchases in CourseAccess; here is one course that has been bought.     *)
(***************************************************************************)
EXTENDS Naturals, FiniteSets

CONSTANTS
    Users,          \* ids of accounts
    MaxContracts,   \* bound: contracts ever created for the course
    Handlers,       \* requests served at once
    None

ASSUME MaxContractsAssumption == MaxContracts \in Nat
ASSUME NoneAssumption == None \notin Users

VARIABLES
    contracts,      \* ids of the contract documents of the course, counted as created
    participants,   \* how many participants there are of a user and a contract
    purchases,      \* the purchase of a user: none, or its flag "agreement"
    req,            \* the handlers
    created,        \* history: contracts created so far
    stuck           \* history: users left unsigned with a participant, see Cut

vars == <<contracts, participants, purchases, req, created, stuck>>

-----------------------------------------------------------------------------
ContractIds  == 1..MaxContracts
Flags        == {"none", "unsigned", "signed"}
Participants == [Users -> [ContractIds -> Nat]]

Steps == {"idle", "update", "create", "delete", "sign", "save", "agree"}
Requests == [pc : Steps, user : Users \cup {None}, contract : ContractIds \cup {0}]
Idle == [pc |-> "idle", user |-> None, contract |-> 0]

Begin(h, r) == req[h] = Idle /\ req' = [req EXCEPT ![h] = r]
Goto(h, pc) == req' = [req EXCEPT ![h].pc = pc]
Done(h)     == req' = [req EXCEPT ![h] = Idle]

(* The course has just been saved, and the contract it was sent with, if any, is not yet. *)
Init ==
    /\ contracts = {} /\ created = 0 /\ stuck = {}
    /\ participants = [u \in Users |-> [k \in ContractIds |-> 0]]
    /\ purchases = [u \in Users |-> "none"]
    /\ req \in {[h \in Handlers |-> IF h \in hs THEN [Idle EXCEPT !.pc = "create"] ELSE Idle]
                  : hs \in {{}} \cup {{h} : h \in Handlers}}

-----------------------------------------------------------------------------
(* A new document goes behind the others, and findOne returns the first. *)
CreateContract ==
    /\ created < MaxContracts
    /\ created' = created + 1
    /\ contracts' = contracts \cup {created + 1}

GetContract == CHOOSE k \in contracts : \A i \in contracts : k <= i

(* An edit of the course with a contract: the old one is updated in place, its id stays; *)
(* there is one per course because nobody creates another when there is one.             *)
UpdateContract(h) ==
    /\ Begin(h, [Idle EXCEPT !.pc = IF contracts = {} THEN "create" ELSE "update"])
    /\ UNCHANGED <<contracts, participants, purchases, created, stuck>>

(* findOneAndUpdate: nothing is updated, and nothing refused, if it is gone by now. *)
UpdateInPlace(h) ==
    /\ req[h].pc = "update"
    /\ Done(h)
    /\ UNCHANGED <<contracts, participants, purchases, created, stuck>>

CreateMissing(h) ==
    /\ req[h].pc = "create"
    /\ CreateContract
    /\ Done(h)
    /\ UNCHANGED <<participants, purchases, stuck>>

(* An edit of the course without a contract, or its deletion. *)
DeleteContract(h) ==
    /\ Begin(h, [Idle EXCEPT !.pc = "delete"])
    /\ UNCHANGED <<contracts, participants, purchases, created, stuck>>

DeleteMany(h) ==
    /\ req[h].pc = "delete"
    /\ contracts' = {}
    /\ Done(h)
    /\ UNCHANGED <<participants, purchases, created, stuck>>

-----------------------------------------------------------------------------
(* A purchase starts without an agreement. *)
BuyCourse(u) ==
    /\ purchases[u] = "none"
    /\ purchases' = [purchases EXCEPT ![u] = "unsigned"]
    /\ UNCHANGED <<contracts, participants, req, created, stuck>>

Signed(u, k) == participants[u][k] > 0
SignedAny(u) == \E k \in ContractIds : Signed(u, k)

(* HasCourseGuard asks for the purchase; the time of access is in CourseAccess. *)
HasCourse(u) == purchases[u] # "none"

(* Mutant: a user signs once, whatever contract the course has by now. *)
CheckAny(u, k) == SignedAny(u)

(* A participant is looked for by user, course and contract. *)
CheckSign(u, k) == Signed(u, k)

(* POST contract/sign: the contract is read, the participant looked for, then saved, *)
(* then the flag set; the mails that follow change nothing here.                     *)
SignContract(h, u) ==
    /\ HasCourse(u) /\ contracts # {}
    /\ Begin(h, [pc |-> "sign", user |-> u, contract |-> GetContract])
    /\ UNCHANGED <<contracts, participants, purchases, created, stuck>>

RefuseSigned(h) ==
    LET r == req[h]
    IN  /\ r.pc = "sign"
        /\ IF CheckSign(r.user, r.contract) THEN Done(h) ELSE Goto(h, "save")
        /\ UNCHANGED <<contracts, participants, purchases, created, stuck>>

SaveParticipant(h) ==
    LET r == req[h]
    IN  /\ r.pc = "save"
        /\ participants' = [participants EXCEPT ![r.user][r.contract] = @ + 1]
        /\ Goto(h, "agree")
        /\ UNCHANGED <<contracts, purchases, created, stuck>>

Agree(h) ==
    LET r == req[h]
    IN  /\ r.pc = "agree"
        /\ purchases' = [purchases EXCEPT ![r.user] = "signed"]
        /\ stuck' = stuck \ {r.user}
        /\ Done(h)
        /\ UNCHANGED <<contracts, participants, created>>

(* A call fails or the process dies: what was written stays, a participant without *)
(* the flag among it.                                                              *)
Cut(h) ==
    LET r == req[h]
    IN  /\ r # Idle
        /\ stuck' = IF r.pc = "agree" /\ purchases[r.user] # "signed" THEN stuck \cup {r.user} ELSE stuck
        /\ Done(h)
        /\ UNCHANGED <<contracts, participants, purchases, created>>

Next ==
    \/ \E h \in Handlers :
          \/ UpdateContract(h) \/ UpdateInPlace(h) \/ CreateMissing(h)
          \/ DeleteContract(h) \/ DeleteMany(h)
          \/ \E u \in Users : SignContract(h, u)
          \/ RefuseSigned(h) \/ SaveParticipant(h) \/ Agree(h)
          \/ Cut(h)
    \/ \E u \in Users : BuyCourse(u)

Spec == Init /\ [][Next]_vars

-----------------------------------------------------------------------------
(* What the routes answer a buyer: getContractDetails and downloadContract need the *)
(* flag, the contract the course has now and a participant of it.                   *)
Readable(u) ==
    purchases[u] = "signed" /\ contracts # {} /\ Signed(u, GetContract)

Signable(u) ==
    HasCourse(u) /\ contracts # {} /\ ~CheckSign(u, GetContract)

-----------------------------------------------------------------------------
(* Every variable has its type. *)
TypeOK ==
    /\ contracts \subseteq ContractIds
    /\ created \in 0..MaxContracts
    /\ participants \in Participants
    /\ purchases \in [Users -> Flags]
    /\ stuck \subseteq Users
    /\ req \in [Handlers -> Requests]

(* A buyer of a course with a contract can sign it or can read the one she signed, *)
(* however contracts are replaced under her: not both refused.  Stuck are those    *)
(* whose signing was cut after the participant was saved.                          *)
NeverStuck ==
    \A u \in Users \ stuck :
        HasCourse(u) /\ contracts # {} =>
            \/ Signable(u) \/ Readable(u)
            \/ \E h \in Handlers : req[h].user = u /\ req[h].pc = "agree"

=============================================================================
