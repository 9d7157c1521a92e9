------------------------------ MODULE Catalog ------------------------------
(***************************************************************************)
(* The products of the shop, their bin and their promo codes, as the       *)
(* administrators' routes (admin/products, admin/promo-code) and the TTL   *)
(* index of the database change them.  A route that makes one write is one *)
(* action; restoring and deleting for good treat one collection after the  *)
(* other, so a handler keeps what it has left to do and may be cut short.  *)
(***************************************************************************)
EXTENDS Naturals, FiniteSets

CONSTANTS
    Products,       \* ids of products, of every collection
    KindOf,         \* the collection of each
    Codes,          \* promo codes; a name stands for the document
    Handlers,       \* restore and delete-forever requests served at once
    Keep,           \* days a product stays in the bin, 30 in the code
    None

Kinds    == {"webinars", "meditations", "guidesAndBooks", "gifts"}
Statuses == {"PUBLISHED", "HIDDEN"}     \* a DRAFT is no more on sale than a hidden product

(* The collections ProductArrayValidationSchema admits: never a gift. *)
Admitted == Kinds \ {"gifts"}

ASSUME KindAssumption == KindOf \in [Products -> Kinds]
ASSUME KeepAssumption == Keep \in Nat
ASSUME NoneAssumption == None \notin Nat \cup Products

VARIABLES
    products,   \* the product documents
    codes,      \* the product a promo code is for (refId), None if there is no such code
    admin,      \* the handlers of the bin's requests
    binned,     \* history: days since the product was last put in the bin
    restored,   \* history: products the bin's restore route brought back
    uncascaded, \* history: products gone without their codes being deleted
    late        \* history: codes written when their product was gone

historyVars == <<binned, restored, uncascaded, late>>
vars == <<products, codes, admin, historyVars>>

-----------------------------------------------------------------------------
(* expiredAt counts the days that are left, so that time needs no bound. *)
Documents == [state : {"unborn", "stored", "gone"}, toDelete : BOOLEAN,
              expiredAt : 0..Keep \cup {None}, status : Statuses]

Requests == [pc : {"idle", "restore", "remove", "codes"}, todo : SUBSET Products]
Idle == [pc |-> "idle", todo |-> {}]

Created == {p \in Products : products[p].state # "unborn"}
Stored  == {p \in Products : products[p].state = "stored"}

(* The first collection, in the order of the code, with products left to treat;  *)
(* gifts, the last one, are in no body.                                          *)
FirstKind(T) ==
    LET present == {KindOf[p] : p \in T}
    IN  CASE "webinars" \in present    -> "webinars"
          [] "meditations" \in present -> "meditations"
          [] OTHER                     -> "guidesAndBooks"
Batch(T) == {p \in T : KindOf[p] = FirstKind(T)}

(* What the public pages show. *)
Listed(p) == /\ products[p].state = "stored"
             /\ ~products[p].toDelete
             /\ products[p].status = "PUBLISHED"

-----------------------------------------------------------------------------
Init ==
    /\ products = [p \in Products |-> [state |-> "unborn", toDelete |-> FALSE,
                                       expiredAt |-> None, status |-> "HIDDEN"]]
    /\ codes = [c \in Codes |-> None]
    /\ admin = [h \in Handlers |-> Idle]
    /\ binned = [p \in Products |-> 0]
    /\ restored = {}
    /\ uncascaded = {}
    /\ late = {}

Create(p, status) ==
    /\ products[p].state = "unborn"
    /\ products' = [products EXCEPT ![p].state = "stored", ![p].status = status]
    /\ UNCHANGED <<codes, admin, historyVars>>

(* Mutant: with upsert, like editPromoCode. *)
WithStatusUpsert(doc, status) == [doc EXCEPT !.state = "stored", !.status = status]

(* findOneAndUpdate without upsert: a document that is gone stays gone. *)
WithStatus(doc, status) ==
    IF doc.state = "stored" THEN [doc EXCEPT !.status = status] ELSE doc

(* editWebinar and its siblings, and the routes that change only the status;  *)
(* the other fields are not told apart.                                        *)
Edit(p, status) ==
    /\ p \in Created
    /\ products' = [products EXCEPT ![p] = WithStatus(@, status)]
    /\ UNCHANGED <<codes, admin, historyVars>>

(* Mutant: a deadline that is there already is kept. *)
ToggledKeepingDeadline(doc) ==
    [doc EXCEPT !.toDelete = ~doc.toDelete,
                !.expiredAt = IF doc.toDelete THEN None ELSE IF @ = None THEN Keep ELSE @]

(* Mutant: taking a product out of the bin leaves its deadline. *)
ToggledOutWithDeadline(doc) ==
    [doc EXCEPT !.toDelete = ~doc.toDelete, !.expiredAt = IF doc.toDelete THEN @ ELSE Keep]

(* Mutant: the condition is read after the flag is set. *)
ToggledThenDated(doc) ==
    [doc EXCEPT !.toDelete = ~doc.toDelete, !.expiredAt = IF doc.toDelete THEN Keep ELSE None]

(* The pipeline of the delete routes: both fields are read before either is set. *)
Toggled(doc) ==
    [doc EXCEPT !.toDelete = ~doc.toDelete,
                !.expiredAt = IF doc.toDelete THEN None ELSE Keep]

Delete(p) ==
    /\ p \in Stored
    /\ products' = [products EXCEPT ![p] = Toggled(@)]
    /\ binned' = [binned EXCEPT ![p] = 0]
    /\ restored' = restored \ {p}
    /\ UNCHANGED <<codes, admin, uncascaded, late>>

-----------------------------------------------------------------------------
(* A body the validation lets through; the ids may be of products no longer  *)
(* in the bin, or no longer there, when the request arrives.                 *)
Bodies == (SUBSET {p \in Created : KindOf[p] \in Admitted}) \ {{}}

Request(h, pc, body) ==
    /\ admin[h] = Idle
    /\ admin' = [admin EXCEPT ![h] = [pc |-> pc, todo |-> body]]
    /\ UNCHANGED <<products, codes, historyVars>>

(* Mutant: the answer is sent after the first collection. *)
ContinueAnswered(h, pc) ==
    LET left == admin[h].todo \ Batch(admin[h].todo)
    IN  admin' = [admin EXCEPT ![h] = [pc |-> "idle", todo |-> left]]

(* What is left after a batch; the answer is sent when nothing is. *)
Continue(h, pc) ==
    LET left == admin[h].todo \ Batch(admin[h].todo)
    IN  admin' = [admin EXCEPT ![h] = IF left = {} THEN Idle ELSE [pc |-> pc, todo |-> left]]

Unbinned(doc) == [doc EXCEPT !.toDelete = FALSE]

RestoreBatch(h) ==
    LET batch == Batch(admin[h].todo) \cap Stored
    IN  /\ admin[h].pc = "restore"
        /\ products' = [p \in Products |-> IF p \in batch THEN Unbinned(products[p]) ELSE products[p]]
        /\ restored' = restored \cup {p \in batch : products[p].toDelete}
        /\ Continue(h, "restore")
        /\ UNCHANGED <<codes, binned, uncascaded, late>>

RemoveBatch(h) ==
    LET batch == Batch(admin[h].todo)
    IN  /\ admin[h].pc = "remove"
        /\ products' = [p \in Products |-> IF p \in batch THEN [products[p] EXCEPT !.state = "gone"]
                                                          ELSE products[p]]
        /\ admin' = [admin EXCEPT ![h].pc = "codes"]
        /\ UNCHANGED <<codes, historyVars>>

(* Mutant: always the ids of guides and books, as restoreProducts has it for gifts. *)
CascadeOfGuides(T) == {c \in Codes : codes[c] \in {p \in T : KindOf[p] = "guidesAndBooks"}}

(* deleteByRefIdPromoCodes, with the ids of the collection just treated. *)
Cascade(T) == {c \in Codes : codes[c] \in Batch(T)}

RemoveCodes(h) ==
    LET removed == Cascade(admin[h].todo)
    IN  /\ admin[h].pc = "codes"
        /\ codes' = [c \in Codes |-> IF c \in removed THEN None ELSE codes[c]]
        /\ late' = late \ removed
        /\ uncascaded' = uncascaded \ Batch(admin[h].todo)
        /\ Continue(h, "remove")
        /\ UNCHANGED <<products, binned, restored>>

(* A write of the database fails, or the process dies: nothing takes the request up again. *)
Cut(h) ==
    /\ admin[h] # Idle
    /\ admin' = [admin EXCEPT ![h] = Idle]
    /\ uncascaded' = IF admin[h].pc = "codes" THEN uncascaded \cup Batch(admin[h].todo)
                                              ELSE uncascaded
    /\ UNCHANGED <<products, codes, binned, restored, late>>

-----------------------------------------------------------------------------
(* The body names any product that there has been. *)
WriteCode(c, p) ==
    /\ p \in Created
    /\ codes' = [codes EXCEPT ![c] = p]
    /\ late' = IF p \in Stored THEN late \ {c} ELSE late \cup {c}
    /\ UNCHANGED <<products, admin, binned, restored, uncascaded>>

(* name is unique: a second code of that name is refused. *)
CreateCode(c, p) == codes[c] = None /\ WriteCode(c, p)

(* With upsert: an edit of a code that was deleted meanwhile brings it back. *)
EditCode(c, p) == WriteCode(c, p)

DeleteCode(c) ==
    /\ codes[c] # None
    /\ codes' = [codes EXCEPT ![c] = None]
    /\ late' = late \ {c}
    /\ UNCHANGED <<products, admin, binned, restored, uncascaded>>

-----------------------------------------------------------------------------
(* A day passes. *)
DayOver(doc) == IF doc.expiredAt \in 1..Keep THEN [doc EXCEPT !.expiredAt = @ - 1] ELSE doc

Tick ==
    /\ \E p \in Stored : products[p].expiredAt \in 1..Keep
    /\ products' = [p \in Products |-> IF p \in Stored THEN DayOver(products[p]) ELSE products[p]]
    /\ binned' = [p \in Products |-> IF binned[p] < Keep THEN binned[p] + 1 ELSE binned[p]]
    /\ UNCHANGED <<codes, admin, restored, uncascaded, late>>

(* The TTL index (expires: 0) removes a document whose expiredAt has passed. *)
Expire(p) ==
    /\ p \in Stored
    /\ products[p].expiredAt = 0
    /\ products' = [products EXCEPT ![p].state = "gone"]
    /\ uncascaded' = uncascaded \cup {p}
    /\ UNCHANGED <<codes, admin, binned, restored, late>>

-----------------------------------------------------------------------------
Next ==
    \/ \E p \in Products, status \in Statuses : Create(p, status) \/ Edit(p, status)
    \/ \E p \in Products : Delete(p) \/ Expire(p)
    \/ \E h \in Handlers :
          \/ \E body \in Bodies : Request(h, "restore", body) \/ Request(h, "remove", body)
          \/ RestoreBatch(h) \/ RemoveBatch(h) \/ RemoveCodes(h) \/ Cut(h)
    \/ \E c \in Codes, p \in Products : CreateCode(c, p) \/ EditCode(c, p)
    \/ \E c \in Codes : DeleteCode(c)
    \/ Tick

(* Days pass, and the database looks for expired documents every minute. *)
Fairness == WF_vars(Tick) /\ \A p \in Products : WF_vars(Expire(p))

Spec == Init /\ [][Next]_vars /\ Fairness

-----------------------------------------------------------------------------
(* Every variable has its type; a handler has a pc as long as it has something to do. *)
TypeOK ==
    /\ products \in [Products -> Documents]
    /\ codes \in [Codes -> Products \cup {None}]
    /\ admin \in [Handlers -> Requests]
    /\ \A h \in Handlers : admin[h].pc = "idle" <=> admin[h].todo = {}
    /\ binned \in [Products -> 0..Keep]
    /\ restored \subseteq Products /\ uncascaded \subseteq Products /\ late \subseteq Codes

RemovedByTime(p) == p \in Stored /\ p \notin Stored' /\ UNCHANGED admin

(* The bin gives its full grace: however often a product goes in and out by   *)
(* either route, time removes it no sooner than Keep days after the last time *)
(* it was put in (a leftover deadline is never taken over).                   *)
GraceKept == [][\A p \in Products : RemovedByTime(p) /\ products[p].toDelete => binned[p] = Keep]_vars

(* A product the public pages show is taken off by time only if the bin's   *)
(* restore route brought it back: toggling it out of the bin, editing it or *)
(* a cut request never leaves it with a deadline.                           *)
OnSaleStays == [][\A p \in Products : Listed(p) /\ RemovedByTime(p) => p \in restored]_vars

(* A product that was deleted, by request or by time, never comes back: no *)
(* edit, toggle or restore that was under way re-creates its document.     *)
NeverReturns == [][\A p \in Products : products[p].state = "gone" => products'[p].state = "gone"]_vars

(* Codes go with their product: a code left without one was written when the  *)
(* product had already gone, or time took the product, or the request that    *)
(* deleted it was cut short or has the product's codes still before it.       *)
CodesGoToo ==
    \A c \in Codes :
        codes[c] \in Products \ Stored =>
            \/ c \in late
            \/ codes[c] \in uncascaded
            \/ \E h \in Handlers : admin[h].pc = "codes" /\ codes[c] \in Batch(admin[h].todo)

(* The bin empties itself: a product that is put in does not stay there for good. *)
InBin(p) == p \in Stored /\ products[p].toDelete
BinEmptied == \A p \in Products : InBin(p) ~> ~InBin(p)

(* What "restore selected product(s)" promises: time takes only what is in *)
(* the bin.  The code leaves expiredAt in place and the index acts on it.  *)
RestoredStays == [][\A p \in Products : RemovedByTime(p) => products[p].toDelete]_vars

(* Claims the code does not keep: that only what is in the bin is deleted for *)
(* good (deleteMany filters by id alone), and that a deleted code stays away. *)
OnlyTheBinIsDeleted ==
    [][\A p \in Stored : p \notin Stored' => products[p].toDelete]_vars
NoCodeOfTheGone == \A c \in Codes : codes[c] # None => codes[c] \in Stored

=============================================================================
