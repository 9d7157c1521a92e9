------------------------------ MODULE Payments ------------------------------
(***************************************************************************)
(* Orders of the shop: payments.service.ts with the routes and the guard   *)
(* in front of it.  A handler is an async function of one Node process, so *)
(* it runs without interruption up to an await and other handlers run      *)
(* there; every action below is one such stretch, named for the call it    *)
(* makes.  The payment provider, the buyers and the administrators are the *)
(* environment.  A crash forgets the handlers; the database survives it.   *)
(***************************************************************************)
EXTENDS Naturals, FiniteSets

CONSTANTS
    Users,            \* the accounts there are or may come to be
    Emails,           \* addresses
    Items,            \* documents that can be bought
    ProductTypeOf,    \* "webinar", "meditation", "guide" or "course"
    Uuids, Millis,    \* order references: `order_${uuid()}`, `order_${Date.now()}`
    Requests,         \* create-payment requests being served at once
    Callbacks,        \* provider callbacks being served at once
    Transactions,     \* transactionStatus values the provider uses
    Bearers,          \* what a callback carries to the guard: "token", "none"
    Moves,            \* what the rest of the system does meanwhile
    MaxFaults,        \* bound: crashes, failed publishes and lost replies
    None

Products == {i \in Items : ProductTypeOf[i] # "course"}
Courses  == {i \in Items : ProductTypeOf[i] = "course"}
Refs     == Uuids \cup Millis
Reports  == Refs \X Transactions

ProductTypes == {"webinar", "meditation", "guide", "course"}
Status  == {"ABSENT", "PENDING", "APPROVED", "DECLINED"}
Phases  == {"none", "scheduled", "active", "lapsed"}
Plans   == {"FULL", "PARTIAL"}

ASSUME TypesAssumption == ProductTypeOf \in [Items -> ProductTypes]
ASSUME RefsAssumption == Uuids \cap Millis = {}
ASSUME TransactionsAssumption ==
    Transactions \subseteq {"Approved", "Declined", "InProcessing"}
ASSUME NoneAssumption ==
    None \notin Users \cup Emails \cup Items \cup Refs \cup Transactions \cup {"Approved", "Declined"}
ASSUME FaultsAssumption == MaxFaults \in Nat

VARIABLES
    accounts,         \* users: the address of each account, None before it is made
    catalog,          \* items whose document exists
    discount,         \* phase of the discount document of each item
    orders,           \* purchases: the order stored under each reference
    holdings,         \* productPurchases: <<user, product>> entitlements
    enrolments,       \* coursePurchases: [userId, courseId, paymentPlan]
    req,              \* the create-payment handlers
    forms,            \* references whose payment form reached the buyer
    cb,               \* the callback handlers
    reported,         \* what the provider has decided, <<reference, transaction>>
    unacked,          \* reports not yet answered 'accept', so sent again
    announced,        \* messages published on payment:<reference>
    faults,           \* faults so far, at most MaxFaults
    context,          \* history: what was true when an order's request came in
    held              \* history: every status an order has had

shopVars    == <<accounts, catalog, discount, holdings, enrolments>>
orderVars   == <<orders, context, held>>
requestVars == <<req, forms>>
outsideVars == <<reported, unacked, announced>>
vars == <<shopVars, orderVars, requestVars, cb, outsideVars, faults>>

-----------------------------------------------------------------------------
(* Records *)

Contexts == [rivals : SUBSET Refs, registered : BOOLEAN,
             owned : BOOLEAN, full : BOOLEAN, phase : Phases]
NoContext == [rivals |-> {}, registered |-> FALSE, owned |-> FALSE,
              full |-> FALSE, phase |-> "none"]

Orders == [status : Status, tx : Transactions \cup {None}, processed : BOOLEAN,
           email : Emails \cup {None}, user : Users \cup {None},
           item : Items \cup {None}, reduced : BOOLEAN]
NoOrder == [status |-> "ABSENT", tx |-> None, processed |-> FALSE,
            email |-> None, user |-> None, item |-> None, reduced |-> FALSE]

RequestSteps == {"idle", "details", "discount", "type", "account", "existing",
                 "holding", "create", "courseData", "plan", "open",
                 "courseDiscount", "courseCreate", "respond"}
Outcomes == {"none", "form", "missing", "promo", "account", "pending",
             "declined", "approved", "held", "plan", "duplicate"}
Handlers == [pc : RequestSteps, outcome : Outcomes, email : Emails \cup {None},
             user : Users \cup {None}, address : Emails \cup {None},
             item : Items \cup {None}, reduced : BOOLEAN, ref : Refs \cup {None},
             ctx : Contexts]
IdleRequest == [pc |-> "idle", outcome |-> "none", email |-> None, user |-> None,
                address |-> None, item |-> None, reduced |-> FALSE, ref |-> None, ctx |-> NoContext]

CallbackSteps == {"idle", "find", "save", "account", "grant", "publish", "reply"}
Answers == {"none", "unauthorized", "invalid", "error", "accept"}
Deliveries == [pc : CallbackSteps, answer : Answers, ref : Refs \cup {None},
               tx : Transactions \cup {None}, signed : BOOLEAN,
               oldStatus : Status, oldTx : Transactions \cup {None}, status : Status,
               buyer : Users \cup {None}]
IdleCallback == [pc |-> "idle", answer |-> "none", ref |-> None, tx |-> None,
                 signed |-> FALSE, oldStatus |-> "ABSENT", oldTx |-> None,
                 status |-> "ABSENT", buyer |-> None]

Enrolments == [userId : Users, courseId : Courses, paymentPlan : Plans]

-----------------------------------------------------------------------------
(* Queries on the database *)

Placed == {r \in Refs : orders[r].status # "ABSENT"}

(* userModel.findOne({email}) finds someone. *)
Registered(email) == \E user \in Users : accounts[user] = email

(* purchaseModel.findOne({clientEmail, productId}): any one of these. *)
OrdersFor(email, item) ==
    {r \in Placed : orders[r].email = email /\ orders[r].item = item}

(* coursePurchaseModel.findOne({userId, courseId}) as getCoursePurchaseData
   passes its two parameters on. *)
GetCoursePurchaseData(userId, courseId) ==
    {d \in enrolments : d.userId = userId /\ d.courseId = courseId}

(* The discount window test of createPayment. *)
IsUseDiscount(item) == discount[item] = "active"

(* createCourseSSKPayment takes any discount document it finds. *)
HasDiscount(item) == discount[item] # "none"

(* productPurchase accepts only these targetModule values ... *)
TargetModules == {"Webinar", "Meditation", "GuidesAndBooks"}
(* ... and processBusinessLogic offers the order's productType. *)
TargetModule(item) == ProductTypeOf[item]

-----------------------------------------------------------------------------
(* createPayment, createCourseSSKPayment, createCONS_ADVPayment *)

Busy == {h \in Requests : req[h].pc # "idle"}

(* Bound: no more requests than references left for them. *)
RefsLeft == Cardinality(Refs \ Placed) > Cardinality(Busy)

ContextOf(email, user, item) ==
    [rivals |-> OrdersFor(email, item),
     registered |-> Registered(email),
     owned |-> <<user, item>> \in holdings,
     full |-> \E d \in enrolments :
                 d.userId = user /\ d.courseId = item /\ d.paymentPlan = "FULL",
     phase |-> "none"]

Goto(h, pc) == req' = [req EXCEPT ![h].pc = pc]
Refuse(h, why) ==
    req' = [req EXCEPT ![h] = [IdleRequest EXCEPT !.outcome = why, !.email = req[h].email,
                                                  !.item = req[h].item]]

(* POST product/create: the guard lets a buyer in with or without a token, and
   hands his account on as it is stored now; the body names the address to buy
   for. *)
ReceiveProduct(h, email, user, item) ==
    /\ req[h].pc = "idle"
    /\ RefsLeft
    /\ user # None => accounts[user] # None
    /\ item \in Products
    /\ req' = [req EXCEPT ![h] =
                 [IdleRequest EXCEPT !.pc = "details", !.email = email, !.user = user,
                    !.address = IF user = None THEN None ELSE accounts[user],
                    !.item = item, !.ctx = ContextOf(email, user, item)]]
    /\ UNCHANGED <<shopVars, orderVars, forms, cb, outsideVars, faults>>

(* POST education/createSSK and createCONS_ADV: a token is required and the
   order goes to the address of its owner. *)
ReceiveCourse(h, user, item) ==
    /\ req[h].pc = "idle"
    /\ RefsLeft
    /\ accounts[user] # None
    /\ item \in Courses
    /\ req' = [req EXCEPT ![h] =
                 [IdleRequest EXCEPT !.pc = "courseData", !.email = accounts[user],
                    !.user = user, !.address = accounts[user], !.item = item,
                    !.ctx = ContextOf(accounts[user], user, item)]]
    /\ UNCHANGED <<shopVars, orderVars, forms, cb, outsideVars, faults>>

GetProductDetails(h) ==
    /\ req[h].pc = "details"
    /\ IF req[h].item \in catalog THEN Goto(h, "discount") ELSE Refuse(h, "missing")
    /\ UNCHANGED <<shopVars, orderVars, forms, cb, outsideVars, faults>>

(* findDiscount, and validatePromoCode when the body has a code: a code is a
   fact about nothing else in this module, so its check may go either way. *)
PriceProduct(h) ==
    /\ req[h].pc = "discount"
    /\ \/ req' = [req EXCEPT ![h].pc = "type",
                             ![h].reduced = IsUseDiscount(req[h].item),
                             ![h].ctx.phase = discount[req[h].item]]
       \/ Refuse(h, "promo")
    /\ UNCHANGED <<shopVars, orderVars, forms, cb, outsideVars, faults>>

(* Only a buyer whose own address is the one to buy for orders as a user: his
   address as the guard loaded it, whatever it is by now. *)
OwnAddress(h) == req[h].user # None /\ req[h].address = req[h].email

(* Mutant: a guest's address is not looked up among the accounts. *)
GetProductTypeSkippingAccount(h) ==
    /\ req[h].pc = "type"
    /\ IF req[h].item \in catalog THEN Goto(h, "existing") ELSE Refuse(h, "missing")
    /\ UNCHANGED <<shopVars, orderVars, forms, cb, outsideVars, faults>>

GetProductType(h) ==
    /\ req[h].pc = "type"
    /\ IF req[h].item \in catalog
         THEN Goto(h, IF OwnAddress(h) THEN "existing" ELSE "account")
         ELSE Refuse(h, "missing")
    /\ UNCHANGED <<shopVars, orderVars, forms, cb, outsideVars, faults>>

CheckExistingUser(h) ==
    /\ req[h].pc = "account"
    /\ IF Registered(req[h].email) THEN Refuse(h, "account") ELSE Goto(h, "existing")
    /\ UNCHANGED <<shopVars, orderVars, forms, cb, outsideVars, faults>>

(* Mutant: the stored status is the answer. *)
RefusalForRaw(status) == status

(* The outcome a found order gives the request that found it. *)
RefusalFor(status) ==
    [PENDING |-> "pending", DECLINED |-> "declined", APPROVED |-> "approved"][status]

CheckExistingPurchase(h) ==
    LET found == OrdersFor(req[h].email, req[h].item) IN
    /\ req[h].pc = "existing"
    /\ \/ /\ found = {}
          /\ Goto(h, IF OwnAddress(h) THEN "holding" ELSE "create")
       \/ \E r \in found : Refuse(h, RefusalFor(orders[r].status))
    /\ UNCHANGED <<shopVars, orderVars, forms, cb, outsideVars, faults>>

CheckHolding(h) ==
    /\ req[h].pc = "holding"
    /\ IF <<req[h].user, req[h].item>> \in holdings
         THEN Refuse(h, "held")
         ELSE Goto(h, "create")
    /\ UNCHANGED <<shopVars, orderVars, forms, cb, outsideVars, faults>>

(* purchaseModel.create: the document is stored when its await begins and the
   handler learns of it later, in Respond. *)
InsertOrder(h, ref, user) ==
    /\ orders' = [orders EXCEPT ![ref] =
                    [NoOrder EXCEPT !.status = "PENDING", !.email = req[h].email,
                       !.user = user, !.item = req[h].item, !.reduced = req[h].reduced]]
    /\ context' = [context EXCEPT ![ref] = req[h].ctx]
    /\ held' = [held EXCEPT ![ref] = {"PENDING"}]
    /\ req' = [req EXCEPT ![h].pc = "respond", ![h].ref = ref]
    /\ UNCHANGED <<shopVars, forms, cb, outsideVars, faults>>

(* A fresh uuid; the order of a guest names no user. *)
CreateProductOrder(h, ref) ==
    /\ req[h].pc = "create"
    /\ ref \in Uuids \ Placed
    /\ InsertOrder(h, ref, IF OwnAddress(h) THEN req[h].user ELSE None)

GetCourseData(h) ==
    /\ req[h].pc = "courseData"
    /\ IF req[h].item \in catalog THEN Goto(h, "plan") ELSE Refuse(h, "missing")
    /\ UNCHANGED <<shopVars, orderVars, forms, cb, outsideVars, faults>>

(* The call is getCoursePurchaseData(id, user._id): course first, user second. *)
CheckPaymentPlan(h) ==
    /\ req[h].pc = "plan"
    /\ IF \E d \in GetCoursePurchaseData(req[h].item, req[h].user) : d.paymentPlan = "FULL"
         THEN Refuse(h, "plan")
         ELSE Goto(h, "open")
    /\ UNCHANGED <<shopVars, orderVars, forms, cb, outsideVars, faults>>

(* Mutant: an order that is paid stands in nobody's way. *)
StandsInWayPending(r) == orders[r].status = "PENDING"

(* A course order that stands in the way of another; a DECLINED one does not. *)
StandsInWay(r) == orders[r].status \in {"PENDING", "APPROVED"}

(* findOne shows one order of this buyer, whichever it is. *)
CheckCoursePurchase(h) ==
    LET found == OrdersFor(req[h].email, req[h].item) IN
    /\ req[h].pc = "open"
    /\ \/ /\ found = {} \/ \E r \in found : ~StandsInWay(r)
          /\ Goto(h, "courseDiscount")
       \/ \E r \in found : StandsInWay(r) /\ Refuse(h, RefusalFor(orders[r].status))
    /\ UNCHANGED <<shopVars, orderVars, forms, cb, outsideVars, faults>>

PriceCourse(h) ==
    /\ req[h].pc = "courseDiscount"
    /\ req' = [req EXCEPT ![h].pc = "courseCreate",
                          ![h].reduced = HasDiscount(req[h].item),
                          ![h].ctx.phase = discount[req[h].item]]
    /\ UNCHANGED <<shopVars, orderVars, forms, cb, outsideVars, faults>>

(* The reference is the clock: two requests of one millisecond collide, and
   the unique index on orderReference rejects the second. *)
CreateCourseOrder(h, ref) ==
    /\ req[h].pc = "courseCreate"
    /\ ref \in Millis
    /\ \/ ref \notin Placed /\ InsertOrder(h, ref, req[h].user)
       \/ /\ ref \in Placed
          /\ Refuse(h, "duplicate")
          /\ UNCHANGED <<shopVars, orderVars, forms, cb, outsideVars, faults>>

(* The signed payment form goes back to the buyer. *)
RespondForm(h) ==
    /\ req[h].pc = "respond"
    /\ forms' = forms \cup {req[h].ref}
    /\ Refuse(h, "form")
    /\ UNCHANGED <<shopVars, orderVars, cb, outsideVars, faults>>

RequestStep(h) ==
    \/ GetProductDetails(h) \/ PriceProduct(h) \/ GetProductType(h)
    \/ CheckExistingUser(h) \/ CheckExistingPurchase(h) \/ CheckHolding(h)
    \/ GetCourseData(h) \/ CheckPaymentPlan(h) \/ CheckCoursePurchase(h) \/ PriceCourse(h)
    \/ \E ref \in Refs : CreateProductOrder(h, ref) \/ CreateCourseOrder(h, ref)
    \/ RespondForm(h)

ReceiveRequest(h) ==
    \E item \in Items :
        \/ \E email \in Emails, user \in Users \cup {None} :
              ReceiveProduct(h, email, user, item)
        \/ \E user \in Users : ReceiveCourse(h, user, item)

-----------------------------------------------------------------------------
(* handleCallback *)

(* The verdict a transaction status stands for: only two of them change the
   order, and the answer to the buyer knows no third one. *)
Decision(tx) == IF tx = "Approved" THEN "APPROVED" ELSE "DECLINED"
Decides(tx) == tx \in {"Approved", "Declined"}

(* The payment provider settles an attempt to pay a form.  Money it has taken
   it does not decline afterwards; it may report other states of it. *)
ProviderReports(ref, tx) ==
    /\ ref \in forms
    /\ <<ref, tx>> \notin reported
    /\ tx = "Declined" => <<ref, "Approved">> \notin reported
    /\ reported' = reported \cup {<<ref, tx>>}
    /\ unacked' = unacked \cup {<<ref, tx>>}
    /\ UNCHANGED <<shopVars, orderVars, requestVars, cb, announced, faults>>

CallbackIdle(w) == cb[w].pc = "idle"

(* AuthGuard.canActivate: the callback route is neither public nor optional, so
   a caller without a token of this system, as the provider is one, gets 401 and
   no further. *)
Admit(w, ref, tx, signed, bearer) ==
    cb' = [cb EXCEPT ![w] =
             IF bearer = "none"
               THEN [IdleCallback EXCEPT !.answer = "unauthorized"]
               ELSE [IdleCallback EXCEPT !.pc = "find", !.ref = ref, !.tx = tx,
                                         !.signed = signed]]

(* The provider sends a report it has no 'accept' for, for the first time or again. *)
Deliver(w, report) ==
    /\ CallbackIdle(w)
    /\ report \in unacked
    /\ \E bearer \in Bearers : Admit(w, report[1], report[2], TRUE, bearer)
    /\ UNCHANGED <<shopVars, orderVars, requestVars, outsideVars, faults>>

(* A body whose signature does not fit it. *)
DeliverUnsigned(w, ref, tx) ==
    /\ "unsigned" \in Moves
    /\ CallbackIdle(w)
    /\ \E bearer \in Bearers : Admit(w, ref, tx, FALSE, bearer)
    /\ UNCHANGED <<shopVars, orderVars, requestVars, outsideVars, faults>>

Answer(w, answer) == cb' = [cb EXCEPT ![w] = [IdleCallback EXCEPT !.answer = answer]]
Step(w, pc) == cb' = [cb EXCEPT ![w].pc = pc]

(* Mutant: an order that is processed already needs no second look. *)
FindPurchaseOnce(w) ==
    /\ cb[w].pc = "find"
    /\ orders[cb[w].ref].status # "ABSENT" /\ cb[w].signed
    /\ cb' = [cb EXCEPT ![w].pc = IF orders[cb[w].ref].processed THEN "publish" ELSE "save",
                        ![w].oldStatus = orders[cb[w].ref].status,
                        ![w].status = Decision(cb[w].tx)]
    /\ UNCHANGED <<shopVars, orderVars, requestVars, outsideVars, faults>>

(* Mutant: the signature is not compared. *)
FindPurchaseUnsigned(w) ==
    /\ cb[w].pc = "find"
    /\ orders[cb[w].ref].status # "ABSENT"
    /\ cb' = [cb EXCEPT ![w].pc = "save",
                        ![w].oldStatus = orders[cb[w].ref].status,
                        ![w].oldTx = orders[cb[w].ref].tx,
                        ![w].status = Decision(cb[w].tx)]
    /\ UNCHANGED <<shopVars, orderVars, requestVars, outsideVars, faults>>

(* findOne, the signature, and the assignments to the loaded document. *)
FindPurchase(w) ==
    LET order == orders[cb[w].ref]
        tx    == cb[w].tx
    IN
    /\ cb[w].pc = "find"
    /\ \/ order.status = "ABSENT" /\ Answer(w, "error")
       \/ order.status # "ABSENT" /\ ~cb[w].signed /\ Answer(w, "invalid")
       \/ /\ order.status # "ABSENT" /\ cb[w].signed
          /\ cb' = [cb EXCEPT ![w].pc = "save",
                              ![w].oldStatus = order.status,
                              ![w].oldTx = order.tx,
                              ![w].status = IF Decides(tx) THEN Decision(tx)
                                                           ELSE order.status]
    /\ UNCHANGED <<shopVars, orderVars, requestVars, outsideVars, faults>>

(* Mutant: transactionStatus is written the first time only. *)
SavedFirst(old, c) ==
    [old EXCEPT !.processed = TRUE,
                !.tx = IF c.oldTx = None THEN c.tx ELSE @,
                !.status = IF c.status # c.oldStatus THEN c.status ELSE @]

(* save() writes the fields that differ from the loaded document, no others. *)
Saved(old, c) ==
    [old EXCEPT !.processed = TRUE,
                !.tx = IF c.tx # c.oldTx THEN c.tx ELSE @,
                !.status = IF c.status # c.oldStatus THEN c.status ELSE @]

SavePurchase(w) ==
    LET c == cb[w]
        new == Saved(orders[c.ref], c)
    IN
    /\ c.pc = "save"
    /\ orders' = [orders EXCEPT ![c.ref] = new]
    /\ held' = [held EXCEPT ![c.ref] = @ \cup {new.status}]
    /\ Step(w, IF c.status = "APPROVED" THEN "account" ELSE "publish")
    /\ UNCHANGED <<shopVars, context, requestVars, outsideVars, faults>>

(* processBusinessLogic looks the buyer's account up by address ... *)
FindAccount(w) ==
    /\ cb[w].pc = "account"
    /\ \/ \E user \in Users :
             /\ accounts[user] = orders[cb[w].ref].email
             /\ cb' = [cb EXCEPT ![w].pc = "grant", ![w].buyer = user]
       \/ ~Registered(orders[cb[w].ref].email) /\ Step(w, "publish")
    /\ UNCHANGED <<shopVars, orderVars, requestVars, outsideVars, faults>>

(* ... and creates the entitlement, which the schema validates first. *)
Grant(w) ==
    LET order == orders[cb[w].ref]
        valid == TargetModule(order.item) \in TargetModules
    IN
    /\ cb[w].pc = "grant"
    /\ IF valid
         THEN /\ holdings' = holdings \cup {<<cb[w].buyer, order.item>>}
              /\ Step(w, "publish")
         ELSE /\ Answer(w, "error")
              /\ UNCHANGED holdings
    /\ UNCHANGED <<accounts, catalog, discount, enrolments>>
    /\ UNCHANGED <<orderVars, requestVars, outsideVars, faults>>

Fault == faults < MaxFaults /\ faults' = faults + 1

(* Publish the verdict on payment:<reference>, or answer 500 without Redis. *)
Publish(w) ==
    /\ cb[w].pc = "publish"
    /\ \/ /\ announced' = announced \cup {<<cb[w].ref, Decision(cb[w].tx)>>}
          /\ Step(w, "reply")
          /\ UNCHANGED faults
       \/ /\ Fault
          /\ Answer(w, "error")
          /\ UNCHANGED announced
    /\ UNCHANGED <<shopVars, orderVars, requestVars, reported, unacked>>

(* The 'accept' answer stops the redelivery, unless it is lost. *)
Reply(w) ==
    /\ cb[w].pc = "reply"
    /\ Answer(w, "accept")
    /\ \/ unacked' = unacked \ {<<cb[w].ref, cb[w].tx>>} /\ UNCHANGED faults
       \/ Fault /\ UNCHANGED unacked
    /\ UNCHANGED <<shopVars, orderVars, requestVars, reported, announced>>

CallbackStep(w) ==
    FindPurchase(w) \/ SavePurchase(w) \/ FindAccount(w) \/ Grant(w)
      \/ Publish(w) \/ Reply(w)

DeliverAny(w) ==
    \/ \E report \in Reports : Deliver(w, report)
    \/ \E ref \in Refs, tx \in Transactions : DeliverUnsigned(w, ref, tx)

-----------------------------------------------------------------------------
(* The process stops and comes back with nothing in memory. *)
Crash ==
    /\ Fault
    /\ req' = [h \in Requests |-> IdleRequest]
    /\ cb' = [w \in Callbacks |-> IdleCallback]
    /\ UNCHANGED <<shopVars, orderVars, forms, outsideVars>>

(* What other requests of the system do to the documents used here: first what
   adds to them or changes them. *)
Register(user, email) ==
    /\ "register" \in Moves
    /\ accounts[user] = None /\ ~Registered(email)
    /\ accounts' = [accounts EXCEPT ![user] = email]
    /\ UNCHANGED <<catalog, discount, holdings, enrolments>>

Unlist(item) ==
    /\ "unlist" \in Moves
    /\ catalog' = catalog \ {item}
    /\ UNCHANGED <<accounts, discount, holdings, enrolments>>

(* An administrator sets or drops a discount, and time passes over it. *)
MoveDiscount(item, phase) ==
    /\ "discount" \in Moves
    /\ <<discount[item], phase>> \in {<<"none", "scheduled">>, <<"none", "active">>,
                                      <<"scheduled", "active">>, <<"active", "lapsed">>,
                                      <<"lapsed", "none">>, <<"active", "none">>}
    /\ discount' = [discount EXCEPT ![item] = phase]
    /\ UNCHANGED <<accounts, catalog, holdings, enrolments>>

AdminGrants(user, item) ==
    /\ "grant" \in Moves
    /\ accounts[user] # None /\ item \in Products
    /\ holdings' = holdings \cup {<<user, item>>}
    /\ UNCHANGED <<accounts, catalog, discount, enrolments>>

AdminEnrols(user, item, plan) ==
    /\ "enrol" \in Moves
    /\ accounts[user] # None /\ item \in Courses
    /\ \A d \in enrolments : d.userId # user \/ d.courseId # item
    /\ enrolments' = enrolments \cup
                       {[userId |-> user, courseId |-> item, paymentPlan |-> plan]}
    /\ UNCHANGED <<accounts, catalog, discount, holdings>>

(* ... then what takes something away.  A request under way came in with it on
   record, so its context forgets it: OrderInTurn is about what was there all
   the time. *)
UpdateUser(user, email) ==
    /\ "readdress" \in Moves
    /\ accounts[user] # None /\ ~Registered(email)
    /\ accounts' = [accounts EXCEPT ![user] = email]
    /\ req' = [h \in Requests |->
                 IF req[h].email = accounts[user]
                   THEN [req[h] EXCEPT !.ctx = [@ EXCEPT !.registered = FALSE]]
                   ELSE req[h]]
    /\ UNCHANGED <<catalog, discount, holdings, enrolments>>

(* The only document of this user and product; deleting one of several leaves
   the entitlement as it is. *)
DeletePurchase(user, item) ==
    /\ "revoke" \in Moves
    /\ <<user, item>> \in holdings
    /\ holdings' = holdings \ {<<user, item>>}
    /\ req' = [h \in Requests |->
                 IF req[h].user = user /\ req[h].item = item
                   THEN [req[h] EXCEPT !.ctx = [@ EXCEPT !.owned = FALSE]]
                   ELSE req[h]]
    /\ UNCHANGED <<accounts, catalog, discount, enrolments>>

Elsewhere ==
    /\ \/ /\ \/ \E user \in Users, email \in Emails : Register(user, email)
             \/ \E item \in Items : Unlist(item)
             \/ \E item \in Items, phase \in Phases : MoveDiscount(item, phase)
             \/ \E user \in Users, item \in Items : AdminGrants(user, item)
             \/ \E user \in Users, item \in Items, plan \in Plans :
                   AdminEnrols(user, item, plan)
          /\ UNCHANGED req
       \/ \E user \in Users, email \in Emails : UpdateUser(user, email)
       \/ \E user \in Users, item \in Items : DeletePurchase(user, item)
    /\ UNCHANGED <<orderVars, forms, cb, outsideVars, faults>>

-----------------------------------------------------------------------------
Init ==
    /\ accounts \in [Users -> Emails \cup {None}]
    /\ \A user, other \in Users :
          accounts[user] = accounts[other] => user = other \/ accounts[user] = None
    /\ catalog = Items
    /\ discount = [item \in Items |-> "none"]
    /\ holdings = {}
    /\ enrolments = {}
    /\ orders = [r \in Refs |-> NoOrder]
    /\ context = [r \in Refs |-> NoContext]
    /\ held = [r \in Refs |-> {}]
    /\ req = [h \in Requests |-> IdleRequest]
    /\ forms = {}
    /\ cb = [w \in Callbacks |-> IdleCallback]
    /\ reported = {} /\ unacked = {} /\ announced = {}
    /\ faults = 0

Next ==
    \/ \E h \in Requests : ReceiveRequest(h) \/ RequestStep(h)
    \/ \E ref \in Refs, tx \in Transactions : ProviderReports(ref, tx)
    \/ \E w \in Callbacks : DeliverAny(w) \/ CallbackStep(w)
    \/ Crash
    \/ Elsewhere

Spec == Init /\ [][Next]_vars

-----------------------------------------------------------------------------
(* Type invariant: every document, handler and message is of the shape the
   schemas and handlers give it. *)
TypeOK ==
    /\ accounts \in [Users -> Emails \cup {None}]
    /\ catalog \subseteq Items
    /\ discount \in [Items -> Phases]
    /\ holdings \subseteq Users \X Items
    /\ enrolments \subseteq Enrolments
    /\ orders \in [Refs -> Orders]
    /\ context \in [Refs -> Contexts]
    /\ held \in [Refs -> SUBSET Status]
    /\ req \in [Requests -> Handlers]
    /\ forms \subseteq Refs
    /\ cb \in [Callbacks -> Deliveries]
    /\ reported \subseteq Reports
    /\ unacked \subseteq Reports
    /\ announced \subseteq Refs \X {"APPROVED", "DECLINED"}
    /\ faults \in 0..MaxFaults

(* A handler at work, and an order that is placed, name what they are about. *)
Filled ==
    /\ \A h \in Requests : req[h].pc # "idle" => req[h].email \in Emails /\ req[h].item \in Items
    /\ \A h \in Requests : req[h].pc = "respond" => req[h].ref \in Placed
    /\ \A w \in Callbacks : cb[w].pc # "idle" => cb[w].ref \in Refs /\ cb[w].tx \in Transactions
    /\ \A w \in Callbacks : cb[w].pc \notin {"idle", "find"} =>
                                 cb[w].ref \in Placed /\ cb[w].status # "ABSENT"
    /\ \A r \in Placed : orders[r].email \in Emails /\ orders[r].item \in Items

(* No order is ever shown paid or refused unless the provider reported just
   that about this very order, however callbacks interleave, repeat or crash,
   and whatever arrives with a signature that does not fit (handleCallback). *)
DecidedByProvider ==
    \A r \in Refs :
        /\ "APPROVED" \in held[r] => <<r, "Approved">> \in reported
        /\ "DECLINED" \in held[r] => <<r, "Declined">> \in reported
        /\ orders[r].tx # None => <<r, orders[r].tx>> \in reported

(* A product order contradicts nothing that was on record from the arrival of
   its request to its insert: no order of the address for the product, no
   account at a guest's address, no entitlement of the user.  Only what other
   requests put there, or took away, meanwhile can slip past the checks of
   createPayment, which are spread over five of its awaits. *)
OrderInTurn ==
    \A r \in Placed : orders[r].item \in Products =>
        /\ context[r].rivals = {}
        /\ orders[r].user = None => ~context[r].registered
        /\ orders[r].user # None => ~context[r].owned

(* A course is ordered again only by a buyer who was declined for it: an order
   made although others of his were on record when its request came in has a
   DECLINED one beside it, so a paid or pending order alone always stands in
   the way (checkCoursePurchase). *)
CourseOrderInTurn ==
    \A r \in Placed :
        (orders[r].item \in Courses /\ context[r].rivals # {}) =>
            \E q \in OrdersFor(orders[r].email, orders[r].item) \ {r} :
                "DECLINED" \in held[q]

(* The stream never announces a verdict ahead of the database: a reference
   with a message is processed, and one announced paid has been APPROVED. *)
AnnouncedAfterSaved ==
    \A m \in announced :
        /\ orders[m[1]].processed
        /\ m[2] = "APPROVED" => "APPROVED" \in held[m[1]]

(* Once the provider has its 'accept' it never sends that report again, so by
   then the verdict must have been recorded and published. *)
AckedIsRecorded ==
    \A m \in reported \ unacked :
        /\ orders[m[1]].processed
        /\ \E v \in {"APPROVED", "DECLINED"} : <<m[1], v>> \in announced
        /\ m[2] = "Approved" => "APPROVED" \in held[m[1]]
        /\ m[2] = "Declined" => "DECLINED" \in held[m[1]]

(* While the provider reports nothing but Approved and Declined, the partial
   writes of concurrent save() calls never leave a document whose status says
   one verdict and whose transactionStatus the other. *)
StatusReflectsTransaction ==
    \A r \in Placed :
        /\ orders[r].tx = "Approved" => orders[r].status = "APPROVED"
        /\ orders[r].tx = "Declined" => orders[r].status = "DECLINED"
        /\ orders[r].tx = None => orders[r].status = "PENDING"

(* The payments service keeps the promise of OrderBook: status and verdicts
   are all a reader of an order depends on. *)
VerdictsReported ==
    {v \in Refs \X {"APPROVED", "DECLINED"} :
        \/ v[2] = "APPROVED" /\ <<v[1], "Approved">> \in reported
        \/ v[2] = "DECLINED" /\ <<v[1], "Declined">> \in reported}

Book == INSTANCE OrderBook WITH
            book <- [r \in Refs |-> orders[r].status],
            verdicts <- VerdictsReported

(* Every behaviour of the handlers is a behaviour of the order book. *)
ImplementsOrderBook == Book!Spec

-----------------------------------------------------------------------------
(* What comments and messages of the service say and the runs refute. *)

(* "There is already a pending purchase for this address and product. Please
   complete it before creating a new one": one address never has two orders
   for the same product waiting for payment (checkExistingPurchase). *)
OneOpenOrder ==
    \A r, q \in Placed :
        (/\ orders[r].email = orders[q].email
         /\ orders[r].item = orders[q].item
         /\ orders[r].status = "PENDING" /\ orders[q].status = "PENDING") => r = q

(* "processed: boolean; // idempotency": delivering a report again leaves a
   paid order paid (purchase.schema.ts, handleCallback). *)
ApprovedStays ==
    \A r \in Refs : "APPROVED" \in held[r] => orders[r].status = "APPROVED"

(* "You have already bought this product with this address. Please check your
   purchases": a user told so finds the product among his purchases, once no
   callback is under way any more (checkExistingPurchase, processBusinessLogic). *)
BoughtIsHeld ==
    \A h \in Requests :
        (/\ req[h].outcome = "approved"
         /\ req[h].item \in Products
         /\ \A w \in Callbacks : CallbackIdle(w)) =>
            \A user \in Users :
                accounts[user] = req[h].email => <<user, req[h].item>> \in holdings

(* "Payment provider callback (WayForPay)": the route serves the provider
   (payments.controller.ts), who has no account to log in with. *)
CallbackIsServed == \A w \in Callbacks : cb[w].answer # "unauthorized"

(* "if payment plan full throw error": a course is not sold to a user whose
   plan for it was FULL when he asked (createCourseSSKPayment). *)
FullPlanNotSoldAgain == \A r \in Placed : ~context[r].full

(* "Please complete it before creating a new one": a buyer sent back to his
   pending order, while no other request runs, once had the form to pay it. *)
PendingIsPayable ==
    \A h \in Requests :
        (req[h].outcome = "pending" /\ Busy = {}) =>
            \E r \in OrdersFor(req[h].email, req[h].item) :
                orders[r].status # "PENDING" \/ r \in forms

(* "Your previous purchase was declined. Please try again": whoever tries again
   is not refused for that reason (checkExistingPurchase). *)
DeclinedMayRetry == \A h \in Requests : req[h].outcome # "declined"
=============================================================================
