--------------------------- MODULE PaymentsProofs ---------------------------
(***************************************************************************)
(* Proofs about Payments, for every number of buyers, items, references,   *)
(* handlers and faults.                                                    *)
(***************************************************************************)
EXTENDS Payments, TLAPS

(* The records that stand for "nothing here" are of their types. *)
LEMMA BlankTypes ==
    /\ NoOrder \in Orders
    /\ NoContext \in Contexts
    /\ IdleRequest \in Handlers
    /\ IdleCallback \in Deliveries
BY DEF NoOrder, Orders, NoContext, Contexts, IdleRequest, Handlers, IdleCallback,
       Deliveries, Status, RequestSteps, Outcomes, CallbackSteps, Answers, Phases

(* A step that changes nothing but the request, or the callback, it belongs to. *)
RequestOnly == UNCHANGED <<shopVars, orderVars, forms, cb, outsideVars, faults>>
CallbackOnly == UNCHANGED <<shopVars, orderVars, requestVars, outsideVars, faults>>

-----------------------------------------------------------------------------
(* Type correctness.  A handler's record is typed field by field, so the lemmas
   about single steps carry Filled along: what a step reads is there. *)
Typed == TypeOK /\ Filled

LEMMA TypedRequest ==
    ASSUME Typed, RequestOnly, NEW h \in Requests, NEW new \in Handlers,
           req' = [req EXCEPT ![h] = new],
           new.pc # "idle" => new.email \in Emails /\ new.item \in Items,
           new.pc # "respond"
    PROVE  Typed'
BY DEF Typed, TypeOK, Filled, RequestOnly, shopVars, orderVars, outsideVars, Placed

LEMMA TypedCallback ==
    ASSUME Typed, CallbackOnly, NEW w \in Callbacks, NEW new \in Deliveries,
           cb' = [cb EXCEPT ![w] = new],
           new.pc # "idle" => new.ref \in Refs /\ new.tx \in Transactions,
           new.pc \notin {"idle", "find"} => new.ref \in Placed /\ new.status # "ABSENT"
    PROVE  Typed'
BY DEF Typed, TypeOK, Filled, CallbackOnly, shopVars, orderVars, requestVars,
       outsideVars, Placed

(* A step of a request to another line of its code, or to its end. *)
LEMMA RequestMoves ==
    ASSUME Typed, RequestOnly, NEW h \in Requests, req[h].pc # "idle",
           \/ \E pc \in RequestSteps \ {"respond"} : Goto(h, pc)
           \/ \E why \in Outcomes : Refuse(h, why)
    PROVE  Typed'
<1>1. req \in [Requests -> Handlers] /\ req[h].email \in Emails /\ req[h].item \in Items
  BY DEF Typed, TypeOK, Filled
<1>2. CASE \E pc \in RequestSteps \ {"respond"} : Goto(h, pc)
  <2>1. PICK pc \in RequestSteps \ {"respond"} : Goto(h, pc)
    BY <1>2
  <2> DEFINE new == [req[h] EXCEPT !.pc = pc]
  <2>2. new \in Handlers /\ new.email \in Emails /\ new.item \in Items /\ new.pc # "respond"
    BY <1>1 DEF Handlers
  <2>3. req' = [req EXCEPT ![h] = new]
    BY <2>1 DEF Goto
  <2> HIDE DEF new
  <2> QED BY <2>2, <2>3, TypedRequest
<1>3. CASE \E why \in Outcomes : Refuse(h, why)
  <2>1. PICK why \in Outcomes : Refuse(h, why)
    BY <1>3
  <2> DEFINE new == [IdleRequest EXCEPT !.outcome = why, !.email = req[h].email,
                                        !.item = req[h].item]
  <2>2. new \in Handlers /\ new.pc = "idle"
    BY <1>1, BlankTypes DEF Handlers, IdleRequest
  <2>3. req' = [req EXCEPT ![h] = new]
    BY <2>1 DEF Refuse
  <2> HIDE DEF new
  <2> QED BY <2>2, <2>3, TypedRequest
<1> QED BY <1>2, <1>3

LEMMA TypedReceive ==
    ASSUME Typed, NEW h \in Requests, ReceiveRequest(h)
    PROVE  Typed'
<1>1. PICK item \in Items : \/ \E email \in Emails, user \in Users \cup {None} :
                                 ReceiveProduct(h, email, user, item)
                            \/ \E user \in Users : ReceiveCourse(h, user, item)
  BY DEF ReceiveRequest
<1>2. ASSUME NEW email \in Emails, NEW user \in Users \cup {None}
      PROVE  ContextOf(email, user, item) \in Contexts
  BY DEF ContextOf, Contexts, OrdersFor, Placed, Phases, Registered
<1>3. CASE \E email \in Emails, user \in Users \cup {None} :
             ReceiveProduct(h, email, user, item)
  <2>1. PICK email \in Emails, user \in Users \cup {None} :
               ReceiveProduct(h, email, user, item)
    BY <1>3
  <2> DEFINE address == IF user = None THEN None ELSE accounts[user]
             new == [IdleRequest EXCEPT !.pc = "details", !.email = email, !.user = user,
                        !.address = address, !.item = item,
                        !.ctx = ContextOf(email, user, item)]
  <2>4. address \in Emails \cup {None}
    BY DEF Typed, TypeOK
  <2>2. new \in Handlers /\ new.email \in Emails /\ new.item \in Items /\ new.pc # "respond"
    <3> HIDE DEF address
    <3> QED BY <1>2, <2>4, BlankTypes DEF Handlers, RequestSteps
  <2>3. req' = [req EXCEPT ![h] = new] /\ RequestOnly
    BY <2>1 DEF ReceiveProduct, RequestOnly
  <2> HIDE DEF new
  <2> QED BY <2>2, <2>3, TypedRequest
<1>4. CASE \E user \in Users : ReceiveCourse(h, user, item)
  <2>1. PICK user \in Users : ReceiveCourse(h, user, item)
    BY <1>4
  <2> DEFINE email == accounts[user]
             new == [IdleRequest EXCEPT !.pc = "courseData", !.email = email, !.user = user,
                        !.address = email, !.item = item, !.ctx = ContextOf(email, user, item)]
  <2>4. email \in Emails
    BY <2>1 DEF ReceiveCourse, Typed, TypeOK
  <2>2. new \in Handlers /\ new.email \in Emails /\ new.item \in Items /\ new.pc # "respond"
    <3> HIDE DEF email
    <3> QED BY <1>2, <2>4, BlankTypes DEF Handlers, RequestSteps
  <2>3. req' = [req EXCEPT ![h] = new] /\ RequestOnly
    BY <2>1 DEF ReceiveCourse, RequestOnly
  <2> HIDE DEF new
  <2> QED BY <2>2, <2>3, TypedRequest
<1> QED BY <1>1, <1>3, <1>4

LEMMA TypedInsert ==
    ASSUME Typed, NEW h \in Requests, req[h].pc # "idle", NEW ref \in Refs \ Placed,
           NEW user \in Users \cup {None}, InsertOrder(h, ref, user)
    PROVE  Typed'
<1>1. /\ req \in [Requests -> Handlers] /\ orders \in [Refs -> Orders]
      /\ req[h].email \in Emails /\ req[h].item \in Items
  BY DEF Typed, TypeOK, Filled
<1> DEFINE order == [NoOrder EXCEPT !.status = "PENDING", !.email = req[h].email, !.user = user,
                        !.item = req[h].item, !.reduced = req[h].reduced]
           new == [req[h] EXCEPT !.pc = "respond", !.ref = ref]
<1>2. /\ order \in Orders /\ order.status # "ABSENT"
      /\ order.email \in Emails /\ order.item \in Items
  BY <1>1, BlankTypes DEF Orders, Handlers, Status
<1>3. new \in Handlers /\ new.ref = ref /\ new.email \in Emails /\ new.item \in Items
  BY <1>1, ZenonT(40) DEF Handlers, RequestSteps
<1>4. req' = [req EXCEPT ![h] = new] /\ orders' = [orders EXCEPT ![ref] = order]
  BY <1>1 DEF InsertOrder, Handlers
<1>5. context' \in [Refs -> Contexts] /\ held' \in [Refs -> SUBSET Status]
  BY <1>1 DEF InsertOrder, Typed, TypeOK, Handlers, Status
<1>6. UNCHANGED <<shopVars, forms, cb, outsideVars, faults>>
  BY DEF InsertOrder
<1> HIDE DEF order, new
<1>7. Placed' = Placed \cup {ref}
  BY <1>1, <1>2, <1>4 DEF Placed
<1>8. TypeOK'
  BY <1>2, <1>3, <1>4, <1>5, <1>6 DEF Typed, TypeOK, shopVars, outsideVars
<1>9. Filled'
  BY <1>1, <1>2, <1>3, <1>4, <1>6, <1>7 DEF Typed, Filled
<1> QED BY <1>8, <1>9 DEF Typed

LEMMA TypedPrice ==
    ASSUME Typed, NEW h \in Requests, req[h].pc # "idle", RequestOnly,
           NEW pc \in RequestSteps \ {"respond"}, NEW reduced \in BOOLEAN,
           req' = [req EXCEPT ![h].pc = pc, ![h].reduced = reduced,
                              ![h].ctx.phase = discount[req[h].item]]
    PROVE  Typed'
<1>1. /\ req \in [Requests -> Handlers] /\ discount \in [Items -> Phases]
      /\ req[h].email \in Emails /\ req[h].item \in Items
  BY DEF Typed, TypeOK, Filled
<1> DEFINE ctx == [req[h].ctx EXCEPT !.phase = discount[req[h].item]]
           new == [req[h] EXCEPT !.pc = pc, !.reduced = reduced, !.ctx = ctx]
<1>2. ctx \in Contexts
  BY <1>1 DEF Handlers, Contexts
<1>3. new \in Handlers /\ new.pc = pc /\ new.email \in Emails /\ new.item \in Items
  BY <1>1, <1>2 DEF Handlers
<1>4. req' = [req EXCEPT ![h] = new]
  BY <1>1, ZenonT(60) DEF Handlers, Contexts
<1> HIDE DEF new
<1> QED BY <1>3, <1>4, TypedRequest

LEMMA TypedRequestStep ==
    ASSUME Typed, NEW h \in Requests, RequestStep(h)
    PROVE  Typed'
<1> USE DEF RequestSteps, Outcomes, RequestOnly
<1>1. /\ req[h] \in Handlers /\ orders \in [Refs -> Orders]
      /\ req[h].pc # "idle" => req[h].email \in Emails /\ req[h].item \in Items
  BY DEF Typed, TypeOK, Filled
<1>2. CASE GetProductDetails(h)
  BY <1>2, RequestMoves DEF GetProductDetails
<1>3. CASE PriceProduct(h)
  <2>1. req[h].pc = "discount" /\ RequestOnly
    BY <1>3 DEF PriceProduct
  <2>2. CASE Refuse(h, "promo")
    BY <2>1, <2>2, RequestMoves
  <2>3. CASE req' = [req EXCEPT ![h].pc = "type",
                                ![h].reduced = IsUseDiscount(req[h].item),
                                ![h].ctx.phase = discount[req[h].item]]
    BY <2>1, <2>3, TypedPrice DEF IsUseDiscount
  <2> QED BY <1>3, <2>2, <2>3 DEF PriceProduct
<1>4. CASE GetProductType(h)
  BY <1>4, RequestMoves DEF GetProductType
<1>5. CASE CheckExistingUser(h)
  BY <1>5, RequestMoves DEF CheckExistingUser
<1>6. ASSUME NEW r \in OrdersFor(req[h].email, req[h].item)
      PROVE  RefusalFor(orders[r].status) \in Outcomes
  BY <1>1 DEF OrdersFor, Placed, RefusalFor, Orders, Status
<1>7. CASE CheckExistingPurchase(h)
  BY <1>6, <1>7, RequestMoves DEF CheckExistingPurchase
<1>8. CASE CheckHolding(h)
  BY <1>8, RequestMoves DEF CheckHolding
<1>9. CASE GetCourseData(h)
  BY <1>9, RequestMoves DEF GetCourseData
<1>10. CASE CheckPaymentPlan(h)
  BY <1>10, RequestMoves DEF CheckPaymentPlan
<1>11. CASE CheckCoursePurchase(h)
  BY <1>6, <1>11, RequestMoves DEF CheckCoursePurchase
<1>12. CASE PriceCourse(h)
  BY <1>12, TypedPrice DEF PriceCourse, HasDiscount
<1>13. CASE \E ref \in Refs : CreateProductOrder(h, ref)
  BY <1>1, <1>13, TypedInsert DEF CreateProductOrder, Handlers, Refs
<1>14. CASE \E ref \in Refs : CreateCourseOrder(h, ref)
  BY <1>1, <1>14, TypedInsert, RequestMoves DEF CreateCourseOrder, Handlers, Refs
<1>15. CASE RespondForm(h)
  <2> DEFINE new == [IdleRequest EXCEPT !.outcome = "form", !.email = req[h].email,
                                        !.item = req[h].item]
  <2>1. new \in Handlers /\ new.pc = "idle"
    BY <1>1, BlankTypes DEF Handlers, IdleRequest
  <2>2. req' = [req EXCEPT ![h] = new]
    BY <1>15 DEF RespondForm, Refuse
  <2>3. forms' \subseteq Refs
    BY <1>15 DEF RespondForm, Typed, TypeOK, Filled, Placed
  <2>4. UNCHANGED <<shopVars, orderVars, cb, outsideVars, faults>>
    BY <1>15 DEF RespondForm
  <2> HIDE DEF new
  <2> QED BY <2>1, <2>2, <2>3, <2>4
          DEF Typed, TypeOK, Filled, Placed, shopVars, orderVars, outsideVars
<1> QED
  BY <1>2, <1>3, <1>4, <1>5, <1>7, <1>8, <1>9, <1>10, <1>11, <1>12, <1>13, <1>14, <1>15
     DEF RequestStep

(* Callbacks *)

LEMMA CallbackMoves ==
    ASSUME Typed, NEW w \in Callbacks, CallbackOnly, cb[w].pc # "idle",
           \/ cb[w].pc # "find" /\ \E pc \in CallbackSteps : Step(w, pc)
           \/ \E answer \in Answers : Answer(w, answer)
    PROVE  Typed'
<1>1. /\ cb \in [Callbacks -> Deliveries]
      /\ cb[w].ref \in Refs /\ cb[w].tx \in Transactions
  BY DEF Typed, TypeOK, Filled
<1>2. CASE cb[w].pc # "find" /\ \E pc \in CallbackSteps : Step(w, pc)
  <2>1. PICK pc \in CallbackSteps : Step(w, pc)
    BY <1>2
  <2>4. cb[w].ref \in Placed /\ cb[w].status # "ABSENT"
    BY <1>2 DEF Typed, Filled
  <2> DEFINE new == [cb[w] EXCEPT !.pc = pc]
  <2>2. new \in Deliveries /\ new.ref = cb[w].ref /\ new.tx = cb[w].tx
         /\ new.status = cb[w].status
    BY <1>1 DEF Deliveries
  <2>3. cb' = [cb EXCEPT ![w] = new]
    BY <2>1 DEF Step
  <2> HIDE DEF new
  <2> QED BY <1>1, <2>4, <2>2, <2>3, TypedCallback
<1>3. CASE \E answer \in Answers : Answer(w, answer)
  <2>1. PICK answer \in Answers : Answer(w, answer)
    BY <1>3
  <2> DEFINE new == [IdleCallback EXCEPT !.answer = answer]
  <2>2. new \in Deliveries /\ new.pc = "idle"
    BY BlankTypes DEF Deliveries, IdleCallback
  <2>3. cb' = [cb EXCEPT ![w] = new]
    BY <2>1 DEF Answer
  <2> HIDE DEF new
  <2> QED BY <2>2, <2>3, TypedCallback
<1> QED BY <1>2, <1>3

LEMMA TypedDeliver ==
    ASSUME Typed, NEW w \in Callbacks, DeliverAny(w)
    PROVE  Typed'
<1>1. PICK ref \in Refs, tx \in Transactions, signed \in BOOLEAN, bearer \in Bearers :
         Admit(w, ref, tx, signed, bearer) /\ CallbackOnly
  BY DEF DeliverAny, Deliver, DeliverUnsigned, CallbackOnly, Reports
<1> DEFINE new == IF bearer = "none"
                    THEN [IdleCallback EXCEPT !.answer = "unauthorized"]
                    ELSE [IdleCallback EXCEPT !.pc = "find", !.ref = ref, !.tx = tx,
                                              !.signed = signed]
<1>2. /\ new \in Deliveries
      /\ new.pc = "idle" \/ (new.pc = "find" /\ new.ref = ref /\ new.tx = tx)
  BY BlankTypes DEF Deliveries, IdleCallback, Answers, CallbackSteps
<1>3. cb' = [cb EXCEPT ![w] = new]
  BY <1>1 DEF Admit
<1> HIDE DEF new
<1> QED BY <1>1, <1>2, <1>3, TypedCallback

LEMMA TypedFind ==
    ASSUME Typed, NEW w \in Callbacks, FindPurchase(w)
    PROVE  Typed'
<1>1. /\ cb \in [Callbacks -> Deliveries] /\ orders \in [Refs -> Orders]
      /\ cb[w].ref \in Refs /\ cb[w].tx \in Transactions
      /\ CallbackOnly /\ cb[w].pc = "find"
  BY DEF Typed, TypeOK, Filled, FindPurchase, CallbackOnly
<1> DEFINE order == orders[cb[w].ref]
           verdict == IF Decides(cb[w].tx) THEN Decision(cb[w].tx) ELSE order.status
           new == [cb[w] EXCEPT !.pc = "save", !.oldStatus = order.status,
                                !.oldTx = order.tx, !.status = verdict]
<1>2. CASE Answer(w, "error") \/ Answer(w, "invalid")
  BY <1>1, <1>2, CallbackMoves DEF Answers
<1>3. CASE order.status # "ABSENT" /\ cb' = [cb EXCEPT ![w] = new]
  <2>0. /\ order.status \in Status /\ order.tx \in Transactions \cup {None}
         /\ verdict \in Status /\ verdict # "ABSENT"
    BY <1>1, <1>3 DEF Orders, Decision, Status
  <2>1. new \in Deliveries /\ new.ref = cb[w].ref /\ new.tx = cb[w].tx
         /\ new.status # "ABSENT"
    <3> HIDE DEF order, verdict
    <3>1. cb[w] \in Deliveries
      BY <1>1
    <3> QED BY <2>0, <3>1 DEF Deliveries, CallbackSteps
  <2>2. cb[w].ref \in Placed
    BY <1>1, <1>3 DEF Placed
  <2> HIDE DEF new
  <2> QED BY <1>1, <1>3, <2>1, <2>2, TypedCallback
<1> QED BY <1>1, <1>2, <1>3 DEF FindPurchase, Deliveries

LEMMA TypedSave ==
    ASSUME Typed, NEW w \in Callbacks, SavePurchase(w)
    PROVE  Typed'
<1>1. /\ cb \in [Callbacks -> Deliveries] /\ orders \in [Refs -> Orders]
      /\ cb[w].ref \in Placed /\ cb[w].ref \in Refs /\ cb[w].tx \in Transactions
      /\ cb[w].status # "ABSENT"
  BY DEF Typed, TypeOK, Filled, SavePurchase
<1> DEFINE ref == cb[w].ref
           new == Saved(orders[ref], cb[w])
           step == IF cb[w].status = "APPROVED" THEN "account" ELSE "publish"
           moved == [cb[w] EXCEPT !.pc = step]
<1>2. /\ new \in Orders /\ new.status \in Status /\ new.status # "ABSENT"
      /\ new.email = orders[ref].email /\ new.item = orders[ref].item
  <2> DEFINE old == orders[ref]
             tx == IF cb[w].tx # cb[w].oldTx THEN cb[w].tx ELSE old.tx
             status == IF cb[w].status # cb[w].oldStatus THEN cb[w].status ELSE old.status
  <2>1. new = [old EXCEPT !.processed = TRUE, !.tx = tx, !.status = status]
    BY DEF Saved
  <2>2. old \in Orders /\ old.status # "ABSENT" /\ old.status \in Status
        /\ old.tx \in Transactions \cup {None}
    BY <1>1 DEF Placed, Orders
  <2>3. cb[w].status \in Status
    BY <1>1 DEF Deliveries
  <2>4. tx \in Transactions \cup {None} /\ status \in Status /\ status # "ABSENT"
    BY <1>1, <2>2, <2>3
  <2> HIDE DEF old, tx, status, new
  <2>5. new \in Orders /\ new.status = status /\ new.email = old.email /\ new.item = old.item
    BY <2>1, <2>2, <2>4 DEF Orders
  <2> QED BY <2>4, <2>5 DEF old
<1>3. /\ moved \in Deliveries /\ moved.ref = ref /\ moved.tx = cb[w].tx
      /\ moved.status = cb[w].status
  BY <1>1 DEF Deliveries, CallbackSteps
<1>4. /\ orders' = [orders EXCEPT ![ref] = new]
      /\ held' = [held EXCEPT ![ref] = @ \cup {new.status}]
      /\ cb' = [cb EXCEPT ![w] = moved]
      /\ UNCHANGED <<shopVars, context, requestVars, outsideVars, faults>>
  BY DEF SavePurchase, Step
<1> HIDE DEF new, moved
<1>5. Placed' = Placed
  BY <1>1, <1>2, <1>4 DEF Placed
<1>6. TypeOK'
  BY <1>1, <1>2, <1>3, <1>4 DEF Typed, TypeOK, shopVars, requestVars, outsideVars
<1>7. Filled'
  BY <1>1, <1>2, <1>3, <1>4, <1>5 DEF Typed, Filled, requestVars
<1> QED BY <1>6, <1>7 DEF Typed

(* The account found, if there is one, is all a callback keeps of the lookup. *)
LEMMA FindAccountEffect ==
    ASSUME Typed, NEW w \in Callbacks, FindAccount(w)
    PROVE  /\ cb[w].pc = "account" /\ CallbackOnly
           /\ \E new \in Deliveries :
                 /\ cb' = [cb EXCEPT ![w] = new]
                 /\ new.pc \in {"grant", "publish"} /\ new.ref = cb[w].ref
                 /\ new.tx = cb[w].tx /\ new.signed = cb[w].signed
                 /\ new.status = cb[w].status
<1>1. cb[w] \in Deliveries /\ cb[w].pc = "account" /\ CallbackOnly
  BY DEF Typed, TypeOK, FindAccount, CallbackOnly
<1>2. CASE \E user \in Users : cb' = [cb EXCEPT ![w].pc = "grant", ![w].buyer = user]
  <2>1. PICK user \in Users : cb' = [cb EXCEPT ![w].pc = "grant", ![w].buyer = user]
    BY <1>2
  <2> DEFINE new == [cb[w] EXCEPT !.pc = "grant", !.buyer = user]
  <2>2. /\ new \in Deliveries /\ new.pc = "grant" /\ new.ref = cb[w].ref
        /\ new.tx = cb[w].tx /\ new.signed = cb[w].signed /\ new.status = cb[w].status
    BY <1>1 DEF Deliveries, CallbackSteps
  <2>3. cb' = [cb EXCEPT ![w] = new]
    BY <1>1, <2>1 DEF Deliveries
  <2> HIDE DEF new
  <2> QED BY <1>1, <2>2, <2>3
<1>3. CASE Step(w, "publish")
  <2> DEFINE new == [cb[w] EXCEPT !.pc = "publish"]
  <2>2. /\ new \in Deliveries /\ new.pc = "publish" /\ new.ref = cb[w].ref
        /\ new.tx = cb[w].tx /\ new.signed = cb[w].signed /\ new.status = cb[w].status
    BY <1>1 DEF Deliveries, CallbackSteps
  <2>3. cb' = [cb EXCEPT ![w] = new]
    BY <1>3 DEF Step
  <2> HIDE DEF new
  <2> QED BY <1>1, <2>2, <2>3
<1> QED BY <1>2, <1>3 DEF FindAccount

(* No productType is a targetModule, so the grant always fails. *)
LEMMA GrantFails ==
    ASSUME Typed, NEW w \in Callbacks, Grant(w)
    PROVE  Answer(w, "error") /\ CallbackOnly
<1>1. orders[cb[w].ref].item \in Items
  BY DEF Typed, Filled, Grant
<1>2. TargetModule(orders[cb[w].ref].item) \notin TargetModules
  BY <1>1, TypesAssumption DEF TargetModule, TargetModules, ProductTypes
<1> QED BY <1>2 DEF Grant, CallbackOnly, shopVars

LEMMA TypedCallbackStep ==
    ASSUME Typed, NEW w \in Callbacks, CallbackStep(w)
    PROVE  Typed'
<1> USE DEF CallbackSteps, Answers
<1>1. CASE FindPurchase(w) \/ SavePurchase(w)
  BY <1>1, TypedFind, TypedSave
<1>2. CASE FindAccount(w)
  <2>1. /\ cb[w].ref \in Refs /\ cb[w].tx \in Transactions
        /\ cb[w].ref \in Placed /\ cb[w].status # "ABSENT"
    BY <1>2 DEF Typed, Filled, FindAccount
  <2> QED BY <1>2, <2>1, FindAccountEffect, TypedCallback
<1>3. CASE Grant(w)
  <2>1. cb[w].pc = "grant"
    BY <1>3 DEF Grant
  <2> QED BY <1>3, <2>1, GrantFails, CallbackMoves
<1>4. CASE Publish(w) \/ Reply(w)
  <2>1. /\ cb \in [Callbacks -> Deliveries]
        /\ cb[w].pc \in {"publish", "reply"}
        /\ cb[w].ref \in Placed /\ cb[w].status # "ABSENT"
        /\ cb[w].ref \in Refs /\ cb[w].tx \in Transactions
    BY <1>4 DEF Typed, TypeOK, Filled, Publish, Reply
  <2>2. PICK new \in Deliveries :
          /\ cb' = [cb EXCEPT ![w] = new]
          /\ \/ new.pc = "idle"
             \/ /\ new.pc = "reply" /\ new.ref = cb[w].ref /\ new.tx = cb[w].tx
                /\ new.status = cb[w].status
    <3> DEFINE moved == [cb[w] EXCEPT !.pc = "reply"]
               ended(a) == [IdleCallback EXCEPT !.answer = a]
    <3>1. /\ moved \in Deliveries /\ moved.pc = "reply" /\ moved.ref = cb[w].ref
          /\ moved.tx = cb[w].tx /\ moved.status = cb[w].status
      BY <2>1 DEF Deliveries
    <3>2. \A a \in Answers : ended(a) \in Deliveries /\ ended(a).pc = "idle"
      BY BlankTypes DEF Deliveries, IdleCallback
    <3>3. \/ cb' = [cb EXCEPT ![w] = moved]
          \/ \E a \in Answers : cb' = [cb EXCEPT ![w] = ended(a)]
      BY <1>4 DEF Publish, Reply, Step, Answer
    <3> HIDE DEF moved, ended
    <3> QED BY <3>1, <3>2, <3>3
  <2>3. /\ announced' \subseteq Refs \X {"APPROVED", "DECLINED"}
        /\ unacked' \subseteq Reports /\ reported' = reported
        /\ faults' \in 0..MaxFaults
    BY <1>4, <2>1, FaultsAssumption
       DEF Publish, Reply, Fault, Decision, Typed, TypeOK
  <2>4. UNCHANGED <<shopVars, orderVars, requestVars>>
    BY <1>4 DEF Publish, Reply
  <2> QED BY <2>1, <2>2, <2>3, <2>4
          DEF Typed, TypeOK, Filled, Placed, shopVars, orderVars, requestVars
<1> QED BY <1>1, <1>2, <1>3, <1>4 DEF CallbackStep

-----------------------------------------------------------------------------
(* What the rest of the system does leaves a request its code line and what it
   is about; of its context it takes away what it takes from the record. *)
Kept(h) ==
    /\ req'[h].pc = req[h].pc /\ req'[h].email = req[h].email
    /\ req'[h].user = req[h].user /\ req'[h].address = req[h].address
    /\ req'[h].item = req[h].item /\ req'[h].ref = req[h].ref
    /\ req'[h].ctx.rivals = req[h].ctx.rivals

LEMMA UpdateUserKeeps ==
    ASSUME Typed, NEW user \in Users, NEW email \in Emails, UpdateUser(user, email)
    PROVE  /\ req' \in [Requests -> Handlers]
           /\ \A h \in Requests :
                 /\ Kept(h) /\ req'[h].ctx.owned = req[h].ctx.owned
                 /\ IF req[h].email = accounts[user]
                      THEN req'[h].ctx.registered = FALSE
                      ELSE req'[h].ctx.registered = req[h].ctx.registered
<1> DEFINE ctx(h) == [req[h].ctx EXCEPT !.registered = FALSE]
           new(h) == [req[h] EXCEPT !.ctx = ctx(h)]
<1>1. /\ req \in [Requests -> Handlers]
      /\ req' = [h \in Requests |-> IF req[h].email = accounts[user] THEN new(h) ELSE req[h]]
  BY DEF Typed, TypeOK, UpdateUser
<1>2. ASSUME NEW h \in Requests
      PROVE  /\ ctx(h) \in Contexts /\ ctx(h).rivals = req[h].ctx.rivals
             /\ ctx(h).owned = req[h].ctx.owned /\ ctx(h).registered = FALSE
  BY <1>1 DEF Handlers, Contexts
<1> HIDE DEF ctx
<1>3. ASSUME NEW h \in Requests
      PROVE  /\ new(h) \in Handlers /\ new(h).pc = req[h].pc /\ new(h).email = req[h].email
             /\ new(h).user = req[h].user /\ new(h).address = req[h].address
             /\ new(h).item = req[h].item /\ new(h).ref = req[h].ref /\ new(h).ctx = ctx(h)
  BY <1>1, <1>2 DEF Handlers
<1> HIDE DEF new
<1> QED BY <1>1, <1>2, <1>3 DEF Kept

LEMMA DeletePurchaseKeeps ==
    ASSUME Typed, NEW user \in Users, NEW item \in Items, DeletePurchase(user, item)
    PROVE  /\ req' \in [Requests -> Handlers]
           /\ \A h \in Requests :
                 /\ Kept(h) /\ req'[h].ctx.registered = req[h].ctx.registered
                 /\ IF req[h].user = user /\ req[h].item = item
                      THEN req'[h].ctx.owned = FALSE
                      ELSE req'[h].ctx.owned = req[h].ctx.owned
<1> DEFINE ctx(h) == [req[h].ctx EXCEPT !.owned = FALSE]
           new(h) == [req[h] EXCEPT !.ctx = ctx(h)]
<1>1. /\ req \in [Requests -> Handlers]
      /\ req' = [h \in Requests |-> IF req[h].user = user /\ req[h].item = item
                                      THEN new(h) ELSE req[h]]
  BY DEF Typed, TypeOK, DeletePurchase
<1>2. ASSUME NEW h \in Requests
      PROVE  /\ ctx(h) \in Contexts /\ ctx(h).rivals = req[h].ctx.rivals
             /\ ctx(h).registered = req[h].ctx.registered /\ ctx(h).owned = FALSE
  BY <1>1 DEF Handlers, Contexts
<1> HIDE DEF ctx
<1>3. ASSUME NEW h \in Requests
      PROVE  /\ new(h) \in Handlers /\ new(h).pc = req[h].pc /\ new(h).email = req[h].email
             /\ new(h).user = req[h].user /\ new(h).address = req[h].address
             /\ new(h).item = req[h].item /\ new(h).ref = req[h].ref /\ new(h).ctx = ctx(h)
  BY <1>1, <1>2 DEF Handlers
<1> HIDE DEF new
<1> QED BY <1>1, <1>2, <1>3 DEF Kept

LEMMA ElsewhereKeeps ==
    ASSUME Typed, Elsewhere
    PROVE  req' \in [Requests -> Handlers] /\ \A h \in Requests : Kept(h)
<1>1. CASE req' = req
  BY <1>1 DEF Kept, Typed, TypeOK
<1>2. CASE \E user \in Users, email \in Emails : UpdateUser(user, email)
  BY <1>2, UpdateUserKeeps
<1>3. CASE \E user \in Users, item \in Items : DeletePurchase(user, item)
  BY <1>3, DeletePurchaseKeeps
<1> QED BY <1>1, <1>2, <1>3 DEF Elsewhere

-----------------------------------------------------------------------------
LEMMA TypedInit == Init => Typed
<1> SUFFICES ASSUME Init PROVE Typed
  OBVIOUS
<1>1. TypeOK
  BY BlankTypes, FaultsAssumption DEF Init, TypeOK, Phases, Reports
<1>2. Filled
  BY DEF Init, Filled, Placed, IdleRequest, IdleCallback, NoOrder
<1> QED BY <1>1, <1>2 DEF Typed

LEMMA TypedNext == Typed /\ [Next]_vars => Typed'
<1> SUFFICES ASSUME Typed, [Next]_vars PROVE Typed'
  OBVIOUS
<1>1. CASE \E h \in Requests : ReceiveRequest(h) \/ RequestStep(h)
  BY <1>1, TypedReceive, TypedRequestStep
<1>2. CASE \E ref \in Refs, tx \in Transactions : ProviderReports(ref, tx)
  BY <1>2 DEF ProviderReports, Typed, TypeOK, Filled, Placed, Reports,
              shopVars, orderVars, requestVars
<1>3. CASE \E w \in Callbacks : DeliverAny(w) \/ CallbackStep(w)
  BY <1>3, TypedDeliver, TypedCallbackStep
<1>4. CASE Crash
  BY <1>4, BlankTypes, FaultsAssumption
     DEF Crash, Fault, IdleRequest, IdleCallback, Typed, TypeOK, Filled, Placed,
         shopVars, orderVars, outsideVars
<1>5. CASE Elsewhere
  <2>1. UNCHANGED <<orderVars, forms, cb, outsideVars, faults>>
    BY <1>5 DEF Elsewhere
  <2>4. /\ accounts \in [Users -> Emails \cup {None}] /\ catalog \subseteq Items
        /\ discount \in [Items -> Phases] /\ holdings \subseteq Users \X Items
        /\ enrolments \subseteq Enrolments
    BY DEF Typed, TypeOK
  <2>2. /\ accounts' \in [Users -> Emails \cup {None}] /\ catalog' \subseteq Items
        /\ discount' \in [Items -> Phases] /\ holdings' \subseteq Users \X Items
        /\ enrolments' \subseteq Enrolments
    <3>1. CASE \/ \E user \in Users, email \in Emails : Register(user, email)
               \/ \E user \in Users, email \in Emails : UpdateUser(user, email)
      BY <2>4, <3>1 DEF Register, UpdateUser
    <3>2. CASE \/ \E item \in Items : Unlist(item)
               \/ \E item \in Items, phase \in Phases : MoveDiscount(item, phase)
      BY <2>4, <3>2 DEF Unlist, MoveDiscount
    <3>3. CASE \E user \in Users, item \in Items : AdminGrants(user, item)
      BY <2>4, <3>3 DEF AdminGrants
    <3>5. CASE \E user \in Users, item \in Items : DeletePurchase(user, item)
      BY <2>4, <3>5 DEF DeletePurchase
    <3>4. CASE \E user \in Users, item \in Items, plan \in Plans : AdminEnrols(user, item, plan)
      BY <2>4, <3>4 DEF AdminEnrols, Enrolments
    <3> QED BY <1>5, <3>1, <3>2, <3>3, <3>4, <3>5 DEF Elsewhere
  <2>3. req' \in [Requests -> Handlers] /\ \A h \in Requests : Kept(h)
    BY <1>5, ElsewhereKeeps
  <2> QED BY <2>1, <2>2, <2>3
          DEF Typed, TypeOK, Filled, Kept, Placed, orderVars, outsideVars
<1>6. CASE UNCHANGED vars
  BY <1>6 DEF vars, Typed, TypeOK, Filled, Placed,
              shopVars, orderVars, requestVars, outsideVars
<1> QED BY <1>1, <1>2, <1>3, <1>4, <1>5, <1>6 DEF Next

(* Every reachable state is well typed, and what a handler at work reads is there. *)
THEOREM TypeCorrect == Spec => []TypeOK /\ []Filled
<1>1. Typed => TypeOK /\ Filled
  BY DEF Typed
<1> QED BY <1>1, TypedInit, TypedNext, PTL DEF Spec

-----------------------------------------------------------------------------
(* Verdicts.  What a callback handler holds in memory is no stronger than the
   database and the provider: a snapshot may be old, but everything it will
   write was reported, and everything it will announce has been written. *)
Carried(w) ==
    /\ cb[w].pc # "idle" /\ cb[w].signed => <<cb[w].ref, cb[w].tx>> \in reported
    /\ cb[w].pc \notin {"idle", "find"} => cb[w].signed
    /\ cb[w].pc = "save" =>
          /\ cb[w].oldStatus \in held[cb[w].ref]
          /\ cb[w].status = IF Decides(cb[w].tx) THEN Decision(cb[w].tx) ELSE cb[w].oldStatus
    /\ cb[w].pc \in {"account", "grant", "publish", "reply"} =>
          /\ orders[cb[w].ref].processed
          /\ Decides(cb[w].tx) => Decision(cb[w].tx) \in held[cb[w].ref]
    /\ cb[w].pc = "reply" => <<cb[w].ref, Decision(cb[w].tx)>> \in announced

(* Forms, reports and messages are about orders that are placed. *)
Traceable ==
    /\ forms \subseteq Placed
    /\ \A m \in reported : m[1] \in forms
    /\ unacked \subseteq reported
    /\ \A m \in announced : m[1] \in Placed
    /\ \A r \in Placed : orders[r].status \in held[r]
    /\ \A r \in Refs \ Placed : orders[r].tx = None /\ held[r] = {}

VerdictInv ==
    /\ Traceable
    /\ DecidedByProvider
    /\ AnnouncedAfterSaved
    /\ AckedIsRecorded
    /\ \A w \in Callbacks : Carried(w)

(* Orders and their history only grow, and an order keeps what it is about. *)
Grows ==
    /\ Placed \subseteq Placed'
    /\ reported \subseteq reported' /\ announced \subseteq announced'
    /\ \A r \in Placed :
          /\ held[r] \subseteq held'[r]
          /\ orders[r].processed => orders'[r].processed
          /\ orders'[r].email = orders[r].email /\ orders'[r].item = orders[r].item
          /\ orders'[r].user = orders[r].user /\ context'[r] = context[r]

LEMMA CarriedStable ==
    ASSUME Typed, Grows, NEW w \in Callbacks, Carried(w), cb'[w] = cb[w]
    PROVE  Carried(w)'
<1>1. cb[w].pc \notin {"idle", "find"} => cb[w].ref \in Placed
  BY DEF Typed, Filled
<1> QED BY <1>1 DEF Carried, Grows

(* Nothing of VerdictInv reads the requests or the rest of the shop. *)
LEMMA VerdictUnchanged ==
    ASSUME VerdictInv, UNCHANGED <<orderVars, forms, cb, outsideVars>>
    PROVE  VerdictInv'
BY DEF VerdictInv, Traceable, DecidedByProvider, AnnouncedAfterSaved, AckedIsRecorded,
       Carried, Placed, orderVars, outsideVars

LEMMA GrowsUnchanged ==
    ASSUME UNCHANGED <<orderVars, reported, announced>>
    PROVE  Grows
BY DEF Grows, Placed, orderVars

LEMMA InsertEffect ==
    ASSUME Typed, NEW h \in Requests, NEW ref \in Refs \ Placed,
           NEW user \in Users \cup {None}, InsertOrder(h, ref, user)
    PROVE  /\ Placed' = Placed \cup {ref}
           /\ \A r \in Refs \ {ref} : /\ orders'[r] = orders[r] /\ held'[r] = held[r]
                                      /\ context'[r] = context[r]
           /\ held'[ref] = {"PENDING"} /\ context'[ref] = req[h].ctx
           /\ orders'[ref].status = "PENDING" /\ orders'[ref].tx = None
           /\ orders'[ref].email = req[h].email /\ orders'[ref].item = req[h].item
           /\ orders'[ref].user = user
           /\ req'[h].pc = "respond" /\ \A g \in Requests \ {h} : req'[g] = req[g]
           /\ UNCHANGED <<shopVars, forms, cb, outsideVars, faults>>
<1>1. /\ orders \in [Refs -> Orders] /\ held \in [Refs -> SUBSET Status]
      /\ context \in [Refs -> Contexts] /\ req \in [Requests -> Handlers]
  BY DEF Typed, TypeOK
<1>2. /\ orders' = [orders EXCEPT ![ref] =
                       [NoOrder EXCEPT !.status = "PENDING", !.email = req[h].email,
                          !.user = user, !.item = req[h].item, !.reduced = req[h].reduced]]
      /\ context' = [context EXCEPT ![ref] = req[h].ctx]
      /\ held' = [held EXCEPT ![ref] = {"PENDING"}]
      /\ req' = [req EXCEPT ![h].pc = "respond", ![h].ref = ref]
      /\ UNCHANGED <<shopVars, forms, cb, outsideVars, faults>>
  BY DEF InsertOrder
<1>3. /\ orders'[ref].status = "PENDING" /\ orders'[ref].tx = None
      /\ orders'[ref].email = req[h].email /\ orders'[ref].item = req[h].item
      /\ orders'[ref].user = user
  BY <1>1, <1>2 DEF NoOrder
<1>4. req'[h].pc = "respond" /\ \A g \in Requests \ {h} : req'[g] = req[g]
  BY <1>1, <1>2 DEF Handlers
<1> QED BY <1>1, <1>2, <1>3, <1>4 DEF Placed

LEMMA VerdictInsert ==
    ASSUME Typed, VerdictInv, NEW h \in Requests, NEW ref \in Refs \ Placed,
           NEW user \in Users \cup {None}, InsertOrder(h, ref, user)
    PROVE  VerdictInv' /\ Grows
<1>1. /\ Placed' = Placed \cup {ref}
      /\ \A r \in Refs \ {ref} : /\ orders'[r] = orders[r] /\ held'[r] = held[r]
                                 /\ context'[r] = context[r]
      /\ held'[ref] = {"PENDING"}
      /\ orders'[ref].status = "PENDING" /\ orders'[ref].tx = None
      /\ UNCHANGED <<forms, cb, reported, unacked, announced>>
  BY InsertEffect DEF outsideVars
<1>2. Placed \subseteq Refs /\ Placed' \subseteq Refs
  BY DEF Placed
<1>3. Grows
  BY <1>1, <1>2 DEF Grows
<1>4. Traceable'
  BY <1>1, <1>2 DEF VerdictInv, Traceable
<1>5. DecidedByProvider'
  <2> SUFFICES ASSUME NEW r \in Refs'
               PROVE  /\ "APPROVED" \in held'[r] => <<r, "Approved">> \in reported'
                      /\ "DECLINED" \in held'[r] => <<r, "Declined">> \in reported'
                      /\ orders'[r].tx # None => <<r, orders'[r].tx>> \in reported'
    BY DEF DecidedByProvider
  <2>1. CASE r = ref
    BY <1>1, <2>1
  <2>2. CASE r # ref
    BY <1>1, <2>2 DEF VerdictInv, DecidedByProvider
  <2> QED BY <2>1, <2>2
<1>6. AnnouncedAfterSaved' /\ AckedIsRecorded'
  BY <1>1, <1>2 DEF VerdictInv, Traceable, AnnouncedAfterSaved, AckedIsRecorded
<1>7. \A w \in Callbacks : Carried(w)'
  BY <1>1, <1>3, CarriedStable DEF VerdictInv
<1> QED BY <1>3, <1>4, <1>5, <1>6, <1>7 DEF VerdictInv

LEMMA VerdictRequestStep ==
    ASSUME Typed, VerdictInv, NEW h \in Requests, RequestStep(h)
    PROVE  VerdictInv' /\ Grows
<1>1. CASE RequestOnly
  BY <1>1, VerdictUnchanged, GrowsUnchanged DEF RequestOnly, outsideVars
<1>2. CASE \E ref \in Refs \ Placed, user \in Users \cup {None} : InsertOrder(h, ref, user)
  BY <1>2, VerdictInsert
<1>3. CASE RespondForm(h)
  <2>1. /\ forms' = forms \cup {req[h].ref} /\ req[h].ref \in Placed
        /\ UNCHANGED <<orderVars, cb, outsideVars>>
    BY <1>3 DEF RespondForm, Typed, Filled
  <2>2. Grows
    BY <2>1, GrowsUnchanged DEF outsideVars
  <2>3. VerdictInv'
    BY <2>1 DEF VerdictInv, Traceable, DecidedByProvider, AnnouncedAfterSaved,
                AckedIsRecorded, Carried, Placed, orderVars, outsideVars
  <2> QED BY <2>2, <2>3
<1>4. req[h].user \in Users \cup {None}
  BY DEF Typed, TypeOK, Handlers
<1>5. RequestOnly \/ RespondForm(h)
        \/ \E ref \in Refs \ Placed, user \in Users \cup {None} : InsertOrder(h, ref, user)
  BY <1>4 DEF RequestStep, RequestOnly, GetProductDetails, PriceProduct, GetProductType,
         CheckExistingUser, CheckExistingPurchase, CheckHolding, GetCourseData,
         CheckPaymentPlan, CheckCoursePurchase, PriceCourse, CreateProductOrder,
         CreateCourseOrder
<1> QED BY <1>1, <1>2, <1>3, <1>5

LEMMA VerdictReports ==
    ASSUME Typed, VerdictInv, NEW ref \in Refs, NEW tx \in Transactions,
           ProviderReports(ref, tx)
    PROVE  VerdictInv' /\ Grows
<1>1. /\ ref \in forms
      /\ reported' = reported \cup {<<ref, tx>>} /\ unacked' = unacked \cup {<<ref, tx>>}
      /\ UNCHANGED <<orderVars, forms, cb, announced>>
  BY DEF ProviderReports, requestVars
<1>2. Grows
  BY <1>1 DEF Grows, Placed, orderVars
<1>3. Traceable' /\ DecidedByProvider' /\ AnnouncedAfterSaved'
  BY <1>1 DEF VerdictInv, Traceable, DecidedByProvider, AnnouncedAfterSaved, Placed, orderVars
<1>4. AckedIsRecorded'
  BY <1>1 DEF VerdictInv, AckedIsRecorded, orderVars
<1>5. \A w \in Callbacks : Carried(w)'
  BY <1>1, <1>2, CarriedStable DEF VerdictInv
<1> QED BY <1>2, <1>3, <1>4, <1>5 DEF VerdictInv

(* A step of one callback handler that writes to no database. *)
LEMMA VerdictCallbackOnly ==
    ASSUME Typed, VerdictInv, CallbackOnly, NEW w \in Callbacks, Carried(w)',
           \A v \in Callbacks \ {w} : cb'[v] = cb[v]
    PROVE  VerdictInv' /\ Grows
<1>1. UNCHANGED <<orderVars, forms, outsideVars>>
  BY DEF CallbackOnly, requestVars
<1>2. Grows
  BY <1>1, GrowsUnchanged DEF outsideVars
<1>3. Traceable' /\ DecidedByProvider' /\ AnnouncedAfterSaved' /\ AckedIsRecorded'
  BY <1>1 DEF VerdictInv, Traceable, DecidedByProvider, AnnouncedAfterSaved,
              AckedIsRecorded, Placed, orderVars, outsideVars
<1>4. \A v \in Callbacks : Carried(v)'
  BY <1>2, CarriedStable DEF VerdictInv
<1> QED BY <1>2, <1>3, <1>4 DEF VerdictInv

(* An answer leaves nothing in memory. *)
LEMMA AnswerEffect ==
    ASSUME Typed, NEW w \in Callbacks, NEW answer \in Answers, Answer(w, answer)
    PROVE  Carried(w)' /\ \A v \in Callbacks \ {w} : cb'[v] = cb[v]
<1>1. cb \in [Callbacks -> Deliveries]
  BY DEF Typed, TypeOK
<1>2. cb'[w].pc = "idle"
  BY <1>1 DEF Answer, IdleCallback
<1> QED BY <1>1, <1>2 DEF Carried, Answer

LEMMA StepEffect ==
    ASSUME Typed, NEW w \in Callbacks, NEW pc \in CallbackSteps, Step(w, pc)
    PROVE  /\ cb'[w].pc = pc /\ cb'[w].ref = cb[w].ref /\ cb'[w].tx = cb[w].tx
           /\ cb'[w].signed = cb[w].signed
           /\ \A v \in Callbacks \ {w} : cb'[v] = cb[v]
<1>1. cb \in [Callbacks -> Deliveries]
  BY DEF Typed, TypeOK
<1> QED BY <1>1 DEF Step, Deliveries

LEMMA VerdictDeliver ==
    ASSUME Typed, VerdictInv, NEW w \in Callbacks, DeliverAny(w)
    PROVE  VerdictInv' /\ Grows
<1>1. PICK ref \in Refs, tx \in Transactions, signed \in BOOLEAN, bearer \in Bearers :
         /\ Admit(w, ref, tx, signed, bearer) /\ CallbackOnly
         /\ signed => <<ref, tx>> \in unacked
  <2>1. CASE \E report \in Reports : Deliver(w, report)
    <3>1. PICK report \in Reports : Deliver(w, report)
      BY <2>1
    <3>2. PICK ref \in Refs, tx \in Transactions : report = <<ref, tx>>
      BY DEF Reports
    <3>3. PICK bearer \in Bearers : Admit(w, ref, tx, TRUE, bearer)
      BY <3>1, <3>2 DEF Deliver
    <3> QED BY <3>1, <3>2, <3>3 DEF Deliver, CallbackOnly
  <2>2. CASE \E ref \in Refs, tx \in Transactions : DeliverUnsigned(w, ref, tx)
    <3>1. PICK ref \in Refs, tx \in Transactions : DeliverUnsigned(w, ref, tx)
      BY <2>2
    <3>2. PICK bearer \in Bearers : Admit(w, ref, tx, FALSE, bearer)
      BY <3>1 DEF DeliverUnsigned
    <3> QED BY <3>1, <3>2 DEF DeliverUnsigned, CallbackOnly
  <2> QED BY <2>1, <2>2 DEF DeliverAny
<1>2. cb \in [Callbacks -> Deliveries]
  BY DEF Typed, TypeOK
<1>3. \/ cb'[w].pc = "idle"
      \/ /\ cb'[w].pc = "find" /\ cb'[w].ref = ref
         /\ cb'[w].tx = tx /\ cb'[w].signed = signed
  BY <1>1, <1>2 DEF Admit, IdleCallback
<1>4. \A v \in Callbacks \ {w} : cb'[v] = cb[v]
  BY <1>1, <1>2 DEF Admit
<1>5. signed => <<ref, tx>> \in reported'
  BY <1>1 DEF VerdictInv, Traceable, CallbackOnly, outsideVars
<1>6. Carried(w)'
  BY <1>3, <1>5 DEF Carried
<1> QED BY <1>1, <1>4, <1>6, VerdictCallbackOnly

LEMMA VerdictFind ==
    ASSUME Typed, VerdictInv, NEW w \in Callbacks, FindPurchase(w)
    PROVE  VerdictInv' /\ Grows
<1> DEFINE order == orders[cb[w].ref]
<1>1. /\ cb \in [Callbacks -> Deliveries] /\ cb[w].ref \in Refs /\ Carried(w)
      /\ CallbackOnly /\ cb[w].pc = "find"
  BY DEF Typed, TypeOK, Filled, FindPurchase, CallbackOnly, VerdictInv
<1>2. CASE Answer(w, "error") \/ Answer(w, "invalid")
  BY <1>1, <1>2, AnswerEffect, VerdictCallbackOnly DEF Answers
<1>3. CASE /\ order.status # "ABSENT" /\ cb[w].signed
           /\ cb' = [cb EXCEPT ![w].pc = "save", ![w].oldStatus = order.status,
                               ![w].oldTx = order.tx,
                               ![w].status = IF Decides(cb[w].tx) THEN Decision(cb[w].tx)
                                                                  ELSE order.status]
  <2>1. /\ cb'[w].pc = "save" /\ cb'[w].ref = cb[w].ref /\ cb'[w].tx = cb[w].tx
        /\ cb'[w].signed = cb[w].signed /\ cb'[w].oldStatus = order.status
        /\ cb'[w].status = IF Decides(cb[w].tx) THEN Decision(cb[w].tx) ELSE order.status
        /\ \A v \in Callbacks \ {w} : cb'[v] = cb[v]
    BY <1>1, <1>3 DEF Deliveries
  <2>2. order.status \in held[cb[w].ref]
    BY <1>1, <1>3 DEF VerdictInv, Traceable, Placed
  <2>3. UNCHANGED <<orders, held, reported, announced>>
    BY <1>1 DEF CallbackOnly, orderVars, outsideVars
  <2>4. Carried(w)'
    <3>1. cb[w].signed /\ <<cb[w].ref, cb[w].tx>> \in reported
      BY <1>1, <1>3 DEF Carried
    <3> HIDE DEF order
    <3> QED BY <2>1, <2>2, <2>3, <3>1 DEF Carried
  <2> QED BY <1>1, <2>1, <2>4, VerdictCallbackOnly
<1> QED BY <1>2, <1>3 DEF FindPurchase

(* What SavePurchase does, and why every status it writes was reported. *)
LEMMA SaveEffect ==
    ASSUME Typed, VerdictInv, NEW w \in Callbacks, SavePurchase(w)
    PROVE  LET ref == cb[w].ref
               new == orders'[ref]
               old == orders[ref]
           IN  /\ ref \in Placed /\ Placed' = Placed
               /\ cb[w].signed /\ <<ref, cb[w].tx>> \in reported
               /\ \A r \in Refs \ {ref} : orders'[r] = orders[r] /\ held'[r] = held[r]
               /\ held'[ref] = held[ref] \cup {new.status}
               /\ new.processed /\ new.email = old.email /\ new.item = old.item
               /\ new.user = old.user
               /\ new.tx \in {old.tx, cb[w].tx}
               /\ \/ new.status = old.status
                  \/ Decides(cb[w].tx) /\ new.status = Decision(cb[w].tx)
               /\ Decides(cb[w].tx) => Decision(cb[w].tx) \in held'[ref]
               /\ UNCHANGED <<context, forms, reported, unacked, announced>>
               /\ orders' = [orders EXCEPT ![ref] = new]
<1> DEFINE c == cb[w]
<1>1. /\ cb \in [Callbacks -> Deliveries] /\ orders \in [Refs -> Orders]
      /\ held \in [Refs -> SUBSET Status]
      /\ c.pc = "save" /\ c.ref \in Placed /\ c.ref \in Refs /\ c.status # "ABSENT"
      /\ Carried(w)
  BY DEF Typed, TypeOK, Filled, SavePurchase, VerdictInv
<1>2. /\ orders' = [orders EXCEPT ![c.ref] = Saved(orders[c.ref], c)]
      /\ held' = [held EXCEPT ![c.ref] = @ \cup {Saved(orders[c.ref], c).status}]
      /\ UNCHANGED <<context, forms, reported, unacked, announced>>
  BY DEF SavePurchase, requestVars, outsideVars
<1>3. /\ orders'[c.ref].status = IF c.status # c.oldStatus THEN c.status
                                                         ELSE orders[c.ref].status
      /\ orders'[c.ref].tx \in {orders[c.ref].tx, c.tx}
      /\ orders'[c.ref].processed
      /\ orders'[c.ref].email = orders[c.ref].email
      /\ orders'[c.ref].item = orders[c.ref].item
      /\ orders'[c.ref].user = orders[c.ref].user
  BY <1>1, <1>2 DEF Saved, Orders
<1>4. /\ c.oldStatus \in held[c.ref] /\ c.signed /\ <<c.ref, c.tx>> \in reported
      /\ c.status = IF Decides(c.tx) THEN Decision(c.tx) ELSE c.oldStatus
  BY <1>1 DEF Carried
<1>5. Placed' = Placed
  BY <1>1, <1>2, <1>3 DEF Placed
<1>6. /\ \A r \in Refs \ {c.ref} : orders'[r] = orders[r] /\ held'[r] = held[r]
      /\ held'[c.ref] = held[c.ref] \cup {orders'[c.ref].status}
      /\ orders' = [orders EXCEPT ![c.ref] = orders'[c.ref]]
  BY <1>1, <1>2
<1>7. Decides(c.tx) => Decision(c.tx) \in held'[c.ref]
  BY <1>3, <1>4, <1>6
<1> HIDE DEF c
<1> QED BY <1>1, <1>2, <1>3, <1>4, <1>5, <1>6, <1>7 DEF c

LEMMA VerdictSave ==
    ASSUME Typed, VerdictInv, NEW w \in Callbacks, SavePurchase(w)
    PROVE  VerdictInv' /\ Grows
<1> DEFINE ref == cb[w].ref
           tx  == cb[w].tx
<1>1. /\ ref \in Placed /\ Placed' = Placed /\ Placed \subseteq Refs
      /\ cb[w].signed /\ <<ref, tx>> \in reported
      /\ \A r \in Refs \ {ref} : orders'[r] = orders[r] /\ held'[r] = held[r]
      /\ held'[ref] = held[ref] \cup {orders'[ref].status}
      /\ orders'[ref].processed
      /\ orders'[ref].email = orders[ref].email /\ orders'[ref].item = orders[ref].item
      /\ orders'[ref].user = orders[ref].user
      /\ orders'[ref].tx \in {orders[ref].tx, tx}
      /\ \/ orders'[ref].status = orders[ref].status
         \/ Decides(tx) /\ orders'[ref].status = Decision(tx)
      /\ Decides(tx) => Decision(tx) \in held'[ref]
      /\ UNCHANGED <<context, forms, reported, unacked, announced>>
  BY SaveEffect DEF Placed
<1>2. Grows
  BY <1>1 DEF Grows
<1>3. Traceable'
  BY <1>1 DEF VerdictInv, Traceable
<1>4. DecidedByProvider'
  <2>1. \A r \in Refs \ {ref} :
           /\ "APPROVED" \in held'[r] => <<r, "Approved">> \in reported'
           /\ "DECLINED" \in held'[r] => <<r, "Declined">> \in reported'
           /\ orders'[r].tx # None => <<r, orders'[r].tx>> \in reported'
    BY <1>1 DEF VerdictInv, DecidedByProvider
  <2>2. orders[ref].status \in held[ref]
    BY <1>1 DEF VerdictInv, Traceable
  <2>3. "APPROVED" \in held'[ref] => <<ref, "Approved">> \in reported'
    BY <1>1, <2>2 DEF VerdictInv, DecidedByProvider, Decides, Decision
  <2>4. "DECLINED" \in held'[ref] => <<ref, "Declined">> \in reported'
    BY <1>1, <2>2 DEF VerdictInv, DecidedByProvider, Decides, Decision
  <2>5. orders'[ref].tx # None => <<ref, orders'[ref].tx>> \in reported'
    BY <1>1 DEF VerdictInv, DecidedByProvider
  <2> QED BY <2>1, <2>3, <2>4, <2>5 DEF DecidedByProvider
<1>5. AnnouncedAfterSaved' /\ AckedIsRecorded'
  <2>1. \A m \in announced : m[1] \in Refs
    BY <1>1 DEF VerdictInv, Traceable
  <2>2. \A m \in reported : m[1] \in Refs
    BY DEF Typed, TypeOK, Reports
  <2> QED BY <1>1, <2>1, <2>2 DEF VerdictInv, AnnouncedAfterSaved, AckedIsRecorded
<1>6. \A v \in Callbacks : Carried(v)'
  <2>1. PICK pc \in {"account", "publish"} : Step(w, pc)
    BY DEF SavePurchase
  <2>2. /\ cb'[w].pc = pc /\ cb'[w].ref = ref /\ cb'[w].tx = tx /\ cb'[w].signed
        /\ \A v \in Callbacks \ {w} : cb'[v] = cb[v]
    BY <1>1, <2>1, StepEffect DEF CallbackSteps
  <2>3. Carried(w)'
    BY <1>1, <2>1, <2>2 DEF Carried
  <2> QED BY <1>2, <2>2, <2>3, CarriedStable DEF VerdictInv
<1> QED BY <1>2, <1>3, <1>4, <1>5, <1>6 DEF VerdictInv

LEMMA VerdictPublish ==
    ASSUME Typed, VerdictInv, NEW w \in Callbacks, Publish(w)
    PROVE  VerdictInv' /\ Grows
<1> DEFINE ref == cb[w].ref
           tx  == cb[w].tx
<1>1. /\ ref \in Placed /\ Carried(w) /\ cb[w].pc = "publish"
      /\ UNCHANGED <<orderVars, requestVars, reported, unacked>>
  BY DEF Typed, Filled, VerdictInv, Publish
<1>2. CASE Answer(w, "error") /\ UNCHANGED announced
  <2>1. UNCHANGED <<orderVars, forms, outsideVars>>
    BY <1>1, <1>2 DEF outsideVars, requestVars
  <2>2. Grows
    BY <2>1, GrowsUnchanged DEF outsideVars
  <2>3. \A v \in Callbacks : Carried(v)'
    BY <1>2, <2>2, AnswerEffect, CarriedStable DEF Answers, VerdictInv
  <2>4. Traceable' /\ DecidedByProvider' /\ AnnouncedAfterSaved' /\ AckedIsRecorded'
    BY <2>1 DEF VerdictInv, Traceable, DecidedByProvider, AnnouncedAfterSaved,
                AckedIsRecorded, Placed, orderVars, outsideVars
  <2> QED BY <2>2, <2>3, <2>4 DEF VerdictInv
<1>3. CASE announced' = announced \cup {<<ref, Decision(tx)>>} /\ Step(w, "reply")
  <2>1. Grows
    BY <1>1, <1>3 DEF Grows, Placed, orderVars
  <2>2. orders[ref].processed /\ (Decision(tx) = "APPROVED" => "APPROVED" \in held[ref])
    BY <1>1 DEF Carried, Decides, Decision
  <2>3. Traceable' /\ DecidedByProvider' /\ AckedIsRecorded'
    BY <1>1, <1>3 DEF VerdictInv, Traceable, DecidedByProvider, AckedIsRecorded, Placed,
                      orderVars, requestVars
  <2>4. AnnouncedAfterSaved'
    BY <1>1, <1>3, <2>2 DEF VerdictInv, AnnouncedAfterSaved, orderVars
  <2>5. /\ cb'[w].pc = "reply" /\ cb'[w].ref = ref /\ cb'[w].tx = tx
        /\ cb'[w].signed = cb[w].signed
        /\ \A v \in Callbacks \ {w} : cb'[v] = cb[v]
    BY <1>3, StepEffect DEF CallbackSteps
  <2>6. Carried(w)'
    BY <1>1, <1>3, <2>5 DEF Carried, orderVars
  <2> QED BY <2>1, <2>3, <2>4, <2>5, <2>6, CarriedStable DEF VerdictInv
<1> QED BY <1>2, <1>3 DEF Publish

LEMMA VerdictReply ==
    ASSUME Typed, VerdictInv, NEW w \in Callbacks, Reply(w)
    PROVE  VerdictInv' /\ Grows
<1> DEFINE ref == cb[w].ref
           tx  == cb[w].tx
<1>1. /\ ref \in Placed /\ Carried(w) /\ cb[w].pc = "reply"
      /\ Answer(w, "accept")
      /\ unacked' \subseteq unacked /\ unacked \subseteq unacked' \cup {<<ref, tx>>}
      /\ UNCHANGED <<orderVars, forms, reported, announced>>
  BY DEF Typed, Filled, VerdictInv, Reply, requestVars
<1>2. Grows
  BY <1>1, GrowsUnchanged
<1>3. Traceable' /\ DecidedByProvider' /\ AnnouncedAfterSaved'
  BY <1>1 DEF VerdictInv, Traceable, DecidedByProvider, AnnouncedAfterSaved, Placed, orderVars
<1>4. /\ orders[ref].processed /\ <<ref, Decision(tx)>> \in announced
      /\ tx = "Approved" => "APPROVED" \in held[ref]
      /\ tx = "Declined" => "DECLINED" \in held[ref]
  BY <1>1 DEF Carried, Decides, Decision
<1>5. AckedIsRecorded'
  <2> SUFFICES ASSUME NEW m \in reported, m \notin unacked'
               PROVE  /\ orders[m[1]].processed
                      /\ \E v \in {"APPROVED", "DECLINED"} : <<m[1], v>> \in announced
                      /\ m[2] = "Approved" => "APPROVED" \in held[m[1]]
                      /\ m[2] = "Declined" => "DECLINED" \in held[m[1]]
    BY <1>1 DEF AckedIsRecorded, orderVars
  <2>1. CASE m \notin unacked
    BY <2>1 DEF VerdictInv, AckedIsRecorded
  <2>2. CASE m = <<ref, tx>>
    <3>1. m[1] = ref /\ m[2] = tx
      BY <2>2
    <3>2. Decision(tx) \in {"APPROVED", "DECLINED"}
      BY DEF Decision
    <3> QED BY <1>4, <3>1, <3>2
  <2> QED BY <1>1, <2>1, <2>2
<1>6. \A v \in Callbacks : Carried(v)'
  BY <1>1, <1>2, AnswerEffect, CarriedStable DEF Answers, VerdictInv
<1> QED BY <1>2, <1>3, <1>5, <1>6 DEF VerdictInv

LEMMA VerdictCallbackStep ==
    ASSUME Typed, VerdictInv, NEW w \in Callbacks, CallbackStep(w)
    PROVE  VerdictInv' /\ Grows
<1>1. CASE FindPurchase(w)
  BY <1>1, VerdictFind
<1>2. CASE SavePurchase(w)
  BY <1>2, VerdictSave
<1>3. CASE FindAccount(w)
  <2>1. PICK new \in Deliveries :
          /\ cb' = [cb EXCEPT ![w] = new]
          /\ new.pc \in {"grant", "publish"} /\ new.ref = cb[w].ref
          /\ new.tx = cb[w].tx /\ new.signed = cb[w].signed
    BY <1>3, FindAccountEffect
  <2>2. cb[w].pc = "account" /\ CallbackOnly /\ Carried(w) /\ cb \in [Callbacks -> Deliveries]
    BY <1>3, FindAccountEffect DEF VerdictInv, Typed, TypeOK
  <2>3. /\ cb'[w].pc \in {"grant", "publish"} /\ cb'[w].ref = cb[w].ref
        /\ cb'[w].tx = cb[w].tx /\ cb'[w].signed = cb[w].signed
        /\ \A v \in Callbacks \ {w} : cb'[v] = cb[v]
    BY <2>1, <2>2
  <2>4. Carried(w)'
    BY <2>2, <2>3 DEF Carried, CallbackOnly, orderVars, outsideVars
  <2> QED BY <2>2, <2>3, <2>4, VerdictCallbackOnly
<1>4. CASE Grant(w)
  BY <1>4, GrantFails, AnswerEffect, VerdictCallbackOnly DEF Answers
<1>5. CASE Publish(w)
  BY <1>5, VerdictPublish
<1>6. CASE Reply(w)
  BY <1>6, VerdictReply
<1> QED BY <1>1, <1>2, <1>3, <1>4, <1>5, <1>6 DEF CallbackStep

LEMMA VerdictInit == Init => VerdictInv
BY DEF Init, VerdictInv, Traceable, DecidedByProvider, AnnouncedAfterSaved,
       AckedIsRecorded, Carried, Placed, NoOrder, IdleCallback

LEMMA VerdictNext == Typed /\ VerdictInv /\ [Next]_vars => VerdictInv' /\ Grows
<1> SUFFICES ASSUME Typed, VerdictInv, [Next]_vars PROVE VerdictInv' /\ Grows
  OBVIOUS
<1>1. ASSUME UNCHANGED <<orderVars, forms, cb, outsideVars>>
      PROVE  VerdictInv' /\ Grows
  BY <1>1, VerdictUnchanged, GrowsUnchanged DEF outsideVars
<1>2. CASE \E h \in Requests : ReceiveRequest(h)
  BY <1>1, <1>2 DEF ReceiveRequest, ReceiveProduct, ReceiveCourse
<1>3. CASE \E h \in Requests : RequestStep(h)
  BY <1>3, VerdictRequestStep
<1>4. CASE \E ref \in Refs, tx \in Transactions : ProviderReports(ref, tx)
  BY <1>4, VerdictReports
<1>5. CASE \E w \in Callbacks : DeliverAny(w) \/ CallbackStep(w)
  BY <1>5, VerdictDeliver, VerdictCallbackStep
<1>6. CASE Crash
  <2>1. UNCHANGED <<orderVars, forms, outsideVars>>
    BY <1>6 DEF Crash
  <2>2. Grows
    BY <2>1, GrowsUnchanged DEF outsideVars
  <2>3. \A w \in Callbacks : Carried(w)'
    BY <1>6 DEF Crash, Carried, IdleCallback
  <2>4. Traceable' /\ DecidedByProvider' /\ AnnouncedAfterSaved' /\ AckedIsRecorded'
    BY <2>1 DEF VerdictInv, Traceable, DecidedByProvider, AnnouncedAfterSaved,
                AckedIsRecorded, Placed, orderVars, outsideVars
  <2> QED BY <2>2, <2>3, <2>4 DEF VerdictInv
<1>7. CASE Elsewhere
  BY <1>1, <1>7 DEF Elsewhere, requestVars
<1>8. CASE UNCHANGED vars
  BY <1>1, <1>8 DEF vars, requestVars
<1> QED BY <1>2, <1>3, <1>4, <1>5, <1>6, <1>7, <1>8 DEF Next

LEMMA VerdictCorrect == Spec => []VerdictInv
BY TypedInit, TypedNext, VerdictInit, VerdictNext, PTL DEF Spec

(* Whatever number of callbacks is served at once, and however they are
   repeated, mixed up or cut short, an order shows only what was reported. *)
THEOREM VerdictsComeFromProvider == Spec => []DecidedByProvider
<1>1. VerdictInv => DecidedByProvider
  BY DEF VerdictInv
<1> QED BY <1>1, VerdictCorrect, PTL

(* Nothing is announced that the database does not hold. *)
THEOREM AnnouncementsAreSaved == Spec => []AnnouncedAfterSaved
<1>1. VerdictInv => AnnouncedAfterSaved
  BY DEF VerdictInv
<1> QED BY <1>1, VerdictCorrect, PTL

(* The provider stops only after its verdict has been recorded and announced. *)
THEOREM AcceptedIsRecorded == Spec => []AckedIsRecorded
<1>1. VerdictInv => AckedIsRecorded
  BY DEF VerdictInv
<1> QED BY <1>1, VerdictCorrect, PTL

-----------------------------------------------------------------------------
(* The handlers implement the order book. *)
book == [r \in Refs |-> orders[r].status]

LEMMA BookInit == Init => Book!Init
BY DEF Init, Book!Init, NoOrder, VerdictsReported

LEMMA BookUnchanged ==
    ASSUME UNCHANGED <<orders, reported>>
    PROVE  UNCHANGED <<book, VerdictsReported>>
BY DEF book, VerdictsReported

LEMMA BookPlace ==
    ASSUME Typed, NEW h \in Requests, NEW ref \in Refs \ Placed,
           NEW user \in Users \cup {None}, InsertOrder(h, ref, user)
    PROVE  Book!Place(ref)
<1>1. /\ \A r \in Refs \ {ref} : orders'[r] = orders[r]
      /\ orders'[ref].status = "PENDING" /\ reported' = reported
  BY InsertEffect DEF outsideVars
<1>2. orders[ref].status = "ABSENT"
  BY DEF Placed
<1> QED BY <1>1, <1>2 DEF Book!Place, VerdictsReported

LEMMA BookReport ==
    ASSUME Typed, VerdictInv, NEW ref \in Refs, NEW tx \in Transactions,
           ProviderReports(ref, tx)
    PROVE  \/ \E v \in Book!Verdicts : Book!Report(ref, v)
           \/ UNCHANGED <<book, VerdictsReported>>
<1>1. /\ orders[ref].status # "ABSENT" /\ orders' = orders
      /\ reported' = reported \cup {<<ref, tx>>}
  BY DEF VerdictInv, Traceable, Placed, ProviderReports, orderVars
<1>2. CASE tx = "Approved"
  <2>1. VerdictsReported' = VerdictsReported \cup {<<ref, "APPROVED">>}
    BY <1>1, <1>2 DEF VerdictsReported
  <2> QED BY <1>1, <2>1 DEF Book!Report, Book!Verdicts
<1>3. CASE tx = "Declined"
  <2>1. VerdictsReported' = VerdictsReported \cup {<<ref, "DECLINED">>}
    BY <1>1, <1>3 DEF VerdictsReported
  <2> QED BY <1>1, <2>1 DEF Book!Report, Book!Verdicts
<1>4. CASE tx \notin {"Approved", "Declined"}
  BY <1>1, <1>4 DEF VerdictsReported, book
<1> QED BY <1>2, <1>3, <1>4

LEMMA BookDecide ==
    ASSUME NEW ref \in Placed, NEW v \in Book!Verdicts, <<ref, v>> \in VerdictsReported,
           \A r \in Refs \ {ref} : orders'[r] = orders[r],
           orders'[ref].status = v, reported' = reported
    PROVE  Book!Next
<1>1. Book!Decide(ref, v) /\ ref \in Refs
  BY DEF Book!Decide, Placed, VerdictsReported
<1> QED BY <1>1 DEF Book!Next

LEMMA BookSave ==
    ASSUME Typed, VerdictInv, NEW w \in Callbacks, SavePurchase(w)
    PROVE  Book!Next \/ UNCHANGED <<book, VerdictsReported>>
<1> DEFINE ref == cb[w].ref
           tx  == cb[w].tx
<1>1. /\ ref \in Placed /\ <<ref, tx>> \in reported
      /\ \A r \in Refs \ {ref} : orders'[r] = orders[r]
      /\ \/ orders'[ref].status = orders[ref].status
         \/ Decides(tx) /\ orders'[ref].status = Decision(tx)
      /\ reported' = reported
  BY SaveEffect
<1>2. CASE orders'[ref].status = orders[ref].status
  BY <1>1, <1>2 DEF book, VerdictsReported
<1>3. CASE Decides(tx) /\ orders'[ref].status = Decision(tx)
  <2>1. Decision(tx) \in Book!Verdicts /\ <<ref, Decision(tx)>> \in VerdictsReported
    BY <1>1, <1>3 DEF Decides, Decision, VerdictsReported, Book!Verdicts, Placed
  <2> QED BY <1>1, <1>3, <2>1, BookDecide
<1> QED BY <1>1, <1>2, <1>3

LEMMA BookNext ==
    Typed /\ VerdictInv /\ [Next]_vars => [Book!Next]_<<book, VerdictsReported>>
<1> SUFFICES ASSUME Typed, VerdictInv, [Next]_vars
             PROVE  [Book!Next]_<<book, VerdictsReported>>
  OBVIOUS
<1>1. CASE UNCHANGED <<orders, reported>>
  BY <1>1, BookUnchanged
<1>2. CASE \E h \in Requests, ref \in Refs \ Placed, user \in Users \cup {None} :
             InsertOrder(h, ref, user)
  BY <1>2, BookPlace DEF Book!Next
<1>3. CASE \E ref \in Refs, tx \in Transactions : ProviderReports(ref, tx)
  BY <1>3, BookReport DEF Book!Next
<1>4. CASE \E w \in Callbacks : SavePurchase(w)
  BY <1>4, BookSave
<1>5. ASSUME NEW h \in Requests, RequestStep(h)
      PROVE  \/ UNCHANGED <<orders, reported>>
             \/ \E ref \in Refs \ Placed, user \in Users \cup {None} :
                  InsertOrder(h, ref, user)
  <2>1. req[h].user \in Users \cup {None}
    BY DEF Typed, TypeOK, Handlers
  <2> QED
    BY <1>5, <2>1
       DEF RequestStep, GetProductDetails, PriceProduct, GetProductType,
           CheckExistingUser, CheckExistingPurchase, CheckHolding, GetCourseData,
           CheckPaymentPlan, CheckCoursePurchase, PriceCourse, CreateProductOrder,
           CreateCourseOrder, RespondForm, orderVars, outsideVars
<1>6. ASSUME NEW w \in Callbacks, DeliverAny(w) \/ CallbackStep(w)
      PROVE  UNCHANGED <<orders, reported>> \/ SavePurchase(w)
  BY <1>6 DEF DeliverAny, Deliver, DeliverUnsigned, CallbackStep, FindPurchase,
              FindAccount, Grant, Publish, Reply, orderVars, outsideVars
<1>7. CASE (\E h \in Requests : ReceiveRequest(h)) \/ Crash \/ Elsewhere \/ UNCHANGED vars
  <2>1. UNCHANGED <<orders, reported>>
    BY <1>7 DEF ReceiveRequest, ReceiveProduct, ReceiveCourse, Crash, Elsewhere, vars,
                orderVars, outsideVars
  <2> QED BY <2>1, <1>1
<1> QED BY <1>1, <1>2, <1>3, <1>4, <1>5, <1>6, <1>7 DEF Next

(* Every behaviour of the handlers, read as statuses and verdicts, is one of
   the order book. *)
THEOREM Implementation == Spec => ImplementsOrderBook
<1>1. [Book!Next]_<<book, VerdictsReported>>
        => [Book!Next]_<<[r \in Refs |-> orders[r].status], VerdictsReported>>
  BY DEF book
<1> QED BY <1>1, BookInit, BookNext, TypedInit, TypedNext, VerdictCorrect, TypeCorrect, PTL
        DEF Spec, ImplementsOrderBook, Book!Spec, Typed

-----------------------------------------------------------------------------
(* Orders in turn.  A request knows more of the record with every check it
   passes; what its context says was there when it came in is there still: orders
   are not taken back, and an account or an entitlement that is leaves the context
   at the same step. *)
ProductSteps == {"details", "discount", "type", "account", "existing", "holding", "create"}
CourseSteps  == {"courseData", "plan", "open", "courseDiscount", "courseCreate"}

Refusable(email, item) == \E q \in OrdersFor(email, item) : "DECLINED" \in held[q]

Checked(h) ==
    LET ctx == req[h].ctx
        own == OrdersFor(req[h].email, req[h].item)
    IN
    /\ req[h].pc \in ProductSteps =>
          /\ req[h].item \in Products /\ ctx.rivals \subseteq own
          /\ ctx.registered => Registered(req[h].email)
          /\ ctx.owned => <<req[h].user, req[h].item>> \in holdings
    /\ req[h].pc \in {"existing", "holding", "create"} /\ ~OwnAddress(h) => ~ctx.registered
    /\ req[h].pc \in {"holding", "create"} => ctx.rivals = {}
    /\ req[h].pc = "create" /\ OwnAddress(h) => ~ctx.owned
    /\ req[h].pc \in CourseSteps => req[h].item \in Courses /\ ctx.rivals \subseteq own
    /\ req[h].pc \in {"courseDiscount", "courseCreate"} /\ ctx.rivals # {} =>
          Refusable(req[h].email, req[h].item)

TurnInv ==
    /\ OrderInTurn
    /\ CourseOrderInTurn
    /\ \A h \in Requests : Checked(h)

LEMMA OrdersStay ==
    ASSUME Typed, Grows, NEW email, NEW item
    PROVE  /\ OrdersFor(email, item) \subseteq OrdersFor(email, item)'
           /\ Refusable(email, item) => Refusable(email, item)'
BY DEF Grows, OrdersFor, Refusable

(* An address that has an account keeps one. *)
AccountsStay == \A email \in Emails : Registered(email) => Registered(email)'

LEMMA CheckedStable ==
    ASSUME Typed, Grows, AccountsStay, holdings \subseteq holdings',
           NEW h \in Requests, Checked(h), req'[h] = req[h]
    PROVE  Checked(h)'
<1>1. /\ OrdersFor(req[h].email, req[h].item) \subseteq OrdersFor(req[h].email, req[h].item)'
      /\ Refusable(req[h].email, req[h].item) => Refusable(req[h].email, req[h].item)'
  BY OrdersStay
<1>2. req[h].pc # "idle" => req[h].email \in Emails
  BY DEF Typed, Filled
<1> QED BY <1>1, <1>2 DEF Checked, OwnAddress, AccountsStay, ProductSteps, CourseSteps

(* What is taken from the record is taken from the contexts too. *)
LEMMA CheckedKept ==
    ASSUME Typed, Grows, NEW h \in Requests, Checked(h), Kept(h),
           req'[h].ctx.registered =>
              req[h].ctx.registered /\ (Registered(req[h].email) => Registered(req[h].email)'),
           req'[h].ctx.owned =>
              /\ req[h].ctx.owned
              /\ <<req[h].user, req[h].item>> \in holdings =>
                    <<req[h].user, req[h].item>> \in holdings'
    PROVE  Checked(h)'
<1>1. /\ OrdersFor(req[h].email, req[h].item) \subseteq OrdersFor(req[h].email, req[h].item)'
      /\ Refusable(req[h].email, req[h].item) => Refusable(req[h].email, req[h].item)'
  BY OrdersStay DEF Kept
<1>2. OwnAddress(h)' = OwnAddress(h)
  BY DEF Kept, OwnAddress
<1> QED BY <1>1, <1>2 DEF Checked, Kept

(* While no order is placed, those that are stay as they should be. *)
LEMMA TurnStable ==
    ASSUME Typed, Grows, TurnInv, Placed' = Placed
    PROVE  OrderInTurn' /\ CourseOrderInTurn'
<1>1. ASSUME NEW r \in Placed, orders[r].item \in Courses, context[r].rivals # {}
      PROVE  \E q \in OrdersFor(orders[r].email, orders[r].item)' \ {r} :
               "DECLINED" \in held'[q]
  <2>1. PICK q \in OrdersFor(orders[r].email, orders[r].item) \ {r} : "DECLINED" \in held[q]
    BY <1>1 DEF TurnInv, CourseOrderInTurn
  <2> QED BY <2>1, OrdersStay DEF Grows, OrdersFor
<1>2. CourseOrderInTurn'
  BY <1>1 DEF CourseOrderInTurn, Grows, OrdersFor
<1>3. OrderInTurn'
  BY DEF TurnInv, OrderInTurn, Grows
<1> QED BY <1>2, <1>3

(* Every step but a new order's leaves the record of orders in turn. *)
LEMMA TurnOther ==
    ASSUME Typed, Grows, TurnInv, Placed' = Placed,
           AccountsStay, holdings \subseteq holdings',
           NEW moved \in SUBSET Requests, \A h \in moved : Checked(h)',
           \A h \in Requests \ moved : req'[h] = req[h]
    PROVE  TurnInv'
BY TurnStable, CheckedStable DEF TurnInv

LEMMA TurnInsertProduct ==
    ASSUME Typed, VerdictInv, TurnInv, NEW h \in Requests, NEW ref \in Refs,
           CreateProductOrder(h, ref)
    PROVE  TurnInv'
<1> DEFINE user == IF OwnAddress(h) THEN req[h].user ELSE None
<1>1. /\ ref \in Refs \ Placed /\ user \in Users \cup {None} /\ req[h].pc = "create"
      /\ InsertOrder(h, ref, user) /\ req[h].email \in Emails /\ Checked(h)
  BY DEF CreateProductOrder, Refs, Typed, TypeOK, Filled, Handlers, TurnInv
<1> HIDE DEF user
<1>2. /\ Placed' = Placed \cup {ref}
      /\ \A r \in Refs \ {ref} : /\ orders'[r] = orders[r] /\ held'[r] = held[r]
                                 /\ context'[r] = context[r]
      /\ context'[ref] = req[h].ctx /\ orders'[ref].item = req[h].item
      /\ orders'[ref].user = user
      /\ req'[h].pc = "respond" /\ \A g \in Requests \ {h} : req'[g] = req[g]
      /\ AccountsStay /\ holdings' = holdings
  BY <1>1, InsertEffect DEF shopVars, AccountsStay, Registered
<1>3. Grows
  BY <1>1, VerdictInsert
<1>4. /\ req[h].item \in Products /\ req[h].ctx.rivals = {}
      /\ user = None => ~req[h].ctx.registered
      /\ user # None => ~req[h].ctx.owned
  BY <1>1, NoneAssumption DEF Checked, ProductSteps, user, OwnAddress
<1>5. OrderInTurn'
  BY <1>2, <1>4 DEF TurnInv, OrderInTurn, Placed
<1>6. CourseOrderInTurn'
  <2> SUFFICES ASSUME NEW r \in Placed', orders'[r].item \in Courses, context'[r].rivals # {}
               PROVE  \E q \in OrdersFor(orders[r].email, orders[r].item)' \ {r} :
                        "DECLINED" \in held'[q]
    BY DEF CourseOrderInTurn
  <2>1. r # ref /\ r \in Placed /\ r \in Refs
    BY <1>2, <1>4 DEF Placed
  <2>2. PICK q \in OrdersFor(orders[r].email, orders[r].item) \ {r} : "DECLINED" \in held[q]
    BY <1>2, <2>1 DEF TurnInv, CourseOrderInTurn
  <2> QED BY <1>2, <1>3, <2>1, <2>2, OrdersStay DEF Grows, OrdersFor
<1>7. \A g \in Requests : Checked(g)'
  <2>1. Checked(h)'
    BY <1>2 DEF Checked, ProductSteps, CourseSteps
  <2> QED BY <1>2, <1>3, <2>1, CheckedStable DEF TurnInv
<1> QED BY <1>5, <1>6, <1>7 DEF TurnInv

LEMMA TurnInsertCourse ==
    ASSUME Typed, VerdictInv, TurnInv, NEW h \in Requests, NEW ref \in Refs \ Placed,
           req[h].pc = "courseCreate", InsertOrder(h, ref, req[h].user)
    PROVE  TurnInv'
<1>1. req[h].user \in Users \cup {None} /\ Checked(h)
  BY DEF Typed, TypeOK, Handlers, TurnInv
<1>2. /\ Placed' = Placed \cup {ref}
      /\ \A r \in Refs \ {ref} : /\ orders'[r] = orders[r] /\ held'[r] = held[r]
                                 /\ context'[r] = context[r]
      /\ context'[ref] = req[h].ctx /\ orders'[ref].item = req[h].item
      /\ orders'[ref].email = req[h].email
      /\ req'[h].pc = "respond" /\ \A g \in Requests \ {h} : req'[g] = req[g]
      /\ AccountsStay /\ holdings' = holdings
  BY <1>1, InsertEffect DEF shopVars, AccountsStay, Registered
<1>3. Grows
  BY <1>1, VerdictInsert
<1>4. /\ req[h].item \in Courses
      /\ req[h].ctx.rivals # {} => Refusable(req[h].email, req[h].item)
  BY <1>1 DEF Checked, CourseSteps
<1>5. OrderInTurn'
  BY <1>2, <1>4 DEF TurnInv, OrderInTurn, Placed, Products, Courses
<1>6. CourseOrderInTurn'
  <2> SUFFICES ASSUME NEW r \in Placed', orders'[r].item \in Courses, context'[r].rivals # {}
               PROVE  \E q \in OrdersFor(orders[r].email, orders[r].item)' \ {r} :
                        "DECLINED" \in held'[q]
    BY DEF CourseOrderInTurn
  <2>1. CASE r # ref
    <3>1. r \in Placed /\ r \in Refs
      BY <1>2, <2>1 DEF Placed
    <3>2. PICK q \in OrdersFor(orders[r].email, orders[r].item) \ {r} : "DECLINED" \in held[q]
      BY <1>2, <2>1, <3>1 DEF TurnInv, CourseOrderInTurn
    <3> QED BY <1>2, <1>3, <2>1, <3>1, <3>2, OrdersStay DEF Grows, OrdersFor
  <2>2. CASE r = ref
    <3>1. PICK q \in OrdersFor(req[h].email, req[h].item) : "DECLINED" \in held[q]
      BY <1>2, <1>4, <2>2 DEF Refusable
    <3> QED BY <1>2, <1>3, <2>2, <3>1, OrdersStay DEF Grows, OrdersFor
  <2> QED BY <2>1, <2>2
<1>7. \A g \in Requests : Checked(g)'
  <2>1. Checked(h)'
    BY <1>2 DEF Checked, ProductSteps, CourseSteps
  <2> QED BY <1>2, <1>3, <2>1, CheckedStable DEF TurnInv
<1> QED BY <1>5, <1>6, <1>7 DEF TurnInv

LEMMA GotoEffect ==
    ASSUME Typed, NEW h \in Requests, NEW pc, Goto(h, pc)
    PROVE  /\ req'[h].pc = pc /\ req'[h].email = req[h].email /\ req'[h].user = req[h].user
           /\ req'[h].address = req[h].address /\ req'[h].item = req[h].item /\ req'[h].ctx = req[h].ctx
           /\ \A g \in Requests \ {h} : req'[g] = req[g]
<1>1. req \in [Requests -> Handlers]
  BY DEF Typed, TypeOK
<1> QED BY <1>1 DEF Goto, Handlers

LEMMA RefuseEffect ==
    ASSUME Typed, NEW h \in Requests, NEW why, Refuse(h, why)
    PROVE  Checked(h)' /\ \A g \in Requests \ {h} : req'[g] = req[g]
<1>1. req \in [Requests -> Handlers]
  BY DEF Typed, TypeOK
<1>2. req'[h].pc = "idle" /\ \A g \in Requests \ {h} : req'[g] = req[g]
  BY <1>1 DEF Refuse, IdleRequest
<1> QED BY <1>2 DEF Checked, ProductSteps, CourseSteps

LEMMA PriceEffect ==
    ASSUME Typed, NEW h \in Requests, req[h].item \in Items, NEW pc, NEW reduced,
           req' = [req EXCEPT ![h].pc = pc, ![h].reduced = reduced,
                              ![h].ctx.phase = discount[req[h].item]]
    PROVE  /\ req'[h].pc = pc /\ req'[h].email = req[h].email /\ req'[h].user = req[h].user
           /\ req'[h].address = req[h].address /\ req'[h].item = req[h].item
           /\ req'[h].ctx.rivals = req[h].ctx.rivals /\ req'[h].ctx.owned = req[h].ctx.owned
           /\ req'[h].ctx.registered = req[h].ctx.registered
           /\ \A g \in Requests \ {h} : req'[g] = req[g]
<1>1. req \in [Requests -> Handlers] /\ req[h].ctx \in Contexts
  BY DEF Typed, TypeOK, Handlers
<1> DEFINE ctx == [req[h].ctx EXCEPT !.phase = discount[req[h].item]]
           new == [req[h] EXCEPT !.pc = pc, !.reduced = reduced, !.ctx = ctx]
<1>2. ctx.rivals = req[h].ctx.rivals /\ ctx.owned = req[h].ctx.owned
      /\ ctx.registered = req[h].ctx.registered
  BY <1>1 DEF Contexts
<1>3. req' = [req EXCEPT ![h] = new]
  BY <1>1, ZenonT(60) DEF Handlers, Contexts
<1>4. new.pc = pc /\ new.email = req[h].email /\ new.user = req[h].user
      /\ new.address = req[h].address /\ new.item = req[h].item /\ new.ctx = ctx
  BY <1>1 DEF Handlers
<1> HIDE DEF new, ctx
<1> QED BY <1>1, <1>2, <1>3, <1>4

LEMMA TurnRequestOnly ==
    ASSUME Typed, TurnInv, RequestOnly, NEW h \in Requests, Checked(h)',
           \A g \in Requests \ {h} : req'[g] = req[g]
    PROVE  TurnInv'
<1>1. /\ UNCHANGED <<orderVars, holdings, reported, announced>> /\ Placed' = Placed
      /\ AccountsStay
  BY DEF RequestOnly, shopVars, outsideVars, Placed, orderVars, AccountsStay, Registered
<1>2. Grows
  BY <1>1, GrowsUnchanged
<1>3. {h} \in SUBSET Requests
  OBVIOUS
<1> QED BY <1>1, <1>2, <1>3, TurnOther

LEMMA TurnPrice ==
    ASSUME Typed, TurnInv, RequestOnly, NEW h \in Requests, req[h].item \in Items,
           NEW reduced \in BOOLEAN, NEW pc,
           \/ pc = "type" /\ req[h].pc = "discount"
           \/ pc = "courseCreate" /\ req[h].pc = "courseDiscount",
           req' = [req EXCEPT ![h].pc = pc, ![h].reduced = reduced,
                              ![h].ctx.phase = discount[req[h].item]]
    PROVE  TurnInv'
<1>1. /\ req'[h].pc = pc /\ req'[h].email = req[h].email /\ req'[h].user = req[h].user
      /\ req'[h].address = req[h].address /\ req'[h].item = req[h].item
      /\ req'[h].ctx.rivals = req[h].ctx.rivals /\ req'[h].ctx.owned = req[h].ctx.owned
      /\ req'[h].ctx.registered = req[h].ctx.registered
      /\ \A g \in Requests \ {h} : req'[g] = req[g]
  BY PriceEffect
<1>2. accounts' = accounts /\ holdings' = holdings /\ UNCHANGED orderVars
  BY DEF RequestOnly, shopVars
<1>3. /\ OrdersFor(req[h].email, req[h].item)' = OrdersFor(req[h].email, req[h].item)
      /\ Refusable(req[h].email, req[h].item) => Refusable(req[h].email, req[h].item)'
  BY <1>1, <1>2 DEF OrdersFor, Refusable, orderVars, Placed
<1>4. Checked(h)'
  <2>1. Checked(h)
    BY DEF TurnInv
  <2>2. CASE pc = "type" /\ req[h].pc = "discount"
    <3>1. /\ req[h].item \in Products
          /\ req[h].ctx.rivals \subseteq OrdersFor(req[h].email, req[h].item)
          /\ req[h].ctx.registered => Registered(req[h].email)
          /\ req[h].ctx.owned => <<req[h].user, req[h].item>> \in holdings
      BY <2>1, <2>2 DEF Checked, ProductSteps
    <3>2. req'[h].pc = "type"
      BY <1>1, <2>2
    <3>3. /\ req'[h].item \in Products
          /\ req'[h].ctx.rivals \subseteq OrdersFor(req[h].email, req[h].item)'
      BY <1>1, <1>3, <3>1
    <3>6. req[h].ctx.registered \in BOOLEAN /\ req[h].ctx.owned \in BOOLEAN
      BY DEF Typed, TypeOK, Handlers, Contexts
    <3>4. req'[h].ctx.registered => Registered(req[h].email)'
      BY <1>1, <1>2, <3>1, <3>6 DEF Registered
    <3>5. req'[h].ctx.owned => <<req'[h].user, req'[h].item>> \in holdings'
      <4>1. req'[h].ctx.owned => req[h].ctx.owned
        BY <1>1, <3>6
      <4>2. <<req'[h].user, req'[h].item>> = <<req[h].user, req[h].item>>
        BY <1>1
      <4>3. req[h].ctx.owned => <<req[h].user, req[h].item>> \in holdings'
        BY <1>2, <3>1
      <4> QED BY <4>1, <4>2, <4>3
    <3> QED BY <3>2, <3>3, <3>4, <3>5 DEF Checked, CourseSteps
  <2>3. CASE pc = "courseCreate" /\ req[h].pc = "courseDiscount"
    <3>1. req[h].ctx.rivals # {} => Refusable(req[h].email, req[h].item)
      BY <2>1, <2>3 DEF Checked
    <3>2. req'[h].ctx.rivals # {} => Refusable(req[h].email, req[h].item)'
      BY <1>1, <1>3, <3>1
    <3> QED BY <1>1, <1>3, <2>1, <2>3, <3>2 DEF Checked, ProductSteps, CourseSteps
  <2> QED BY <2>2, <2>3
<1> QED BY <1>1, <1>4, TurnRequestOnly

(* One check after the other. *)
LEMMA TurnRequestStep ==
    ASSUME Typed, VerdictInv, TurnInv, NEW h \in Requests, RequestStep(h)
    PROVE  TurnInv'
<1>1. Checked(h)
  BY DEF TurnInv
<1>2. /\ req[h].pc # "idle" => req[h].email \in Emails /\ req[h].item \in Items
      /\ req \in [Requests -> Handlers]
  BY DEF Typed, TypeOK, Filled
<1>3. ASSUME RequestOnly, NEW why \in Outcomes, Refuse(h, why)
      PROVE  TurnInv'
  BY <1>3, RefuseEffect, TurnRequestOnly
<1>4. ASSUME RequestOnly, NEW pc \in RequestSteps, Goto(h, pc),
             /\ pc = "existing" /\ ~OwnAddress(h) => ~req[h].ctx.registered
             /\ pc \in {"holding", "create"} =>
                   req[h].ctx.rivals = {} /\ (~OwnAddress(h) => ~req[h].ctx.registered)
             /\ pc = "create" /\ OwnAddress(h) => ~req[h].ctx.owned
             /\ pc = "courseDiscount" /\ req[h].ctx.rivals # {} =>
                   Refusable(req[h].email, req[h].item),
             pc \in {"discount", "account", "existing", "holding", "create"} =>
                req[h].pc \in ProductSteps,
             pc \in {"plan", "open", "courseDiscount"} => req[h].pc \in CourseSteps,
             pc \in {"discount", "account", "existing", "holding", "create",
                     "plan", "open", "courseDiscount"}
      PROVE  TurnInv'
  <2>1. /\ req'[h].pc = pc /\ req'[h].email = req[h].email /\ req'[h].user = req[h].user
        /\ req'[h].address = req[h].address /\ req'[h].item = req[h].item /\ req'[h].ctx = req[h].ctx
        /\ \A g \in Requests \ {h} : req'[g] = req[g]
    BY <1>4, GotoEffect
  <2>2. UNCHANGED <<orderVars, accounts, holdings>> /\ Placed' = Placed
    BY <1>4 DEF RequestOnly, shopVars, Placed, orderVars
  <2>3. /\ OrdersFor(req[h].email, req[h].item)' = OrdersFor(req[h].email, req[h].item)
        /\ OwnAddress(h)' = OwnAddress(h)
        /\ Registered(req[h].email)' = Registered(req[h].email)
        /\ Refusable(req[h].email, req[h].item)' = Refusable(req[h].email, req[h].item)
    BY <2>1, <2>2 DEF OrdersFor, OwnAddress, Refusable, Registered, orderVars
  <2>4. Checked(h)'
    BY <1>1, <1>4, <2>1, <2>2, <2>3 DEF Checked, ProductSteps, CourseSteps
  <2> QED BY <1>4, <2>1, <2>4, TurnRequestOnly
<1> USE DEF RequestSteps, Outcomes, ProductSteps, CourseSteps
<1>5. CASE GetProductDetails(h)
  BY <1>3, <1>4, <1>5 DEF GetProductDetails, RequestOnly
<1>6. CASE GetProductType(h)
  BY <1>3, <1>4, <1>6 DEF GetProductType, RequestOnly
<1>7. CASE CheckExistingUser(h)
  BY <1>1, <1>3, <1>4, <1>7 DEF CheckExistingUser, RequestOnly, Checked
<1>8. CASE CheckExistingPurchase(h)
  <2> DEFINE found == OrdersFor(req[h].email, req[h].item)
  <2>1. CASE \E r \in found : Refuse(h, RefusalFor(orders[r].status))
    <3>1. PICK r \in found : Refuse(h, RefusalFor(orders[r].status))
      BY <2>1
    <3> QED BY <1>8, <3>1, RefuseEffect, TurnRequestOnly DEF CheckExistingPurchase, RequestOnly
  <2>2. CASE found = {} /\ Goto(h, IF OwnAddress(h) THEN "holding" ELSE "create")
    BY <1>1, <1>4, <1>8, <2>2 DEF CheckExistingPurchase, RequestOnly, Checked
  <2> QED BY <1>8, <2>1, <2>2 DEF CheckExistingPurchase
<1>9. CASE CheckHolding(h)
  BY <1>1, <1>3, <1>4, <1>9 DEF CheckHolding, RequestOnly, Checked
<1>10. CASE GetCourseData(h)
  BY <1>3, <1>4, <1>10 DEF GetCourseData, RequestOnly
<1>11. CASE CheckPaymentPlan(h)
  BY <1>3, <1>4, <1>11 DEF CheckPaymentPlan, RequestOnly
<1>12. CASE CheckCoursePurchase(h)
  <2> DEFINE found == OrdersFor(req[h].email, req[h].item)
  <2>1. CASE \E r \in found : Refuse(h, RefusalFor(orders[r].status))
    <3>1. PICK r \in found : Refuse(h, RefusalFor(orders[r].status))
      BY <2>1
    <3> QED BY <1>12, <3>1, RefuseEffect, TurnRequestOnly DEF CheckCoursePurchase, RequestOnly
  <2>2. CASE (found = {} \/ \E r \in found : ~StandsInWay(r)) /\ Goto(h, "courseDiscount")
    <3>1. ASSUME NEW r \in found, ~StandsInWay(r) PROVE "DECLINED" \in held[r]
      BY <3>1 DEF OrdersFor, Placed, StandsInWay, VerdictInv, Traceable,
                  Typed, TypeOK, Orders, Status
    <3>2. req[h].ctx.rivals # {} => Refusable(req[h].email, req[h].item)
      BY <1>1, <1>12, <2>2, <3>1 DEF Checked, Refusable, CheckCoursePurchase
    <3> QED BY <1>4, <1>12, <2>2, <3>2 DEF CheckCoursePurchase, RequestOnly
  <2> QED BY <1>12, <2>1, <2>2 DEF CheckCoursePurchase
<1>13. CASE PriceProduct(h) \/ PriceCourse(h)
  <2>1. CASE PriceProduct(h) /\ Refuse(h, "promo")
    BY <1>3, <2>1 DEF PriceProduct, RequestOnly
  <2>2. CASE PriceProduct(h) /\ ~Refuse(h, "promo")
    BY <1>2, <2>2, TurnPrice DEF PriceProduct, IsUseDiscount, RequestOnly
  <2>3. CASE PriceCourse(h)
    BY <1>2, <2>3, TurnPrice DEF PriceCourse, HasDiscount, RequestOnly
  <2> QED BY <1>13, <2>1, <2>2, <2>3
<1>14. CASE \E ref \in Refs : CreateProductOrder(h, ref)
  BY <1>14, TurnInsertProduct
<1>15. CASE \E ref \in Refs : CreateCourseOrder(h, ref)
  BY <1>3, <1>15, TurnInsertCourse DEF CreateCourseOrder, RequestOnly
<1>16. CASE RespondForm(h)
  <2>1. /\ UNCHANGED <<orderVars, reported, announced, holdings>> /\ AccountsStay
        /\ Refuse(h, "form")
    BY <1>16 DEF RespondForm, shopVars, outsideVars, AccountsStay, Registered
  <2>2. Grows /\ Placed' = Placed
    BY <2>1, GrowsUnchanged DEF Placed, orderVars
  <2>3. Checked(h)' /\ \A g \in Requests \ {h} : req'[g] = req[g]
    BY <2>1, RefuseEffect
  <2>4. {h} \in SUBSET Requests
    OBVIOUS
  <2> QED BY <2>1, <2>2, <2>3, <2>4, TurnOther
<1> QED BY <1>5, <1>6, <1>7, <1>8, <1>9, <1>10, <1>11, <1>12, <1>13, <1>14, <1>15, <1>16
        DEF RequestStep

LEMMA TurnReceive ==
    ASSUME Typed, TurnInv, NEW h \in Requests, ReceiveRequest(h)
    PROVE  TurnInv'
<1>1. req \in [Requests -> Handlers] /\ RequestOnly
  BY DEF Typed, TypeOK, ReceiveRequest, ReceiveProduct, ReceiveCourse, RequestOnly
<1>2. PICK item \in Items, email \in Emails, user \in Users \cup {None},
           address \in Emails \cup {None}, pc \in RequestSteps :
        /\ req' = [req EXCEPT ![h] =
                     [IdleRequest EXCEPT !.pc = pc, !.email = email, !.user = user,
                        !.address = address, !.item = item, !.ctx = ContextOf(email, user, item)]]
        /\ \/ pc = "details" /\ item \in Products
           \/ pc = "courseData" /\ item \in Courses
  BY DEF ReceiveRequest, ReceiveProduct, ReceiveCourse, RequestSteps, Typed, TypeOK
<1>3. /\ req'[h].pc = pc /\ req'[h].email = email /\ req'[h].user = user
      /\ req'[h].item = item /\ req'[h].ctx = ContextOf(email, user, item)
      /\ \A g \in Requests \ {h} : req'[g] = req[g]
  BY <1>1, <1>2 DEF IdleRequest
<1>4. /\ holdings' = holdings /\ Registered(req[h].email)' = Registered(email)
      /\ OrdersFor(req[h].email, req[h].item)' = OrdersFor(email, item)
  BY <1>1, <1>3 DEF RequestOnly, shopVars, orderVars, OrdersFor, Placed, Registered
<1>6. LET ctx == ContextOf(email, user, item) IN
      /\ ctx.rivals = OrdersFor(email, item) /\ ctx.registered = Registered(email)
      /\ ctx.owned = (<<user, item>> \in holdings)
  BY DEF ContextOf
<1>5. Checked(h)'
  BY <1>2, <1>3, <1>4, <1>6 DEF Checked, ProductSteps, CourseSteps
<1> QED BY <1>1, <1>3, <1>5, TurnRequestOnly

(* An account that is made, or moved, takes no other's address. *)
LEMMA TurnElsewhere ==
    ASSUME Typed, VerdictInv, TurnInv, Elsewhere
    PROVE  TurnInv'
<1>1. UNCHANGED <<orderVars, reported, announced>> /\ Placed' = Placed
  BY DEF Elsewhere, orderVars, outsideVars, Placed
<1>2. Grows
  BY <1>1, GrowsUnchanged
<1>3. accounts \in [Users -> Emails \cup {None}]
  BY DEF Typed, TypeOK
<1>4. CASE req' = req /\ holdings \subseteq holdings' /\ AccountsStay
  <2>1. {} \in SUBSET Requests
    OBVIOUS
  <2> QED BY <1>1, <1>2, <1>4, <2>1, TurnOther
<1>5. ASSUME \A h \in Requests : Checked(h)'
      PROVE  TurnInv'
  BY <1>1, <1>2, <1>5, TurnStable DEF TurnInv
<1>6. ASSUME NEW user \in Users, NEW email \in Emails, Register(user, email), req' = req
      PROVE  TurnInv'
  <2>1. \A other \in Users : accounts[other] # None => accounts'[other] = accounts[other]
    BY <1>3, <1>6 DEF Register
  <2>2. AccountsStay
    BY <2>1, NoneAssumption DEF AccountsStay, Registered
  <2> QED BY <1>4, <1>6, <2>2 DEF Register
<1>7. ASSUME NEW user \in Users, NEW email \in Emails, UpdateUser(user, email)
      PROVE  TurnInv'
  <2>1. /\ holdings' = holdings
        /\ \A other \in Users \ {user} : accounts'[other] = accounts[other]
    BY <1>3, <1>7 DEF UpdateUser
  <2>2. ASSUME NEW h \in Requests PROVE Checked(h)'
    <3>1. /\ Checked(h) /\ Kept(h) /\ req'[h].ctx.owned = req[h].ctx.owned
          /\ IF req[h].email = accounts[user]
               THEN req'[h].ctx.registered = FALSE
               ELSE req'[h].ctx.registered = req[h].ctx.registered
      BY <1>7, UpdateUserKeeps DEF TurnInv
    <3>2. req'[h].ctx.registered => req[h].ctx.registered /\ req[h].email # accounts[user]
      BY <3>1
    <3>3. req'[h].email = req[h].email
      BY <3>1 DEF Kept
    <3>4. req[h].email # accounts[user] =>
             (Registered(req[h].email) => Registered(req[h].email)')
      BY <2>1, <3>3 DEF Registered
    <3>5. req'[h].ctx.owned => req[h].ctx.owned
      BY <3>1
    <3> QED BY <1>2, <2>1, <3>1, <3>2, <3>4, <3>5, CheckedKept
  <2> QED BY <1>5, <2>2
<1>8. ASSUME NEW user \in Users, NEW item \in Items, DeletePurchase(user, item)
      PROVE  TurnInv'
  <2>1. accounts' = accounts /\ holdings' = holdings \ {<<user, item>>}
    BY <1>8 DEF DeletePurchase
  <2>2. ASSUME NEW h \in Requests PROVE Checked(h)'
    <3>1. /\ Checked(h) /\ Kept(h) /\ req'[h].ctx.registered = req[h].ctx.registered
          /\ IF req[h].user = user /\ req[h].item = item
               THEN req'[h].ctx.owned = FALSE
               ELSE req'[h].ctx.owned = req[h].ctx.owned
      BY <1>8, DeletePurchaseKeeps DEF TurnInv
    <3>2. req'[h].ctx.owned =>
             req[h].ctx.owned /\ <<req[h].user, req[h].item>> # <<user, item>>
      BY <3>1
    <3>3. Registered(req[h].email) => Registered(req[h].email)'
      <4>1. req'[h].email = req[h].email
        BY <3>1 DEF Kept
      <4> QED BY <2>1, <4>1 DEF Registered
    <3> QED BY <1>2, <2>1, <3>1, <3>2, <3>3, CheckedKept
  <2> QED BY <1>5, <2>2
<1>9. ASSUME req' = req, UNCHANGED accounts, holdings \subseteq holdings'
      PROVE  TurnInv'
  BY <1>4, <1>9 DEF AccountsStay, Registered
<1> QED BY <1>6, <1>7, <1>8, <1>9
        DEF Elsewhere, Unlist, MoveDiscount, AdminGrants, AdminEnrols

LEMMA TurnInit == Init => TurnInv
BY DEF Init, TurnInv, OrderInTurn, CourseOrderInTurn, Checked, Placed, NoOrder,
       IdleRequest, ProductSteps, CourseSteps

LEMMA TurnNext == Typed /\ VerdictInv /\ TurnInv /\ [Next]_vars => TurnInv'
<1> SUFFICES ASSUME Typed, VerdictInv, TurnInv, [Next]_vars PROVE TurnInv'
  OBVIOUS
<1>1. Grows
  BY VerdictNext
<1>2. ASSUME req' = req, Placed' = Placed, AccountsStay, holdings \subseteq holdings'
      PROVE  TurnInv'
  <2>1. {} \in SUBSET Requests
    OBVIOUS
  <2> QED BY <1>1, <1>2, <2>1, TurnOther
<1>3. CASE \E h \in Requests : ReceiveRequest(h) \/ RequestStep(h)
  BY <1>3, TurnReceive, TurnRequestStep
<1>4. CASE \E ref \in Refs, tx \in Transactions : ProviderReports(ref, tx)
  BY <1>2, <1>4 DEF ProviderReports, requestVars, shopVars, orderVars, Placed, AccountsStay,
                    Registered
<1>5. CASE \E w \in Callbacks : DeliverAny(w) \/ CallbackStep(w)
  <2>1. CASE \E w \in Callbacks : SavePurchase(w)
    <3>1. Placed' = Placed
      BY <2>1, SaveEffect
    <3> QED BY <1>2, <2>1, <3>1 DEF SavePurchase, requestVars, shopVars, AccountsStay, Registered
  <2>2. CASE \E w \in Callbacks : DeliverAny(w) \/ (CallbackStep(w) /\ ~SavePurchase(w))
    <3>1. UNCHANGED <<req, orders, accounts>> /\ holdings \subseteq holdings'
      BY <2>2 DEF DeliverAny, Deliver, DeliverUnsigned, CallbackStep, FindPurchase, FindAccount,
                  Grant, Publish, Reply, requestVars, shopVars, orderVars
    <3> QED BY <1>2, <3>1 DEF Placed, AccountsStay, Registered
  <2> QED BY <1>5, <2>1, <2>2
<1>6. CASE Crash
  <2>1. /\ UNCHANGED <<orders, accounts, holdings>> /\ Placed' = Placed
        /\ req' = [h \in Requests |-> IdleRequest]
    BY <1>6 DEF Crash, shopVars, orderVars, Placed
  <2>2. \A h \in Requests : Checked(h)'
    BY <2>1 DEF Checked, IdleRequest, ProductSteps, CourseSteps
  <2> QED BY <1>1, <2>1, <2>2, TurnStable DEF TurnInv
<1>7. CASE Elsewhere
  BY <1>7, TurnElsewhere
<1>8. CASE UNCHANGED vars
  BY <1>2, <1>8 DEF vars, requestVars, shopVars, orderVars, Placed, AccountsStay, Registered
<1> QED BY <1>3, <1>4, <1>5, <1>6, <1>7, <1>8 DEF Next

(* However requests overlap, crash or are refused, and whatever administrators
   do meanwhile, a product order contradicts nothing that was on record all the
   time its own request was served ... *)
THEOREM ProductOrdersInTurn == Spec => []OrderInTurn
<1>1. TurnInv => OrderInTurn
  BY DEF TurnInv
<1> QED BY <1>1, TypedInit, TypedNext, VerdictInit, VerdictNext, TurnInit, TurnNext, PTL
        DEF Spec

(* ... and a second course order always has a declined one beside it. *)
THEOREM CourseOrdersInTurn == Spec => []CourseOrderInTurn
<1>1. TurnInv => CourseOrderInTurn
  BY DEF TurnInv
<1> QED BY <1>1, TypedInit, TypedNext, VerdictInit, VerdictNext, TurnInit, TurnNext, PTL
        DEF Spec

-----------------------------------------------------------------------------
(* Status and transactionStatus.  save() writes each field by itself, but the
   two agree in the document and in every loaded copy, and a verdict determines
   both: a copy whose transactionStatus differs from the loaded one differs in
   its status too, so a save writes both fields or neither. *)
OnlyVerdicts == \A m \in reported : Decides(m[2])

Verdict(tx) == IF Decides(tx) THEN Decision(tx) ELSE "PENDING"

Loaded(w) == cb[w].pc = "save" =>
    /\ cb[w].oldTx = None \/ Decides(cb[w].oldTx)
    /\ cb[w].oldStatus = Verdict(cb[w].oldTx)

Agree ==
    /\ \A r \in Placed : orders[r].status = Verdict(orders[r].tx)
    /\ \A w \in Callbacks : Loaded(w)

AgreeInv == OnlyVerdicts => Agree

(* The verdict tells the three values of transactionStatus apart. *)
LEMMA VerdictInjective ==
    ASSUME NEW tx, NEW old, Decides(tx), old = None \/ Decides(old)
    PROVE  Verdict(tx) = Verdict(old) <=> tx = old
BY NoneAssumption DEF Verdict, Decides, Decision

(* Saved keeps the agreement, whatever another handler saved meanwhile. *)
LEMMA SavedAgrees ==
    ASSUME NEW order \in Orders, NEW c \in Deliveries, Decides(c.tx),
           c.oldTx = None \/ Decides(c.oldTx),
           c.oldStatus = Verdict(c.oldTx), c.status = Verdict(c.tx),
           order.status = Verdict(order.tx)
    PROVE  Saved(order, c).status = Verdict(Saved(order, c).tx)
<1>1. c.status # c.oldStatus <=> c.tx # c.oldTx
  BY VerdictInjective
<1>2. CASE c.tx # c.oldTx
  BY <1>1, <1>2 DEF Saved, Orders
<1>3. CASE c.tx = c.oldTx
  BY <1>1, <1>3 DEF Saved, Orders
<1> QED BY <1>2, <1>3

LEMMA AgreeUnchanged ==
    ASSUME AgreeInv, reported \subseteq reported', UNCHANGED orders,
           \A w \in Callbacks : cb'[w].pc = "save" => cb'[w] = cb[w]
    PROVE  AgreeInv'
BY DEF AgreeInv, OnlyVerdicts, Agree, Loaded, Placed

LEMMA AgreeRequestStep ==
    ASSUME Typed, AgreeInv, NEW h \in Requests, RequestStep(h)
    PROVE  AgreeInv'
<1>1. CASE UNCHANGED <<orders, cb, reported>>
  BY <1>1, AgreeUnchanged
<1>2. CASE \E ref \in Refs \ Placed, user \in Users \cup {None} : InsertOrder(h, ref, user)
  <2>1. PICK ref \in Refs \ Placed, user \in Users \cup {None} : InsertOrder(h, ref, user)
    BY <1>2
  <2>2. /\ Placed' = Placed \cup {ref} /\ UNCHANGED <<cb, reported>>
        /\ \A r \in Refs \ {ref} : orders'[r] = orders[r]
        /\ orders'[ref].status = "PENDING" /\ orders'[ref].tx = None
    BY <2>1, InsertEffect DEF outsideVars
  <2>3. Verdict(None) = "PENDING" /\ Placed \subseteq Refs
    BY NoneAssumption DEF Verdict, Decides, Placed
  <2> QED BY <2>2, <2>3 DEF AgreeInv, OnlyVerdicts, Agree, Loaded
<1>3. req[h].user \in Users \cup {None}
  BY DEF Typed, TypeOK, Handlers
<1>4. UNCHANGED <<orders, cb, reported>>
        \/ \E ref \in Refs \ Placed, user \in Users \cup {None} : InsertOrder(h, ref, user)
  BY <1>3 DEF RequestStep, GetProductDetails, PriceProduct, GetProductType,
         CheckExistingUser, CheckExistingPurchase, CheckHolding, GetCourseData,
         CheckPaymentPlan, CheckCoursePurchase, PriceCourse, CreateProductOrder,
         CreateCourseOrder, RespondForm, orderVars, outsideVars
<1> QED BY <1>1, <1>2, <1>4

(* A loaded document is one of the orders, so it agrees as the order does. *)
LEMMA AgreeFind ==
    ASSUME Typed, VerdictInv, AgreeInv, NEW w \in Callbacks, FindPurchase(w)
    PROVE  AgreeInv'
<1> DEFINE ref == cb[w].ref
<1>1. /\ cb \in [Callbacks -> Deliveries] /\ ref \in Refs
      /\ UNCHANGED <<orders, reported>>
  BY DEF Typed, TypeOK, Filled, FindPurchase, orderVars, outsideVars
<1>2. CASE Answer(w, "error") \/ Answer(w, "invalid")
  <2>1. cb'[w].pc = "idle" /\ \A v \in Callbacks \ {w} : cb'[v] = cb[v]
    BY <1>1, <1>2 DEF Answer, IdleCallback
  <2> QED BY <1>1, <2>1, AgreeUnchanged
<1>3. CASE /\ orders[ref].status # "ABSENT"
           /\ cb' = [cb EXCEPT ![w].pc = "save", ![w].oldStatus = orders[ref].status,
                               ![w].oldTx = orders[ref].tx,
                               ![w].status = IF Decides(cb[w].tx) THEN Decision(cb[w].tx)
                                                                  ELSE orders[ref].status]
  <2>1. SUFFICES ASSUME OnlyVerdicts, Agree PROVE Agree'
    BY <1>1 DEF AgreeInv, OnlyVerdicts
  <2>2. /\ cb'[w].oldStatus = orders[ref].status /\ cb'[w].oldTx = orders[ref].tx
        /\ \A v \in Callbacks \ {w} : cb'[v] = cb[v]
    BY <1>1, <1>3 DEF Deliveries
  <2>3. orders[ref].status = Verdict(orders[ref].tx)
    BY <1>1, <1>3, <2>1 DEF Agree, Placed
  <2>4. orders[ref].tx = None \/ Decides(orders[ref].tx)
    BY <1>1, <2>1 DEF VerdictInv, DecidedByProvider, OnlyVerdicts
  <2>5. Loaded(w)'
    BY <2>2, <2>3, <2>4 DEF Loaded
  <2> QED BY <1>1, <2>1, <2>2, <2>5 DEF Agree, Loaded, Placed
<1> QED BY <1>2, <1>3 DEF FindPurchase

LEMMA AgreeSave ==
    ASSUME Typed, VerdictInv, AgreeInv, NEW w \in Callbacks, SavePurchase(w)
    PROVE  AgreeInv'
<1> DEFINE c == cb[w]
           ref == cb[w].ref
<1>1. /\ orders \in [Refs -> Orders] /\ cb \in [Callbacks -> Deliveries]
      /\ c.pc = "save" /\ ref \in Refs /\ Carried(w)
      /\ orders' = [orders EXCEPT ![ref] = Saved(orders[ref], c)]
      /\ UNCHANGED reported
  BY DEF Typed, TypeOK, Filled, SavePurchase, VerdictInv, outsideVars
<1>2. ref \in Placed /\ Placed' = Placed
  BY SaveEffect
<1>3. SUFFICES ASSUME OnlyVerdicts, Agree PROVE Agree'
  BY <1>1 DEF AgreeInv, OnlyVerdicts
<1>4. Decides(c.tx) /\ c.status = Verdict(c.tx)
  BY <1>1, <1>3 DEF Carried, OnlyVerdicts, Verdict
<1>5. /\ c.oldTx = None \/ Decides(c.oldTx)
      /\ c.oldStatus = Verdict(c.oldTx) /\ orders[ref].status = Verdict(orders[ref].tx)
  BY <1>1, <1>2, <1>3 DEF Agree, Loaded
<1>6. Saved(orders[ref], c).status = Verdict(Saved(orders[ref], c).tx)
  BY <1>1, <1>4, <1>5, SavedAgrees
<1>7. \A r \in Placed : orders'[r].status = Verdict(orders'[r].tx)
  BY <1>1, <1>3, <1>6 DEF Agree, Placed
<1>8. PICK pc \in {"account", "publish"} : Step(w, pc)
  BY DEF SavePurchase
<1>9. cb'[w].pc # "save" /\ \A v \in Callbacks \ {w} : cb'[v] = cb[v]
  BY <1>8, StepEffect DEF CallbackSteps
<1> QED BY <1>2, <1>3, <1>7, <1>9 DEF Agree, Loaded

(* Nothing but FindPurchase brings a handler to its save. *)
LEMMA AgreeCallbackStep ==
    ASSUME Typed, VerdictInv, AgreeInv, NEW w \in Callbacks,
           DeliverAny(w) \/ CallbackStep(w)
    PROVE  AgreeInv'
<1>1. CASE FindPurchase(w)
  BY <1>1, AgreeFind
<1>2. CASE SavePurchase(w)
  BY <1>2, AgreeSave
<1>3. ASSUME UNCHANGED <<orders, reported>>,
             \/ \E answer \in Answers : Answer(w, answer)
             \/ \E pc \in {"grant", "publish", "reply"} : Step(w, pc)
             \/ \E ref \in Refs, tx \in Transactions, signed \in BOOLEAN, bearer \in Bearers :
                   Admit(w, ref, tx, signed, bearer)
      PROVE  AgreeInv'
  <2>1. cb \in [Callbacks -> Deliveries]
    BY DEF Typed, TypeOK
  <2>2. CASE \E answer \in Answers : Answer(w, answer)
    <3>1. cb'[w].pc # "save" /\ \A v \in Callbacks \ {w} : cb'[v] = cb[v]
      BY <2>1, <2>2 DEF Answer, IdleCallback
    <3> QED BY <1>3, <3>1, AgreeUnchanged
  <2>3. CASE \E pc \in {"grant", "publish", "reply"} : Step(w, pc)
    <3>1. cb'[w].pc # "save" /\ \A v \in Callbacks \ {w} : cb'[v] = cb[v]
      BY <2>3, StepEffect DEF CallbackSteps
    <3> QED BY <1>3, <3>1, AgreeUnchanged
  <2>4. CASE \E ref \in Refs, tx \in Transactions, signed \in BOOLEAN, bearer \in Bearers :
                Admit(w, ref, tx, signed, bearer)
    <3>1. cb'[w].pc # "save" /\ \A v \in Callbacks \ {w} : cb'[v] = cb[v]
      BY <2>1, <2>4 DEF Admit, IdleCallback
    <3> QED BY <1>3, <3>1, AgreeUnchanged
  <2> QED BY <1>3, <2>2, <2>3, <2>4
<1>4. CASE DeliverAny(w)
  BY <1>3, <1>4 DEF DeliverAny, Deliver, DeliverUnsigned, Reports, orderVars, outsideVars
<1>6. CASE FindAccount(w)
  <2>1. /\ UNCHANGED <<orders, reported>> /\ cb \in [Callbacks -> Deliveries]
        /\ \E new \in Deliveries : new.pc # "save" /\ cb' = [cb EXCEPT ![w] = new]
    BY <1>6, FindAccountEffect DEF CallbackOnly, orderVars, outsideVars, Typed, TypeOK
  <2>2. cb'[w].pc # "save" /\ \A v \in Callbacks \ {w} : cb'[v] = cb[v]
    BY <2>1
  <2> QED BY <2>1, <2>2, AgreeUnchanged
<1>5. CASE Grant(w) \/ Publish(w) \/ Reply(w)
  BY <1>3, <1>5 DEF Grant, Publish, Reply, Answers, orderVars, outsideVars
<1> QED BY <1>1, <1>2, <1>4, <1>5, <1>6 DEF CallbackStep

LEMMA AgreeInit == Init => AgreeInv
BY DEF Init, AgreeInv, Agree, Loaded, Placed, NoOrder, IdleCallback

LEMMA AgreeNext == Typed /\ VerdictInv /\ AgreeInv /\ [Next]_vars => AgreeInv'
<1> SUFFICES ASSUME Typed, VerdictInv, AgreeInv, [Next]_vars PROVE AgreeInv'
  OBVIOUS
<1>1. CASE \E h \in Requests : ReceiveRequest(h) \/ RequestStep(h)
  <2>1. CASE \E h \in Requests : ReceiveRequest(h)
    BY <2>1, AgreeUnchanged DEF ReceiveRequest, ReceiveProduct, ReceiveCourse, orderVars,
                                outsideVars
  <2> QED BY <1>1, <2>1, AgreeRequestStep
<1>2. CASE \E ref \in Refs, tx \in Transactions : ProviderReports(ref, tx)
  BY <1>2, AgreeUnchanged DEF ProviderReports, orderVars
<1>3. CASE \E w \in Callbacks : DeliverAny(w) \/ CallbackStep(w)
  BY <1>3, AgreeCallbackStep
<1>4. CASE Crash
  <2>1. \A w \in Callbacks : cb'[w].pc # "save"
    BY <1>4 DEF Crash, IdleCallback
  <2> QED BY <1>4, <2>1, AgreeUnchanged DEF Crash, orderVars, outsideVars
<1>5. CASE Elsewhere \/ UNCHANGED vars
  BY <1>5, AgreeUnchanged DEF Elsewhere, vars, orderVars, outsideVars
<1> QED BY <1>1, <1>2, <1>3, <1>4, <1>5 DEF Next

(* As long as the provider has reported nothing but Approved and Declined, every
   stored order says one verdict in both of its fields, however the saves of
   handleCallback overlap (an InProcessing in between takes that away: its save
   writes transactionStatus alone). *)
THEOREM StatusFollows == Spec => [](OnlyVerdicts => StatusReflectsTransaction)
<1>1. AgreeInv => (OnlyVerdicts => StatusReflectsTransaction)
  BY NoneAssumption DEF AgreeInv, Agree, Verdict, Decides, Decision, StatusReflectsTransaction
<1> QED BY <1>1, TypedInit, TypedNext, VerdictInit, VerdictNext, AgreeInit, AgreeNext, PTL
        DEF Spec

(* With a provider that has no other report, that is so in every state. *)
THEOREM StatusReflected ==
    ASSUME Transactions \subseteq {"Approved", "Declined"}
    PROVE  Spec => []StatusReflectsTransaction
<1>1. Typed => OnlyVerdicts
  BY DEF Typed, TypeOK, Reports, OnlyVerdicts, Decides
<1> QED BY <1>1, StatusFollows, TypedInit, TypedNext, PTL DEF Spec
=============================================================================
