--------------------------- MODULE CatalogProofs ---------------------------
(***************************************************************************)
(* The safety properties of Catalog, for any set of products, codes and    *)
(* handlers and any number of days.                                        *)
(***************************************************************************)
EXTENDS Catalog, TLAPS

(* A product in the bin has been there as long as its deadline says. *)
DeadlineOfBin ==
    \A p \in Products : InBin(p) =>
        products[p].expiredAt # None /\ binned[p] + products[p].expiredAt = Keep

(* A product outside the bin has a deadline only if it was restored. *)
DeadlineByRestore ==
    \A p \in Stored : ~products[p].toDelete /\ products[p].expiredAt # None => p \in restored

(* A product that is still to be created has nothing of the bin about it. *)
BlankUnborn ==
    \A p \in Products : products[p].state = "unborn" =>
        ~products[p].toDelete /\ products[p].expiredAt = None

Deadlines == DeadlineOfBin /\ DeadlineByRestore /\ BlankUnborn

Inv == TypeOK /\ CodesGoToo /\ Deadlines

-----------------------------------------------------------------------------
(* A batch is part of what a handler has to do. *)
LEMMA BatchBounds == \A T : Batch(T) \subseteq T
BY DEF Batch

LEMMA InitInv == Init => Inv
BY KindAssumption, KeepAssumption, NoneAssumption
   DEF Init, Inv, TypeOK, CodesGoToo, Deadlines, DeadlineOfBin, DeadlineByRestore, BlankUnborn, Documents, Requests,
       Idle, Statuses, Stored, InBin

(* Type correctness: what each kind of step writes has its type. *)
LEMMA TypeStep == TypeOK /\ [Next]_vars => TypeOK'
<1> SUFFICES ASSUME TypeOK, [Next]_vars PROVE TypeOK'
  OBVIOUS
<1> USE KeepAssumption, NoneAssumption DEF TypeOK
<1>1. ASSUME NEW p \in Products, NEW status \in Statuses, Create(p, status) \/ Edit(p, status)
      PROVE  TypeOK'
  BY <1>1 DEF Create, Edit, WithStatus, Documents, historyVars
<1>2. ASSUME NEW p \in Products, Delete(p) PROVE TypeOK'
  <2>1. Toggled(products[p]) \in Documents
    <3>1. products[p] \in Documents
      OBVIOUS
    <3> DEFINE flipped  == [products[p] EXCEPT !.toDelete = ~products[p].toDelete]
               deadline == IF products[p].toDelete THEN None ELSE Keep
    <3>2. flipped \in Documents
      BY <3>1, Zenon DEF Documents
    <3>3. deadline \in 0..Keep \cup {None}
      OBVIOUS
    <3>4. Toggled(products[p]) = [flipped EXCEPT !.expiredAt = deadline]
      BY <3>1 DEF Toggled, Documents
    <3> HIDE DEF flipped, deadline
    <3> QED BY <3>2, <3>3, <3>4 DEF Documents
  <2> QED BY <1>2, <2>1 DEF Delete
<1>3. ASSUME NEW p \in Products, Expire(p) PROVE TypeOK'
  BY <1>3 DEF Expire, Documents
<1>4. ASSUME NEW h \in Handlers, NEW pc \in {"restore", "remove"}, NEW body \in Bodies,
             Request(h, pc, body)
      PROVE  TypeOK'
  BY <1>4 DEF Request, Bodies, Created, Requests, Idle, historyVars
<1>5. ASSUME NEW h \in Handlers, NEW pc \in {"restore", "remove"}, Continue(h, pc)
      PROVE  /\ admin' \in [Handlers -> Requests]
             /\ \A k \in Handlers : admin'[k].pc = "idle" <=> admin'[k].todo = {}
  BY <1>5 DEF Continue, Requests, Idle
<1>6. ASSUME NEW h \in Handlers, RestoreBatch(h) PROVE TypeOK'
  <2>1. ASSUME NEW p \in Products PROVE Unbinned(products[p]) \in Documents
    <3>1. products[p] \in Documents
      OBVIOUS
    <3> QED BY <3>1, Zenon DEF Unbinned, Documents
  <2> QED BY <1>5, <1>6, <2>1 DEF RestoreBatch, Stored
<1>7. ASSUME NEW h \in Handlers, RemoveBatch(h) PROVE TypeOK'
  <2>1. \A p \in Products : [products[p] EXCEPT !.state = "gone"] \in Documents
    BY DEF Documents
  <2> QED BY <1>7, <2>1 DEF RemoveBatch, Requests, historyVars
<1>8. ASSUME NEW h \in Handlers, RemoveCodes(h) PROVE TypeOK'
  BY <1>5, <1>8 DEF RemoveCodes
<1>9. ASSUME NEW h \in Handlers, Cut(h) PROVE TypeOK'
  <2>1. admin[h].todo \subseteq Products
    BY DEF Requests
  <2> QED BY <1>9, <2>1, BatchBounds DEF Cut, Requests, Idle
<1>10. ASSUME NEW c \in Codes, NEW p \in Products, CreateCode(c, p) \/ EditCode(c, p)
       PROVE  TypeOK'
  BY <1>10 DEF CreateCode, EditCode, WriteCode
<1>11. ASSUME NEW c \in Codes, DeleteCode(c) PROVE TypeOK'
  BY <1>11 DEF DeleteCode
<1>12. CASE Tick
  <2>1. \A p \in Products : DayOver(products[p]) \in Documents
    BY DEF DayOver, Documents
  <2>2. binned' \in [Products -> 0..Keep]
    BY <1>12 DEF Tick
  <2> QED BY <1>12, <2>1, <2>2 DEF Tick
<1>13. CASE UNCHANGED vars
  BY <1>13 DEF vars, historyVars
<1> QED BY <1>1, <1>2, <1>3, <1>4, <1>6, <1>7, <1>8, <1>9, <1>10, <1>11, <1>12, <1>13 DEF Next

(* Every variable keeps its type, whatever the number of products, codes,  *)
(* administrators' requests and days.                                      *)
THEOREM TypeCorrect == Spec => []TypeOK
<1>1. Init => TypeOK
  BY InitInv DEF Inv
<1> QED BY <1>1, TypeStep, PTL DEF Spec

-----------------------------------------------------------------------------
(* Which steps take a product away, and how. *)
StoredAsBefore ==
    \A p \in Products : products[p].state = "stored" => products'[p].state = "stored"

LEMMA StoredStays ==
    ASSUME TypeOK, [Next]_vars
    PROVE  \/ StoredAsBefore
           \/ \E p \in Products : Expire(p)
           \/ \E h \in Handlers : RemoveBatch(h)
<1> USE DEF TypeOK, StoredAsBefore
<1>1. ASSUME NEW p \in Products, NEW status \in Statuses, Create(p, status) \/ Edit(p, status)
      PROVE  StoredAsBefore
  BY <1>1 DEF Create, Edit, WithStatus, Documents
<1>2. ASSUME NEW p \in Products, Delete(p) PROVE StoredAsBefore
  BY <1>2 DEF Delete, Toggled, Documents
<1>3. ASSUME NEW h \in Handlers, RestoreBatch(h) PROVE StoredAsBefore
  BY <1>3 DEF RestoreBatch, Unbinned, Documents
<1>4. CASE Tick
  BY <1>4 DEF Tick, DayOver, Documents
<1>5. CASE UNCHANGED products
  BY <1>5
<1> QED
  BY <1>1, <1>2, <1>3, <1>4, <1>5
     DEF Next, vars, historyVars, Request, RemoveCodes, Cut, CreateCode, EditCode, WriteCode,
         DeleteCode

(* Time takes a product only where the index finds an expired one. *)
LEMMA TimeIsExpire ==
    ASSUME TypeOK, [Next]_vars, NEW p \in Products, RemovedByTime(p)
    PROVE  Expire(p)
<1>1. ~StoredAsBefore
  BY DEF StoredAsBefore, RemovedByTime, Stored
<1>2. ASSUME NEW h \in Handlers PROVE ~RemoveBatch(h)
  BY DEF RemoveBatch, RemovedByTime, TypeOK, Requests
<1>3. PICK q \in Products : Expire(q)
  BY <1>1, <1>2, StoredStays
<1>4. q = p
  BY <1>3 DEF Expire, RemovedByTime, Stored, TypeOK
<1> QED BY <1>3, <1>4

-----------------------------------------------------------------------------
(* Codes go with their product. *)
LEMMA CodesKept ==
    ASSUME CodesGoToo, UNCHANGED <<codes, late, uncascaded>>, Stored \subseteq Stored',
           \A k \in Handlers : admin[k].pc = "codes" => admin'[k] = admin[k]
    PROVE  CodesGoToo'
BY DEF CodesGoToo

LEMMA CodesStep == TypeOK /\ CodesGoToo /\ [Next]_vars => CodesGoToo'
<1> SUFFICES ASSUME TypeOK, CodesGoToo, [Next]_vars PROVE CodesGoToo'
  OBVIOUS
<1>1. ASSUME StoredAsBefore PROVE Stored \subseteq Stored'
  BY <1>1 DEF StoredAsBefore, Stored
<1>2. ASSUME StoredAsBefore, UNCHANGED <<codes, late, uncascaded, admin>> PROVE CodesGoToo'
  BY <1>1, <1>2, CodesKept
<1>3. ASSUME NEW p \in Products, Expire(p) PROVE CodesGoToo'
  <2>1. Stored \ {p} \subseteq Stored'
    BY <1>3 DEF Expire, Stored, TypeOK
  <2> QED BY <1>3, <2>1 DEF Expire, CodesGoToo
<1>4. ASSUME NEW h \in Handlers, RemoveBatch(h) PROVE CodesGoToo'
  <2>1. Stored \ Batch(admin[h].todo) \subseteq Stored'
    BY <1>4 DEF RemoveBatch, Stored, TypeOK
  <2>2. admin'[h].pc = "codes" /\ admin'[h].todo = admin[h].todo
    BY <1>4 DEF RemoveBatch, TypeOK, Requests
  <2>3. \A k \in Handlers : admin[k].pc = "codes" => admin'[k] = admin[k]
    BY <1>4 DEF RemoveBatch, TypeOK
  <2> QED BY <1>4, <2>1, <2>2, <2>3 DEF RemoveBatch, historyVars, CodesGoToo
<1>5. ASSUME NEW h \in Handlers, RemoveCodes(h) PROVE CodesGoToo'
  <2>1. \A k \in Handlers \ {h} : admin'[k] = admin[k]
    BY <1>5 DEF RemoveCodes, Continue, TypeOK
  <2>2. Stored' = Stored
    BY <1>5 DEF RemoveCodes, Stored
  <2>3. ASSUME NEW c \in Codes, codes'[c] \in Products
        PROVE  codes'[c] = codes[c] /\ codes[c] \notin Batch(admin[h].todo) /\ (c \in late <=> c \in late')
    BY <1>5, <2>3, NoneAssumption DEF RemoveCodes, Cascade, TypeOK
  <2>4. uncascaded' = uncascaded \ Batch(admin[h].todo)
    BY <1>5 DEF RemoveCodes
  <2> QED BY <2>1, <2>2, <2>3, <2>4 DEF CodesGoToo
<1>6. ASSUME NEW h \in Handlers, Cut(h) PROVE CodesGoToo'
  <2>1. \A k \in Handlers \ {h} : admin'[k] = admin[k]
    BY <1>6 DEF Cut, TypeOK
  <2>2. Stored' = Stored /\ codes' = codes /\ late' = late
    BY <1>6 DEF Cut, Stored
  <2>3. uncascaded \subseteq uncascaded' /\ (admin[h].pc = "codes" => Batch(admin[h].todo) \subseteq uncascaded')
    BY <1>6 DEF Cut
  <2> QED BY <2>1, <2>2, <2>3 DEF CodesGoToo
<1>7. ASSUME NEW c \in Codes, NEW p \in Products, WriteCode(c, p) PROVE CodesGoToo'
  <2>1. Stored' = Stored
    BY <1>7 DEF WriteCode, Stored
  <2> QED BY <1>7, <2>1 DEF WriteCode, CodesGoToo, TypeOK
<1>8. ASSUME NEW c \in Codes, DeleteCode(c) PROVE CodesGoToo'
  <2>1. Stored' = Stored
    BY <1>8 DEF DeleteCode, Stored
  <2> QED BY <1>8, <2>1, NoneAssumption DEF DeleteCode, CodesGoToo, TypeOK
<1>9. ASSUME NEW h \in Handlers, StoredAsBefore, UNCHANGED <<codes, late, uncascaded>>,
             admin[h].pc # "codes", \A k \in Handlers \ {h} : admin'[k] = admin[k]
      PROVE  CodesGoToo'
  BY <1>1, <1>9, CodesKept
<1>10. ASSUME NEW h \in Handlers, RestoreBatch(h) PROVE CodesGoToo'
  <2>1. StoredAsBefore
    BY <1>10 DEF StoredAsBefore, RestoreBatch, Unbinned, TypeOK, Documents
  <2> QED BY <1>9, <1>10, <2>1 DEF RestoreBatch, Continue, TypeOK
<1>11. ASSUME NEW h \in Handlers, NEW pc, NEW body, Request(h, pc, body) PROVE CodesGoToo'
  <2>1. StoredAsBefore
    BY <1>11 DEF StoredAsBefore, Request
  <2> QED BY <1>9, <1>11, <2>1 DEF Request, Idle, historyVars, TypeOK
<1>12. ASSUME UNCHANGED <<codes, late, uncascaded, admin>>, ~\E p \in Products : Expire(p)
       PROVE  CodesGoToo'
  <2>1. ~\E h \in Handlers : RemoveBatch(h)
    BY <1>12 DEF RemoveBatch, TypeOK, Requests
  <2> QED BY <1>2, <1>12, <2>1, StoredStays
<1> QED
  BY <1>3, <1>4, <1>5, <1>6, <1>7, <1>8, <1>10, <1>11, <1>12
     DEF Next, vars, historyVars, Create, Edit, Delete, Tick, CreateCode, EditCode

(* A promo code is left without its product only for a stated reason: it was *)
(* written too late, time took the product, or the request was cut short.    *)
THEOREM CodesFollow == Spec => []CodesGoToo
<1>1. Init => TypeOK /\ CodesGoToo
  BY InitInv DEF Inv
<1> QED BY <1>1, TypeStep, CodesStep, PTL DEF Spec

-----------------------------------------------------------------------------
GoneAsBefore ==
    \A p \in Products : products[p].state = "gone" => products'[p].state = "gone"

LEMMA GoneStays == TypeOK /\ [Next]_vars => GoneAsBefore
<1> SUFFICES ASSUME TypeOK, [Next]_vars PROVE GoneAsBefore
  OBVIOUS
<1> USE DEF TypeOK, GoneAsBefore
<1>1. ASSUME NEW p \in Products, NEW status \in Statuses, Create(p, status) \/ Edit(p, status)
      PROVE  GoneAsBefore
  BY <1>1 DEF Create, Edit, WithStatus, Documents
<1>2. ASSUME NEW p \in Products, Delete(p) \/ Expire(p) PROVE GoneAsBefore
  BY <1>2 DEF Delete, Expire, Stored, Documents
<1>3. ASSUME NEW h \in Handlers, RestoreBatch(h) PROVE GoneAsBefore
  BY <1>3 DEF RestoreBatch, Unbinned, Documents
<1>4. ASSUME NEW h \in Handlers, RemoveBatch(h) PROVE GoneAsBefore
  BY <1>4 DEF RemoveBatch, Documents
<1>5. CASE Tick
  BY <1>5 DEF Tick, DayOver, Documents
<1>6. CASE UNCHANGED products
  BY <1>6
<1> QED
  BY <1>1, <1>2, <1>3, <1>4, <1>5, <1>6
     DEF Next, vars, historyVars, Request, RemoveCodes, Cut, CreateCode, EditCode, WriteCode,
         DeleteCode

(* A product that is gone stays gone, whatever was under way about it. *)
THEOREM GoneForGood == Spec => NeverReturns
<1>1. TypeOK /\ [Next]_vars =>
      [\A p \in Products : products[p].state = "gone" => products'[p].state = "gone"]_vars
  BY GoneStays DEF GoneAsBefore
<1> QED BY <1>1, TypeCorrect, PTL DEF Spec, NeverReturns

-----------------------------------------------------------------------------
(* Deadlines: what the bin leaves on a product. *)
LEMMA DeadlinesStep == TypeOK /\ Deadlines /\ [Next]_vars => Deadlines'
<1> SUFFICES ASSUME TypeOK, Deadlines, [Next]_vars PROVE Deadlines'
  OBVIOUS
<1> USE KeepAssumption, NoneAssumption
    DEF TypeOK, Deadlines, DeadlineOfBin, DeadlineByRestore, BlankUnborn, InBin, Stored
<1>1. ASSUME NEW p \in Products, NEW status \in Statuses, Create(p, status) \/ Edit(p, status)
      PROVE  Deadlines'
  BY <1>1 DEF Create, Edit, WithStatus, historyVars, Documents
<1>2. ASSUME NEW p \in Products, Delete(p) PROVE Deadlines'
  <2>1. products'[p] = Toggled(products[p]) /\ products[p] \in Documents
    BY <1>2 DEF Delete
  <2>2. /\ products'[p].state = "stored"
        /\ products'[p].toDelete <=> ~products[p].toDelete
        /\ products'[p].expiredAt = IF products[p].toDelete THEN None ELSE Keep
    BY <1>2, <2>1 DEF Toggled, Documents, Delete
  <2>3. \A q \in Products \ {p} : products'[q] = products[q] /\ binned'[q] = binned[q]
    BY <1>2 DEF Delete
  <2>4. binned'[p] = 0 /\ restored' = restored \ {p}
    BY <1>2 DEF Delete
  <2> QED BY <2>2, <2>3, <2>4
<1>3. ASSUME NEW p \in Products, Expire(p) PROVE Deadlines'
  BY <1>3 DEF Expire, Documents
<1>4. ASSUME NEW h \in Handlers, RestoreBatch(h) PROVE Deadlines'
  BY <1>4 DEF RestoreBatch, Unbinned, Documents
<1>5. ASSUME NEW h \in Handlers, RemoveBatch(h) PROVE Deadlines'
  BY <1>5 DEF RemoveBatch, historyVars, Documents
<1>6. CASE Tick
  <2>1. ASSUME NEW p \in Stored
        PROVE  /\ products'[p].state = "stored"
               /\ products'[p].toDelete = products[p].toDelete
               /\ products'[p].expiredAt = IF products[p].expiredAt \in 1..Keep
                                           THEN products[p].expiredAt - 1
                                           ELSE products[p].expiredAt
    BY <1>6, <2>1 DEF Tick, DayOver, Documents
  <2>2. ASSUME NEW p \in Products \ Stored PROVE products'[p] = products[p]
    BY <1>6, <2>2 DEF Tick
  <2>3. \A p \in Products : binned'[p] = IF binned[p] < Keep THEN binned[p] + 1 ELSE binned[p]
    BY <1>6 DEF Tick
  <2>4. restored' = restored
    BY <1>6 DEF Tick
  <2>5. ASSUME NEW p \in Products, InBin(p)'
        PROVE  products'[p].expiredAt # None /\ binned'[p] + products'[p].expiredAt = Keep
    <3>1. InBin(p) /\ products[p].expiredAt \in 0..Keep /\ binned[p] \in 0..Keep
      BY <2>1, <2>2, <2>5 DEF Documents
    <3> QED BY <2>1, <2>3, <3>1
  <2>6. DeadlineByRestore' /\ BlankUnborn'
    BY <2>1, <2>2, <2>4
  <2> QED BY <2>5, <2>6
<1>7. CASE UNCHANGED <<products, binned, restored>>
  BY <1>7
<1> QED
  BY <1>1, <1>2, <1>3, <1>4, <1>5, <1>6, <1>7
     DEF Next, vars, historyVars, Request, RemoveCodes, Cut, CreateCode, EditCode, WriteCode,
         DeleteCode

LEMMA DeadlinesKept == Spec => []Deadlines
<1>1. Init => TypeOK /\ Deadlines
  BY InitInv DEF Inv
<1> QED BY <1>1, TypeStep, DeadlinesStep, PTL DEF Spec

(* The bin gives its full grace, whichever routes a product went in and out by. *)
THEOREM FullGrace == Spec => GraceKept
<1>1. TypeOK /\ Deadlines /\ [Next]_vars =>
      [\A p \in Products : RemovedByTime(p) /\ products[p].toDelete => binned[p] = Keep]_vars
  <2> SUFFICES ASSUME TypeOK, Deadlines, [Next]_vars, NEW p \in Products, RemovedByTime(p),
                      products[p].toDelete
               PROVE  binned[p] = Keep
    OBVIOUS
  <2>1. Expire(p)
    BY TimeIsExpire
  <2> QED BY <2>1 DEF Expire, Deadlines, DeadlineOfBin, InBin, TypeOK
<1> QED BY <1>1, TypeCorrect, DeadlinesKept, PTL DEF Spec, GraceKept

(* Time takes a product off the public pages only after a restore. *)
THEOREM OnSaleKept == Spec => OnSaleStays
<1>1. TypeOK /\ Deadlines /\ [Next]_vars =>
      [\A p \in Products : Listed(p) /\ RemovedByTime(p) => p \in restored]_vars
  <2> SUFFICES ASSUME TypeOK, Deadlines, [Next]_vars, NEW p \in Products, Listed(p),
                      RemovedByTime(p)
               PROVE  p \in restored
    OBVIOUS
  <2>1. Expire(p)
    BY TimeIsExpire
  <2> QED BY <2>1, NoneAssumption DEF Expire, Deadlines, DeadlineByRestore, Listed
<1> QED BY <1>1, TypeCorrect, DeadlinesKept, PTL DEF Spec, OnSaleStays
=============================================================================
