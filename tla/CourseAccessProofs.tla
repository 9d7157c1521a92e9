-------------------------- MODULE CourseAccessProofs --------------------------
(***************************************************************************)
(* The safety properties of CourseAccess, for any number of requests,      *)
(* purchases, lessons, modules and months.                                 *)
(***************************************************************************)
EXTENDS CourseAccess, FiniteSetTheorems, TLAPS

(* What a handler at work carries: the plan it was asked for until the purchase is *)
(* stored, and from then on a purchase that is.                                    *)
CarriesAt(h) ==
    /\ admin[h].pc \in {"find", "course", "lessons", "insert"} =>
          admin[h].draft.plan \in PaymentPlans /\ admin[h].draft.practices = 0
    /\ admin[h].pc \in {"prolong", "count", "practice", "unlock", "complete"} => admin[h].purchase \in Stored

Carries == \A h \in Handlers : CarriesAt(h)

LEMMA NoDocumentTyped == NoDocument \in Documents
BY Zenon DEF NoDocument, Documents, PurchaseStatus, Dates

LEMMA IdleTyped == Idle \in Requests
<1>1. "idle" \in Steps
  BY DEF Steps
<1>2. 0 \in Nat
  OBVIOUS
<1> QED BY NoDocumentTyped, <1>1, <1>2, Zenon DEF Idle, Requests

(* A document and a request with a field set. *)
LEMMA DocumentSet ==
    ASSUME NEW d \in Documents
    PROVE  /\ \A b \in BOOLEAN : [d EXCEPT !.stored = b] \in Documents
           /\ \A plan \in PaymentPlans : [d EXCEPT !.plan = plan] \in Documents
           /\ \A s \in PurchaseStatus : [d EXCEPT !.status = s] \in Documents
           /\ \A t \in Dates : /\ [d EXCEPT !.start = t] \in Documents
                               /\ [d EXCEPT !.end = t] \in Documents
                               /\ [d EXCEPT !.availableTo = t] \in Documents
                               /\ [d EXCEPT !.origin = t] \in Documents
           /\ \A S \in SUBSET Lessons : [d EXCEPT !.unlocked = S] \in Documents
           /\ \A n \in Nat : [d EXCEPT !.practices = n] \in Documents
           /\ \A S \in SUBSET Purchases : [d EXCEPT !.rivals = S] \in Documents
BY Zenon DEF Documents

LEMMA RequestSet ==
    ASSUME NEW r \in Requests
    PROVE  /\ \A pc \in Steps : [r EXCEPT !.pc = pc] \in Requests
           /\ \A p \in Purchases : [r EXCEPT !.purchase = p] \in Requests
           /\ \A d \in Documents : [r EXCEPT !.draft = d] \in Requests
           /\ \A n \in Nat : [r EXCEPT !.seen = n] \in Requests
BY Zenon DEF Requests

(* The dates and lessons a new purchase gets. *)
LEMMA Granted ==
    ASSUME TypeOK, NEW plan \in PaymentPlans
    PROVE  /\ AccessStart \in Nat /\ AccessEnd \in Nat /\ AvailableTo(plan) \in Dates
           /\ UnlockedAtFirst(plan) \subseteq lessons /\ lessons \subseteq Lessons
<1>1. course.type \in CourseTypes /\ course.access \in AccessTypes /\ now \in Nat
  BY DEF TypeOK
<1>2. AccessStart \in Nat /\ AccessEnd \in Nat
  BY <1>1, DatesAssumption DEF AccessStart, AccessEnd, AccessTypes, Permanent
<1>3. AvailableTo(plan) \in Dates
  BY <1>1, <1>2, DatesAssumption DEF AvailableTo, CourseTypes, AccessTypes, PaymentPlans, Dates, Permanent
<1>4. UnlockedAtFirst(plan) \subseteq lessons
  BY <1>1 DEF UnlockedAtFirst, CourseTypes, PaymentPlans, FirstHalf
<1>5. lessons \subseteq Lessons
  BY BoundsAssumption DEF TypeOK, Lessons
<1> QED BY <1>2, <1>3, <1>4, <1>5

LEMMA AdminTyped ==
    ASSUME TypeOK, Carries, NEW h \in Handlers, AdminStep(h)
    PROVE  admin' \in [Handlers -> Requests] /\ requests' \in Nat
<1>1. /\ admin \in [Handlers -> Requests] /\ purchases \in [Purchases -> Documents]
      /\ admin[h] \in Requests /\ admin[h].draft \in Documents /\ requests \in Nat /\ now \in Nat
  BY DEF TypeOK, Requests
<1>2. Stored \in SUBSET Purchases
  BY DEF Stored
<1>3. /\ "find" \in Steps /\ "course" \in Steps /\ "lessons" \in Steps /\ "insert" \in Steps /\ "prolong" \in Steps
      /\ "count" \in Steps /\ "practice" \in Steps /\ "unlock" \in Steps /\ "complete" \in Steps
  BY DEF Steps
<1>4. ASSUME NEW r \in Requests, Begin(h, r) PROVE admin' \in [Handlers -> Requests] /\ requests' \in Nat
  BY <1>1, <1>4 DEF Begin
<1>5. ASSUME NEW r \in Requests, Continue(h, r), UNCHANGED requests
      PROVE  admin' \in [Handlers -> Requests] /\ requests' \in Nat
  BY <1>1, <1>5 DEF Continue
<1>6. ASSUME NEW plan \in PaymentPlans, AddCoursePurchase(h, plan)
      PROVE  admin' \in [Handlers -> Requests] /\ requests' \in Nat
  <2>1. [[Idle.draft EXCEPT !.plan = plan] EXCEPT !.rivals = Stored] \in Documents
    BY <1>2, NoDocumentTyped, DocumentSet DEF Idle
  <2>2. [[Idle EXCEPT !.pc = "find"] EXCEPT !.draft = [[Idle.draft EXCEPT !.plan = plan] EXCEPT !.rivals = Stored]]
          \in Requests
    BY <1>3, <2>1, IdleTyped, RequestSet
  <2>3. [Idle EXCEPT !.pc = "find", !.draft.plan = plan, !.draft.rivals = Stored] \in Requests
    BY <2>2 DEF Idle
  <2> QED BY <1>4, <1>6, <2>3 DEF AddCoursePurchase
<1>7. ASSUME FindPurchase(h) PROVE admin' \in [Handlers -> Requests] /\ requests' \in Nat
  BY <1>1, <1>3, <1>5, <1>7, IdleTyped, RequestSet DEF FindPurchase, Finish
<1>8. ASSUME ReadCourse(h) PROVE admin' \in [Handlers -> Requests] /\ requests' \in Nat
  <2> DEFINE plan == admin[h].draft.plan
             d == [[[[admin[h].draft EXCEPT !.start = AccessStart] EXCEPT !.end = AccessEnd]
                     EXCEPT !.availableTo = AvailableTo(plan)] EXCEPT !.origin = AvailableTo(plan)]
  <2>1. plan \in PaymentPlans
    BY <1>8 DEF ReadCourse, Carries, CarriesAt
  <2>2. AccessStart \in Dates /\ AccessEnd \in Dates /\ AvailableTo(plan) \in Dates
    BY <2>1, Granted DEF Dates
  <2>3. d \in Documents
    BY <1>1, <2>2, DocumentSet
  <2>4. [[admin[h] EXCEPT !.pc = "lessons"] EXCEPT !.draft = d] \in Requests
    BY <1>1, <1>3, <2>3, RequestSet
  <2>5. [admin[h] EXCEPT !.pc = "lessons", !.draft.start = AccessStart, !.draft.end = AccessEnd,
                         !.draft.availableTo = AvailableTo(plan), !.draft.origin = AvailableTo(plan)] \in Requests
    BY <1>1, <2>4 DEF Requests
  <2> QED BY <1>5, <1>8, <2>5 DEF ReadCourse
<1>9. ASSUME ReadLessons(h) PROVE admin' \in [Handlers -> Requests] /\ requests' \in Nat
  <2> DEFINE unlocked == UnlockedAtFirst(admin[h].draft.plan)
  <2>1. unlocked \subseteq Lessons
    BY <1>9, Granted DEF ReadLessons, Carries, CarriesAt
  <2>2. [[admin[h] EXCEPT !.pc = "insert"] EXCEPT !.draft = [admin[h].draft EXCEPT !.unlocked = unlocked]] \in Requests
    BY <1>1, <1>3, <2>1, DocumentSet, RequestSet
  <2>3. [admin[h] EXCEPT !.pc = "insert", !.draft.unlocked = unlocked] \in Requests
    BY <1>1, <2>2 DEF Requests
  <2> QED BY <1>5, <1>9, <2>3 DEF ReadLessons
<1>10. ASSUME NEW p \in Purchases, InsertPurchase(h, p)
       PROVE  admin' \in [Handlers -> Requests] /\ requests' \in Nat
  BY <1>5, <1>10, IdleTyped DEF InsertPurchase, Finish
<1>11. ASSUME NEW p \in Purchases, NEW status \in PurchaseStatus, UpdateStatus(h, p, status)
       PROVE  admin' \in [Handlers -> Requests] /\ requests' \in Nat
  BY <1>4, <1>11, IdleTyped DEF UpdateStatus
<1>12. ASSUME NEW p \in Purchases, ExtendAccess(h, p)
       PROVE  admin' \in [Handlers -> Requests] /\ requests' \in Nat
  <2>1. BaseDate(p) + 1 \in Nat /\ BaseDate(p) + 1 \in Dates
    <3>1. purchases[p].availableTo \in Nat \cup {None}
      BY <1>1 DEF Documents, Dates
    <3> QED BY <1>1, <3>1 DEF BaseDate, Dates
  <2>2. [Idle.draft EXCEPT !.availableTo = BaseDate(p) + 1] \in Documents
    BY <2>1, NoDocumentTyped, DocumentSet DEF Idle
  <2>3. [[[Idle EXCEPT !.pc = "prolong"] EXCEPT !.purchase = p]
          EXCEPT !.draft = [Idle.draft EXCEPT !.availableTo = BaseDate(p) + 1]] \in Requests
    BY <1>3, <2>2, IdleTyped, RequestSet
  <2>4. [Idle EXCEPT !.pc = "prolong", !.purchase = p, !.draft.availableTo = BaseDate(p) + 1] \in Requests
    BY <2>3 DEF Idle
  <2> QED BY <1>4, <1>12, <2>4 DEF ExtendAccess
<1>13. ASSUME NEW p \in Purchases, ExtendPractice(h, p)
       PROVE  admin' \in [Handlers -> Requests] /\ requests' \in Nat
  <2>1. purchases[p].practices \in Nat
    BY <1>1 DEF Documents
  <2>2. [Idle EXCEPT !.pc = "count", !.purchase = p, !.seen = purchases[p].practices] \in Requests
    BY <1>3, <2>1, IdleTyped, RequestSet
  <2> QED BY <1>4, <1>13, <2>2 DEF ExtendPractice
<1>14. ASSUME NEW p \in Purchases, CompleteAccess(h, p)
       PROVE  admin' \in [Handlers -> Requests] /\ requests' \in Nat
  <2>1. \A pc \in Steps : [Idle EXCEPT !.purchase = p, !.draft = purchases[p], !.pc = pc] \in Requests
    BY <1>1, IdleTyped, RequestSet
  <2> QED BY <1>3, <1>4, <1>14, <2>1 DEF CompleteAccess
<1>15. ASSUME WriteAccess(h) \/ AddPractice(h) \/ WriteComplete(h)
       PROVE  admin' \in [Handlers -> Requests] /\ requests' \in Nat
  BY <1>5, <1>15, IdleTyped DEF WriteAccess, AddPractice, WriteComplete, Finish
<1>16. ASSUME CountPractices(h) PROVE admin' \in [Handlers -> Requests] /\ requests' \in Nat
  BY <1>1, <1>3, <1>5, <1>16, IdleTyped, RequestSet DEF CountPractices, Finish
<1>17. ASSUME ReadAllLessons(h) PROVE admin' \in [Handlers -> Requests] /\ requests' \in Nat
  <2>1. LessonsToUnlock \subseteq Lessons
    BY BoundsAssumption DEF LessonsToUnlock, TypeOK, Lessons
  <2>2. [[admin[h] EXCEPT !.pc = "complete"] EXCEPT !.draft = [admin[h].draft EXCEPT !.unlocked = LessonsToUnlock]]
          \in Requests
    BY <1>1, <1>3, <2>1, DocumentSet, RequestSet
  <2>3. [admin[h] EXCEPT !.pc = "complete", !.draft.unlocked = LessonsToUnlock] \in Requests
    BY <1>1, <2>2 DEF Requests
  <2> QED BY <1>5, <1>17, <2>3 DEF ReadAllLessons
<1> QED
  BY <1>6, <1>7, <1>8, <1>9, <1>10, <1>11, <1>12, <1>13, <1>14, <1>15, <1>16, <1>17 DEF AdminStep

(* What a step makes of the purchases: nothing, one more, or other fields of one, *)
(* never its beginning and what it was given at first.                            *)
Adds(h, p) ==
    /\ admin[h].pc = "insert" /\ p \notin Stored
    /\ purchases'[p] = [admin[h].draft EXCEPT !.stored = TRUE]
    /\ granted' = granted

Changes(p) ==
    /\ p \in Stored
    /\ purchases'[p].stored /\ purchases'[p] \in Documents
    /\ purchases'[p].start = purchases[p].start
    /\ purchases'[p].end = purchases[p].end
    /\ purchases'[p].origin = purchases[p].origin
    /\ purchases'[p].rivals = purchases[p].rivals
    /\ \/ purchases'[p].plan = "FULL"
       \/ purchases'[p].plan = purchases[p].plan /\ purchases'[p].unlocked = purchases[p].unlocked
    /\ granted[p] <= granted'[p]

LEMMA CompletedFields ==
    ASSUME NEW c \in Documents, NEW unlocked, NEW t
    PROVE  LET d == [[[c EXCEPT !.plan = "FULL"] EXCEPT !.unlocked = unlocked] EXCEPT !.availableTo = t]
           IN  /\ d.stored = c.stored /\ d.start = c.start /\ d.end = c.end
               /\ d.origin = c.origin /\ d.rivals = c.rivals /\ d.plan = "FULL"
BY DEF Documents

LEMMA PurchasesMove ==
    ASSUME TypeOK, Carries, [Next]_vars
    PROVE  \/ purchases' = purchases /\ granted' = granted
           \/ \E p \in Purchases :
                 /\ purchases' \in [Purchases -> Documents] /\ granted' \in [Purchases -> Nat]
                 /\ \A q \in Purchases \ {p} : purchases'[q] = purchases[q] /\ granted'[q] = granted[q]
                 /\ Changes(p) \/ \E h \in Handlers : Adds(h, p)
<1>1. /\ admin \in [Handlers -> Requests] /\ purchases \in [Purchases -> Documents]
      /\ granted \in [Purchases -> Nat]
      /\ \A h \in Handlers : admin[h] \in Requests /\ admin[h].draft \in Documents
  BY DEF TypeOK, Requests
<1> DEFINE Moved(p) ==
              /\ purchases' \in [Purchases -> Documents] /\ granted' \in [Purchases -> Nat]
              /\ \A q \in Purchases \ {p} : purchases'[q] = purchases[q] /\ granted'[q] = granted[q]
              /\ Changes(p) \/ \E h \in Handlers : Adds(h, p)
<1>2. ASSUME NEW h \in Handlers, NEW p \in Purchases, InsertPurchase(h, p) PROVE Moved(p)
  <2>1. [admin[h].draft EXCEPT !.stored = TRUE] \in Documents
    BY <1>1, DocumentSet
  <2>2. Adds(h, p)
    BY <1>1, <1>2 DEF InsertPurchase, Adds
  <2> QED BY <1>1, <1>2, <2>1, <2>2 DEF InsertPurchase
<1>3. ASSUME NEW h \in Handlers, NEW p \in Purchases, NEW status \in PurchaseStatus, UpdateStatus(h, p, status)
      PROVE  Moved(p)
  <2>1. [purchases[p] EXCEPT !.status = status] \in Documents
    BY <1>1, DocumentSet
  <2>2. Changes(p)
    BY <1>1, <1>3, <2>1 DEF UpdateStatus, Changes, Stored, Documents
  <2> QED BY <1>1, <1>3, <2>1, <2>2 DEF UpdateStatus
<1>4. ASSUME NEW h \in Handlers, WriteAccess(h) PROVE \E p \in Purchases : Moved(p)
  <2> DEFINE p == admin[h].purchase
  <2>1. p \in Purchases /\ p \in Stored
    BY <1>4 DEF WriteAccess, Carries, CarriesAt, Stored
  <2>2. [purchases[p] EXCEPT !.availableTo = admin[h].draft.availableTo] \in Documents
    <3>1. admin[h].draft.availableTo \in Dates
      BY <1>1 DEF Documents
    <3> QED BY <1>1, <2>1, <3>1, DocumentSet
  <2>3. Changes(p)
    BY <1>1, <1>4, <2>1, <2>2 DEF WriteAccess, Changes, Stored, Documents
  <2> QED BY <1>1, <1>4, <2>1, <2>2, <2>3 DEF WriteAccess
<1>5. ASSUME NEW h \in Handlers, AddPractice(h) PROVE \E p \in Purchases : Moved(p)
  <2> DEFINE p == admin[h].purchase
  <2>1. p \in Purchases /\ p \in Stored
    BY <1>5 DEF AddPractice, Carries, CarriesAt, Stored
  <2>2. [purchases[p] EXCEPT !.practices = purchases[p].practices + 1] \in Documents
    <3>1. purchases[p].practices + 1 \in Nat
      BY <1>1, <2>1 DEF Documents
    <3> QED BY <1>1, <2>1, <3>1, DocumentSet
  <2>3. purchases'[p] = [purchases[p] EXCEPT !.practices = purchases[p].practices + 1] /\ granted' = granted
    BY <1>1, <1>5, <2>1 DEF AddPractice
  <2>4. Changes(p)
    <3>1. purchases[p].stored /\ granted[p] <= granted'[p]
      BY <1>1, <2>1, <2>3 DEF Stored
    <3>2. purchases[p] \in Documents
      BY <1>1, <2>1
    <3> DEFINE d == [purchases[p] EXCEPT !.practices = purchases[p].practices + 1]
    <3>3. /\ d.stored = purchases[p].stored /\ d.start = purchases[p].start /\ d.end = purchases[p].end
          /\ d.origin = purchases[p].origin /\ d.rivals = purchases[p].rivals
          /\ d.plan = purchases[p].plan /\ d.unlocked = purchases[p].unlocked
      BY <3>2 DEF Documents
    <3>4. purchases'[p] = d /\ d \in Documents
      BY <2>2, <2>3
    <3> HIDE DEF d
    <3> QED BY <2>1, <3>1, <3>3, <3>4 DEF Changes
  <2> QED BY <1>1, <1>5, <2>1, <2>2, <2>4 DEF AddPractice
<1>6. ASSUME NEW h \in Handlers, WriteComplete(h) PROVE \E p \in Purchases : Moved(p)
  <2> DEFINE p == admin[h].purchase
             unlocked == IF admin[h].draft.plan = "PARTIAL" THEN admin[h].draft.unlocked ELSE purchases[p].unlocked
             availableTo == IF Permanent THEN purchases[p].availableTo ELSE admin[h].draft.end
             d == [[[purchases[p] EXCEPT !.plan = "FULL"] EXCEPT !.unlocked = unlocked] EXCEPT !.availableTo = availableTo]
  <2>1. p \in Purchases /\ p \in Stored
    BY <1>6 DEF WriteComplete, Carries, CarriesAt, Stored
  <2>2. unlocked \in SUBSET Lessons /\ availableTo \in Dates /\ "FULL" \in PaymentPlans
    BY <1>1, <2>1 DEF Documents, PaymentPlans
  <2>3. d \in Documents
    BY <1>1, <2>1, <2>2, DocumentSet
  <2>4. purchases' = [purchases EXCEPT ![p] = d] /\ granted' = granted
    BY <1>1, <1>6, <2>1 DEF WriteComplete
  <2>5. /\ d.stored = purchases[p].stored /\ d.start = purchases[p].start /\ d.end = purchases[p].end
        /\ d.origin = purchases[p].origin /\ d.rivals = purchases[p].rivals /\ d.plan = "FULL"
    BY <1>1, <2>1, CompletedFields
  <2> HIDE DEF d
  <2>6. purchases'[p] = d /\ granted[p] <= granted'[p]
    BY <1>1, <2>1, <2>4
  <2>7. Changes(p)
    BY <2>1, <2>3, <2>5, <2>6 DEF Changes, Stored
  <2> QED BY <1>1, <1>6, <2>1, <2>3, <2>4, <2>7 DEF WriteComplete
<1>7. ASSUME NEW h \in Handlers,
             \/ \E plan \in PaymentPlans : AddCoursePurchase(h, plan)
             \/ FindPurchase(h) \/ ReadCourse(h) \/ ReadLessons(h) \/ CountPractices(h) \/ ReadAllLessons(h)
             \/ \E p \in Purchases : ExtendAccess(h, p) \/ ExtendPractice(h, p) \/ CompleteAccess(h, p)
      PROVE  purchases' = purchases /\ granted' = granted
  BY <1>7 DEF AddCoursePurchase, FindPurchase, ReadCourse, ReadLessons, CountPractices, ReadAllLessons, ExtendAccess,
              ExtendPractice, CompleteAccess
<1>8. CASE CreateLesson \/ (\E l \in Lessons : DeleteLesson(l)) \/ CreateModule \/ DeleteModule \/ MonthPasses
           \/ UNCHANGED vars
  BY <1>8 DEF CreateLesson, DeleteLesson, CreateModule, DeleteModule, MonthPasses, vars
<1> QED BY <1>2, <1>3, <1>4, <1>5, <1>6, <1>7, <1>8 DEF Next, AdminStep

LEMMA TypeStep == TypeOK /\ Carries /\ [Next]_vars => TypeOK'
<1> SUFFICES ASSUME TypeOK, Carries, [Next]_vars PROVE TypeOK'
  OBVIOUS
<1>1. purchases' \in [Purchases -> Documents] /\ granted' \in [Purchases -> Nat]
  BY PurchasesMove DEF TypeOK
<1>2. ASSUME NEW h \in Handlers, AdminStep(h), UNCHANGED <<contentVars, now>> PROVE TypeOK'
  BY <1>1, <1>2, AdminTyped DEF TypeOK, contentVars
<1>3. ASSUME NEW h \in Handlers, AdminStep(h) PROVE UNCHANGED <<contentVars, now>>
  BY <1>3 DEF AdminStep, AddCoursePurchase, FindPurchase, ReadCourse, ReadLessons, CountPractices, ReadAllLessons,
              ExtendAccess, ExtendPractice, CompleteAccess, InsertPurchase, UpdateStatus, WriteAccess, AddPractice,
              WriteComplete
<1>4. CASE CreateLesson
  <2>1. created' \in 0..MaxLessons /\ lessons' \subseteq 1..created'
    BY <1>4, BoundsAssumption DEF TypeOK, CreateLesson
  <2> QED BY <1>4, <2>1 DEF TypeOK, CreateLesson
<1>5. ASSUME NEW l \in Lessons, DeleteLesson(l) PROVE TypeOK'
  BY <1>5 DEF TypeOK, DeleteLesson
<1>6. CASE CreateModule
  <2>1. practicals' \in Nat /\ peak' \in Nat
    BY <1>6 DEF TypeOK, CreateModule, Later
  <2> QED BY <1>6, <2>1 DEF TypeOK, CreateModule
<1>7. CASE DeleteModule
  BY <1>7 DEF TypeOK, DeleteModule
<1>8. CASE MonthPasses
  BY <1>8 DEF TypeOK, MonthPasses, contentVars
<1>9. CASE UNCHANGED vars
  BY <1>9 DEF TypeOK, vars, contentVars
<1> QED BY <1>2, <1>3, <1>4, <1>5, <1>6, <1>7, <1>8, <1>9 DEF Next

-----------------------------------------------------------------------------
(* The end of an access that extensions may have reached. *)
Limit(p) == Later(purchases[p].origin, purchases[p].end) + granted[p]

(* A stored purchase has its dates, nobody's before it, and lessons that were created. *)
PurchaseAt(p) ==
    p \in Stored =>
        /\ purchases[p].start \in Nat /\ purchases[p].end \in Nat
        /\ purchases[p].rivals = {}
        /\ purchases[p].unlocked \subseteq 1..created
        /\ purchases[p].origin # None => purchases[p].availableTo \in Nat /\ purchases[p].availableTo <= Limit(p)

(* What a handler is about to write fits the purchase as it is by now. *)
HandlerAt(h) ==
    LET r == admin[h]
        p == r.purchase
    IN  /\ r.pc = "find" => r.draft.rivals \subseteq Stored
        /\ r.pc \in {"course", "lessons", "insert"} => r.draft.rivals = {}
        /\ r.pc \in {"lessons", "insert"} =>
              r.draft.start \in Nat /\ r.draft.end \in Nat /\ r.draft.availableTo = r.draft.origin
        /\ r.pc \in {"insert", "unlock", "complete"} => r.draft.unlocked \subseteq 1..created
        /\ r.pc = "prolong" =>
              (purchases[p].origin # None => r.draft.availableTo \in Nat /\ r.draft.availableTo <= Limit(p) + 1)
        /\ r.pc \in {"unlock", "complete"} => r.draft.end = purchases[p].end
        /\ r.pc = "unlock" => r.draft.plan = "PARTIAL"
        /\ r.pc = "complete" /\ purchases[p].plan = "PARTIAL" =>
              r.draft.plan = "PARTIAL" /\ purchases[p].unlocked \cap lessons \subseteq r.draft.unlocked

AccessInv ==
    /\ TypeOK /\ Carries
    /\ \A p \in Purchases : PurchaseAt(p)
    /\ \A p \in Purchases \ Stored : purchases[p].unlocked = {}
    /\ \A h \in Handlers : HandlerAt(h)

LEMMA Grows ==
    ASSUME TypeOK, Carries, [Next]_vars
    PROVE  /\ Stored \subseteq Stored'
           /\ \A p \in Stored : /\ purchases'[p].start = purchases[p].start
                                /\ purchases'[p].end = purchases[p].end
                                /\ purchases'[p].origin = purchases[p].origin
                                /\ purchases'[p].rivals = purchases[p].rivals
                                /\ purchases'[p].plan = "PARTIAL" =>
                                      /\ purchases[p].plan = "PARTIAL"
                                      /\ purchases'[p].unlocked = purchases[p].unlocked
                                /\ granted[p] <= granted'[p]
<1> DEFINE Kept == /\ Stored \subseteq Stored'
                   /\ \A p \in Stored : /\ purchases'[p].start = purchases[p].start
                                        /\ purchases'[p].end = purchases[p].end
                                        /\ purchases'[p].origin = purchases[p].origin
                                        /\ purchases'[p].rivals = purchases[p].rivals
                                        /\ purchases'[p].plan = "PARTIAL" =>
                                              /\ purchases[p].plan = "PARTIAL"
                                              /\ purchases'[p].unlocked = purchases[p].unlocked
                                        /\ granted[p] <= granted'[p]
<1> SUFFICES Kept
  OBVIOUS
<1>1. granted \in [Purchases -> Nat] /\ purchases \in [Purchases -> Documents]
  BY DEF TypeOK
<1>2. CASE purchases' = purchases /\ granted' = granted
  BY <1>1, <1>2 DEF Stored
<1>3. ASSUME NEW p \in Purchases, \A q \in Purchases \ {p} : purchases'[q] = purchases[q] /\ granted'[q] = granted[q],
             Changes(p) \/ \E h \in Handlers : Adds(h, p)
      PROVE  Kept
  <2>1. CASE Changes(p)
    BY <1>1, <1>3, <2>1 DEF Changes, Stored
  <2>2. CASE \E h \in Handlers : Adds(h, p)
    BY <1>1, <1>3, <2>2 DEF Adds, Stored
  <2> QED BY <1>3, <2>1, <2>2
<1> QED BY <1>2, <1>3, PurchasesMove

LEMMA LessonsMove ==
    ASSUME TypeOK, [Next]_vars
    PROVE  created \in Nat /\ created' \in Nat /\ created <= created' /\ lessons' \cap 1..created \subseteq lessons
<1>1. ASSUME NEW h \in Handlers, AdminStep(h) PROVE UNCHANGED <<created, lessons>>
  BY <1>1 DEF AdminStep, AddCoursePurchase, FindPurchase, ReadCourse, ReadLessons, CountPractices, ReadAllLessons,
              ExtendAccess, ExtendPractice, CompleteAccess, InsertPurchase, UpdateStatus, WriteAccess, AddPractice,
              WriteComplete, contentVars
<1>2. CASE CreateLesson
  BY <1>2, BoundsAssumption DEF CreateLesson, TypeOK
<1>3. CASE (\E l \in Lessons : DeleteLesson(l)) \/ CreateModule \/ DeleteModule \/ MonthPasses \/ UNCHANGED vars
  BY <1>3, BoundsAssumption DEF DeleteLesson, CreateModule, DeleteModule, MonthPasses, vars, contentVars, TypeOK
<1> QED BY <1>1, <1>2, <1>3, BoundsAssumption DEF Next, TypeOK

LEMMA LaterNat == ASSUME NEW a \in Nat, NEW b \in Nat PROVE Later(a, b) \in Nat /\ a <= Later(a, b) /\ b <= Later(a, b)
BY DEF Later

(* What a handler that does not move relies on stays so. *)
LEMMA Untouched ==
    ASSUME AccessInv, [Next]_vars, NEW h \in Handlers, admin'[h] = admin[h]
    PROVE  HandlerAt(h)' /\ CarriesAt(h)'
<1> DEFINE p == admin[h].purchase
<1>1. HandlerAt(h) /\ CarriesAt(h)
  BY DEF AccessInv, Carries
<1>2. Stored \subseteq Stored'
  BY Grows DEF AccessInv
<1>3. CarriesAt(h)'
  BY <1>1, <1>2 DEF CarriesAt
<1>4. CASE admin[h].pc \notin {"prolong", "unlock", "complete", "insert"}
  BY <1>1, <1>2, <1>3, <1>4 DEF HandlerAt
<1>5. \A S : S \subseteq 1..created => S \subseteq 1..created'
  BY LessonsMove DEF AccessInv
<1>6. CASE admin[h].pc = "insert"
  BY <1>1, <1>3, <1>5, <1>6 DEF HandlerAt
<1>7. CASE admin[h].pc = "prolong"
  <2>1. /\ p \in Stored /\ p \in Purchases /\ purchases'[p].origin = purchases[p].origin
        /\ purchases'[p].end = purchases[p].end /\ granted[p] <= granted'[p]
    BY <1>1, <1>7, Grows DEF CarriesAt, Stored, AccessInv
  <2>2. purchases[p].end \in Nat /\ purchases[p].origin \in Nat \cup {None} /\ granted[p] \in Nat /\ granted'[p] \in Nat
    BY <2>1, TypeStep DEF AccessInv, PurchaseAt, TypeOK, Documents, Dates
  <2>3. purchases[p].origin # None => Limit(p) \in Nat /\ Limit(p)' \in Nat /\ Limit(p) <= Limit(p)'
    <3> DEFINE later == Later(purchases[p].origin, purchases[p].end)
    <3>1. Limit(p) = later + granted[p] /\ Limit(p)' = later + granted'[p]
      BY <2>1 DEF Limit
    <3>2. purchases[p].origin # None => later \in Nat
      BY <2>2, LaterNat
    <3> HIDE DEF later, Limit
    <3> QED BY <2>1, <2>2, <3>1, <3>2
  <2> QED BY <1>1, <1>3, <1>7, <2>1, <2>3 DEF HandlerAt
<1>8. CASE admin[h].pc \in {"unlock", "complete"}
  <2>1. /\ p \in Stored /\ p \in Purchases /\ purchases'[p].end = purchases[p].end
        /\ purchases'[p].plan = "PARTIAL" => /\ purchases[p].plan = "PARTIAL"
                                             /\ purchases'[p].unlocked = purchases[p].unlocked
    BY <1>1, <1>8, Grows DEF CarriesAt, Stored, AccessInv
  <2>2. purchases[p].unlocked \subseteq 1..created
    BY <2>1 DEF AccessInv, PurchaseAt
  <2>3. purchases[p].unlocked \cap lessons' \subseteq purchases[p].unlocked \cap lessons
    BY <2>2, LessonsMove DEF AccessInv
  <2> QED BY <1>1, <1>3, <1>5, <1>8, <2>1, <2>3 DEF HandlerAt
<1> QED BY <1>3, <1>4, <1>6, <1>7, <1>8

LEMMA OthersStay ==
    ASSUME TypeOK, NEW h \in Handlers, AdminStep(h)
    PROVE  \A g \in Handlers \ {h} : admin'[g] = admin[g]
<1>1. ASSUME NEW r, Begin(h, r) \/ Continue(h, r) PROVE \A g \in Handlers \ {h} : admin'[g] = admin[g]
  BY <1>1 DEF Begin, Continue, TypeOK
<1>2. CASE \/ \E plan \in PaymentPlans : AddCoursePurchase(h, plan)
           \/ \E p \in Purchases : \/ ExtendAccess(h, p) \/ ExtendPractice(h, p) \/ CompleteAccess(h, p)
                                   \/ \E status \in PurchaseStatus : UpdateStatus(h, p, status)
  BY <1>1, <1>2 DEF AddCoursePurchase, ExtendAccess, ExtendPractice, CompleteAccess, UpdateStatus
<1>3. CASE FindPurchase(h) \/ ReadCourse(h) \/ ReadLessons(h) \/ (\E p \in Purchases : InsertPurchase(h, p))
  BY <1>1, <1>3 DEF FindPurchase, ReadCourse, ReadLessons, InsertPurchase, Finish
<1>4. CASE WriteAccess(h) \/ CountPractices(h) \/ AddPractice(h) \/ ReadAllLessons(h) \/ WriteComplete(h)
  BY <1>1, <1>4 DEF WriteAccess, CountPractices, AddPractice, ReadAllLessons, WriteComplete, Finish
<1> QED BY <1>2, <1>3, <1>4 DEF AdminStep

LEMMA Moved ==
    ASSUME AccessInv, NEW h \in Handlers, AdminStep(h)
    PROVE  HandlerAt(h)' /\ CarriesAt(h)'
<1> DEFINE Holds == HandlerAt(h)' /\ CarriesAt(h)'
<1> SUFFICES Holds
  OBVIOUS
<1>1. /\ HandlerAt(h) /\ CarriesAt(h) /\ TypeOK
      /\ admin \in [Handlers -> Requests] /\ admin[h] \in Requests /\ admin[h].draft \in Documents
      /\ purchases \in [Purchases -> Documents]
  BY DEF AccessInv, Carries, TypeOK, Requests
<1>2. ASSUME admin'[h].pc \in {"idle", "count", "practice"},
             admin'[h].pc \in {"count", "practice"} => admin'[h].purchase \in Stored'
      PROVE  Holds
  BY <1>2 DEF HandlerAt, CarriesAt
<1>3. ASSUME Finish(h) PROVE Holds
  BY <1>1, <1>2, <1>3 DEF Finish, Continue, Idle
<1>4. CASE \E plan \in PaymentPlans : AddCoursePurchase(h, plan)
  <2>1. PICK plan \in PaymentPlans : AddCoursePurchase(h, plan)
    BY <1>4
  <2>2. /\ admin'[h].pc = "find" /\ admin'[h].draft.plan = plan /\ admin'[h].draft.rivals = Stored
        /\ admin'[h].draft.practices = 0
    BY <1>1, <2>1 DEF AddCoursePurchase, Begin, Idle, NoDocument
  <2>3. Stored' = Stored
    BY <2>1 DEF AddCoursePurchase, Stored
  <2> QED BY <2>2, <2>3 DEF HandlerAt, CarriesAt
<1>5. CASE FindPurchase(h)
  <2>1. CASE Stored # {}
    BY <1>3, <1>5, <2>1 DEF FindPurchase
  <2>2. CASE Stored = {}
    <3>1. admin'[h].pc = "course" /\ admin'[h].draft = admin[h].draft /\ admin[h].pc = "find"
      BY <1>1, <1>5, <2>2 DEF FindPurchase, Continue, Requests
    <3> QED BY <1>1, <2>2, <3>1 DEF HandlerAt, CarriesAt
  <2> QED BY <2>1, <2>2
<1>6. CASE ReadCourse(h)
  <2>1. /\ admin[h].pc = "course" /\ admin'[h].pc = "lessons"
        /\ admin'[h].draft.start = AccessStart /\ admin'[h].draft.end = AccessEnd
        /\ admin'[h].draft.availableTo = admin'[h].draft.origin
        /\ admin'[h].draft.plan = admin[h].draft.plan /\ admin'[h].draft.rivals = admin[h].draft.rivals
        /\ admin'[h].draft.practices = admin[h].draft.practices
    BY <1>1, <1>6 DEF ReadCourse, Continue, Requests, Documents
  <2>2. AccessStart \in Nat /\ AccessEnd \in Nat
    BY <1>1, <2>1, Granted DEF CarriesAt
  <2> QED BY <1>1, <2>1, <2>2 DEF HandlerAt, CarriesAt
<1>7. CASE ReadLessons(h)
  <2>1. /\ admin[h].pc = "lessons" /\ admin'[h].pc = "insert"
        /\ admin'[h].draft = [admin[h].draft EXCEPT !.unlocked = UnlockedAtFirst(admin[h].draft.plan)]
    BY <1>1, <1>7 DEF ReadLessons, Continue, Requests
  <2>2. /\ admin'[h].draft.unlocked = UnlockedAtFirst(admin[h].draft.plan)
        /\ admin'[h].draft.start = admin[h].draft.start /\ admin'[h].draft.end = admin[h].draft.end
        /\ admin'[h].draft.availableTo = admin[h].draft.availableTo
        /\ admin'[h].draft.origin = admin[h].draft.origin
        /\ admin'[h].draft.plan = admin[h].draft.plan /\ admin'[h].draft.rivals = admin[h].draft.rivals
        /\ admin'[h].draft.practices = admin[h].draft.practices
    BY <1>1, <2>1 DEF Documents
  <2>3. UnlockedAtFirst(admin[h].draft.plan) \subseteq 1..created /\ created' = created
    <3>1. UnlockedAtFirst(admin[h].draft.plan) \subseteq lessons
      BY <1>1, <2>1, Granted DEF CarriesAt
    <3> QED BY <1>1, <1>7, <3>1 DEF TypeOK, ReadLessons, contentVars
  <2> QED BY <1>1, <2>1, <2>2, <2>3 DEF HandlerAt, CarriesAt
<1>8. CASE \E p \in Purchases : InsertPurchase(h, p)
  BY <1>3, <1>8 DEF InsertPurchase
<1>9. CASE \E p \in Purchases, status \in PurchaseStatus : UpdateStatus(h, p, status)
  BY <1>1, <1>2, <1>9 DEF UpdateStatus, Begin, Idle
<1>10. CASE \E p \in Purchases : ExtendAccess(h, p)
  <2>1. PICK p \in Purchases : ExtendAccess(h, p)
    BY <1>10
  <2>2. /\ admin'[h].pc = "prolong" /\ admin'[h].purchase = p /\ admin'[h].draft.availableTo = BaseDate(p) + 1
        /\ purchases' = purchases /\ granted' = granted /\ p \in Stored /\ Stored' = Stored
    BY <1>1, <2>1 DEF ExtendAccess, Begin, Idle, NoDocument, Stored
  <2>3. ASSUME purchases[p].origin # None
        PROVE  BaseDate(p) + 1 \in Nat /\ BaseDate(p) + 1 <= Limit(p) + 1
    <3>1. purchases[p].availableTo \in Nat /\ purchases[p].availableTo <= Limit(p)
      BY <2>2, <2>3 DEF AccessInv, PurchaseAt
    <3>2. BaseDate(p) = purchases[p].availableTo
      BY <3>1, NoneAssumption DEF BaseDate
    <3>3. Limit(p) \in Nat
      <4>1. purchases[p].origin \in Nat /\ purchases[p].end \in Nat /\ granted[p] \in Nat
        BY <1>1, <2>2, <2>3 DEF AccessInv, PurchaseAt, Documents, Dates, TypeOK
      <4>2. Later(purchases[p].origin, purchases[p].end) \in Nat
        BY <4>1, LaterNat
      <4> QED BY <4>1, <4>2 DEF Limit
    <3> QED BY <3>1, <3>2, <3>3
  <2>4. Limit(p)' = Limit(p)
    BY <2>2 DEF Limit
  <2> QED BY <2>2, <2>3, <2>4 DEF HandlerAt, CarriesAt
<1>11. CASE \E p \in Purchases : ExtendPractice(h, p)
  <2>1. PICK p \in Purchases : ExtendPractice(h, p)
    BY <1>11
  <2>2. admin'[h].pc = "count" /\ admin'[h].purchase = p /\ p \in Stored /\ Stored' = Stored
    BY <1>1, <2>1 DEF ExtendPractice, Begin, Idle, Stored
  <2> QED BY <1>2, <2>2
<1>12. CASE \E p \in Purchases : CompleteAccess(h, p)
  <2>1. PICK p \in Purchases : CompleteAccess(h, p)
    BY <1>12
  <2>2. /\ admin'[h].pc = IF purchases[p].plan = "PARTIAL" THEN "unlock" ELSE "complete"
        /\ admin'[h].purchase = p /\ admin'[h].draft = purchases[p]
        /\ purchases' = purchases /\ p \in Stored /\ Stored' = Stored /\ created' = created
    BY <1>1, <2>1 DEF CompleteAccess, Begin, Idle, Stored, contentVars
  <2>3. purchases[p].unlocked \subseteq 1..created
    BY <2>2 DEF AccessInv, PurchaseAt
  <2> QED BY <2>2, <2>3 DEF HandlerAt, CarriesAt
<1>13. CASE WriteAccess(h) \/ AddPractice(h) \/ WriteComplete(h)
  BY <1>3, <1>13 DEF WriteAccess, AddPractice, WriteComplete
<1>14. CASE CountPractices(h)
  <2>1. CASE Finish(h)
    BY <1>3, <2>1
  <2>2. CASE Continue(h, [admin[h] EXCEPT !.pc = "practice"])
    <3>1. admin'[h].pc = "practice" /\ admin'[h].purchase = admin[h].purchase /\ Stored' = Stored
      BY <1>1, <1>14, <2>2 DEF CountPractices, Continue, Requests, Stored
    <3> QED BY <1>1, <1>2, <1>14, <3>1 DEF CarriesAt, CountPractices
  <2> QED BY <1>14, <2>1, <2>2 DEF CountPractices
<1>15. CASE ReadAllLessons(h)
  <2>1. /\ admin[h].pc = "unlock" /\ admin'[h].pc = "complete" /\ admin'[h].purchase = admin[h].purchase
        /\ admin'[h].draft = [admin[h].draft EXCEPT !.unlocked = lessons]
        /\ purchases' = purchases /\ lessons' = lessons /\ created' = created /\ Stored' = Stored
    BY <1>1, <1>15 DEF ReadAllLessons, LessonsToUnlock, Continue, Requests, contentVars, Stored
  <2>2. /\ admin'[h].draft.unlocked = lessons /\ admin'[h].draft.end = admin[h].draft.end
        /\ admin'[h].draft.plan = admin[h].draft.plan
    BY <1>1, <2>1 DEF Documents
  <2>3. lessons \subseteq 1..created
    BY <1>1 DEF TypeOK
  <2> QED BY <1>1, <2>1, <2>2, <2>3 DEF HandlerAt, CarriesAt
<1> QED BY <1>4, <1>5, <1>6, <1>7, <1>8, <1>9, <1>10, <1>11, <1>12, <1>13, <1>14, <1>15 DEF AdminStep

LEMMA HandlersStep == AccessInv /\ [Next]_vars => \A h \in Handlers : HandlerAt(h)' /\ CarriesAt(h)'
<1> SUFFICES ASSUME AccessInv, [Next]_vars, NEW h \in Handlers PROVE HandlerAt(h)' /\ CarriesAt(h)'
  OBVIOUS
<1>1. CASE AdminStep(h)
  BY <1>1, Moved
<1>2. ASSUME NEW g \in Handlers \ {h}, AdminStep(g) PROVE admin'[h] = admin[h]
  BY <1>2, OthersStay DEF AccessInv
<1>3. CASE CreateLesson \/ (\E l \in Lessons : DeleteLesson(l)) \/ CreateModule \/ DeleteModule \/ MonthPasses
           \/ UNCHANGED vars
  <2>1. admin' = admin
    BY <1>3 DEF CreateLesson, DeleteLesson, CreateModule, DeleteModule, MonthPasses, vars
  <2> QED BY <2>1, Untouched
<1> QED BY <1>1, <1>2, <1>3, Untouched DEF Next

LEMMA PurchasesStep == AccessInv /\ [Next]_vars => \A p \in Purchases : PurchaseAt(p)'
<1> SUFFICES ASSUME AccessInv, [Next]_vars, NEW p \in Purchases, p \in Stored' PROVE PurchaseAt(p)'
  BY DEF PurchaseAt
<1>1. /\ TypeOK /\ TypeOK' /\ purchases \in [Purchases -> Documents] /\ purchases[p] \in Documents
      /\ granted \in [Purchases -> Nat] /\ admin \in [Handlers -> Requests]
      /\ created \in Nat /\ created' \in Nat /\ created <= created'
  BY TypeStep, LessonsMove DEF AccessInv, TypeOK
<1>2. \A S : S \subseteq 1..created => S \subseteq 1..created'
  BY <1>1
<1>3. ASSUME p \in Stored,
             purchases'[p].unlocked \subseteq 1..created,
             purchases[p].origin # None => purchases'[p].availableTo \in Nat /\ purchases'[p].availableTo <= Limit(p)'
      PROVE  PurchaseAt(p)'
  BY <1>2, <1>3, Grows DEF PurchaseAt, AccessInv
<1>4. ASSUME p \in Stored PROVE
             /\ PurchaseAt(p) /\ purchases[p].end \in Nat
             /\ purchases[p].origin # None => /\ Limit(p) \in Nat /\ Limit(p)' \in Nat /\ Limit(p) <= Limit(p)'
                                              /\ granted'[p] = granted[p] + 1 => Limit(p)' = Limit(p) + 1
                                              /\ purchases[p].end <= Limit(p)
  <2>1. /\ purchases[p].end \in Nat /\ purchases[p].origin \in Nat \cup {None} /\ granted[p] \in Nat
        /\ granted'[p] \in Nat /\ granted[p] <= granted'[p] /\ purchases'[p].end = purchases[p].end
        /\ purchases'[p].origin = purchases[p].origin
    BY <1>1, <1>4, Grows DEF AccessInv, PurchaseAt, Documents, Dates, TypeOK
  <2>2. purchases[p].origin \in Nat =>
            /\ Later(purchases[p].origin, purchases[p].end) \in Nat
            /\ purchases[p].end <= Later(purchases[p].origin, purchases[p].end)
    BY <2>1, LaterNat
  <2> QED BY <1>4, <2>1, <2>2 DEF Limit, AccessInv
<1>5. ASSUME p \in Stored, purchases'[p].unlocked = purchases[p].unlocked,
             purchases'[p].availableTo = purchases[p].availableTo
      PROVE  PurchaseAt(p)'
  BY <1>3, <1>4, <1>5 DEF PurchaseAt
<1>6. ASSUME NEW h \in Handlers, InsertPurchase(h, p) PROVE PurchaseAt(p)'
  <2> DEFINE d == admin[h].draft
  <2>1. d \in Documents /\ HandlerAt(h) /\ CarriesAt(h) /\ admin[h].pc = "insert"
    BY <1>1, <1>6 DEF AccessInv, Carries, Requests, InsertPurchase
  <2>2. purchases'[p] = [d EXCEPT !.stored = TRUE] /\ granted' = granted
    BY <1>1, <1>6 DEF InsertPurchase
  <2>3. /\ purchases'[p].start = d.start /\ purchases'[p].end = d.end /\ purchases'[p].rivals = d.rivals
        /\ purchases'[p].unlocked = d.unlocked /\ purchases'[p].origin = d.origin
        /\ purchases'[p].availableTo = d.availableTo /\ d.origin \in Nat \cup {None}
    BY <2>1, <2>2 DEF Documents, Dates
  <2>4. /\ d.start \in Nat /\ d.end \in Nat /\ d.rivals = {} /\ d.unlocked \subseteq 1..created /\ d.availableTo = d.origin
    BY <2>1 DEF HandlerAt
  <2>5. d.origin # None => d.origin <= Limit(p)'
    <3>1. granted'[p] \in Nat
      BY <1>1, <2>2
    <3>2. d.origin \in Nat => Later(d.origin, d.end) \in Nat /\ d.origin <= Later(d.origin, d.end)
      BY <2>4, LaterNat
    <3> QED BY <2>3, <3>1, <3>2 DEF Limit
  <2> QED BY <1>2, <2>3, <2>4, <2>5 DEF PurchaseAt
<1>7. ASSUME NEW h \in Handlers, NEW q \in Purchases, NEW status \in PurchaseStatus, UpdateStatus(h, q, status)
      PROVE  PurchaseAt(p)'
  <2>1. purchases'[p].unlocked = purchases[p].unlocked /\ purchases'[p].availableTo = purchases[p].availableTo
        /\ purchases'[p].stored = purchases[p].stored
    BY <1>1, <1>7 DEF UpdateStatus, Documents
  <2> QED BY <1>5, <2>1 DEF Stored
<1>8. ASSUME NEW h \in Handlers, AddPractice(h) PROVE PurchaseAt(p)'
  <2>1. purchases'[p].unlocked = purchases[p].unlocked /\ purchases'[p].availableTo = purchases[p].availableTo
        /\ purchases'[p].stored = purchases[p].stored
    BY <1>1, <1>8 DEF AddPractice, Documents
  <2> QED BY <1>5, <2>1 DEF Stored
<1>9. ASSUME NEW h \in Handlers, WriteAccess(h) PROVE PurchaseAt(p)'
  <2>1. purchases'[p].unlocked = purchases[p].unlocked /\ purchases'[p].stored = purchases[p].stored
    BY <1>1, <1>9 DEF WriteAccess, Documents
  <2>2. p \in Stored
    BY <2>1 DEF Stored
  <2>3. CASE admin[h].purchase # p
    <3>1. purchases'[p] = purchases[p]
      BY <1>1, <1>9, <2>3 DEF WriteAccess
    <3> QED BY <1>5, <2>2, <3>1
  <2>4. CASE admin[h].purchase = p
    <3>1. purchases'[p].availableTo = admin[h].draft.availableTo /\ granted'[p] = granted[p] + 1
      BY <1>1, <1>9, <2>4 DEF WriteAccess, Documents
    <3>2. purchases[p].origin # None => admin[h].draft.availableTo \in Nat /\ admin[h].draft.availableTo <= Limit(p) + 1
      BY <1>9, <2>4 DEF AccessInv, HandlerAt, WriteAccess
    <3>3. purchases[p].unlocked \subseteq 1..created
      BY <1>4, <2>2 DEF PurchaseAt
    <3> QED BY <1>3, <1>4, <2>1, <2>2, <3>1, <3>2, <3>3
  <2> QED BY <2>3, <2>4
<1>10. ASSUME NEW h \in Handlers, WriteComplete(h) PROVE PurchaseAt(p)'
  <2>1. CASE admin[h].purchase # p
    <3>1. purchases'[p] = purchases[p]
      BY <1>1, <1>10, <2>1 DEF WriteComplete
    <3> QED BY <1>5, <3>1 DEF Stored
  <2>2. CASE admin[h].purchase = p
    <3>1. p \in Stored
      BY <1>10, <2>2 DEF WriteComplete, AccessInv, Carries, CarriesAt
    <3>2. /\ purchases'[p].unlocked \in {admin[h].draft.unlocked, purchases[p].unlocked}
          /\ purchases'[p].availableTo \in {admin[h].draft.end, purchases[p].availableTo}
      BY <1>1, <1>10, <2>2 DEF WriteComplete, Documents
    <3>3. admin[h].draft.unlocked \subseteq 1..created /\ admin[h].draft.end = purchases[p].end
      BY <1>10, <2>2 DEF AccessInv, HandlerAt, WriteComplete
    <3>4. purchases[p].unlocked \subseteq 1..created
      BY <1>4, <3>1 DEF PurchaseAt
    <3>5. purchases[p].origin # None => purchases'[p].availableTo \in Nat /\ purchases'[p].availableTo <= Limit(p)'
      BY <1>4, <3>1, <3>2, <3>3 DEF PurchaseAt
    <3> QED BY <1>3, <3>1, <3>2, <3>3, <3>4, <3>5
  <2> QED BY <2>1, <2>2
<1>11. ASSUME NEW h \in Handlers, NEW q \in Purchases, q # p, InsertPurchase(h, q) PROVE PurchaseAt(p)'
  <2>1. purchases'[p] = purchases[p]
    BY <1>1, <1>11 DEF InsertPurchase
  <2> QED BY <1>5, <2>1 DEF Stored
<1>12. ASSUME purchases' = purchases PROVE PurchaseAt(p)'
  BY <1>5, <1>12 DEF Stored
<1>13. ASSUME NEW h \in Handlers,
              \/ \E plan \in PaymentPlans : AddCoursePurchase(h, plan)
              \/ FindPurchase(h) \/ ReadCourse(h) \/ ReadLessons(h) \/ CountPractices(h) \/ ReadAllLessons(h)
              \/ \E q \in Purchases : ExtendAccess(h, q) \/ ExtendPractice(h, q) \/ CompleteAccess(h, q)
       PROVE  purchases' = purchases
  BY <1>13 DEF AddCoursePurchase, FindPurchase, ReadCourse, ReadLessons, CountPractices, ReadAllLessons, ExtendAccess,
               ExtendPractice, CompleteAccess
<1>14. CASE CreateLesson \/ (\E l \in Lessons : DeleteLesson(l)) \/ CreateModule \/ DeleteModule \/ MonthPasses
            \/ UNCHANGED vars
  BY <1>12, <1>14 DEF CreateLesson, DeleteLesson, CreateModule, DeleteModule, MonthPasses, vars
<1> QED BY <1>6, <1>7, <1>8, <1>9, <1>10, <1>11, <1>12, <1>13, <1>14 DEF Next, AdminStep

LEMMA UnstoredStep ==
    AccessInv /\ [Next]_vars => \A p \in Purchases : p \notin Stored' => purchases'[p].unlocked = {}
<1> SUFFICES ASSUME AccessInv, [Next]_vars, NEW p \in Purchases, p \notin Stored' PROVE purchases'[p].unlocked = {}
  OBVIOUS
<1>1. p \notin Stored
  BY Grows DEF AccessInv
<1>2. purchases'[p] = purchases[p]
  <2>1. ASSUME NEW q \in Purchases, Changes(q) \/ \E h \in Handlers : Adds(h, q) PROVE q # p
    <3>1. CASE Changes(q)
      BY <3>1 DEF Changes, Stored
    <3>2. ASSUME NEW h \in Handlers, Adds(h, q) PROVE q \in Stored'
      <4>1. admin[h].draft \in Documents
        BY DEF AccessInv, TypeOK, Requests
      <4>2. purchases'[q].stored
        BY <3>2, <4>1 DEF Adds, Documents
      <4> QED BY <4>2 DEF Stored
    <3> QED BY <2>1, <3>1, <3>2
  <2> QED BY <2>1, PurchasesMove DEF AccessInv
<1> QED BY <1>1, <1>2 DEF AccessInv

LEMMA InitInv == Init => AccessInv
<1> SUFFICES ASSUME Init PROVE AccessInv
  OBVIOUS
<1>1. TypeOK
  BY NoDocumentTyped, IdleTyped, BoundsAssumption DEF Init, TypeOK, Lessons
<1>2. Stored = {}
  BY DEF Init, Stored, NoDocument
<1>3. \A h \in Handlers : CarriesAt(h) /\ HandlerAt(h)
  BY DEF Init, Idle, CarriesAt, HandlerAt
<1>4. \A p \in Purchases : purchases[p].unlocked = {}
  BY DEF Init, NoDocument
<1> QED BY <1>1, <1>2, <1>3, <1>4 DEF AccessInv, Carries, PurchaseAt

LEMMA Invariance == Spec => []AccessInv
<1>1. AccessInv /\ [Next]_vars => AccessInv'
  BY TypeStep, HandlersStep, PurchasesStep, UnstoredStep DEF AccessInv, Carries
<1> QED BY InitInv, <1>1, PTL DEF Spec

-----------------------------------------------------------------------------
(* The course, the documents and the handlers keep the shape the schemas give them *)
(* (coursePurchase.schema.ts, coursePurchase.service.ts).                          *)
THEOREM TypeCorrect == Spec => []TypeOK
BY Invariance, PTL DEF AccessInv

(* A purchase is added only to a buyer who had none when the request came in, for *)
(* any number of overlapping requests (addCoursePurchase).                        *)
THEOREM AddedOnlyInTurn == Spec => []AddedInTurn
<1>1. AccessInv => AddedInTurn
  BY DEF AccessInv, AddedInTurn, PurchaseAt, Stored
<1> QED BY Invariance, <1>1, PTL

(* However extensions and completions interleave, no month is gained (extendAccess, *)
(* completeAccess).                                                                  *)
THEOREM NoMonthGained == Spec => []MonthsGranted
<1>1. AccessInv => MonthsGranted
  BY DEF AccessInv, MonthsGranted, PurchaseAt, Limit, Stored
<1> QED BY Invariance, <1>1, PTL

-----------------------------------------------------------------------------
(* An end that is no earlier than both of those a purchase was sold with; what is stored, *)
(* and what an extension is about to store, is one.  The months of an extension are added  *)
(* to an end that was stored when it was read, and a completion writes one of the two.     *)
Lasts(p, t) == t \in Nat /\ (purchases[p].origin <= t \/ purchases[p].end <= t)

LastsAt(p) == p \in Stored /\ purchases[p].origin # None => Lasts(p, purchases[p].availableTo)

ProlongsAt(h) ==
    admin[h].pc = "prolong" /\ purchases[admin[h].purchase].origin # None =>
        Lasts(admin[h].purchase, admin[h].draft.availableTo)

BoughtInv == (\A p \in Purchases : LastsAt(p)) /\ (\A h \in Handlers : ProlongsAt(h))

LEMMA LastsStays ==
    ASSUME AccessInv, [Next]_vars, NEW p \in Stored
    PROVE  p \in Purchases /\ \A t : Lasts(p, t)' <=> Lasts(p, t)
BY Grows DEF AccessInv, Lasts, Stored

LEMMA ProlongsStep == AccessInv /\ BoughtInv /\ [Next]_vars => \A h \in Handlers : ProlongsAt(h)'
<1> SUFFICES ASSUME AccessInv, BoughtInv, [Next]_vars, NEW h \in Handlers PROVE ProlongsAt(h)'
  OBVIOUS
<1>1. /\ TypeOK /\ Carries /\ AccessInv' /\ purchases \in [Purchases -> Documents]
      /\ admin \in [Handlers -> Requests] /\ admin[h] \in Requests
  BY TypeStep, HandlersStep, PurchasesStep, UnstoredStep DEF AccessInv, Carries, TypeOK
<1>2. CASE admin'[h] = admin[h]
  <2>1. admin[h].pc = "prolong" => admin[h].purchase \in Stored
    BY <1>1 DEF Carries, CarriesAt
  <2>2. admin[h].pc = "prolong" =>
           purchases'[admin[h].purchase].origin = purchases[admin[h].purchase].origin
    BY <1>1, <2>1, Grows
  <2> QED BY <1>2, <2>1, <2>2, LastsStays DEF BoughtInv, ProlongsAt
<1>3. CASE admin'[h].pc # "prolong"
  BY <1>3 DEF ProlongsAt
<1>4. ASSUME NEW p \in Purchases, ExtendAccess(h, p) PROVE ProlongsAt(h)'
  <2>1. /\ admin'[h].purchase = p /\ admin'[h].draft.availableTo = BaseDate(p) + 1
        /\ purchases' = purchases /\ p \in Stored
    BY <1>1, <1>4 DEF ExtendAccess, Begin, Idle, NoDocument, Stored
  <2>2. ASSUME purchases[p].origin # None PROVE Lasts(p, BaseDate(p) + 1)
    <3>1. Lasts(p, purchases[p].availableTo)
      BY <2>1, <2>2 DEF BoughtInv, LastsAt
    <3>2. BaseDate(p) = purchases[p].availableTo
      BY <3>1, NoneAssumption DEF Lasts, BaseDate
    <3>3. purchases[p].origin \in Nat /\ purchases[p].end \in Nat
      BY <1>1, <2>1, <2>2 DEF AccessInv, PurchaseAt, Documents, Dates
    <3> QED BY <3>1, <3>2, <3>3 DEF Lasts
  <2> QED BY <2>1, <2>2 DEF ProlongsAt, Lasts
<1>5. ASSUME AdminStep(h) PROVE ProlongsAt(h)'
  <2>1. Idle.pc = "idle"
    BY DEF Idle
  <2>2. ASSUME NEW plan \in PaymentPlans, AddCoursePurchase(h, plan) PROVE admin'[h].pc = "find"
    BY <1>1, <2>2 DEF AddCoursePurchase, Begin, Idle
  <2>3. ASSUME NEW p \in Purchases, ExtendPractice(h, p) PROVE admin'[h].pc = "count"
    BY <1>1, <2>3 DEF ExtendPractice, Begin, Idle
  <2>4. ASSUME NEW p \in Purchases, CompleteAccess(h, p) PROVE admin'[h].pc \in {"unlock", "complete"}
    BY <1>1, <2>4 DEF CompleteAccess, Begin, Idle
  <2>5. ASSUME NEW p \in Purchases, NEW status \in PurchaseStatus, UpdateStatus(h, p, status) PROVE admin'[h].pc = "idle"
    BY <1>1, <2>1, <2>5 DEF UpdateStatus, Begin
  <2>6. ASSUME Finish(h) PROVE admin'[h].pc = "idle"
    BY <1>1, <2>1, <2>6 DEF Finish, Continue
  <2>7. ASSUME FindPurchase(h) \/ CountPractices(h) PROVE admin'[h].pc \in {"idle", "course", "practice"}
    BY <1>1, <2>6, <2>7 DEF FindPurchase, CountPractices, Continue, Requests
  <2>8. ASSUME ReadCourse(h) \/ ReadLessons(h) \/ ReadAllLessons(h) PROVE admin'[h].pc \in {"lessons", "insert", "complete"}
    <3>1. CASE ReadCourse(h)
      <4>1. admin'[h].pc = "lessons"
        BY <1>1, <3>1, Zenon DEF ReadCourse, Continue, Requests
      <4> QED BY <4>1
    <3>2. CASE ReadLessons(h) \/ ReadAllLessons(h)
      BY <1>1, <3>2 DEF ReadLessons, ReadAllLessons, Continue, Requests
    <3> QED BY <2>8, <3>1, <3>2
  <2>9. ASSUME (\E p \in Purchases : InsertPurchase(h, p)) \/ WriteAccess(h) \/ AddPractice(h) \/ WriteComplete(h)
        PROVE  admin'[h].pc = "idle"
    BY <2>6, <2>9 DEF InsertPurchase, WriteAccess, AddPractice, WriteComplete
  <2> QED BY <1>3, <1>4, <1>5, <2>2, <2>3, <2>4, <2>5, <2>7, <2>8, <2>9 DEF AdminStep

<1>6. ASSUME NEW g \in Handlers \ {h}, AdminStep(g) PROVE admin'[h] = admin[h]
  BY <1>1, <1>6, OthersStay
<1>7. CASE CreateLesson \/ (\E l \in Lessons : DeleteLesson(l)) \/ CreateModule \/ DeleteModule \/ MonthPasses
           \/ UNCHANGED vars
  BY <1>2, <1>7 DEF CreateLesson, DeleteLesson, CreateModule, DeleteModule, MonthPasses, vars
<1> QED BY <1>2, <1>5, <1>6, <1>7 DEF Next

LEMMA LastsStep == AccessInv /\ BoughtInv /\ [Next]_vars => \A p \in Purchases : LastsAt(p)'
<1> SUFFICES ASSUME AccessInv, BoughtInv, [Next]_vars, NEW p \in Purchases, p \in Stored', purchases'[p].origin # None
             PROVE  Lasts(p, purchases[p].availableTo)'
  BY DEF LastsAt
<1>1. /\ TypeOK /\ Carries /\ purchases \in [Purchases -> Documents] /\ purchases[p] \in Documents
      /\ admin \in [Handlers -> Requests]
  BY DEF AccessInv, TypeOK
<1>2. ASSUME p \in Stored, purchases'[p].availableTo = purchases[p].availableTo PROVE Lasts(p, purchases[p].availableTo)'
  <2>1. Lasts(p, purchases[p].availableTo)
    BY <1>1, <1>2, Grows DEF BoughtInv, LastsAt
  <2> QED BY <1>2, <2>1, LastsStays
<1>3. CASE purchases'[p] = purchases[p]
  BY <1>2, <1>3 DEF Stored
<1>4. ASSUME NEW h \in Handlers, InsertPurchase(h, p) PROVE Lasts(p, purchases[p].availableTo)'
  <2> DEFINE d == admin[h].draft
  <2>1. d \in Documents /\ HandlerAt(h) /\ admin[h].pc = "insert"
    BY <1>1, <1>4 DEF AccessInv, Requests, InsertPurchase
  <2>2. purchases'[p] = [d EXCEPT !.stored = TRUE]
    BY <1>1, <1>4 DEF InsertPurchase
  <2>3. purchases'[p].origin = d.origin /\ purchases'[p].availableTo = d.availableTo /\ d.origin \in Nat \cup {None}
    BY <2>1, <2>2 DEF Documents, Dates
  <2>4. d.availableTo = d.origin
    BY <2>1 DEF HandlerAt
  <2> QED BY <2>3, <2>4 DEF Lasts
<1>5. ASSUME NEW h \in Handlers, WriteAccess(h) PROVE Lasts(p, purchases[p].availableTo)'
  <2>1. CASE admin[h].purchase # p
    BY <1>1, <1>3, <1>5, <2>1 DEF WriteAccess
  <2>2. CASE admin[h].purchase = p
    <3>1. p \in Stored /\ admin[h].pc = "prolong"
      BY <1>1, <1>5, <2>2 DEF WriteAccess, Carries, CarriesAt
    <3>2. purchases'[p].availableTo = admin[h].draft.availableTo
      BY <1>1, <1>5, <2>2 DEF WriteAccess, Documents
    <3>3. Lasts(p, admin[h].draft.availableTo)
      BY <1>1, <2>2, <3>1, Grows DEF BoughtInv, ProlongsAt
    <3> QED BY <3>1, <3>2, <3>3, LastsStays
  <2> QED BY <2>1, <2>2
<1>6. ASSUME NEW h \in Handlers, WriteComplete(h) PROVE Lasts(p, purchases[p].availableTo)'
  <2>1. CASE admin[h].purchase # p
    BY <1>1, <1>3, <1>6, <2>1 DEF WriteComplete
  <2>2. CASE admin[h].purchase = p
    <3>1. p \in Stored /\ admin[h].draft.end = purchases[p].end /\ purchases[p].end \in Nat
      BY <1>1, <1>6, <2>2 DEF WriteComplete, Carries, CarriesAt, AccessInv, HandlerAt, PurchaseAt
    <3>2. purchases'[p].availableTo \in {admin[h].draft.end, purchases[p].availableTo}
      BY <1>1, <1>6, <2>2 DEF WriteComplete, Documents
    <3>3. Lasts(p, purchases[p].end)
      BY <3>1 DEF Lasts
    <3> QED BY <1>2, <3>1, <3>2, <3>3, LastsStays
  <2> QED BY <2>1, <2>2
<1>7. ASSUME NEW h \in Handlers, NEW q \in Purchases, q # p, InsertPurchase(h, q) PROVE purchases'[p] = purchases[p]
  BY <1>1, <1>7 DEF InsertPurchase
<1>8. ASSUME NEW h \in Handlers,
             AddPractice(h) \/ \E q \in Purchases, status \in PurchaseStatus : UpdateStatus(h, q, status)
      PROVE  p \in Stored /\ purchases'[p].availableTo = purchases[p].availableTo
  BY <1>1, <1>8 DEF AddPractice, UpdateStatus, Documents, Stored
<1>9. ASSUME NEW h \in Handlers,
             \/ \E plan \in PaymentPlans : AddCoursePurchase(h, plan)
             \/ FindPurchase(h) \/ ReadCourse(h) \/ ReadLessons(h) \/ CountPractices(h) \/ ReadAllLessons(h)
             \/ \E q \in Purchases : ExtendAccess(h, q) \/ ExtendPractice(h, q) \/ CompleteAccess(h, q)
      PROVE  purchases' = purchases
  BY <1>9 DEF AddCoursePurchase, FindPurchase, ReadCourse, ReadLessons, CountPractices, ReadAllLessons, ExtendAccess,
              ExtendPractice, CompleteAccess
<1>10. CASE CreateLesson \/ (\E l \in Lessons : DeleteLesson(l)) \/ CreateModule \/ DeleteModule \/ MonthPasses
            \/ UNCHANGED vars
  BY <1>3, <1>10 DEF CreateLesson, DeleteLesson, CreateModule, DeleteModule, MonthPasses, vars
<1>11. ASSUME NEW h \in Handlers, AdminStep(h) PROVE Lasts(p, purchases[p].availableTo)'
  BY <1>2, <1>3, <1>4, <1>5, <1>6, <1>7, <1>8, <1>9, <1>11 DEF AdminStep
<1> QED BY <1>10, <1>11 DEF Next

LEMMA BoughtInvariance == Spec => []BoughtInv
<1>1. Init => BoughtInv
  BY DEF Init, BoughtInv, LastsAt, ProlongsAt, Stored, NoDocument, Idle
<1>2. AccessInv /\ BoughtInv /\ [Next]_vars => BoughtInv'
  BY ProlongsStep, LastsStep DEF BoughtInv
<1> QED BY <1>1, <1>2, Invariance, PTL DEF Spec

(* Until the earlier of the two ends a purchase was sold with, the guard and the lesson *)
(* route let its buyer in, whatever overlapping requests write over each other          *)
(* (extendAccess, completeAccess, userHasCourse, getLesson).                             *)
THEOREM OpenAsBought == Spec => []OpenWhileBought
<1>1. AccessInv /\ BoughtInv => OpenWhileBought
  <2> SUFFICES ASSUME AccessInv, BoughtInv, NEW p \in Stored, purchases[p].origin # None,
                      purchases[p].start <= now, now <= purchases[p].origin, now <= purchases[p].end
               PROVE  HasCourse(p) /\ InWindow(p)
    BY DEF OpenWhileBought
  <2>1. Lasts(p, purchases[p].availableTo)
    BY DEF BoughtInv, LastsAt, Stored
  <2>2. /\ purchases[p].start \in Nat /\ purchases[p].origin \in Nat /\ purchases[p].end \in Nat
        /\ now \in Nat
    BY DEF AccessInv, PurchaseAt, TypeOK, Documents, Dates, Stored
  <2>3. now <= purchases[p].availableTo /\ purchases[p].availableTo # None
    BY <2>1, <2>2, NoneAssumption DEF Lasts
  <2> QED BY <2>1, <2>2, <2>3 DEF HasCourse, InWindow, Lasts
<1> QED BY Invariance, BoughtInvariance, <1>1, PTL

-----------------------------------------------------------------------------
(* Paying the rest of a course locks no lesson that was unlocked, whatever is created *)
(* and deleted between the two reads and the write (completeAccess).                  *)
THEOREM CompletionKeeps == Spec => CompletionKeepsLessons
<1>1. AccessInv /\ [Next]_vars =>
        [\A p \in Purchases :
            (purchases[p].plan = "PARTIAL" /\ purchases'[p].plan = "FULL") =>
                purchases[p].unlocked \cap lessons \subseteq purchases'[p].unlocked]_vars
  <2> SUFFICES ASSUME AccessInv, [Next]_vars,
                      NEW p \in Purchases, purchases[p].plan = "PARTIAL", purchases'[p].plan = "FULL"
               PROVE  purchases[p].unlocked \cap lessons \subseteq purchases'[p].unlocked
    OBVIOUS
  <2>1. TypeOK /\ Carries /\ purchases \in [Purchases -> Documents] /\ admin \in [Handlers -> Requests]
    BY DEF AccessInv, TypeOK
  <2>2. ASSUME NEW h \in Handlers, WriteComplete(h)
        PROVE  purchases[p].unlocked \cap lessons \subseteq purchases'[p].unlocked
    <3>1. admin[h].purchase = p
      BY <2>1, <2>2 DEF WriteComplete
    <3>2. /\ admin[h].draft.plan = "PARTIAL"
          /\ purchases[p].unlocked \cap lessons \subseteq admin[h].draft.unlocked
      BY <2>2, <3>1 DEF AccessInv, HandlerAt, WriteComplete
    <3>3. purchases'[p].unlocked = admin[h].draft.unlocked
      BY <2>1, <2>2, <3>1, <3>2 DEF WriteComplete, Documents
    <3> QED BY <3>2, <3>3
  <2>3. ASSUME NEW h \in Handlers, NEW q \in Purchases, InsertPurchase(h, q)
        PROVE  purchases[p].unlocked \cap lessons \subseteq purchases'[p].unlocked
    <3>1. CASE q # p
      <4>1. purchases'[p] = purchases[p]
        BY <2>1, <2>3, <3>1 DEF InsertPurchase
      <4> QED BY <4>1
    <3>2. CASE q = p
      BY <2>3, <3>2 DEF InsertPurchase, AccessInv
    <3> QED BY <3>1, <3>2
  <2>4. ASSUME NEW h \in Handlers,
               \/ \E q \in Purchases, status \in PurchaseStatus : UpdateStatus(h, q, status)
               \/ WriteAccess(h) \/ AddPractice(h)
        PROVE  purchases'[p].plan = purchases[p].plan
    BY <2>1, <2>4 DEF UpdateStatus, WriteAccess, AddPractice, Documents
  <2>5. ASSUME NEW h \in Handlers,
               \/ \E plan \in PaymentPlans : AddCoursePurchase(h, plan)
               \/ FindPurchase(h) \/ ReadCourse(h) \/ ReadLessons(h) \/ CountPractices(h) \/ ReadAllLessons(h)
               \/ \E q \in Purchases : ExtendAccess(h, q) \/ ExtendPractice(h, q) \/ CompleteAccess(h, q)
        PROVE  purchases' = purchases
    BY <2>5 DEF AddCoursePurchase, FindPurchase, ReadCourse, ReadLessons, CountPractices, ReadAllLessons, ExtendAccess,
                ExtendPractice, CompleteAccess
  <2>6. CASE CreateLesson \/ (\E l \in Lessons : DeleteLesson(l)) \/ CreateModule \/ DeleteModule \/ MonthPasses
             \/ UNCHANGED vars
    BY <2>6 DEF CreateLesson, DeleteLesson, CreateModule, DeleteModule, MonthPasses, vars
  <2>7. purchases' = purchases => purchases[p].unlocked \cap lessons \subseteq purchases'[p].unlocked
    OBVIOUS
  <2>8. ASSUME NEW h \in Handlers, AdminStep(h)
        PROVE  purchases[p].unlocked \cap lessons \subseteq purchases'[p].unlocked
    BY <2>2, <2>3, <2>4, <2>5, <2>7, <2>8 DEF AdminStep
  <2> QED BY <2>6, <2>7, <2>8 DEF Next
<1> QED BY <1>1, Invariance, PTL DEF Spec, CompletionKeepsLessons

-----------------------------------------------------------------------------
(* Handlers that have seen fewer than k practices of a purchase may each add one; *)
(* from the number of practical modules on, they and the practices beyond k are   *)
(* together fewer than the handlers.                                              *)
Behind(p, k) ==
    {h \in Handlers : /\ admin[h].purchase = p /\ admin[h].pc \in {"count", "practice"}
                      /\ admin[h].seen < k}

PracticeAt(p) ==
    p \in Stored =>
        \A k \in Nat : peak <= k /\ k <= purchases[p].practices =>
            purchases[p].practices + Cardinality(Behind(p, k)) + 1 <= k + Cardinality(Handlers)

SeenAt(h) == admin[h].pc = "practice" => admin[h].seen < peak

PracticeInv ==
    /\ \A p \in Purchases : PracticeAt(p)
    /\ \A h \in Handlers : SeenAt(h)
    /\ practicals <= peak

LEMMA BehindFinite ==
    ASSUME NEW p, NEW k
    PROVE  /\ IsFiniteSet(Behind(p, k)) /\ Cardinality(Behind(p, k)) \in Nat
           /\ Cardinality(Handlers) \in Nat /\ Cardinality(Handlers) >= 1
           /\ \A S \in SUBSET Behind(p, k) : Cardinality(S) \in Nat /\ Cardinality(S) <= Cardinality(Behind(p, k))
<1>1. Behind(p, k) \subseteq Handlers
  BY DEF Behind
<1>2. IsFiniteSet(Behind(p, k))
  BY <1>1, HandlersAssumption, FS_Subset
<1>3. Cardinality(Handlers) \in Nat /\ Cardinality(Handlers) # 0
  BY HandlersAssumption, FS_CardinalityType, FS_EmptySet
<1> QED BY <1>2, <1>3, FS_CardinalityType, FS_Subset

LEMMA PeakMoves ==
    ASSUME TypeOK, practicals <= peak, [Next]_vars
    PROVE  /\ peak \in Nat /\ peak' \in Nat /\ peak <= peak' /\ practicals' <= peak'
           /\ practicals \in Nat
<1>1. ASSUME NEW h \in Handlers, AdminStep(h) PROVE UNCHANGED <<peak, practicals>>
  BY <1>1 DEF AdminStep, AddCoursePurchase, FindPurchase, ReadCourse, ReadLessons, CountPractices, ReadAllLessons,
              ExtendAccess, ExtendPractice, CompleteAccess, InsertPurchase, UpdateStatus, WriteAccess, AddPractice,
              WriteComplete, contentVars
<1>2. CASE CreateModule
  BY <1>2 DEF CreateModule, TypeOK, Later
<1>3. CASE DeleteModule
  BY <1>3 DEF DeleteModule, TypeOK
<1>4. CASE CreateLesson \/ (\E l \in Lessons : DeleteLesson(l)) \/ MonthPasses \/ UNCHANGED vars
  BY <1>4 DEF CreateLesson, DeleteLesson, MonthPasses, vars, contentVars, TypeOK
<1> QED BY <1>1, <1>2, <1>3, <1>4 DEF Next, TypeOK

LEMMA PracticeKept ==
    ASSUME AccessInv, PracticeInv, [Next]_vars, NEW p \in Stored,
           purchases'[p].practices = purchases[p].practices,
           \A k \in Nat : k <= purchases[p].practices => Behind(p, k)' \subseteq Behind(p, k)
    PROVE  PracticeAt(p)'
<1> SUFFICES ASSUME NEW k \in Nat, peak' <= k, k <= purchases[p].practices
             PROVE  purchases[p].practices + Cardinality(Behind(p, k)') + 1 <= k + Cardinality(Handlers)
  BY DEF PracticeAt
<1>1. p \in Purchases /\ purchases[p].practices \in Nat
  BY DEF Stored, AccessInv, TypeOK, Documents
<1>2. peak <= k
  BY PeakMoves DEF AccessInv, PracticeInv
<1>3. purchases[p].practices + Cardinality(Behind(p, k)) + 1 <= k + Cardinality(Handlers)
  BY <1>1, <1>2 DEF PracticeInv, PracticeAt
<1>4. Cardinality(Behind(p, k)') <= Cardinality(Behind(p, k)) /\ Cardinality(Behind(p, k)') \in Nat
  BY BehindFinite
<1> QED BY <1>1, <1>3, <1>4, BehindFinite

(* Every other step leaves the practices of a purchase, and who is behind, alone. *)
LEMMA Elsewhere ==
    ASSUME AccessInv, NEW h \in Handlers,
           \/ \E plan \in PaymentPlans : AddCoursePurchase(h, plan)
           \/ FindPurchase(h) \/ ReadCourse(h) \/ ReadLessons(h) \/ WriteAccess(h) \/ ReadAllLessons(h) \/ WriteComplete(h)
           \/ \E p \in Purchases : \/ InsertPurchase(h, p) \/ ExtendAccess(h, p) \/ CompleteAccess(h, p)
                                   \/ \E status \in PurchaseStatus : UpdateStatus(h, p, status)
    PROVE  /\ \A p \in Stored : purchases'[p].practices = purchases[p].practices
           /\ admin'[h].pc \notin {"count", "practice"}
<1>1. /\ admin \in [Handlers -> Requests] /\ purchases \in [Purchases -> Documents] /\ admin[h] \in Requests
      /\ Stored \subseteq Purchases
  BY DEF AccessInv, TypeOK, Stored
<1>2. Finish(h) => admin'[h].pc = "idle"
  BY <1>1 DEF Finish, Continue, Idle
<1>3. CASE \E plan \in PaymentPlans : AddCoursePurchase(h, plan)
  <2>1. PICK plan \in PaymentPlans : AddCoursePurchase(h, plan)
    BY <1>3
  <2>2. admin'[h].pc = "find" /\ purchases' = purchases
    BY <1>1, <2>1 DEF AddCoursePurchase, Begin, Idle
  <2> QED BY <2>2
<1>4. CASE FindPurchase(h) \/ ReadCourse(h) \/ ReadLessons(h) \/ ReadAllLessons(h)
  <2>1. purchases' = purchases
    BY <1>4 DEF FindPurchase, ReadCourse, ReadLessons, ReadAllLessons
  <2>2. admin'[h].pc \in {"idle", "course", "lessons", "insert", "complete"}
    <3>1. CASE FindPurchase(h)
      BY <1>1, <1>2, <3>1 DEF FindPurchase, Continue, Requests
    <3>2. CASE ReadCourse(h)
      BY <1>1, <3>2 DEF ReadCourse, Continue, Requests
    <3>3. CASE ReadLessons(h)
      BY <1>1, <3>3 DEF ReadLessons, Continue, Requests
    <3>4. CASE ReadAllLessons(h)
      BY <1>1, <3>4 DEF ReadAllLessons, Continue, Requests
    <3> QED BY <1>4, <3>1, <3>2, <3>3, <3>4
  <2> QED BY <2>1, <2>2
<1>5. CASE WriteAccess(h) \/ WriteComplete(h)
  <2>1. Finish(h)
    BY <1>5 DEF WriteAccess, WriteComplete
  <2>2. \A p \in Stored : purchases'[p].practices = purchases[p].practices
    BY <1>1, <1>5 DEF WriteAccess, WriteComplete, Documents
  <2> QED BY <1>2, <2>1, <2>2
<1>6. CASE \E p \in Purchases : InsertPurchase(h, p)
  BY <1>1, <1>2, <1>6 DEF InsertPurchase
<1>7. CASE \E p \in Purchases : ExtendAccess(h, p)
  BY <1>1, <1>7, ZenonT(40) DEF ExtendAccess, Begin, Idle
<1>8. CASE \E p \in Purchases : CompleteAccess(h, p)
  <2>1. purchases' = purchases
    BY <1>8 DEF CompleteAccess
  <2>2. admin'[h].pc \in {"unlock", "complete"}
    BY <1>1, <1>8, ZenonT(40) DEF CompleteAccess, Begin, Idle
  <2> QED BY <2>1, <2>2
<1>9. CASE \E p \in Purchases, status \in PurchaseStatus : UpdateStatus(h, p, status)
  <2>1. PICK p \in Purchases, status \in PurchaseStatus : UpdateStatus(h, p, status)
    BY <1>9
  <2>2. admin'[h].pc = "idle"
    BY <1>1, <2>1 DEF UpdateStatus, Begin, Idle
  <2>3. \A q \in Stored : purchases'[q].practices = purchases[q].practices
    BY <1>1, <2>1 DEF UpdateStatus, Documents
  <2> QED BY <2>2, <2>3
<1> QED BY <1>3, <1>4, <1>5, <1>6, <1>7, <1>8, <1>9

LEMMA PracticesStep == AccessInv /\ PracticeInv /\ [Next]_vars => PracticeInv'
<1> SUFFICES ASSUME AccessInv, PracticeInv, [Next]_vars PROVE PracticeInv'
  OBVIOUS
<1>1. /\ admin \in [Handlers -> Requests] /\ purchases \in [Purchases -> Documents] /\ Stored \subseteq Purchases
      /\ \A h \in Handlers : admin[h] \in Requests /\ admin[h].seen \in Nat /\ admin[h].draft \in Documents
      /\ \A p \in Purchases : purchases[p].practices \in Nat
      /\ peak \in Nat /\ peak' \in Nat /\ peak <= peak' /\ practicals \in Nat /\ practicals' <= peak'
  BY PeakMoves DEF AccessInv, PracticeInv, TypeOK, Requests, Documents, Stored
<1>2. ASSUME NEW h \in Handlers, admin'[h].pc \notin {"count", "practice"},
             \A g \in Handlers \ {h} : admin'[g] = admin[g]
      PROVE  /\ \A p \in Purchases, k \in Nat : Behind(p, k)' \subseteq Behind(p, k)
             /\ \A g \in Handlers : SeenAt(g)'
  <2>1. \A p \in Purchases, k \in Nat : Behind(p, k)' \subseteq Behind(p, k)
    BY <1>2 DEF Behind
  <2>2. \A g \in Handlers : SeenAt(g)'
    BY <1>1, <1>2 DEF SeenAt, PracticeInv
  <2> QED BY <2>1, <2>2
<1>3. ASSUME NEW h \in Handlers,
             \/ \E plan \in PaymentPlans : AddCoursePurchase(h, plan)
             \/ FindPurchase(h) \/ ReadCourse(h) \/ ReadLessons(h) \/ WriteAccess(h) \/ ReadAllLessons(h) \/ WriteComplete(h)
             \/ \E p \in Purchases : \/ InsertPurchase(h, p) \/ ExtendAccess(h, p) \/ CompleteAccess(h, p)
                                     \/ \E status \in PurchaseStatus : UpdateStatus(h, p, status)
      PROVE  PracticeInv'
  <2>1. AdminStep(h)
    BY <1>3 DEF AdminStep
  <2>2. /\ \A p \in Purchases, k \in Nat : Behind(p, k)' \subseteq Behind(p, k)
        /\ \A g \in Handlers : SeenAt(g)'
    BY <1>2, <1>3, <2>1, OthersStay, Elsewhere DEF AccessInv
  <2>3. ASSUME NEW p \in Stored PROVE PracticeAt(p)'
    BY <1>1, <1>3, <2>2, <2>3, Elsewhere, PracticeKept
  <2>4. ASSUME NEW p \in Purchases \ Stored, p \in Stored' PROVE PracticeAt(p)'
    <3>1. PICK g \in Handlers : Adds(g, p)
      BY <1>1, <2>4, PurchasesMove DEF AccessInv, Changes, Stored
    <3>2. purchases'[p].practices = 0
      BY <1>1, <3>1 DEF Adds, AccessInv, Carries, CarriesAt, Documents
    <3>3. ASSUME NEW k \in Nat, k <= 0 PROVE Cardinality(Behind(p, k)') = 0
      <4>1. Behind(p, k) = {}
        BY <1>1, <3>3 DEF Behind
      <4>2. Behind(p, k)' = {}
        BY <2>2, <4>1
      <4> QED BY <4>2, FS_EmptySet
    <3> QED BY <3>2, <3>3, BehindFinite DEF PracticeAt
  <2>5. \A p \in Purchases : PracticeAt(p)'
    BY <2>3, <2>4 DEF PracticeAt
  <2> QED BY <1>1, <2>2, <2>5 DEF PracticeInv
<1>4. ASSUME NEW h \in Handlers, NEW q \in Purchases, ExtendPractice(h, q) PROVE PracticeInv'
  <2>1. AdminStep(h)
    BY <1>4 DEF AdminStep
  <2>2. \A g \in Handlers \ {h} : admin'[g] = admin[g]
    BY <2>1, OthersStay DEF AccessInv
  <2>3. /\ admin'[h].pc = "count" /\ admin'[h].purchase = q /\ admin'[h].seen = purchases[q].practices
        /\ purchases' = purchases /\ Stored' = Stored
    BY <1>1, <1>4 DEF ExtendPractice, Begin, Idle, Stored
  <2>4. \A g \in Handlers : SeenAt(g)'
    BY <1>1, <2>2, <2>3 DEF SeenAt, PracticeInv
  <2>5. ASSUME NEW p \in Stored PROVE PracticeAt(p)'
    <3>1. ASSUME NEW k \in Nat, k <= purchases[p].practices PROVE Behind(p, k)' \subseteq Behind(p, k)
      BY <1>1, <2>2, <2>3, <3>1 DEF Behind
    <3> QED BY <2>3, <3>1, PracticeKept
  <2> QED BY <1>1, <2>3, <2>4, <2>5 DEF PracticeInv, PracticeAt
<1>5. ASSUME NEW h \in Handlers, CountPractices(h) PROVE PracticeInv'
  <2>1. AdminStep(h)
    BY <1>5 DEF AdminStep
  <2>2. \A g \in Handlers \ {h} : admin'[g] = admin[g]
    BY <2>1, OthersStay DEF AccessInv
  <2>3. purchases' = purchases /\ Stored' = Stored /\ admin[h].pc = "count" /\ peak' = peak
    BY <1>5 DEF CountPractices, Stored, contentVars
  <2>4. \/ admin'[h].pc = "idle"
        \/ /\ admin'[h].pc = "practice" /\ admin'[h].purchase = admin[h].purchase
           /\ admin'[h].seen = admin[h].seen /\ admin[h].seen < practicals
    BY <1>1, <1>5 DEF CountPractices, MorePractices, Finish, Continue, Idle, Requests
  <2>5. \A g \in Handlers : SeenAt(g)'
    BY <1>1, <2>2, <2>3, <2>4 DEF SeenAt, PracticeInv
  <2>6. ASSUME NEW p \in Stored PROVE PracticeAt(p)'
    <3>1. ASSUME NEW k \in Nat PROVE Behind(p, k)' \subseteq Behind(p, k)
      BY <1>1, <2>2, <2>3, <2>4 DEF Behind
    <3> QED BY <2>3, <3>1, PracticeKept
  <2> QED BY <1>1, <2>3, <2>5, <2>6 DEF PracticeInv, PracticeAt
<1>6. ASSUME NEW h \in Handlers, AddPractice(h) PROVE PracticeInv'
  <2>a. admin[h].purchase \in Stored /\ Stored \subseteq Purchases
    BY <1>1, <1>6 DEF AddPractice, AccessInv, Carries, CarriesAt, Stored, contentVars
  <2>b. PICK q \in Stored : q = admin[h].purchase
    BY <2>a
  <2>c. PICK n \in Nat : n = purchases[q].practices
    BY <1>1, <2>a
  <2>1. AdminStep(h)
    BY <1>6 DEF AdminStep
  <2>2. \A g \in Handlers \ {h} : admin'[g] = admin[g]
    BY <2>1, OthersStay DEF AccessInv
  <2>3. /\ q \in Stored /\ q \in Purchases /\ admin[h].pc = "practice" /\ admin'[h].pc = "idle" /\ peak' = peak
        /\ purchases'[q].practices = n + 1 /\ \A p \in Purchases \ {q} : purchases'[p] = purchases[p]
        /\ admin[h].seen < peak /\ n \in Nat
    <3>1. admin'[h] = Idle
      BY <1>1, <1>6 DEF AddPractice, Finish, Continue
    <3>2. q \in Stored /\ q \in Purchases /\ admin[h].pc = "practice" /\ peak' = peak
      BY <1>6, <2>a, <2>b DEF AddPractice, contentVars
    <3>3. purchases'[q].practices = n + 1 /\ \A p \in Purchases \ {q} : purchases'[p] = purchases[p]
      BY <1>1, <1>6, <2>b, <2>c, <3>2 DEF AddPractice, Documents
    <3> QED BY <1>1, <2>c, <3>1, <3>2, <3>3 DEF Idle, PracticeInv, SeenAt
  <2>4. /\ \A p \in Purchases, k \in Nat : Behind(p, k)' \subseteq Behind(p, k)
        /\ \A g \in Handlers : SeenAt(g)'
    BY <1>2, <2>2, <2>3
  <2>5. ASSUME NEW p \in Stored, p # q PROVE PracticeAt(p)'
    <3>1. purchases'[p].practices = purchases[p].practices
      BY <1>1, <2>3, <2>5
    <3> QED BY <1>1, <2>4, <2>5, <3>1, PracticeKept
  <2>6. ASSUME NEW k \in Nat, peak <= k, k <= n + 1
        PROVE  n + 1 + Cardinality(Behind(q, k)') + 1 <= k + Cardinality(Handlers)
    <3>1. Behind(q, k)' = Behind(q, k) \ {h}
      BY <1>1, <2>2, <2>3 DEF Behind
    <3>2. h \in Behind(q, k)
      BY <1>1, <2>3, <2>6, <2>b DEF Behind
    <3>3. /\ Cardinality(Behind(q, k)') = Cardinality(Behind(q, k)) - 1
          /\ Cardinality(Behind(q, k)) <= Cardinality(Handlers)
          /\ Cardinality(Behind(q, k)) \in Nat /\ Cardinality(Handlers) \in Nat
      <4>1. IsFiniteSet(Behind(q, k)) /\ Behind(q, k) \subseteq Handlers /\ IsFiniteSet(Handlers)
        BY BehindFinite, HandlersAssumption DEF Behind
      <4>2. Cardinality(Behind(q, k) \ {h}) = Cardinality(Behind(q, k)) - 1
        BY <3>2, <4>1, FS_RemoveElement
      <4>3. Cardinality(Behind(q, k)) <= Cardinality(Handlers)
        BY <4>1, FS_Subset
      <4> QED BY <3>1, <4>2, <4>3, BehindFinite
    <3>4. CASE k <= n
      <4>1. n + Cardinality(Behind(q, k)) + 1 <= k + Cardinality(Handlers)
        BY <2>3, <2>6, <3>4, <2>c DEF PracticeInv, PracticeAt
      <4> QED BY <2>3, <3>3, <4>1
    <3>5. CASE k = n + 1
      BY <2>3, <3>3, <3>5
    <3> QED BY <2>3, <2>6, <3>4, <3>5
  <2>7. PracticeAt(q)'
    BY <2>3, <2>6 DEF PracticeAt
  <2>8. Stored' = Stored
    BY <1>1, <1>6, <2>3 DEF AddPractice, Stored, Documents
  <2>9. \A p \in Purchases : PracticeAt(p)'
    BY <2>5, <2>7, <2>8 DEF PracticeAt
  <2> QED BY <1>1, <2>4, <2>9 DEF PracticeInv
<1>7. CASE CreateLesson \/ (\E l \in Lessons : DeleteLesson(l)) \/ CreateModule \/ DeleteModule \/ MonthPasses
           \/ UNCHANGED vars
  <2>1. admin' = admin /\ purchases' = purchases
    BY <1>7 DEF CreateLesson, DeleteLesson, CreateModule, DeleteModule, MonthPasses, vars
  <2>2. Stored' = Stored /\ \A p, k : Behind(p, k)' = Behind(p, k)
    BY <2>1 DEF Stored, Behind
  <2>3. \A p \in Stored : PracticeAt(p)'
    BY <2>1, <2>2, PracticeKept
  <2>4. \A h \in Handlers : SeenAt(h)'
    BY <1>1, <2>1 DEF SeenAt, PracticeInv
  <2> QED BY <1>1, <2>2, <2>3, <2>4 DEF PracticeInv, PracticeAt
<1> QED BY <1>3, <1>4, <1>5, <1>6, <1>7 DEF Next, AdminStep

LEMMA PracticeInvariance == Spec => []PracticeInv
<1>1. Init => PracticeInv
  BY DEF Init, PracticeInv, PracticeAt, SeenAt, Stored, NoDocument, Idle
<1> QED BY <1>1, Invariance, PracticesStep, PTL DEF Spec

(* However the check and the $inc of extendPracticeCoursePurchase overlap, practices exceed *)
(* the practical modules there ever were by less than the requests served at once.          *)
THEOREM PracticesWithin == Spec => []PracticesBounded
<1>1. AccessInv /\ PracticeInv => PracticesBounded
  <2> SUFFICES ASSUME AccessInv, PracticeInv, NEW p \in Stored
               PROVE  purchases[p].practices + 1 <= peak + Cardinality(Handlers)
    BY DEF PracticesBounded
  <2>1. purchases[p].practices \in Nat /\ peak \in Nat /\ p \in Purchases
    BY DEF AccessInv, TypeOK, Documents, Stored
  <2>2. /\ Cardinality(Behind(p, peak)) \in Nat
        /\ Cardinality(Handlers) \in Nat /\ Cardinality(Handlers) >= 1
    BY BehindFinite
  <2>3. CASE peak <= purchases[p].practices
    <3>1. purchases[p].practices + Cardinality(Behind(p, peak)) + 1 <= peak + Cardinality(Handlers)
      BY <2>1, <2>3 DEF PracticeInv, PracticeAt
    <3> QED BY <2>1, <2>2, <3>1
  <2> QED BY <2>1, <2>2, <2>3
<1> QED BY <1>1, Invariance, PracticeInvariance, PTL
=============================================================================
