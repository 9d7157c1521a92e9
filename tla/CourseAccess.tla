---------------------------- MODULE CourseAccess ----------------------------
(***************************************************************************)
(* What a buyer of a course may see of it and until when: the purchases an *)
(* administrator adds, prolongs and completes (admin/coursePurchase), and  *)
(* the guard and the lesson routes that read them (user/education).  One   *)
(* buyer and one course, since no operation relates two of either.  Each   *)
(* action is one stretch of a handler between two awaits.                  *)
(***************************************************************************)
EXTENDS Naturals, FiniteSets

CONSTANTS
    Handlers,             \* requests of administrators served at once
    Purchases,            \* documents of coursePurchases
    MaxLessons,           \* bound: lessons ever created for the course
    MaxPracticals,        \* bound: practical modules at one time
    MaxRequests,          \* bound: requests of administrators
    Horizon,              \* bound: months that pass
    DateStart, DateEnd,   \* course.access of a TO_DATE course
    Period,               \* course.access.months of a FOR_PERIOD course
    Forever,              \* a hundred years from now
    None

Lessons       == 1..MaxLessons      \* numbered as createdAt sorts them
CourseTypes   == {"SSK", "CONSULTING"}
AccessTypes   == {"PERMANENT", "FOR_PERIOD", "TO_DATE"}
PaymentPlans  == {"FULL", "PARTIAL", "INSTALLMENT"}
PurchaseStatus == {"ACTIVE", "EXPIRED", "BLOCKED"}
Dates         == Nat \cup {None}

ASSUME BoundsAssumption ==
    MaxLessons \in Nat /\ MaxPracticals \in Nat /\ MaxRequests \in Nat /\ Horizon \in Nat
ASSUME DatesAssumption ==
    DateStart \in Nat /\ DateEnd \in Nat /\ Period \in Nat /\ Forever \in Nat
ASSUME HandlersAssumption == IsFiniteSet(Handlers) /\ Handlers # {}
ASSUME NoneAssumption == None \notin Nat \cup Purchases

VARIABLES
    course,        \* its type and the type of its access
    now,           \* months since the course was published
    lessons,       \* lessons whose targetId is the course
    created,       \* how many were ever created
    practicals,    \* modules of the course of type PRACTICAL
    purchases,     \* the buyer's purchases of the course
    admin,         \* the handlers of the administrators' requests
    requests,      \* requests so far, at most MaxRequests
    peak,          \* history: the most practical modules there ever were
    granted        \* history: months added to each purchase

contentVars == <<course, lessons, created, practicals, peak>>
vars == <<contentVars, now, purchases, admin, requests, granted>>

-----------------------------------------------------------------------------
Documents == [stored : BOOLEAN, plan : PaymentPlans \cup {None}, status : PurchaseStatus,
              start : Dates, end : Dates, availableTo : Dates,
              unlocked : SUBSET Lessons, practices : Nat,
              origin : Dates, rivals : SUBSET Purchases]
NoDocument == [stored |-> FALSE, plan |-> None, status |-> "ACTIVE", start |-> None,
               end |-> None, availableTo |-> None, unlocked |-> {}, practices |-> 0,
               origin |-> None, rivals |-> {}]

Steps == {"idle", "find", "course", "lessons", "insert", "prolong", "count",
          "practice", "unlock", "complete"}
(* A handler, and the fields of the purchase it is going to write. *)
Requests == [pc : Steps, purchase : Purchases \cup {None}, draft : Documents, seen : Nat]
Idle == [pc |-> "idle", purchase |-> None, draft |-> NoDocument, seen |-> 0]

Stored == {p \in Purchases : purchases[p].stored}
Permanent == course.access = "PERMANENT"

Later(a, b) == IF a > b THEN a ELSE b

(* lessons sorted by createdAt, slice(0, floor(length / 2)). *)
FirstHalf(S) == {l \in S : Cardinality({k \in S : k <= l}) <= Cardinality(S) \div 2}

AccessStart == IF course.access = "TO_DATE" THEN DateStart ELSE now
AccessEnd == CASE course.access = "TO_DATE"    -> DateEnd
               [] course.access = "FOR_PERIOD" -> now + Period
               [] Permanent                    -> Forever

(* The assignments to availableTo in addCoursePurchase, the last one wins; the
   course has a dateEnd only when its access is TO_DATE. *)
AvailableTo(plan) ==
    CASE course.type = "SSK"                            -> AccessEnd
      [] course.type # "SSK" /\ plan = "INSTALLMENT"    -> now + 1
      [] course.type # "SSK" /\ plan = "FULL"           ->
             IF course.access = "TO_DATE" THEN DateEnd ELSE None
      [] course.type # "SSK" /\ plan = "PARTIAL"        ->
             IF Permanent THEN Forever ELSE None

(* lessonsUnlocked of a new purchase. *)
UnlockedAtFirst(plan) ==
    CASE course.type # "SSK" -> {}
      [] course.type = "SSK" /\ plan = "FULL"        -> lessons
      [] course.type = "SSK" /\ plan = "PARTIAL"     -> FirstHalf(lessons)
      [] course.type = "SSK" /\ plan = "INSTALLMENT" -> {}

-----------------------------------------------------------------------------
(* Requests of administrators *)

Begin(h, step) ==
    /\ admin[h].pc = "idle"
    /\ requests < MaxRequests
    /\ requests' = requests + 1
    /\ admin' = [admin EXCEPT ![h] = step]

Continue(h, step) == admin' = [admin EXCEPT ![h] = step]
Finish(h) == Continue(h, Idle)

(* addCoursePurchases starts every course of the body at once; naming a course
   twice is two handlers here. *)
AddCoursePurchase(h, plan) ==
    /\ Begin(h, [Idle EXCEPT !.pc = "find", !.draft.plan = plan, !.draft.rivals = Stored])
    /\ UNCHANGED <<contentVars, now, purchases, granted>>

(* Mutant: the buyer's purchases are not looked at. *)
SkipPurchase(h) ==
    /\ admin[h].pc = "find"
    /\ Continue(h, [admin[h] EXCEPT !.pc = "course"])
    /\ UNCHANGED <<contentVars, now, purchases, requests, granted>>

FindPurchase(h) ==
    /\ admin[h].pc = "find"
    /\ IF Stored # {} THEN Finish(h) ELSE Continue(h, [admin[h] EXCEPT !.pc = "course"])
    /\ UNCHANGED <<contentVars, now, purchases, requests, granted>>

(* The course is read and the dates are set ... *)
ReadCourse(h) ==
    LET plan == admin[h].draft.plan IN
    /\ admin[h].pc = "course"
    /\ Continue(h, [admin[h] EXCEPT !.pc = "lessons",
                                    !.draft.start = AccessStart,
                                    !.draft.end = AccessEnd,
                                    !.draft.availableTo = AvailableTo(plan),
                                    !.draft.origin = AvailableTo(plan)])
    /\ UNCHANGED <<contentVars, now, purchases, requests, granted>>

(* ... then the lessons, and save() is begun but not awaited: the administrator
   has his answer before the document is stored. *)
ReadLessons(h) ==
    /\ admin[h].pc = "lessons"
    /\ Continue(h, [admin[h] EXCEPT
                       !.pc = "insert",
                       !.draft.unlocked = UnlockedAtFirst(admin[h].draft.plan)])
    /\ UNCHANGED <<contentVars, now, purchases, requests, granted>>

InsertPurchase(h, p) ==
    /\ admin[h].pc = "insert"
    /\ p \notin Stored
    /\ purchases' = [purchases EXCEPT ![p] = [admin[h].draft EXCEPT !.stored = TRUE]]
    /\ Finish(h)
    /\ UNCHANGED <<contentVars, now, requests, granted>>

(* Mutant: the body is not validated, and a status that is missing is written as it is. *)
UpdateStatusUnvalidated(h, p, status) ==
    /\ Begin(h, Idle)
    /\ p \in Stored
    /\ \E told \in {status, None} : purchases' = [purchases EXCEPT ![p].status = told]
    /\ UNCHANGED <<contentVars, now, granted>>

(* The status is one of the enum: CoursePurchaseStatusDto refuses any other. *)
UpdateStatus(h, p, status) ==
    /\ Begin(h, Idle)
    /\ p \in Stored
    /\ purchases' = [purchases EXCEPT ![p].status = status]
    /\ UNCHANGED <<contentVars, now, granted>>

(* Mutants: an access that has run out is prolonged from today; every access is. *)
BaseDateFromToday(p) ==
    IF purchases[p].availableTo = None THEN now ELSE Later(purchases[p].availableTo, now)

BaseDateToday(p) == now

BaseDate(p) == IF purchases[p].availableTo = None THEN now ELSE purchases[p].availableTo

ExtendAccess(h, p) ==
    /\ p \in Stored
    /\ Begin(h, [Idle EXCEPT !.pc = "prolong", !.purchase = p,
                             !.draft.availableTo = BaseDate(p) + 1])
    /\ UNCHANGED <<contentVars, now, purchases, granted>>

(* $set of a date computed from what was read before. *)
WriteAccess(h) ==
    LET p == admin[h].purchase IN
    /\ admin[h].pc = "prolong"
    /\ purchases' = [purchases EXCEPT ![p].availableTo = admin[h].draft.availableTo]
    /\ granted' = [granted EXCEPT ![p] = @ + 1]
    /\ Finish(h)
    /\ UNCHANGED <<contentVars, now, requests>>

ExtendPractice(h, p) ==
    /\ p \in Stored
    /\ course.type = "CONSULTING"
    /\ Begin(h, [Idle EXCEPT !.pc = "count", !.purchase = p,
                             !.seen = purchases[p].practices])
    /\ UNCHANGED <<contentVars, now, purchases, granted>>

(* Mutant: off by one. *)
MorePracticesOrEqual(seen) == practicals >= seen

MorePractices(seen) == practicals > seen

CountPractices(h) ==
    /\ admin[h].pc = "count"
    /\ IF MorePractices(admin[h].seen)
         THEN Continue(h, [admin[h] EXCEPT !.pc = "practice"])
         ELSE Finish(h)
    /\ UNCHANGED <<contentVars, now, purchases, requests, granted>>

(* $inc, whatever the number of practices is by now. *)
AddPractice(h) ==
    /\ admin[h].pc = "practice"
    /\ purchases' = [purchases EXCEPT ![admin[h].purchase].practices = @ + 1]
    /\ Finish(h)
    /\ UNCHANGED <<contentVars, now, requests, granted>>

(* accessType is never 'FULL', so a purchase completed before is not refused. *)
CompleteAccess(h, p) ==
    /\ p \in Stored
    /\ Begin(h, [Idle EXCEPT !.purchase = p, !.draft = purchases[p],
                             !.pc = IF purchases[p].plan = "PARTIAL" THEN "unlock"
                                                                     ELSE "complete"])
    /\ UNCHANGED <<contentVars, now, purchases, granted>>

(* Mutant: only the half that was not paid before. *)
LessonsToUnlockSecond == lessons \ FirstHalf(lessons)

LessonsToUnlock == lessons

ReadAllLessons(h) ==
    /\ admin[h].pc = "unlock"
    /\ Continue(h, [admin[h] EXCEPT !.pc = "complete", !.draft.unlocked = LessonsToUnlock])
    /\ UNCHANGED <<contentVars, now, purchases, requests, granted>>

WriteComplete(h) ==
    LET p == admin[h].purchase IN
    /\ admin[h].pc = "complete"
    /\ purchases' = [purchases EXCEPT
          ![p].plan = "FULL",
          ![p].unlocked = IF admin[h].draft.plan = "PARTIAL" THEN admin[h].draft.unlocked ELSE @,
          ![p].availableTo = IF Permanent THEN @ ELSE admin[h].draft.end]
    /\ Finish(h)
    /\ UNCHANGED <<contentVars, now, requests, granted>>

AdminStep(h) ==
    \/ \E plan \in PaymentPlans : AddCoursePurchase(h, plan)
    \/ FindPurchase(h) \/ ReadCourse(h) \/ ReadLessons(h)
    \/ \E p \in Purchases :
          \/ InsertPurchase(h, p) \/ ExtendAccess(h, p)
          \/ ExtendPractice(h, p) \/ CompleteAccess(h, p)
          \/ \E status \in PurchaseStatus : UpdateStatus(h, p, status)
    \/ WriteAccess(h) \/ CountPractices(h) \/ AddPractice(h)
    \/ ReadAllLessons(h) \/ WriteComplete(h)

-----------------------------------------------------------------------------
(* The content of the course, and time *)

CreateLesson ==
    /\ course.type = "SSK"
    /\ created < MaxLessons
    /\ created' = created + 1
    /\ lessons' = lessons \cup {created + 1}
    /\ UNCHANGED <<course, practicals, peak, now, purchases, admin, requests, granted>>

DeleteLesson(l) ==
    /\ l \in lessons
    /\ lessons' = lessons \ {l}
    /\ UNCHANGED <<course, created, practicals, peak, now, purchases, admin, requests, granted>>

(* Modules belong to ADVANCED and CONSULTING courses only. *)
CreateModule ==
    /\ course.type = "CONSULTING"
    /\ practicals < MaxPracticals
    /\ practicals' = practicals + 1
    /\ peak' = Later(peak, practicals + 1)
    /\ UNCHANGED <<course, lessons, created, now, purchases, admin, requests, granted>>

DeleteModule ==
    /\ practicals > 0
    /\ practicals' = practicals - 1
    /\ UNCHANGED <<course, lessons, created, peak, now, purchases, admin, requests, granted>>

MonthPasses ==
    /\ now < Horizon
    /\ now' = now + 1
    /\ UNCHANGED <<contentVars, purchases, admin, requests, granted>>

Init ==
    /\ course \in [type : CourseTypes, access : AccessTypes]
    /\ now = 0
    /\ lessons = {} /\ created = 0
    /\ practicals = 0 /\ peak = 0
    /\ purchases = [p \in Purchases |-> NoDocument]
    /\ admin = [h \in Handlers |-> Idle]
    /\ requests = 0
    /\ granted = [p \in Purchases |-> 0]

Next ==
    \/ \E h \in Handlers : AdminStep(h)
    \/ CreateLesson \/ \E l \in Lessons : DeleteLesson(l)
    \/ CreateModule \/ DeleteModule
    \/ MonthPasses

Spec == Init /\ [][Next]_vars

-----------------------------------------------------------------------------
(* What the routes of the buyer answer, given the purchase findOne shows them. *)

(* HasCourseGuard and userHasCourse; a date that is null is an exception. *)
HasCourse(p) ==
    \/ Permanent
    \/ /\ purchases[p].start <= now
       /\ purchases[p].availableTo # None
       /\ purchases[p].availableTo >= now

(* getLesson refuses a lesson of a course before and after these dates, for every *)
(* course, a permanent one included; a date that is null is an exception ...      *)
InWindow(p) ==
    /\ purchases[p].availableTo # None
    /\ ~(now < purchases[p].start \/ now > purchases[p].availableTo)

(* ... and the lesson it returns. *)
CourseLessonServed(p, l) ==
    /\ InWindow(p)
    /\ purchases[p].plan = "PARTIAL" => l \notin purchases[p].unlocked

(* A lesson of a module that is open: both bounds are strict. *)
ModuleLessonServed(p) ==
    /\ purchases[p].start < now
    /\ purchases[p].availableTo # None
    /\ now < purchases[p].availableTo

(* getLessonsSSK: isAvailable. *)
ShownAvailable(p, l) == l \in purchases[p].unlocked

-----------------------------------------------------------------------------
(* Type invariant: the course, the documents and the handlers are of the shape
   that the schemas and the services give them. *)
TypeOK ==
    /\ course \in [type : CourseTypes, access : AccessTypes]
    /\ now \in Nat /\ requests \in Nat
    /\ created \in 0..MaxLessons /\ lessons \subseteq 1..created
    /\ practicals \in Nat /\ peak \in Nat
    /\ purchases \in [Purchases -> Documents]
    /\ admin \in [Handlers -> Requests]
    /\ granted \in [Purchases -> Nat]

(* A purchase is added only to a buyer who had none when the request came in:
   only requests that overlap, the unawaited save of the earlier one included,
   leave two (addCoursePurchase). *)
AddedInTurn == \A p \in Stored : purchases[p].rivals = {}

(* Practices granted exceed the practical modules the course ever had by no
   more than the requests that overlapped, less one: the check and the $inc of
   extendPracticeCoursePurchase are two steps. *)
PracticesBounded ==
    \A p \in Stored : purchases[p].practices + 1 <= peak + Cardinality(Handlers)

(* However extensions and completions interleave, an access reaches no further
   than the later of the two ends the purchase had, and the months granted
   since; a month is lost to an overlap, never gained (extendAccess,
   completeAccess). *)
MonthsGranted ==
    \A p \in Stored : purchases[p].origin # None =>
        purchases[p].availableTo <=
            Later(purchases[p].origin, purchases[p].end) + granted[p]

(* A purchase is worth what it was when it was bought: until the earlier of the two
   ends it had then, its first availableTo and its accessEndDate, the course's
   guard and the dates of the lesson route let the buyer in, whatever overlapping
   extensions and completions write over each other.  The later of the two no
   completion promises; a purchase sold without an availableTo is no part of this
   (addCoursePurchase, extendAccess, completeAccess, userHasCourse, getLesson). *)
OpenWhileBought ==
    \A p \in Stored :
        LET d == purchases[p]
        IN  (d.origin # None /\ d.start <= now /\ now <= d.origin /\ now <= d.end) =>
                HasCourse(p) /\ InWindow(p)

(* Paying the rest of a course never locks a lesson that was unlocked and still
   exists, whatever is created and deleted meanwhile (completeAccess). *)
CompletionKeepsLessons ==
    [][\A p \in Purchases :
          (purchases[p].plan = "PARTIAL" /\ purchases'[p].plan = "FULL") =>
              purchases[p].unlocked \cap lessons \subseteq purchases'[p].unlocked]_vars

-----------------------------------------------------------------------------
(* "Урок заблокований по частковій оплаті": a lesson that the list shows as
   available to a buyer on a PARTIAL plan is not refused as one he has not
   paid for while his access lasts (getLessonsSSK, getLesson). *)
AvailableIsServed ==
    \A p \in Stored, l \in lessons :
        (ShownAvailable(p, l) /\ InWindow(p)) => CourseLessonServed(p, l)

(* "користувач має таку покупку!": a buyer has one purchase of a course
   (addCoursePurchase); two requests that overlap leave two. *)
OnePurchase == \A p, q \in Stored : p = q

(* Status BLOCKED ends what the buyer may see; no route reads it. *)
BlockedIsRefused ==
    \A p \in Stored : purchases[p].status = "BLOCKED" => ~HasCourse(p)
=============================================================================
