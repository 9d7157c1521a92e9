------------------------------- MODULE Listings -------------------------------
(***************************************************************************)
(* The paged lists of the administration: lessons of a course or a module, *)
(* courses, modules, users, promo codes, the bin, events.  A reader pages  *)
(* through one of them by offset while documents are created, deleted,     *)
(* renamed, moved and published under her; nothing remembers where she is  *)
(* between two pages.  A document is what the filters see of it, at its    *)
(* place in the order the list is sorted by; one whose sort key changes    *)
(* leaves its place for another.                                           *)
(* The names of the specification are its own, beside those of Contracts:  *)
(* one module proves about both.                                           *)
(***************************************************************************)
EXTENDS Naturals, FiniteSets

CONSTANTS
    Routes,         \* the lists that are read
    Limits,         \* documents on a page, as readers ask
    Statuses,       \* the statuses documents take
    Asked,          \* what readers ask a list for
    MaxDocuments    \* bound: places for documents, each for one if sorted by creation

ASSUME LimitsAssumption == Limits \subseteq Nat \ {0}
ASSUME StatusesAssumption == Statuses \subseteq {"DRAFT", "PUBLISHED", "ARCHIVE"} /\ Statuses # {}
ASSUME DocumentsAssumption == MaxDocuments \in Nat
ASSUME RoutesAssumption ==
    Routes \subseteq {"lessonCourse", "lessonModule", "course", "module", "user", "promo", "bin", "event"}

VARIABLES
    route,          \* the list
    docs,           \* what is known of the document at a place, or that there is none (yet, any more)
    query,          \* what the reader asks for
    reader,         \* where the reader is
    seen,           \* history: documents shown to the reader and still there
    due,            \* history: documents that were in the list all the while
    marks           \* history: what went wrong for a reader by offset, and what she was shown twice

listVars == <<route, docs, query, reader, seen, due, marks>>

-----------------------------------------------------------------------------
STATUSES == {"DRAFT", "PUBLISHED", "ARCHIVE"}
Ids == 1..MaxDocuments

(* target: of the course or module asked for; for users, buyers of the course; for the *)
(* bin, what has toDelete.  named: the name matches the search.  over: only of events. *)
Kinds == [target : BOOLEAN, status : STATUSES, named : BOOLEAN, over : BOOLEAN]

Statusless == {"module", "user", "promo", "bin"}

(* What a list holds, as far as its filters can tell. *)
Holds(r, q, k) ==
    /\ ~q.targeted => k.target
    /\ ~q.search => k.named
    /\ CASE r \in Statusless -> k.status = "DRAFT"
         [] r = "event" -> k.status # "ARCHIVE"
         [] OTHER -> k.status \in Statuses
    /\ k.over => r = "event"

States == {"unborn", "there", "gone"}
NoKind == [target |-> FALSE, status |-> "DRAFT", named |-> FALSE, over |-> FALSE]
Documents == [state : States, kind : Kinds]

There(d) == {i \in Ids : d[i].state = "there"}
Unborn == {i \in Ids : docs[i].state = "unborn"}
Put(i, k) == [docs EXCEPT ![i] = [state |-> "there", kind |-> k]]

-----------------------------------------------------------------------------
(* What a list is asked: a status or any - the filters by type work alike -, a search, *)
(* the target alone or everything, an order: by creation, the newest first or the       *)
(* oldest, or sorted by something that requests rewrite (a name, a date, the last       *)
(* sign-in), up or down alike.                                                          *)
Queries == [status : STATUSES \cup {"any"}, search : BOOLEAN, targeted : BOOLEAN, newest : BOOLEAN,
            sorted : BOOLEAN]

GetAllLessonCourseQueryDto == {q \in Queries : ~q.targeted /\ ~q.newest}
GetAllLessonModuleQueryDto == {q \in Queries : ~q.search /\ ~q.targeted /\ ~q.newest}
GetAllCoursesQueryDto == {q \in Queries : q.status = "any" /\ ~q.targeted /\ ~q.newest}
GetAllModuleQueryDto == {q \in Queries : q.status = "any" /\ ~q.targeted /\ ~q.newest}
GetUsersQueryDto == {q \in Queries : q.status = "any" /\ (q.sorted => ~q.newest)}
PaginationDto == {q \in Queries : q.status = "any" /\ ~q.targeted /\ ~q.newest /\ ~q.sorted}
GetAllEventsDto == {q \in Queries : q.status # "any" /\ ~q.targeted /\ ~q.newest /\ ~q.sorted}

(* The controllers add what the path says: the course or module, the status. *)
getAllLesson == {[q EXCEPT !.targeted = TRUE] : q \in GetAllLessonCourseQueryDto}
getLessonsOfModule == {[q EXCEPT !.targeted = TRUE] : q \in GetAllLessonModuleQueryDto}
getCourses == {[q EXCEPT !.status = s] : q \in GetAllCoursesQueryDto, s \in STATUSES}
getModules == {[q EXCEPT !.targeted = TRUE, !.newest = ~q.sorted] : q \in GetAllModuleQueryDto}

QueriesOf(r) ==
    CASE r = "lessonCourse" -> getAllLesson
      [] r = "lessonModule" -> getLessonsOfModule
      [] r = "course" -> getCourses
      [] r = "module" -> getModules
      [] r = "user" -> GetUsersQueryDto
      [] r = "event" -> GetAllEventsDto
      [] r = "promo" -> PaginationDto
      [] r = "bin" -> {[q EXCEPT !.targeted = TRUE] : q \in PaginationDto}

-----------------------------------------------------------------------------
(* What a list answers: the documents to page through, those the page count is told *)
(* of, and the documents behind the counter of each status.                         *)
OfTarget(d, q) == {i \in There(d) : q.targeted => d[i].kind.target}
OfStatus(d, q) == {i \in OfTarget(d, q) : q.status \in {"any", d[i].kind.status}}
Searched(d, q, ids) == {i \in ids : q.search => d[i].kind.named}

(* Lessons and courses: the page count ignores the search, the counters the filters. *)
getAllLessonCourse(d, q) ==
    [found |-> Searched(d, q, OfStatus(d, q)),
     counted |-> OfStatus(d, q),
     counters |-> [s \in STATUSES |-> {i \in OfTarget(d, q) : d[i].kind.status = s}]]

getAllLessonModule(d, q) ==
    [found |-> OfStatus(d, q),
     counted |-> OfStatus(d, q),
     counters |-> [s \in STATUSES |-> {i \in OfTarget(d, q) : d[i].kind.status = s}]]

(* Mutant: the counter of the archive is forgotten. *)
ForgottenArchive(d, q) ==
    [found |-> Searched(d, q, OfStatus(d, q)),
     counted |-> OfStatus(d, q),
     counters |-> [s \in STATUSES |-> {i \in There(d) : s # "ARCHIVE" /\ d[i].kind.status = s}]]

getAllCourse(d, q) ==
    [found |-> Searched(d, q, OfStatus(d, q)),
     counted |-> OfStatus(d, q),
     counters |-> [s \in STATUSES |-> {i \in There(d) : d[i].kind.status = s}]]

(* Modules, users, promo codes and the bin count what they found. *)
Uncounted(found) == [found |-> found, counted |-> found, counters |-> [s \in STATUSES |-> {}]]

getAllModule(d, q) == Uncounted(Searched(d, q, OfTarget(d, q)))
getAllUsers(d, q) == Uncounted(Searched(d, q, OfTarget(d, q)))
findAllPromoCode(d, q) == Uncounted(Searched(d, q, There(d)))
getAllDeleted(d, q) == Uncounted(Searched(d, q, OfTarget(d, q)))

(* Events: the archive is what is over, whatever its status; the millisecond in which *)
(* an event ends, when no list has it, is left out.                                   *)
getEventsCount(d) ==
    [s \in STATUSES |->
        {i \in There(d) :
            IF s = "ARCHIVE" THEN d[i].kind.over
                             ELSE d[i].kind.status = s /\ ~d[i].kind.over}]

getAllEvents(d, q) ==
    [found |-> Searched(d, q, getEventsCount(d)[q.status]),
     counted |-> getEventsCount(d)[q.status],
     counters |-> getEventsCount(d)]

Answer(r, d, q) ==
    CASE r = "lessonCourse" -> getAllLessonCourse(d, q)
      [] r = "lessonModule" -> getAllLessonModule(d, q)
      [] r = "course" -> getAllCourse(d, q)
      [] r = "module" -> getAllModule(d, q)
      [] r = "user" -> getAllUsers(d, q)
      [] r = "promo" -> findAllPromoCode(d, q)
      [] r = "bin" -> getAllDeleted(d, q)
      [] r = "event" -> getAllEvents(d, q)

Found(d) == Answer(route, d, query).found

-----------------------------------------------------------------------------
(* The place of a document among those of a list. *)
Rank(i, ids) == Cardinality({j \in ids : IF query.newest THEN j >= i ELSE j <= i})

(* Mutants: pages are counted from 0; a page takes one document too many. *)
FromZero(ids, page, limit) == {i \in ids : Rank(i, ids) > page * limit /\ Rank(i, ids) <= (page + 1) * limit}
OneMore(ids, page, limit) == {i \in ids : Rank(i, ids) >= (page - 1) * limit /\ Rank(i, ids) <= page * limit}

(* $skip (page - 1) * limit, $limit. *)
OnPage(ids, page, limit) == {i \in ids : Rank(i, ids) > (page - 1) * limit /\ Rank(i, ids) <= page * limit}

Pages(n, limit) == (n + limit - 1) \div limit

-----------------------------------------------------------------------------
Readers == [pc : {"idle", "counting", "paging"}, page : Nat, limit : Limits \cup {0}, pages : Nat]
Away == [pc |-> "idle", page |-> 0, limit |-> 0, pages |-> 0]

(* slipped: a document left a page that was shown, and the rest moved up; pushed: one *)
(* came in there, and the rest moved down; resorted: a document that was shown went    *)
(* to another place; twice: a document was shown again.                                *)
Marks == {"slipped", "pushed", "resorted", "twice"}

ListInit ==
    /\ route \in Routes
    /\ docs = [i \in Ids |-> [state |-> "unborn", kind |-> NoKind]]
    /\ query \in QueriesOf(route) \cap Asked[route]
    /\ reader = Away
    /\ seen = {} /\ due = {} /\ marks = {}

(* A change of the documents, as it moves the reader's list; kept are the documents she *)
(* was shown, wherever they are now.                                                    *)
Change(d, kept, more) ==
    LET was == Found(docs)
        now == Found(d)
        shown == reader.page * reader.limit
    IN  /\ docs' = d
        /\ due' = due \cap now
        /\ seen' = kept
        /\ marks' = marks \cup more
                          \cup {m \in {"slipped"} : \E i \in was \ now : Rank(i, was) <= shown}
                          \cup {m \in {"pushed"} : \E i \in now \ was : Rank(i, now) <= shown}
        /\ UNCHANGED <<route, query, reader>>

(* What is deleted is forgotten. *)
Write(d) == Change(d, seen \cap There(d), {})

(* Where the next document comes in: after all others, in the order of creation; where its *)
(* key puts it, in another order; in the bin, after those of its collection.                *)
Between == query.sorted \/ route = "bin"
NextPlaces == IF Between THEN Unborn ELSE {i \in Unborn : \A j \in Unborn : i <= j}

(* The place of a document that left is taken again by others only where they come in *)
(* between.                                                                            *)
Left(i) == [docs EXCEPT ![i] = [state |-> IF Between THEN "unborn" ELSE "gone", kind |-> NoKind]]

(* A module is created only in a course that has modules. *)
Create(k) ==
    /\ Holds(route, query, k)
    /\ \E i \in NextPlaces : Write(Put(i, k))

(* deleteMany deletes one document after another. *)
Delete(i) == Write(Left(i))

Edit(i, k) == k # docs[i].kind /\ Holds(route, query, k) /\ Write(Put(i, k))

updateStatusLesson(i, s) ==
    /\ route \in {"lessonCourse", "lessonModule"}
    /\ Edit(i, [docs[i].kind EXCEPT !.status = s])

updateStatusCourse(i, s) ==
    /\ route = "course"
    /\ Edit(i, [docs[i].kind EXCEPT !.status = s])

updateEvent(i, s) ==
    /\ route = "event"
    /\ Edit(i, [docs[i].kind EXCEPT !.status = s])

(* A lesson goes to another module; lessons of a course do not move. *)
updateModuleLesson(i) ==
    /\ route = "lessonModule"
    /\ Edit(i, [docs[i].kind EXCEPT !.target = ~@])

(* A product goes to the bin or comes back, a user gets the course or loses it. *)
restoreProducts(i) ==
    /\ route \in {"bin", "user"}
    /\ Edit(i, [docs[i].kind EXCEPT !.target = ~@])

(* An edit that renames, of whatever the list holds. *)
updateModule(i) ==
    /\ Edit(i, [docs[i].kind EXCEPT !.named = ~@])

(* A user signs in, a document is renamed or gets another date: where the list is sorted *)
(* by that, the document goes to another place, and may match the search or no longer.   *)
singIn(i, place, named) ==
    LET k == [docs[i].kind EXCEPT !.named = named]
        moved == [Left(i) EXCEPT ![place] = [state |-> "there", kind |-> k]]
    IN  /\ query.sorted /\ place \in Unborn /\ Holds(route, query, k)
        /\ Change(moved, {IF j = i THEN place ELSE j : j \in seen}, {m \in {"resorted"} : i \in seen})

(* Time passes. *)
Ends(i) ==
    /\ route = "event"
    /\ Edit(i, [docs[i].kind EXCEPT !.over = TRUE])

-----------------------------------------------------------------------------
(* A page is read.  Lists of events ask for the counters after it, all others in the *)
(* same aggregation.                                                                 *)
Show(ids, page, limit) ==
    LET a == Answer(route, docs, query)
    IN  /\ reader' = [pc |-> IF route = "event" THEN "counting" ELSE "paging", page |-> page, limit |-> limit,
                      pages |-> IF route = "event" THEN 0 ELSE Pages(Cardinality(a.counted), limit)]
        /\ seen' = ids \cup OnPage(a.found, page, limit)
        /\ UNCHANGED <<route, docs, query>>

FirstPage(limit) ==
    /\ reader.pc = "idle"
    /\ Show({}, 1, limit)
    /\ due' = Found(docs)
    /\ marks' = {}

NextPage ==
    /\ reader.pc = "paging" /\ reader.page < reader.pages
    /\ Show(seen, reader.page + 1, reader.limit)
    /\ marks' = marks \cup {m \in {"twice"} : OnPage(Found(docs), reader.page + 1, reader.limit) \cap seen # {}}
    /\ UNCHANGED due

CountEvents ==
    /\ reader.pc = "counting"
    /\ reader' = [reader EXCEPT !.pc = "paging",
                                !.pages = Pages(Cardinality(getEventsCount(docs)[query.status]), reader.limit)]
    /\ UNCHANGED <<route, docs, query, seen, due, marks>>

ListNext ==
    \/ \E k \in Kinds : Create(k)
    \/ \E i \in There(docs) :
          \/ \E s \in STATUSES : updateStatusLesson(i, s) \/ updateStatusCourse(i, s) \/ updateEvent(i, s)
          \/ Delete(i) \/ updateModuleLesson(i) \/ restoreProducts(i) \/ updateModule(i) \/ Ends(i)
          \/ \E place \in Ids, named \in BOOLEAN : singIn(i, place, named)
    \/ \E limit \in Limits : FirstPage(limit)
    \/ NextPage \/ CountEvents

ListSpec == ListInit /\ [][ListNext]_listVars

-----------------------------------------------------------------------------
(* Every variable has its type. *)
ListTypeOK ==
    /\ route \in Routes
    /\ docs \in [Ids -> Documents]
    /\ query \in Queries
    /\ reader \in Readers
    /\ seen \subseteq Ids /\ due \subseteq seen \cup Found(docs)
    /\ marks \subseteq Marks

(* Who turned the last page the answer told of has been shown every document that was *)
(* in its place in the list all the while, unless one left its place on a page already *)
(* shown, by leaving the list or for a later place: what is created, published, or     *)
(* sorted elsewhere meanwhile hides no other, in no order, on no list.                 *)
NothingMissed ==
    reader.pc = "paging" /\ reader.page >= reader.pages /\ "slipped" \notin marks => due \subseteq seen

(* No document is shown twice unless another came in on a page already shown - a new  *)
(* one, which does so only where the newest come first or keys decide, or one sorted   *)
(* there - or one that was shown went to another place.                                *)
NoneTwice ==
    "twice" \in marks => "pushed" \in marks \/ "resorted" \in marks

(* The counters over a list say how many documents the list of each status has, and *)
(* together all there are of the target.                                            *)
Counted(s) == Answer(route, docs, query).counters[s]

CountersAgree ==
    route \in {"lessonCourse", "lessonModule", "course", "event"} =>
        /\ UNION {Counted(s) : s \in STATUSES} = OfTarget(docs, query)
        /\ \A s \in STATUSES :
              Counted(s) = Answer(route, docs, [query EXCEPT !.status = s, !.search = FALSE]).found
        /\ \A s, t \in STATUSES : s # t => Counted(s) \cap Counted(t) = {}
=============================================================================
