-------------------------------- MODULE Courses --------------------------------
(***************************************************************************)
(* Courses as administrators keep them (admin/education/course, storage,   *)
(* files): a document with a link to its cover, the folder with the cover  *)
(* and the materials, the documents of the materials and the contract.     *)
(* The requests that create, edit and delete courses change them one after *)
(* another, meet in between and may be cut anywhere.  How contracts are    *)
(* updated and signed is in Contracts, the materials of a lesson in        *)
(* Lessons, the lists of courses in Listings.                              *)
(***************************************************************************)
EXTENDS Naturals, FiniteSets

CONSTANTS
    CourseIds,      \* ids of courses
    Covers,         \* names of uploaded covers
    Files,          \* names of uploaded files
    Handlers,       \* requests served at once
    Sent,           \* the bodies that requests send
    Failing,        \* uploads the disk may refuse to copy or to remove
    MaxCopies,      \* bound: documents ever created for one file
    MaxFailures,    \* bound: uploads the disk refuses
    None

ASSUME UploadsAssumption == Covers \cap Files = {}
ASSUME CopiesAssumption == MaxCopies \in Nat
ASSUME NoneAssumption == None \notin CourseIds \cup Covers

Uploads == Covers \cup Files

ASSUME FailingAssumption == Failing \subseteq Uploads

VARIABLES
    courses,        \* the course documents
    contracts,      \* courses that have a contract
    documents,      \* the files collection
    temporary,      \* uploads in temporaryCovers and temporaryFiles
    stored,         \* uploads in the folder of a course, as <<course, upload>>
    req,            \* the handlers
    copies,         \* history: how many documents were created for a file
    uploaded,       \* history: uploads
    removed,        \* history: uploads replaced, dropped by an update or deleted with a course
    failed,         \* history: uploads that could not be copied, unlinked or removed
    asked,          \* history: courses whose last request asked for a contract
    blank,          \* history: courses that lost their cover to one that was not there
    disturbed       \* history: courses two requests worked on at once, or one was cut at

folders == <<temporary, stored>>
history == <<uploaded, removed, failed, asked, blank, disturbed>>
vars == <<courses, contracts, documents, folders, req, copies, history>>

-----------------------------------------------------------------------------
CourseDocuments == [state : {"none", "there", "deleted"}, cover : Covers \cup {None}]
NoCourse == [state |-> "none", cover |-> None]

(* A document is told from the others of its file by when it was created. *)
FileDocuments == [file : Files, course : CourseIds, copy : 1..MaxCopies]

(* The body of a request: a cover or none, materials, and a contract - absent, empty *)
(* or filled in.                                                                     *)
Contract == {"absent", "empty", "given"}
Bodies == [cover : Covers \cup {None}, files : SUBSET Files, contract : Contract]

ASSUME SentAssumption == Sent \subseteq Bodies

Steps == {"idle", "contract", "folder", "drop", "cover", "uncover", "save", "compare", "unlink",
          "forget", "filter", "copy", "record", "discard", "bare", "delete", "rmdir"}
Requests ==
    [pc : Steps, course : CourseIds \cup {None}, creates : BOOLEAN, body : Bodies,
     old : Covers \cup {None},          \* the cover of the course when it was read
     made : BOOLEAN,                    \* whether a new cover was stored
     gone : SUBSET FileDocuments, files : SUBSET Files, copied : SUBSET Files]
Nothing == [cover |-> None, files |-> {}, contract |-> "absent"]
Idle == [pc |-> "idle", course |-> None, creates |-> FALSE, body |-> Nothing, old |-> None,
         made |-> FALSE, gone |-> {}, files |-> {}, copied |-> {}]

There      == {c \in CourseIds : courses[c].state = "there"}
AtWork(c)  == {h \in Handlers : req[h].course = c}
FilesOf(ds) == {d.file : d \in ds}
StoredAt(c) == {u \in Uploads : <<c, u>> \in stored}

Begin(h, r) ==
    /\ req[h] = Idle
    /\ req' = [req EXCEPT ![h] = r]
    /\ disturbed' = IF AtWork(r.course) = {} THEN disturbed ELSE disturbed \cup {r.course}
Continue(h, r) == req' = [req EXCEPT ![h] = r]
Goto(h, pc)    == req' = [req EXCEPT ![h].pc = pc]

(* The disk refuses to copy or to remove some uploads, which is logged and no more. *)
Refuse(bad) ==
    /\ failed' = failed \cup bad
    /\ Cardinality(failed') <= MaxFailures

(* Files of the folder of a course are unlinked, but for those the disk refuses. *)
Unlink(c, files) ==
    \E bad \in SUBSET (files \cap Failing) :
        /\ stored' = stored \ ({c} \X (files \ bad))
        /\ removed' = removed \cup (files \ bad)
        /\ Refuse(bad)

Init ==
    /\ courses = [c \in CourseIds |-> NoCourse]
    /\ contracts = {} /\ documents = {} /\ temporary = {} /\ stored = {}
    /\ req = [h \in Handlers |-> Idle]
    /\ copies = [f \in Files |-> 0]
    /\ uploaded = {} /\ removed = {} /\ failed = {} /\ asked = {} /\ blank = {} /\ disturbed = {}

-----------------------------------------------------------------------------
Upload(u) ==
    /\ u \notin uploaded
    /\ uploaded' = uploaded \cup {u}
    /\ temporary' = temporary \cup {u}
    /\ UNCHANGED <<courses, contracts, documents, stored, req, copies, removed, failed,
                   asked, blank, disturbed>>

(* POST create: the course is saved, then the contract of the body, an empty one as *)
(* well, before its folder is made.                                                 *)
CreateCourse(h, c, b) ==
    /\ courses[c] = NoCourse
    /\ courses' = [courses EXCEPT ![c].state = "there"]
    /\ asked' = IF b.contract = "given" THEN asked \cup {c} ELSE asked
    /\ Begin(h, [Idle EXCEPT !.pc = IF b.contract = "absent" THEN "folder" ELSE "contract",
                             !.course = c, !.creates = TRUE, !.body = b])
    /\ UNCHANGED <<contracts, documents, folders, copies, uploaded, removed, failed, blank>>

(* What an update begins with. *)
FirstStep(cover, old) ==
    IF cover \in {None, old} THEN "save" ELSE IF old # None THEN "drop" ELSE "cover"

(* PUT edit: the course is read; a cover that is not the one it has replaces that one. *)
UpdateCourse(h, c, b) ==
    LET old == courses[c].cover
    IN  /\ c \in There
        /\ asked' = CASE b.contract = "absent" -> asked \ {c}
                      [] b.contract = "empty"  -> asked
                      [] b.contract = "given"  -> asked \cup {c}
        /\ Begin(h, [Idle EXCEPT !.pc = FirstStep(b.cover, old),
                                 !.course = c, !.body = b, !.old = old])
        /\ UNCHANGED <<courses, contracts, documents, folders, copies, uploaded, removed, failed, blank>>

(* POST delete: contracts first, then the document, then the folder. *)
DeleteCourse(h, c) ==
    /\ c \in There
    /\ asked' = asked \ {c}
    /\ Begin(h, [Idle EXCEPT !.pc = "bare", !.course = c])
    /\ UNCHANGED <<courses, contracts, documents, folders, copies, uploaded, removed, failed, blank>>

-----------------------------------------------------------------------------
(* A creation goes on, unless its contract could not be saved; an update is done. *)
AfterContract(r) ==
    IF r.creates /\ r.body.contract # "empty" THEN [r EXCEPT !.pc = "folder"] ELSE Idle

(* Mutant: an empty contract counts as none. *)
EmptyDeletes(h) ==
    LET r == req[h]
    IN  /\ r.pc = "contract"
        /\ contracts' = IF r.body.contract = "given" THEN contracts \cup {r.course} ELSE contracts \ {r.course}
        /\ Continue(h, AfterContract(r))
        /\ UNCHANGED <<courses, documents, folders, copies, history>>

(* The contract comes first in a creation and last in an update: none in the body    *)
(* deletes the contract, an empty one leaves it - but in a creation, which tries to  *)
(* save it, fails on the fields it requires, and leaves the course without a folder. *)
SetContract(h) ==
    LET r == req[h]
        c == r.course
    IN  /\ r.pc = "contract"
        /\ contracts' = CASE r.body.contract = "absent" -> contracts \ {c}
                          [] r.body.contract = "empty"  -> contracts
                          [] r.body.contract = "given"  -> contracts \cup {c}
        /\ Continue(h, AfterContract(r))
        /\ UNCHANGED <<courses, documents, folders, copies, history>>

CreateCourseStorage(h) ==
    /\ req[h].pc = "folder"
    /\ Goto(h, IF req[h].body.cover = None THEN "filter" ELSE "cover")
    /\ UNCHANGED <<courses, contracts, documents, folders, copies, history>>

(* Mutant: the old cover stays. *)
KeptCover(h) ==
    /\ req[h].pc = "drop"
    /\ Goto(h, "cover")
    /\ UNCHANGED <<courses, contracts, documents, folders, copies, history>>

(* The file of the old cover is unlinked, before the new one is looked for. *)
DropCover(h) ==
    /\ req[h].pc = "drop"
    /\ Unlink(req[h].course, {req[h].old})
    /\ Goto(h, "cover")
    /\ UNCHANGED <<courses, contracts, documents, temporary, copies, uploaded, asked, blank, disturbed>>

(* A cover that is not in the temporary folder is passed over. *)
CompressCover(h) ==
    LET r == req[h]
        found == r.body.cover \in temporary
    IN  /\ r.pc = "cover"
        /\ stored' = IF found THEN stored \cup {<<r.course, r.body.cover>>} ELSE stored
        /\ blank' = IF found \/ r.creates \/ r.old = None THEN blank ELSE blank \cup {r.course}
        /\ Goto(h, IF found THEN "uncover" ELSE IF r.creates THEN "filter" ELSE "save")
        /\ UNCHANGED <<courses, contracts, documents, temporary, copies, uploaded, removed, failed, asked, disturbed>>

(* fileDelete fails, and the request with it, if another has taken the file. *)
DeleteTemporaryCover(h) ==
    LET r == req[h]
    IN  /\ r.pc = "uncover" /\ r.body.cover \in temporary
        /\ temporary' = temporary \ {r.body.cover}
        /\ Continue(h, [r EXCEPT !.pc = "save", !.made = TRUE])
        /\ UNCHANGED <<courses, contracts, documents, stored, copies, history>>

(* The link is written only for a cover that was stored; the document of a deleted *)
(* course is not found, which nobody asks.                                         *)
SaveCourse(h) ==
    LET r == req[h]
        c == r.course
    IN  /\ r.pc = "save"
        /\ courses' = IF r.made /\ c \in There THEN [courses EXCEPT ![c].cover = r.body.cover] ELSE courses
        /\ blank' = IF r.made THEN blank \ {c} ELSE blank
        /\ Continue(h, [r EXCEPT !.pc = IF r.creates THEN "filter" ELSE "compare",
                                 !.body.cover = None, !.old = None, !.made = FALSE])
        /\ UNCHANGED <<contracts, documents, folders, copies, uploaded, removed, failed, asked, disturbed>>

-----------------------------------------------------------------------------
(* The documents of the course, compared by name with the materials of the body. *)
GetFiles(c) == {d \in documents : d.course = c}

Compare(h) ==
    LET r == req[h]
        known == GetFiles(r.course)
        gone == {d \in known : d.file \notin r.body.files}
    IN  /\ r.pc = "compare"
        /\ Continue(h, [r EXCEPT !.pc = IF gone = {} THEN "filter" ELSE "unlink",
                                 !.gone = gone, !.body.files = @ \ FilesOf(known)])
        /\ UNCHANGED <<courses, contracts, documents, folders, copies, history>>

(* Mutant: the files of what is dropped stay. *)
NoUnlink(h) ==
    /\ req[h].pc = "unlink"
    /\ Goto(h, "forget")
    /\ UNCHANGED <<courses, contracts, documents, folders, copies, history>>

DeleteOldFiles(h) ==
    /\ req[h].pc = "unlink"
    /\ Unlink(req[h].course, FilesOf(req[h].gone))
    /\ Goto(h, "forget")
    /\ UNCHANGED <<courses, contracts, documents, temporary, copies, uploaded, asked, blank, disturbed>>

DeleteFileDocuments(h) ==
    /\ req[h].pc = "forget"
    /\ documents' = documents \ req[h].gone
    /\ Continue(h, [req[h] EXCEPT !.pc = "filter", !.gone = {}])
    /\ UNCHANGED <<courses, contracts, folders, copies, history>>

(* The end of the materials: an update has its contract left to do. *)
AfterFiles(r) ==
    IF r.creates THEN Idle
    ELSE [Idle EXCEPT !.pc = "contract", !.course = r.course, !.body.contract = r.body.contract]

(* Mutant: the temporary file goes before it is copied, as in a move. *)
MovedFirst(h) ==
    LET r == req[h]
        existing == r.body.files \cap temporary
    IN  /\ r.pc = "filter"
        /\ temporary' = temporary \ existing
        /\ Continue(h, IF existing = {} THEN AfterFiles(r) ELSE [r EXCEPT !.pc = "copy", !.files = existing])
        /\ UNCHANGED <<courses, contracts, documents, stored, copies, history>>

FilterExistingFiles(h) ==
    LET r == req[h]
        existing == r.body.files \cap temporary
    IN  /\ r.pc = "filter"
        /\ Continue(h, IF existing = {} THEN AfterFiles(r) ELSE [r EXCEPT !.pc = "copy", !.files = existing])
        /\ UNCHANGED <<courses, contracts, documents, folders, copies, history>>

(* A file another request has taken by now, or that cannot be copied, is passed over. *)
CopyFiles(h) ==
    LET r == req[h]
    IN  /\ r.pc = "copy"
        /\ \E bad \in SUBSET (r.files \cap temporary \cap Failing) :
              LET copied == (r.files \cap temporary) \ bad
              IN  /\ stored' = stored \cup ({r.course} \X copied)
                  /\ Refuse(bad)
                  /\ Continue(h, [r EXCEPT !.copied = copied, !.pc = IF r.creates THEN "discard" ELSE "record"])
        /\ UNCHANGED <<courses, contracts, documents, temporary, copies, uploaded, removed, asked, blank, disturbed>>

CreateFiles(h) ==
    LET r == req[h]
    IN  /\ r.pc = "record" /\ \A f \in r.copied : copies[f] < MaxCopies
        /\ documents' = documents \cup {[file |-> f, course |-> r.course, copy |-> copies[f] + 1] : f \in r.copied}
        /\ copies' = [f \in Files |-> copies[f] + IF f \in r.copied THEN 1 ELSE 0]
        /\ Continue(h, IF r.creates THEN Idle ELSE [r EXCEPT !.pc = "discard"])
        /\ UNCHANGED <<courses, contracts, folders, history>>

(* What existed goes from the temporary folder, whether it was copied or not. *)
DeleteTemporary(h) ==
    LET r == req[h]
    IN  /\ r.pc = "discard"
        /\ \E bad \in SUBSET (r.files \cap temporary \cap Failing) :
              temporary' = temporary \ (r.files \ bad) /\ Refuse(bad)
        /\ Continue(h, IF r.creates THEN [r EXCEPT !.pc = "record"] ELSE AfterFiles(r))
        /\ UNCHANGED <<courses, contracts, documents, stored, copies, uploaded, removed, asked, blank, disturbed>>

-----------------------------------------------------------------------------
DeleteContract(h) ==
    /\ req[h].pc = "bare"
    /\ contracts' = contracts \ {req[h].course}
    /\ Goto(h, "delete")
    /\ UNCHANGED <<courses, documents, folders, copies, history>>

DeleteMany(h) ==
    /\ req[h].pc = "delete"
    /\ courses' = [courses EXCEPT ![req[h].course] = [NoCourse EXCEPT !.state = "deleted"]]
    /\ Goto(h, "rmdir")
    /\ UNCHANGED <<contracts, documents, folders, copies, history>>

(* The folder goes, but for what cannot be removed: the request answers all the same. *)
DeleteCourseFolder(h) ==
    /\ req[h].pc = "rmdir"
    /\ Unlink(req[h].course, StoredAt(req[h].course))
    /\ Continue(h, Idle)
    /\ UNCHANGED <<courses, contracts, documents, temporary, copies, uploaded, asked, blank, disturbed>>

(* A call fails or the process dies: what was written stays. *)
Cut(h) ==
    /\ req[h] # Idle
    /\ disturbed' = disturbed \cup {req[h].course}
    /\ Continue(h, Idle)
    /\ UNCHANGED <<courses, contracts, documents, folders, copies, uploaded, removed, failed, asked, blank>>

Next ==
    \/ \E u \in Uploads : Upload(u)
    \/ \E h \in Handlers, c \in CourseIds :
          \/ \E b \in Sent : CreateCourse(h, c, b) \/ UpdateCourse(h, c, b)
          \/ DeleteCourse(h, c)
    \/ \E h \in Handlers :
          \/ SetContract(h) \/ CreateCourseStorage(h)
          \/ DropCover(h) \/ CompressCover(h) \/ DeleteTemporaryCover(h) \/ SaveCourse(h)
          \/ Compare(h) \/ DeleteOldFiles(h) \/ DeleteFileDocuments(h)
          \/ FilterExistingFiles(h) \/ CopyFiles(h) \/ CreateFiles(h) \/ DeleteTemporary(h)
          \/ DeleteContract(h) \/ DeleteMany(h) \/ DeleteCourseFolder(h) \/ Cut(h)

Spec == Init /\ [][Next]_vars

-----------------------------------------------------------------------------
(* Every variable has its type. *)
TypeOK ==
    /\ courses \in [CourseIds -> CourseDocuments]
    /\ contracts \subseteq CourseIds
    /\ documents \subseteq FileDocuments
    /\ temporary \subseteq Uploads /\ stored \subseteq CourseIds \X Uploads
    /\ req \in [Handlers -> Requests]
    /\ copies \in [Files -> 0..MaxCopies]
    /\ uploaded \subseteq Uploads /\ removed \subseteq Uploads /\ failed \subseteq Uploads
    /\ asked \subseteq CourseIds /\ blank \subseteq CourseIds /\ disturbed \subseteq CourseIds

(* No upload is lost on its way into a course, however requests meet and are cut: a *)
(* cover or a file waits in the temporary folder or is in the folder of a course,   *)
(* unless a request replaced it, dropped it or deleted it with the course, or the   *)
(* disk refused it.                                                                 *)
UploadsKept ==
    \A u \in uploaded \ (removed \cup failed) :
        u \in temporary \/ \E c \in CourseIds : <<c, u>> \in stored

Settled == {c \in CourseIds \ disturbed : AtWork(c) = {}}

(* A course whose requests came one at a time has the file of each material that has *)
(* a document, each recorded once; and no others, but for files the disk refused to  *)
(* remove, whose documents went all the same.                                        *)
MaterialsMatch ==
    \A c \in Settled \cap There :
        /\ FilesOf(GetFiles(c)) \subseteq StoredAt(c)
        /\ StoredAt(c) \cap Files \subseteq FilesOf(GetFiles(c)) \cup failed
        /\ Cardinality(GetFiles(c)) = Cardinality(FilesOf(GetFiles(c)))

(* Its folder has the cover it shows and no other, but for covers the disk refused to *)
(* unlink.  A course that was given a cover which was not in the temporary folder has *)
(* lost its file and keeps the link.                                                  *)
CoverShown ==
    \A c \in Settled \cap There :
        LET shown == IF c \in blank THEN {} ELSE {courses[c].cover} \ {None}
        IN  /\ shown \subseteq StoredAt(c)
            /\ StoredAt(c) \cap Covers \subseteq shown \cup failed

(* It has a contract exactly if the last request that spoke of contracts asked for  *)
(* one, and a creation that could not save its contract leaves none; a deleted      *)
(* course leaves no contract, and no files but those the disk refused to remove.    *)
ContractAsAsked ==
    \A c \in Settled :
        /\ c \in contracts <=> c \in asked
        /\ c \notin There => StoredAt(c) \subseteq failed
=============================================================================
