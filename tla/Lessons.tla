-------------------------------- MODULE Lessons --------------------------------
(***************************************************************************)
(* Lessons and their files (admin/education/lessons, storage, files):      *)
(* administrators upload files into the temporary folder, and the requests *)
(* that create, edit and delete lessons copy them into the folder of a     *)
(* lesson, record them in the files collection and list them in the lesson *)
(* - an await apart from each other, so that requests meet in between and  *)
(* may be cut anywhere.  The status of a lesson and the course or module   *)
(* it belongs to are in Listings.                                          *)
(***************************************************************************)
EXTENDS Naturals, FiniteSets

CONSTANTS
    LessonIds,      \* ids of lessons
    Files,          \* names of uploaded files
    Handlers,       \* requests served at once
    Bodies,         \* the lists of files that requests name
    Failing,        \* files the disk may refuse to copy or to remove
    MaxCopies,      \* bound: documents ever created for one file
    None

Lists == {"homework", "bonus"}

UpdateLessonDto == [Lists -> SUBSET Files]

ASSUME BodiesAssumption == Bodies \subseteq UpdateLessonDto
ASSUME FailingAssumption == Failing \subseteq Files
ASSUME CopiesAssumption == MaxCopies \in Nat
ASSUME NoneAssumption == None \notin LessonIds

VARIABLES
    lessons,        \* the lesson documents
    documents,      \* the files collection
    temporary,      \* files in temporaryFiles
    stored,         \* files in the folder of a lesson, as <<lesson, file>>
    req,            \* the handlers
    copies,         \* history: how many documents were created for a file
    uploaded,       \* history: files uploaded
    removed,        \* history: files dropped by an update or deleted with a lesson
    failed,         \* history: files that could not be copied, unlinked or removed
    disturbed       \* history: lessons two requests worked on at once, or one was cut at

folders == <<temporary, stored>>
history == <<uploaded, removed, failed, disturbed>>
vars == <<lessons, documents, folders, req, copies, history>>

-----------------------------------------------------------------------------
(* A document is told from the others of its file by when it was created. *)
FileDocuments == [file : Files, lesson : LessonIds, copy : 1..MaxCopies]

Empty == [k \in Lists |-> {}]
LessonDocuments == [state : {"none", "there", "deleted"}, files : [Lists -> SUBSET FileDocuments]]
NoLesson == [state |-> "none", files |-> Empty]

Steps == {"idle", "folder", "compare", "unlink", "forget", "filter", "copy", "record",
          "discard", "lists", "delete", "rmdir"}
Requests ==
    [pc : Steps, lesson : LessonIds \cup {None}, creates : BOOLEAN, list : Lists,
     body : [Lists -> SUBSET Files],            \* what the request names
     old : [Lists -> SUBSET FileDocuments],     \* the lists it read at first
     gone : SUBSET FileDocuments,               \* documents it drops
     files : SUBSET Files,                      \* files it adds
     copied : SUBSET Files,
     new : [Lists -> SUBSET FileDocuments]]     \* the lists it will write
Idle == [pc |-> "idle", lesson |-> None, creates |-> FALSE, list |-> "homework", body |-> Empty,
         old |-> Empty, gone |-> {}, files |-> {}, copied |-> {}, new |-> Empty]

There     == {l \in LessonIds : lessons[l].state = "there"}
AtWork(l) == {h \in Handlers : req[h].lesson = l}
FilesOf(ds) == {d.file : d \in ds}
Listed(l) == UNION {lessons[l].files[k] : k \in Lists}

Begin(h, r) ==
    /\ req[h] = Idle
    /\ req' = [req EXCEPT ![h] = r]
    /\ disturbed' = IF AtWork(r.lesson) = {} THEN disturbed ELSE disturbed \cup {r.lesson}
Continue(h, r) == req' = [req EXCEPT ![h] = r]
Goto(h, pc)    == req' = [req EXCEPT ![h].pc = pc]

Init ==
    /\ lessons = [l \in LessonIds |-> NoLesson]
    /\ documents = {} /\ temporary = {} /\ stored = {}
    /\ req = [h \in Handlers |-> Idle]
    /\ copies = [f \in Files |-> 0]
    /\ uploaded = {} /\ removed = {} /\ failed = {} /\ disturbed = {}

-----------------------------------------------------------------------------
(* A file is uploaded under a name of its own. *)
UploadFiles(f) ==
    /\ f \notin uploaded
    /\ uploaded' = uploaded \cup {f}
    /\ temporary' = temporary \cup {f}
    /\ UNCHANGED <<lessons, documents, stored, req, copies, removed, failed, disturbed>>

(* POST create: the lesson is saved before its files are looked at. *)
CreateLesson(h, l, b) ==
    /\ lessons[l] = NoLesson
    /\ lessons' = [lessons EXCEPT ![l].state = "there"]
    /\ Begin(h, [Idle EXCEPT !.pc = "folder", !.lesson = l, !.creates = TRUE, !.body = b])
    /\ UNCHANGED <<documents, folders, copies, uploaded, removed, failed>>

(* PUT edit: the lesson is read once, its lists are compared with the body later; its *)
(* other fields are written in between, whether it is still there or not.             *)
UpdateLesson(h, l, b) ==
    /\ l \in There
    /\ Begin(h, [Idle EXCEPT !.pc = "compare", !.lesson = l, !.body = b, !.old = lessons[l].files])
    /\ UNCHANGED <<lessons, documents, folders, copies, uploaded, removed, failed>>

(* POST delete. *)
DeleteLesson(h, l) ==
    /\ l \in There
    /\ Begin(h, [Idle EXCEPT !.pc = "delete", !.lesson = l])
    /\ UNCHANGED <<lessons, documents, folders, copies, uploaded, removed, failed>>

-----------------------------------------------------------------------------
CreateLessonStorage(h) ==
    /\ req[h].pc = "folder"
    /\ Continue(h, [req[h] EXCEPT !.pc = "filter", !.files = req[h].body["homework"]])
    /\ UNCHANGED <<lessons, documents, folders, copies, history>>

(* What follows a list: the other list; at the end an update writes both lists, a *)
(* creation writes them if it was given bonus files, and only then.               *)
NextList(r) ==
    IF r.list = "homework"
    THEN [r EXCEPT !.list = "bonus", !.files = r.body["bonus"], !.copied = {},
                   !.pc = IF r.creates THEN "filter" ELSE "compare"]
    ELSE IF r.creates /\ r.body["bonus"] = {} THEN Idle ELSE [r EXCEPT !.pc = "lists"]

(* Mutant: the lists are compared the wrong way round. *)
Swapped(known, names) == {d \in known : d.file \in names}

(* Old and new list are compared by the names of the files, the old list as far *)
(* as its documents are still there.                                            *)
GetFilesByIds(ids) == ids \cap documents
OnlyInOld(known, names) == {d \in known : d.file \notin names}
OnlyInNew(known, names) == names \ FilesOf(known)
InBoth(known, names)    == {d \in known : d.file \in names}

Compare(h) ==
    LET r == req[h]
        known == GetFilesByIds(r.old[r.list])
        names == r.body[r.list]
    IN  /\ r.pc = "compare"
        /\ Continue(h, [r EXCEPT !.pc = IF OnlyInOld(known, names) = {} THEN "filter" ELSE "unlink",
                                 !.old[r.list] = {}, !.body[r.list] = {},
                                 !.gone = OnlyInOld(known, names),
                                 !.files = OnlyInNew(known, names),
                                 !.new[r.list] = InBoth(known, names)])
        /\ UNCHANGED <<lessons, documents, folders, copies, history>>

(* Mutant: only the documents are dropped. *)
NoUnlink(h, bad) ==
    /\ req[h].pc = "unlink" /\ bad = {}
    /\ Goto(h, "forget")
    /\ UNCHANGED <<lessons, documents, folders, copies, history>>

(* A file that cannot be unlinked is logged and left. *)
DeleteOldFiles(h, bad) ==
    LET r == req[h]
        gone == FilesOf(r.gone) \ bad
    IN  /\ r.pc = "unlink" /\ bad \subseteq FilesOf(r.gone) \cap Failing
        /\ stored' = stored \ ({r.lesson} \X gone)
        /\ removed' = removed \cup gone
        /\ failed' = failed \cup bad
        /\ Goto(h, "forget")
        /\ UNCHANGED <<lessons, documents, temporary, copies, uploaded, disturbed>>

DeleteFileDocuments(h) ==
    /\ req[h].pc = "forget"
    /\ documents' = documents \ req[h].gone
    /\ Continue(h, [req[h] EXCEPT !.pc = "filter", !.gone = {}])
    /\ UNCHANGED <<lessons, folders, copies, history>>

-----------------------------------------------------------------------------
(* Mutant: the temporary file goes before it is copied, as in a move. *)
MovedFirst(h) ==
    LET r == req[h]
        existing == r.files \cap temporary
    IN  /\ r.pc = "filter"
        /\ temporary' = temporary \ existing
        /\ Continue(h, IF existing = {} THEN NextList(r)
                       ELSE [r EXCEPT !.pc = "copy", !.files = existing])
        /\ UNCHANGED <<lessons, documents, stored, copies, history>>

(* Files that are not in the temporary folder are passed over. *)
FilterExistingFiles(h) ==
    LET r == req[h]
        existing == r.files \cap temporary
    IN  /\ r.pc = "filter"
        /\ Continue(h, IF existing = {} THEN NextList(r)
                       ELSE [r EXCEPT !.pc = "copy", !.files = existing])
        /\ UNCHANGED <<lessons, documents, folders, copies, history>>

(* The folder is made if it is not there.  A file that cannot be copied is logged and *)
(* left out; one that another request has taken since it was looked for is no failure *)
(* of the disk.                                                                       *)
CopyFiles(h, bad) ==
    LET r == req[h]
        copied == (r.files \cap temporary) \ bad
    IN  /\ r.pc = "copy" /\ bad \subseteq r.files \cap temporary \cap Failing
        /\ stored' = stored \cup ({r.lesson} \X copied)
        /\ failed' = failed \cup bad
        /\ Continue(h, [r EXCEPT !.copied = copied,
                                 !.pc = IF r.creates THEN "discard" ELSE "record"])
        /\ UNCHANGED <<lessons, documents, temporary, copies, uploaded, removed, disturbed>>

(* attachTargetToFiles and createFiles: a document for each copied file. *)
AttachTarget(l, files) == {[file |-> f, lesson |-> l, copy |-> copies[f] + 1] : f \in files}

CreateFiles(h) ==
    LET r == req[h]
        saved == AttachTarget(r.lesson, r.copied)
        listed == [r EXCEPT !.new[r.list] = @ \cup saved]
    IN  /\ r.pc = "record" /\ \A f \in r.copied : copies[f] < MaxCopies
        /\ documents' = documents \cup saved
        /\ copies' = [f \in Files |-> copies[f] + IF f \in r.copied THEN 1 ELSE 0]
        /\ Continue(h, IF r.creates THEN NextList(listed) ELSE [listed EXCEPT !.pc = "discard"])
        /\ UNCHANGED <<lessons, folders, history>>

(* What existed is deleted from the temporary folder, whether it was copied or not; *)
(* what cannot be unlinked is logged and stays there, to be copied again.            *)
DeleteTemporary(h, bad) ==
    LET r == req[h]
    IN  /\ r.pc = "discard" /\ bad \subseteq r.files \cap temporary \cap Failing
        /\ temporary' = temporary \ (r.files \ bad)
        /\ failed' = failed \cup bad
        /\ Continue(h, IF r.creates THEN [r EXCEPT !.pc = "record"] ELSE NextList(r))
        /\ UNCHANGED <<lessons, documents, stored, copies, uploaded, removed, disturbed>>

(* The last write sets both lists; a creation sets those it found files for. *)
UpdateLists(h) ==
    LET r == req[h]
        written == [k \in Lists |-> IF r.creates /\ r.new[k] = {} THEN lessons[r.lesson].files[k]
                                    ELSE r.new[k]]
    IN  /\ r.pc = "lists"
        /\ lessons' = IF r.lesson \in There THEN [lessons EXCEPT ![r.lesson].files = written]
                      ELSE lessons
        /\ Continue(h, Idle)
        /\ UNCHANGED <<documents, folders, copies, history>>

-----------------------------------------------------------------------------
(* The documents of the files of a lesson are not deleted with it. *)
DeleteMany(h) ==
    /\ req[h].pc = "delete"
    /\ lessons' = [lessons EXCEPT ![req[h].lesson] = [NoLesson EXCEPT !.state = "deleted"]]
    /\ Goto(h, "rmdir")
    /\ UNCHANGED <<documents, folders, copies, history>>

(* The folder goes, but for what cannot be removed: the request answers all the same. *)
DeleteLessonFolder(h, bad) ==
    LET l == req[h].lesson
        held == {f \in Files : <<l, f>> \in stored}
    IN  /\ req[h].pc = "rmdir" /\ bad \subseteq held \cap Failing
        /\ stored' = stored \ ({l} \X (held \ bad))
        /\ removed' = removed \cup (held \ bad)
        /\ failed' = failed \cup bad
        /\ Continue(h, Idle)
        /\ UNCHANGED <<lessons, documents, temporary, copies, uploaded, disturbed>>

(* A call fails or the process dies: what was written stays. *)
Cut(h) ==
    /\ req[h] # Idle
    /\ disturbed' = disturbed \cup {req[h].lesson}
    /\ Continue(h, Idle)
    /\ UNCHANGED <<lessons, documents, folders, copies, uploaded, removed, failed>>

Next ==
    \/ \E f \in Files : UploadFiles(f)
    \/ \E h \in Handlers, l \in LessonIds :
          \/ \E b \in Bodies : CreateLesson(h, l, b) \/ UpdateLesson(h, l, b)
          \/ DeleteLesson(h, l)
    \/ \E h \in Handlers :
          \/ CreateLessonStorage(h) \/ Compare(h)
          \/ DeleteFileDocuments(h) \/ FilterExistingFiles(h) \/ CreateFiles(h)
          \/ UpdateLists(h) \/ DeleteMany(h) \/ Cut(h)
          \/ \E bad \in SUBSET Failing :
                \/ DeleteOldFiles(h, bad) \/ CopyFiles(h, bad)
                \/ DeleteTemporary(h, bad) \/ DeleteLessonFolder(h, bad)

Spec == Init /\ [][Next]_vars

-----------------------------------------------------------------------------
(* Every variable has its type. *)
TypeOK ==
    /\ lessons \in [LessonIds -> LessonDocuments]
    /\ documents \subseteq FileDocuments
    /\ temporary \subseteq Files /\ stored \subseteq LessonIds \X Files
    /\ req \in [Handlers -> Requests]
    /\ copies \in [Files -> 0..MaxCopies]
    /\ uploaded \subseteq Files /\ removed \subseteq Files /\ failed \subseteq Files
    /\ disturbed \subseteq LessonIds

(* No uploaded file is lost on its way into a lesson, however requests meet and are *)
(* cut: it waits in the temporary folder or is in the folder of a lesson, unless a  *)
(* request dropped it with the lesson or for an update, or the disk refused it.     *)
NothingLost ==
    \A f \in uploaded \ (removed \cup failed) :
        f \in temporary \/ \E l \in LessonIds : <<l, f>> \in stored

(* A file in the folder of a lesson has its document, by which it is listed, served *)
(* and dropped, or a request is about to create it; but for lessons two requests    *)
(* worked on at once or one was cut at, and for files the disk would not remove.    *)
StoredIsRecorded ==
    \A l \in LessonIds \ disturbed, f \in Files \ failed :
        <<l, f>> \in stored =>
            \/ \E d \in documents : d.file = f /\ d.lesson = l
            \/ AtWork(l) # {}

(* What an undisturbed lesson lists is there: the document and the file, in the      *)
(* lesson's own folder, also when requests at other lessons take the same uploads.   *)
(* A file the disk refused may be missing: one that could not be unlinked from the   *)
(* temporary folder is copied for the other list too, and goes from the folder with  *)
(* the first of its two documents.                                                   *)
ListedIsStored ==
    \A l \in There \ disturbed : AtWork(l) = {} =>
        \A d \in Listed(l) :
            /\ d \in documents /\ d.lesson = l
            /\ d.file \in failed \/ <<l, d.file>> \in stored

(* The comment "save to lesson" over the ids of the homework files: what was recorded *)
(* for a lesson is listed by it.                                                      *)
RecordedIsListed ==
    \A l \in There \ disturbed : AtWork(l) = {} =>
        \A d \in documents : d.lesson = l => d \in Listed(l)
=============================================================================
