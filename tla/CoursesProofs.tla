------------------------------ MODULE CoursesProofs ------------------------------
(***************************************************************************)
(* That no upload is lost on its way into a course, that a course has the  *)
(* contract it was asked to have, and that its folder has the cover it     *)
(* shows and the materials that have a document, for any number of         *)
(* requests, courses, covers and files.                                    *)
(***************************************************************************)
EXTENDS Courses, FiniteSetTheorems, TLAPS

(* An upload that no step of a request can lose any more: it is in the folder of a *)
(* course, was replaced, dropped or deleted, or has been refused by the disk.      *)
Secured(u) == (\E c \in CourseIds : <<c, u>> \in stored) \/ u \in removed \cup failed

(* A request at work has a course; the uploads it is about to delete from the temporary *)
(* folders were uploaded, and are secured from the moment they were copied.             *)
HandlerAt(h) ==
    /\ req[h].pc = "idle" => req[h] = Idle
    /\ req[h].pc # "idle" => req[h].course \in CourseIds
    /\ req[h].pc = "copy" => req[h].files \subseteq uploaded
    /\ req[h].pc \in {"record", "discard"} => \A f \in req[h].files : Secured(f)
    /\ req[h].pc = "drop" => req[h].old # None
    /\ req[h].pc \in {"drop", "cover"} => req[h].body.cover # None
    /\ req[h].pc = "uncover" => Secured(req[h].body.cover)

CoursesInv ==
    /\ TypeOK
    /\ temporary \subseteq uploaded
    /\ \A h \in Handlers : HandlerAt(h)
    /\ UploadsKept

(* A request with one field set. *)
LEMMA RequestSet ==
    ASSUME NEW r \in Requests
    PROVE  /\ \A pc \in Steps : [r EXCEPT !.pc = pc] \in Requests
           /\ \A c \in CourseIds : [r EXCEPT !.course = c] \in Requests
           /\ \A b \in BOOLEAN : /\ [r EXCEPT !.creates = b] \in Requests
                                 /\ [r EXCEPT !.made = b] \in Requests
           /\ \A b \in Bodies : [r EXCEPT !.body = b] \in Requests
           /\ \A v \in Covers \cup {None} : [r EXCEPT !.old = v] \in Requests
           /\ \A S \in SUBSET FileDocuments : [r EXCEPT !.gone = S] \in Requests
           /\ \A S \in SUBSET Files : /\ [r EXCEPT !.files = S] \in Requests
                                      /\ [r EXCEPT !.copied = S] \in Requests
BY Zenon DEF Requests

LEMMA StepsThere ==
    \A pc \in {"idle", "contract", "folder", "drop", "cover", "uncover", "save", "compare", "unlink",
               "forget", "filter", "copy", "record", "discard", "bare", "delete", "rmdir"} : pc \in Steps
BY DEF Steps

LEMMA IdleTyped == Idle \in Requests
<1>1. Nothing \in Bodies
  BY DEF Nothing, Bodies, Contract
<1>2. "idle" \in Steps /\ None \in CourseIds \cup {None} /\ None \in Covers \cup {None}
  BY StepsThere
<1> QED BY <1>1, <1>2, Zenon DEF Idle, Requests

LEMMA DocumentsTyped ==
    ASSUME TypeOK
    PROVE  /\ \A S \in SUBSET FileDocuments : FilesOf(S) \in SUBSET Files
           /\ \A c \in CourseIds : courses[c].cover \in Covers \cup {None}
           /\ There \subseteq CourseIds
           /\ \A h \in Handlers : /\ req[h] \in Requests /\ req[h].body \in Bodies
                                  /\ req[h].old \in Covers \cup {None}
                                  /\ req[h].files \in SUBSET Files /\ req[h].copied \in SUBSET Files
                                  /\ req[h].gone \in SUBSET FileDocuments
<1>1. /\ courses \in [CourseIds -> CourseDocuments] /\ req \in [Handlers -> Requests]
  BY DEF TypeOK
<1>2. \A r \in Requests : /\ r.body \in Bodies /\ r.old \in Covers \cup {None}
                          /\ r.files \in SUBSET Files /\ r.copied \in SUBSET Files
                          /\ r.gone \in SUBSET FileDocuments
  BY Zenon DEF Requests
<1>3. \A S \in SUBSET FileDocuments : FilesOf(S) \in SUBSET Files
  BY DEF FileDocuments, FilesOf
<1>4. \A d \in CourseDocuments : d.cover \in Covers \cup {None}
  BY Zenon DEF CourseDocuments
<1> QED BY <1>1, <1>2, <1>3, <1>4 DEF There

LEMMA ContinueTyped ==
    ASSUME TypeOK, NEW h \in Handlers, NEW r \in Requests, Continue(h, r)
    PROVE  req' \in [Handlers -> Requests]
BY DEF TypeOK, Continue

LEMMA BeginTyped ==
    ASSUME TypeOK, NEW h \in Handlers, NEW r \in Requests, Begin(h, r)
    PROVE  req' \in [Handlers -> Requests]
BY DEF TypeOK, Begin

LEMMA GotoTyped ==
    ASSUME TypeOK, NEW h \in Handlers, NEW pc \in Steps, Goto(h, pc)
    PROVE  req' \in [Handlers -> Requests]
<1>1. req \in [Handlers -> Requests] /\ req[h] \in Requests
  BY DEF TypeOK
<1>2. [req[h] EXCEPT !.pc = pc] \in Requests
  BY <1>1, RequestSet
<1>3. req' = [req EXCEPT ![h] = [req[h] EXCEPT !.pc = pc]]
  BY <1>1 DEF Goto
<1> QED BY <1>1, <1>2, <1>3

LEMMA AfterFilesTyped ==
    ASSUME NEW r \in Requests, r.course \in CourseIds
    PROVE  AfterFiles(r) \in Requests
<1> DEFINE r1 == [Idle EXCEPT !.pc = "contract"]
           r2 == [r1 EXCEPT !.course = r.course]
           b  == [r2.body EXCEPT !.contract = r.body.contract]
           r3 == [r2 EXCEPT !.body = b]
<1>1. r1 \in Requests
  BY StepsThere, IdleTyped, RequestSet, Zenon
<1>2. r2 \in Requests
  BY <1>1, RequestSet, Zenon
<1>3. r.body \in Bodies /\ r2.body \in Bodies
  BY <1>2, Zenon DEF Requests
<1>4. b \in Bodies
  BY <1>3 DEF Bodies
<1>5. r3 \in Requests
  BY <1>2, <1>4, RequestSet, Zenon
<1>6. AfterFiles(r) = IF r.creates THEN Idle ELSE r3
  BY DEF AfterFiles, Idle
<1> QED BY <1>5, <1>6, IdleTyped

(* A request that works on files works on a course, and the documents it creates are new. *)
LEMMA Recorded ==
    ASSUME TypeOK, NEW h \in Handlers, req[h].course \in CourseIds,
           \A f \in req[h].copied : copies[f] < MaxCopies
    PROVE  /\ {[file |-> f, course |-> req[h].course, copy |-> copies[f] + 1] : f \in req[h].copied}
                 \in SUBSET FileDocuments
           /\ [f \in Files |-> copies[f] + IF f \in req[h].copied THEN 1 ELSE 0] \in [Files -> 0..MaxCopies]
<1>1. req[h].copied \in SUBSET Files /\ copies \in [Files -> 0..MaxCopies] /\ MaxCopies \in Nat
  BY DocumentsTyped, CopiesAssumption DEF TypeOK
<1>2. \A f \in req[h].copied : copies[f] + 1 \in 1..MaxCopies
  BY <1>1
<1>3. \A f \in Files : copies[f] + (IF f \in req[h].copied THEN 1 ELSE 0) \in 0..MaxCopies
  BY <1>1, <1>2
<1> QED BY <1>1, <1>2, <1>3 DEF FileDocuments

(* What the request handlers do to their requests, action by action. *)
LEMMA RequestsTyped ==
    ASSUME TypeOK, \A h \in Handlers : HandlerAt(h), [Next]_vars
    PROVE  req' \in [Handlers -> Requests]
<1>1. ASSUME NEW h \in Handlers, NEW c \in CourseIds, NEW b \in Sent, CreateCourse(h, c, b)
      PROVE  req' \in [Handlers -> Requests]
  <2> DEFINE pc == IF b.contract = "absent" THEN "folder" ELSE "contract"
             r1 == [Idle EXCEPT !.pc = pc]
             r2 == [r1 EXCEPT !.course = c]
             r3 == [r2 EXCEPT !.creates = TRUE]
             r4 == [r3 EXCEPT !.body = b]
  <2>1. pc \in Steps /\ b \in Bodies /\ TRUE \in BOOLEAN
    BY StepsThere, SentAssumption
  <2>2. r1 \in Requests
    BY <2>1, IdleTyped, RequestSet, Zenon
  <2>3. r2 \in Requests
    BY <2>2, RequestSet, Zenon
  <2>4. r3 \in Requests
    BY <2>1, <2>3, RequestSet, Zenon
  <2>5. r4 \in Requests
    BY <2>1, <2>4, RequestSet, Zenon
  <2>6. Begin(h, r4)
    BY <1>1 DEF CreateCourse
  <2> QED BY <2>5, <2>6, BeginTyped
<1>2. ASSUME NEW h \in Handlers, NEW c \in CourseIds, NEW b \in Sent, UpdateCourse(h, c, b)
      PROVE  req' \in [Handlers -> Requests]
  <2> DEFINE old == courses[c].cover
             r1 == [Idle EXCEPT !.pc = FirstStep(b.cover, old)]
             r2 == [r1 EXCEPT !.course = c]
             r3 == [r2 EXCEPT !.body = b]
             r4 == [r3 EXCEPT !.old = old]
  <2>1. FirstStep(b.cover, old) \in Steps /\ b \in Bodies /\ old \in Covers \cup {None}
    BY StepsThere, SentAssumption, DocumentsTyped DEF FirstStep
  <2>2. r1 \in Requests
    BY <2>1, IdleTyped, RequestSet, Zenon
  <2>3. r2 \in Requests
    BY <2>2, RequestSet, Zenon
  <2>4. r3 \in Requests
    BY <2>1, <2>3, RequestSet, Zenon
  <2>5. r4 \in Requests
    BY <2>1, <2>4, RequestSet, Zenon
  <2>6. Begin(h, r4)
    BY <1>2 DEF UpdateCourse
  <2> QED BY <2>5, <2>6, BeginTyped
<1>3. ASSUME NEW h \in Handlers, NEW c \in CourseIds, DeleteCourse(h, c)
      PROVE  req' \in [Handlers -> Requests]
  <2>1. [[Idle EXCEPT !.pc = "bare"] EXCEPT !.course = c] \in Requests
    BY StepsThere, IdleTyped, RequestSet
  <2> QED BY <1>3, <2>1, BeginTyped DEF DeleteCourse
<1>4. ASSUME NEW h \in Handlers, SetContract(h)
      PROVE  req' \in [Handlers -> Requests]
  <2>1. [req[h] EXCEPT !.pc = "folder"] \in Requests
    BY DocumentsTyped, StepsThere, RequestSet
  <2>2. AfterContract(req[h]) \in Requests
    BY <2>1, IdleTyped DEF AfterContract
  <2> QED BY <1>4, <2>2, ContinueTyped DEF SetContract
<1>5. ASSUME NEW h \in Handlers,
             \/ CreateCourseStorage(h) \/ DropCover(h) \/ CompressCover(h) \/ DeleteOldFiles(h)
             \/ DeleteContract(h) \/ DeleteMany(h)
      PROVE  req' \in [Handlers -> Requests]
  BY <1>5, StepsThere, GotoTyped
     DEF CreateCourseStorage, DropCover, CompressCover, DeleteOldFiles, DeleteContract, DeleteMany
<1>6. ASSUME NEW h \in Handlers, DeleteTemporaryCover(h)
      PROVE  req' \in [Handlers -> Requests]
  <2>1. [req[h] EXCEPT !.pc = "save"] \in Requests
    BY DocumentsTyped, StepsThere, RequestSet
  <2>2. [[req[h] EXCEPT !.pc = "save"] EXCEPT !.made = TRUE] \in Requests
    BY <2>1, RequestSet, Zenon
  <2> QED BY <1>6, <2>2, ContinueTyped DEF DeleteTemporaryCover
<1>7. ASSUME NEW h \in Handlers, SaveCourse(h)
      PROVE  req' \in [Handlers -> Requests]
  <2> DEFINE r1 == [req[h] EXCEPT !.pc = IF req[h].creates THEN "filter" ELSE "compare"]
             b  == [req[h].body EXCEPT !.cover = None]
             r2 == [r1 EXCEPT !.body = b]
             r3 == [r2 EXCEPT !.old = None]
             r4 == [r3 EXCEPT !.made = FALSE]
  <2>1. r1 \in Requests
    BY DocumentsTyped, StepsThere, RequestSet
  <2>2. b \in Bodies
    BY DocumentsTyped DEF Bodies
  <2>3. r2 \in Requests
    BY <2>1, <2>2, RequestSet, Zenon
  <2>4. r3 \in Requests
    BY <2>3, RequestSet, Zenon
  <2>5. r4 \in Requests
    BY <2>4, RequestSet, Zenon
  <2>6. Continue(h, r4)
    BY <1>7, DocumentsTyped DEF SaveCourse, Continue, Requests
  <2> QED BY <2>5, <2>6, ContinueTyped
<1>8. ASSUME NEW h \in Handlers, Compare(h)
      PROVE  req' \in [Handlers -> Requests]
  <2> DEFINE r == req[h]
             known == GetFiles(r.course)
             gone == {d \in known : d.file \notin r.body.files}
             pc == IF gone = {} THEN "filter" ELSE "unlink"
             r1 == [r EXCEPT !.pc = pc]
             r2 == [r1 EXCEPT !.gone = gone]
             r3 == [r2 EXCEPT !.body = [r.body EXCEPT !.files = r.body.files \ FilesOf(known)]]
  <2>1. r \in Requests /\ r.body \in Bodies /\ gone \in SUBSET FileDocuments /\ pc \in Steps
    BY DocumentsTyped, StepsThere DEF GetFiles, TypeOK
  <2>2. [r.body EXCEPT !.files = r.body.files \ FilesOf(known)] \in Bodies
    BY <2>1 DEF Bodies
  <2>3. r1 \in Requests
    BY <2>1, RequestSet, Zenon
  <2>4. r2 \in Requests
    BY <2>1, <2>3, RequestSet, Zenon
  <2>5. r3 \in Requests
    BY <2>2, <2>4, RequestSet, Zenon
  <2>6. Continue(h, r3)
    BY <1>8, <2>1 DEF Compare, Continue, Requests
  <2> QED BY <2>5, <2>6, ContinueTyped
<1>9. ASSUME NEW h \in Handlers, DeleteFileDocuments(h)
      PROVE  req' \in [Handlers -> Requests]
  <2>1. [req[h] EXCEPT !.pc = "filter"] \in Requests /\ {} \in SUBSET FileDocuments
    BY DocumentsTyped, StepsThere, RequestSet
  <2>2. [[req[h] EXCEPT !.pc = "filter"] EXCEPT !.gone = {}] \in Requests
    BY <2>1, RequestSet, Zenon
  <2> QED BY <1>9, <2>2, ContinueTyped DEF DeleteFileDocuments
<1>10. ASSUME NEW h \in Handlers, FilterExistingFiles(h)
       PROVE  req' \in [Handlers -> Requests]
  <2>1. req[h].body.files \cap temporary \in SUBSET Files /\ req[h] \in Requests
    BY DocumentsTyped DEF Bodies
  <2>2. [req[h] EXCEPT !.pc = "copy"] \in Requests
    BY <2>1, StepsThere, RequestSet
  <2>3. [[req[h] EXCEPT !.pc = "copy"] EXCEPT !.files = req[h].body.files \cap temporary] \in Requests
    BY <2>1, <2>2, RequestSet, Zenon
  <2>4. AfterFiles(req[h]) \in Requests
    BY <1>10, <2>1, AfterFilesTyped DEF FilterExistingFiles, HandlerAt
  <2> QED BY <1>10, <2>1, <2>3, <2>4, ContinueTyped DEF FilterExistingFiles
<1>11. ASSUME NEW h \in Handlers, CopyFiles(h)
       PROVE  req' \in [Handlers -> Requests]
  <2>1. PICK copied \in SUBSET Files :
             Continue(h, [req[h] EXCEPT !.copied = copied, !.pc = IF req[h].creates THEN "discard" ELSE "record"])
    BY <1>11, DocumentsTyped DEF CopyFiles
  <2>2. req[h] \in Requests /\ (IF req[h].creates THEN "discard" ELSE "record") \in Steps
    BY DocumentsTyped, StepsThere
  <2>3. [req[h] EXCEPT !.copied = copied] \in Requests
    BY <2>2, RequestSet, Zenon
  <2>4. [[req[h] EXCEPT !.copied = copied]
           EXCEPT !.pc = IF req[h].creates THEN "discard" ELSE "record"] \in Requests
    BY <2>2, <2>3, RequestSet, Zenon
  <2> QED BY <2>1, <2>4, ContinueTyped
<1>12. ASSUME NEW h \in Handlers, CreateFiles(h) \/ DeleteTemporary(h)
       PROVE  req' \in [Handlers -> Requests]
  <2>1. /\ req[h] \in Requests /\ [req[h] EXCEPT !.pc = "discard"] \in Requests
        /\ [req[h] EXCEPT !.pc = "record"] \in Requests
    BY DocumentsTyped, StepsThere, RequestSet
  <2>2. AfterFiles(req[h]) \in Requests
    BY <1>12, <2>1, AfterFilesTyped DEF CreateFiles, DeleteTemporary, HandlerAt
  <2> QED BY <1>12, <2>1, <2>2, IdleTyped, ContinueTyped DEF CreateFiles, DeleteTemporary
<1>13. ASSUME NEW h \in Handlers, DeleteCourseFolder(h) \/ Cut(h)
       PROVE  req' \in [Handlers -> Requests]
  BY <1>13, IdleTyped, ContinueTyped DEF DeleteCourseFolder, Cut
<1>14. CASE (\E u \in Uploads : Upload(u)) \/ UNCHANGED vars
  BY <1>14 DEF Upload, vars, TypeOK
<1> QED BY <1>1, <1>2, <1>3, <1>4, <1>5, <1>6, <1>7, <1>8, <1>9, <1>10, <1>11, <1>12, <1>13, <1>14 DEF Next

(* What the actions do to the folders: the temporary folders are filled by uploads and  *)
(* emptied by two steps alone, and what leaves the folder of a course is among the      *)
(* uploads that were removed.                                                           *)
LEMMA FoldersMove ==
    ASSUME TypeOK, \A h \in Handlers : HandlerAt(h), [Next]_vars
    PROVE  /\ temporary' \subseteq Uploads /\ stored' \subseteq CourseIds \X Uploads
           /\ uploaded' \subseteq Uploads /\ removed' \subseteq Uploads /\ failed' \subseteq Uploads
           /\ uploaded \subseteq uploaded' /\ removed \subseteq removed' /\ failed \subseteq failed'
           /\ \A c \in CourseIds, u \in Uploads : <<c, u>> \in stored => <<c, u>> \in stored' \/ u \in removed'
           /\ \/ temporary' = temporary /\ uploaded' = uploaded
              \/ \E u \in Uploads : Upload(u)
              \/ \E h \in Handlers : DeleteTemporary(h) \/ DeleteTemporaryCover(h)
<1>1. CASE \E u \in Uploads : Upload(u)
  BY <1>1 DEF Upload, TypeOK
<1>2. CASE \E h \in Handlers : DeleteTemporary(h) \/ DeleteTemporaryCover(h)
  <2>1. PICK h \in Handlers : DeleteTemporary(h) \/ DeleteTemporaryCover(h)
    BY <1>2
  <2>2. req[h].files \in SUBSET Uploads
    BY DocumentsTyped DEF Uploads
  <2>3. CASE DeleteTemporary(h)
    BY <1>2, <2>2, <2>3 DEF DeleteTemporary, Refuse, TypeOK
  <2>4. CASE DeleteTemporaryCover(h)
    BY <1>2, <2>4 DEF DeleteTemporaryCover, TypeOK, history
  <2> QED BY <2>1, <2>3, <2>4
<1>3. CASE \E h \in Handlers : DropCover(h)
  <2>1. PICK h \in Handlers : DropCover(h)
    BY <1>3
  <2>2. req[h].old \in Uploads
    BY <2>1, DocumentsTyped DEF DropCover, HandlerAt, Uploads
  <2> QED BY <2>1, <2>2, FailingAssumption DEF DropCover, Unlink, Refuse, TypeOK
<1>4. CASE \E h \in Handlers : CompressCover(h)
  <2>1. PICK h \in Handlers : CompressCover(h)
    BY <1>4
  <2>2. req[h].course \in CourseIds
    BY <2>1 DEF CompressCover, HandlerAt
  <2> QED BY <2>1, <2>2 DEF CompressCover, TypeOK
<1>5. CASE \E h \in Handlers : DeleteOldFiles(h)
  <2>1. PICK h \in Handlers : DeleteOldFiles(h)
    BY <1>5
  <2>2. FilesOf(req[h].gone) \in SUBSET Uploads
    BY DocumentsTyped DEF Uploads
  <2> QED BY <2>1, <2>2, FailingAssumption DEF DeleteOldFiles, Unlink, Refuse, TypeOK
<1>6. CASE \E h \in Handlers : CopyFiles(h)
  <2>1. PICK h \in Handlers : CopyFiles(h)
    BY <1>6
  <2>2. req[h].files \in SUBSET Uploads /\ req[h].course \in CourseIds
    BY <2>1, DocumentsTyped DEF CopyFiles, HandlerAt, Uploads
  <2> QED BY <2>1, <2>2 DEF CopyFiles, Refuse, TypeOK
<1>7. CASE \E h \in Handlers : DeleteCourseFolder(h)
  <2>1. PICK h \in Handlers : DeleteCourseFolder(h)
    BY <1>7
  <2> QED BY <2>1 DEF DeleteCourseFolder, Unlink, Refuse, StoredAt, TypeOK
<1>8. CASE \/ \E h \in Handlers, c \in CourseIds :
                \/ DeleteCourse(h, c)
                \/ \E b \in Sent : CreateCourse(h, c, b) \/ UpdateCourse(h, c, b)
           \/ \E h \in Handlers :
                \/ SetContract(h) \/ CreateCourseStorage(h) \/ SaveCourse(h) \/ Compare(h) \/ DeleteFileDocuments(h)
                \/ FilterExistingFiles(h) \/ CreateFiles(h) \/ DeleteContract(h) \/ DeleteMany(h) \/ Cut(h)
           \/ UNCHANGED vars
  <2>1. /\ temporary' = temporary /\ stored' = stored /\ uploaded' = uploaded
        /\ removed' = removed /\ failed' = failed
    BY <1>8 DEF DeleteCourse, CreateCourse, UpdateCourse, SetContract, CreateCourseStorage, SaveCourse, Compare,
                DeleteFileDocuments, FilterExistingFiles, CreateFiles, DeleteContract, DeleteMany, Cut,
                folders, history, vars
  <2> QED BY <2>1 DEF TypeOK
<1> QED BY <1>1, <1>2, <1>3, <1>4, <1>5, <1>6, <1>7, <1>8 DEF Next

LEMMA TypeStep ==
    ASSUME TypeOK, \A h \in Handlers : HandlerAt(h), [Next]_vars
    PROVE  TypeOK'
<1>1. req' \in [Handlers -> Requests]
  BY RequestsTyped
<1>2. documents' \subseteq FileDocuments /\ copies' \in [Files -> 0..MaxCopies]
  <2>1. ASSUME NEW h \in Handlers, CreateFiles(h)
        PROVE  documents' \subseteq FileDocuments /\ copies' \in [Files -> 0..MaxCopies]
    <3>1. req[h].course \in CourseIds /\ \A f \in req[h].copied : copies[f] < MaxCopies
      BY <2>1 DEF CreateFiles, HandlerAt
    <3> QED BY <2>1, <3>1, Recorded DEF CreateFiles, TypeOK
  <2>2. CASE \E h \in Handlers : DeleteFileDocuments(h)
    BY <2>2 DEF DeleteFileDocuments, TypeOK
  <2>3. CASE \/ \E u \in Uploads : Upload(u)
             \/ \E h \in Handlers, c \in CourseIds :
                  \/ DeleteCourse(h, c)
                  \/ \E b \in Sent : CreateCourse(h, c, b) \/ UpdateCourse(h, c, b)
             \/ \E h \in Handlers :
                  \/ SetContract(h) \/ CreateCourseStorage(h) \/ DropCover(h) \/ CompressCover(h)
                  \/ DeleteTemporaryCover(h) \/ SaveCourse(h) \/ Compare(h) \/ DeleteOldFiles(h)
                  \/ FilterExistingFiles(h) \/ CopyFiles(h) \/ DeleteTemporary(h) \/ DeleteContract(h) \/ DeleteMany(h)
                  \/ DeleteCourseFolder(h) \/ Cut(h)
             \/ UNCHANGED vars
    <3>1. documents' = documents /\ copies' = copies
      BY <2>3, ZenonT(40) DEF Upload, DeleteCourse, CreateCourse, UpdateCourse, SetContract, CreateCourseStorage, DropCover,
                  CompressCover, DeleteTemporaryCover, SaveCourse, Compare, DeleteOldFiles, FilterExistingFiles,
                  CopyFiles, DeleteTemporary, DeleteContract, DeleteMany, DeleteCourseFolder, Cut, vars
    <3> QED BY <3>1 DEF TypeOK
  <2> QED BY <2>1, <2>2, <2>3 DEF Next
<1>3. /\ courses' \in [CourseIds -> CourseDocuments] /\ contracts' \subseteq CourseIds
      /\ asked' \subseteq CourseIds /\ blank' \subseteq CourseIds
  <2>1. ASSUME NEW h \in Handlers, NEW c \in CourseIds,
               DeleteCourse(h, c) \/ \E b \in Sent : CreateCourse(h, c, b) \/ UpdateCourse(h, c, b)
        PROVE  /\ courses' \in [CourseIds -> CourseDocuments] /\ contracts' \subseteq CourseIds
               /\ asked' \subseteq CourseIds /\ blank' \subseteq CourseIds
    <3>1. [courses EXCEPT ![c].state = "there"] \in [CourseIds -> CourseDocuments]
      BY DEF TypeOK, CourseDocuments
    <3>2. \A b \in Sent : b.contract \in {"absent", "empty", "given"}
      BY SentAssumption DEF Bodies, Contract
    <3>3. ASSUME NEW b \in Sent, UpdateCourse(h, c, b)
          PROVE  /\ courses' = courses /\ contracts' = contracts /\ blank' = blank
                 /\ asked' \subseteq CourseIds
      BY <3>2, <3>3 DEF UpdateCourse, TypeOK
    <3> QED BY <2>1, <3>1, <3>3 DEF DeleteCourse, CreateCourse, TypeOK
  <2>2. ASSUME NEW h \in Handlers, SetContract(h) \/ DeleteContract(h) \/ CompressCover(h)
        PROVE  /\ courses' \in [CourseIds -> CourseDocuments] /\ contracts' \subseteq CourseIds
               /\ asked' \subseteq CourseIds /\ blank' \subseteq CourseIds
    <3>1. req[h].course \in CourseIds
      BY <2>2 DEF SetContract, DeleteContract, CompressCover, HandlerAt
    <3>2. req[h].body.contract \in {"absent", "empty", "given"}
      BY DocumentsTyped DEF Bodies, Contract
    <3>3. CASE SetContract(h)
      BY <3>1, <3>2, <3>3 DEF SetContract, history, TypeOK
    <3> QED BY <2>2, <3>1, <3>3 DEF DeleteContract, CompressCover, history, TypeOK
  <2>3. ASSUME NEW h \in Handlers, SaveCourse(h)
        PROVE  /\ courses' \in [CourseIds -> CourseDocuments] /\ contracts' \subseteq CourseIds
               /\ asked' \subseteq CourseIds /\ blank' \subseteq CourseIds
    <3>1. req[h].body.cover \in Covers \cup {None} /\ req[h].course \in CourseIds
      BY <2>3, DocumentsTyped DEF Bodies, SaveCourse, HandlerAt
    <3>2. [courses EXCEPT ![req[h].course].cover = req[h].body.cover] \in [CourseIds -> CourseDocuments]
      BY <3>1 DEF TypeOK, CourseDocuments
    <3> QED BY <2>3, <3>2 DEF SaveCourse, TypeOK
  <2>4. ASSUME NEW h \in Handlers, DeleteMany(h)
        PROVE  /\ courses' \in [CourseIds -> CourseDocuments] /\ contracts' \subseteq CourseIds
               /\ asked' \subseteq CourseIds /\ blank' \subseteq CourseIds
    <3>1. [NoCourse EXCEPT !.state = "deleted"] \in CourseDocuments
      BY DEF NoCourse, CourseDocuments
    <3> QED BY <2>4, <3>1 DEF DeleteMany, history, TypeOK
  <2>5. CASE \/ \E u \in Uploads : Upload(u)
             \/ \E h \in Handlers :
                  \/ CreateCourseStorage(h) \/ DropCover(h) \/ DeleteTemporaryCover(h) \/ Compare(h)
                  \/ DeleteOldFiles(h) \/ DeleteFileDocuments(h) \/ FilterExistingFiles(h) \/ CopyFiles(h)
                  \/ CreateFiles(h) \/ DeleteTemporary(h) \/ DeleteCourseFolder(h) \/ Cut(h)
             \/ UNCHANGED vars
    <3>1. courses' = courses /\ contracts' = contracts /\ asked' = asked /\ blank' = blank
      BY <2>5 DEF Upload, CreateCourseStorage, DropCover, DeleteTemporaryCover, Compare, DeleteOldFiles,
                  DeleteFileDocuments, FilterExistingFiles, CopyFiles, CreateFiles, DeleteTemporary,
                  DeleteCourseFolder, Cut, history, vars
    <3> QED BY <3>1 DEF TypeOK
  <2> QED BY <2>1, <2>2, <2>3, <2>4, <2>5 DEF Next
<1>4. disturbed' \subseteq CourseIds
  <2>1. ASSUME NEW h \in Handlers, NEW r, r.course \in CourseIds, Begin(h, r)
        PROVE  disturbed' \subseteq CourseIds
    BY <2>1 DEF Begin, TypeOK
  <2>2. ASSUME NEW h \in Handlers, NEW c \in CourseIds
        PROVE  /\ \A b \in Sent : CreateCourse(h, c, b) => disturbed' \subseteq CourseIds
               /\ \A b \in Sent : UpdateCourse(h, c, b) => disturbed' \subseteq CourseIds
               /\ DeleteCourse(h, c) => disturbed' \subseteq CourseIds
    BY <2>1 DEF CreateCourse, UpdateCourse, DeleteCourse, Idle
  <2>3. ASSUME NEW h \in Handlers, Cut(h)
        PROVE  disturbed' \subseteq CourseIds
    <3>1. req[h].course \in CourseIds
      BY <2>3 DEF Cut, HandlerAt
    <3> QED BY <2>3, <3>1 DEF Cut, TypeOK
  <2>4. CASE \/ \E u \in Uploads : Upload(u)
             \/ \E h \in Handlers :
                  \/ SetContract(h) \/ CreateCourseStorage(h) \/ DropCover(h) \/ CompressCover(h)
                  \/ DeleteTemporaryCover(h) \/ SaveCourse(h) \/ Compare(h) \/ DeleteOldFiles(h)
                  \/ DeleteFileDocuments(h) \/ FilterExistingFiles(h) \/ CopyFiles(h) \/ CreateFiles(h)
                  \/ DeleteTemporary(h) \/ DeleteContract(h) \/ DeleteMany(h) \/ DeleteCourseFolder(h)
             \/ UNCHANGED vars
    <3>1. disturbed' = disturbed
      BY <2>4 DEF Upload, SetContract, CreateCourseStorage, DropCover, CompressCover, DeleteTemporaryCover, SaveCourse,
                  Compare, DeleteOldFiles, DeleteFileDocuments, FilterExistingFiles, CopyFiles, CreateFiles,
                  DeleteTemporary, DeleteContract, DeleteMany, DeleteCourseFolder, history, vars
    <3> QED BY <3>1 DEF TypeOK
  <2> QED BY <2>2, <2>3, <2>4 DEF Next
<1> QED BY <1>1, <1>2, <1>3, <1>4, FoldersMove DEF TypeOK

-----------------------------------------------------------------------------
(* An upload that is secured stays so: what leaves the folder of a course was removed. *)
LEMMA SecuredStays ==
    ASSUME TypeOK, \A h \in Handlers : HandlerAt(h), [Next]_vars, NEW u, Secured(u)
    PROVE  Secured(u)'
<1>1. CASE u \in removed \cup failed
  BY <1>1, FoldersMove DEF Secured
<1>2. ASSUME NEW c \in CourseIds, <<c, u>> \in stored PROVE Secured(u)'
  <2>1. u \in Uploads
    BY <1>2 DEF TypeOK
  <2> QED BY <1>2, <2>1, FoldersMove DEF Secured
<1> QED BY <1>1, <1>2 DEF Secured

LEMMA UploadsKeptStep ==
    ASSUME CoursesInv, [Next]_vars
    PROVE  temporary' \subseteq uploaded' /\ UploadsKept'
<1>1. CASE \E u \in Uploads : Upload(u)
  BY <1>1 DEF Upload, CoursesInv, UploadsKept
<1>2. CASE \E h \in Handlers : DeleteTemporary(h) \/ DeleteTemporaryCover(h)
  <2>1. PICK S : /\ temporary' = temporary \ S /\ stored' = stored
                 /\ uploaded' = uploaded /\ removed' = removed /\ failed \subseteq failed'
                 /\ \A u \in S : Secured(u)
    <3>1. PICK h \in Handlers : DeleteTemporary(h) \/ DeleteTemporaryCover(h)
      BY <1>2
    <3>2. CASE DeleteTemporary(h)
      <4>1. PICK bad : temporary' = temporary \ (req[h].files \ bad) /\ Refuse(bad)
        BY <3>2 DEF DeleteTemporary
      <4> QED BY <3>2, <4>1 DEF DeleteTemporary, Refuse, CoursesInv, HandlerAt
    <3>3. CASE DeleteTemporaryCover(h)
      BY <3>3, ZenonT(40) DEF DeleteTemporaryCover, history, CoursesInv, HandlerAt
    <3> QED BY <3>1, <3>2, <3>3
  <2> QED BY <2>1 DEF CoursesInv, UploadsKept, Secured
<1>3. CASE temporary' = temporary /\ uploaded' = uploaded
  <2>1. ASSUME NEW u \in uploaded' \ (removed' \cup failed'), u \notin temporary'
        PROVE  \E c \in CourseIds : <<c, u>> \in stored'
    <3>1. Secured(u)
      BY <1>3, <2>1, FoldersMove DEF CoursesInv, UploadsKept, Secured
    <3> QED BY <2>1, <3>1, SecuredStays DEF CoursesInv, Secured
  <2> QED BY <1>3, <2>1 DEF CoursesInv, UploadsKept
<1> QED BY <1>1, <1>2, <1>3, FoldersMove DEF CoursesInv

-----------------------------------------------------------------------------
(* Another handler's step leaves a handler as it was. *)
LEMMA OthersStay ==
    ASSUME TypeOK, NEW h \in Handlers, NEW g \in Handlers \ {h}, NEW r,
           Begin(h, r) \/ Continue(h, r)
    PROVE  req'[g] = req[g]
BY DEF Begin, Continue, TypeOK

LEMMA HandlerKept ==
    ASSUME CoursesInv, [Next]_vars, NEW g \in Handlers, req'[g] = req[g]
    PROVE  HandlerAt(g)'
BY FoldersMove, SecuredStays DEF CoursesInv, HandlerAt

(* A request that is neither to copy nor to discard anything asks only for its course. *)
LEMMA Elsewhere ==
    ASSUME TypeOK, NEW h \in Handlers,
           \/ req'[h] = Idle
           \/ /\ req'[h].course \in CourseIds
              /\ req'[h].pc \in Steps \ {"idle", "copy", "record", "discard", "drop", "cover", "uncover"}
    PROVE  HandlerAt(h)'
BY DEF HandlerAt, Idle, Steps

LEMMA AfterFilesAt ==
    ASSUME NEW r \in Requests
    PROVE  \/ AfterFiles(r) = Idle
           \/ AfterFiles(r).course = r.course /\ AfterFiles(r).pc = "contract"
BY DEF AfterFiles, Idle

LEMMA HandlersStep ==
    ASSUME CoursesInv, [Next]_vars
    PROVE  \A h \in Handlers : HandlerAt(h)'
<1>1. /\ TypeOK /\ req \in [Handlers -> Requests] /\ req' \in [Handlers -> Requests]
      /\ \A h \in Handlers : HandlerAt(h) /\ req[h] \in Requests /\ req'[h] \in Requests
      /\ temporary \subseteq uploaded
  BY TypeStep DEF CoursesInv, TypeOK
<1>2. ASSUME NEW h \in Handlers, HandlerAt(h)', \E r : Begin(h, r) \/ Continue(h, r)
      PROVE  \A g \in Handlers : HandlerAt(g)'
  BY <1>1, <1>2, OthersStay, HandlerKept
<1>3. ASSUME NEW h \in Handlers, NEW pc, Goto(h, pc)
      PROVE  /\ req'[h] = [req[h] EXCEPT !.pc = pc] /\ \E r : Continue(h, r)
             /\ req'[h].pc = pc /\ req'[h].course = req[h].course /\ req'[h].body = req[h].body
             /\ req'[h].files = req[h].files
  <2>1. req' = [req EXCEPT ![h] = [req[h] EXCEPT !.pc = pc]]
    BY <1>1, <1>3 DEF Goto
  <2>2. req'[h] = [req[h] EXCEPT !.pc = pc]
    BY <1>1, <2>1
  <2>3. /\ req'[h].pc = pc /\ req'[h].course = req[h].course /\ req'[h].body = req[h].body
        /\ req'[h].files = req[h].files
    BY <1>1, <2>2 DEF Requests
  <2> QED BY <2>1, <2>2, <2>3 DEF Continue
<1>4. ASSUME NEW h \in Handlers, NEW c \in CourseIds,
             DeleteCourse(h, c) \/ \E b \in Sent : CreateCourse(h, c, b) \/ UpdateCourse(h, c, b)
      PROVE  \A g \in Handlers : HandlerAt(g)'
  <2>1. CASE DeleteCourse(h, c)
    <3>1. req'[h].course = c /\ req'[h].pc = "bare" /\ \E r : Begin(h, r)
      BY <1>1, <2>1 DEF DeleteCourse, Begin, Idle
    <3> QED BY <1>1, <1>2, <3>1, Elsewhere DEF Steps
  <2>2. ASSUME NEW b \in Sent, CreateCourse(h, c, b) PROVE \A g \in Handlers : HandlerAt(g)'
    <3>1. req'[h].course = c /\ req'[h].pc \in {"contract", "folder"} /\ \E r : Begin(h, r)
      BY <1>1, <2>2 DEF CreateCourse, Begin, Idle
    <3> QED BY <1>1, <1>2, <3>1, Elsewhere DEF Steps
  <2>3. ASSUME NEW b \in Sent, UpdateCourse(h, c, b) PROVE \A g \in Handlers : HandlerAt(g)'
    <3>1. /\ req'[h].course = c /\ req'[h].body = b /\ req'[h].old = courses[c].cover
          /\ req'[h].pc = FirstStep(b.cover, courses[c].cover) /\ \E r : Begin(h, r)
      BY <1>1, <2>3 DEF UpdateCourse, Begin, Idle
    <3>2. HandlerAt(h)'
      BY <3>1 DEF HandlerAt, FirstStep
    <3> QED BY <1>2, <3>1, <3>2
  <2> QED BY <1>4, <2>1, <2>2, <2>3
<1>5. ASSUME NEW h \in Handlers, DeleteOldFiles(h) \/ DeleteContract(h) \/ DeleteMany(h)
      PROVE  \A g \in Handlers : HandlerAt(g)'
  <2>1. /\ req[h].course \in CourseIds
        /\ Goto(h, "forget") \/ Goto(h, "delete") \/ Goto(h, "rmdir")
    BY <1>1, <1>5 DEF DeleteOldFiles, DeleteContract, DeleteMany, HandlerAt
  <2>2. /\ req'[h].course \in CourseIds /\ req'[h].pc \in {"forget", "delete", "rmdir"}
        /\ \E r : Continue(h, r)
    BY <1>3, <2>1
  <2> QED BY <1>1, <1>2, <2>2, Elsewhere DEF Steps
<1>6. ASSUME NEW h \in Handlers, CreateCourseStorage(h) PROVE \A g \in Handlers : HandlerAt(g)'
  <2>1. req[h].course \in CourseIds
    BY <1>1, <1>6 DEF CreateCourseStorage, HandlerAt
  <2>2. CASE req[h].body.cover = None
    <3>1. Goto(h, "filter")
      BY <1>6, <2>2 DEF CreateCourseStorage
    <3> QED BY <1>1, <1>2, <1>3, <2>1, <3>1, Elsewhere DEF Steps
  <2>3. CASE req[h].body.cover # None
    <3>1. Goto(h, "cover")
      BY <1>6, <2>3 DEF CreateCourseStorage
    <3>2. req'[h].pc = "cover" /\ req'[h].course \in CourseIds /\ req'[h].body.cover # None
      BY <1>3, <2>1, <2>3, <3>1
    <3>3. HandlerAt(h)'
      BY <3>2 DEF HandlerAt
    <3> QED BY <1>2, <1>3, <3>1, <3>3
  <2> QED BY <2>2, <2>3
<1>7. ASSUME NEW h \in Handlers, DropCover(h) PROVE \A g \in Handlers : HandlerAt(g)'
  <2>1. req[h].course \in CourseIds /\ req[h].body.cover # None /\ Goto(h, "cover")
    BY <1>1, <1>7 DEF DropCover, HandlerAt
  <2>2. req'[h].pc = "cover" /\ req'[h].course \in CourseIds /\ req'[h].body.cover # None
    BY <1>3, <2>1
  <2>3. HandlerAt(h)'
    BY <2>2 DEF HandlerAt
  <2> QED BY <1>2, <1>3, <2>1, <2>3
<1>8. ASSUME NEW h \in Handlers, CompressCover(h) PROVE \A g \in Handlers : HandlerAt(g)'
  <2>1. req[h].course \in CourseIds
    BY <1>1, <1>8 DEF CompressCover, HandlerAt
  <2>2. CASE req[h].body.cover \in temporary
    <3>1. Goto(h, "uncover") /\ <<req[h].course, req[h].body.cover>> \in stored'
      BY <1>8, <2>2 DEF CompressCover
    <3>2. /\ req'[h].pc = "uncover" /\ req'[h].course \in CourseIds
          /\ <<req'[h].course, req'[h].body.cover>> \in stored'
      BY <1>3, <2>1, <3>1
    <3>3. HandlerAt(h)'
      BY <3>2 DEF HandlerAt, Secured
    <3> QED BY <1>2, <1>3, <3>1, <3>3
  <2>3. CASE req[h].body.cover \notin temporary
    <3>1. Goto(h, "filter") \/ Goto(h, "save")
      BY <1>8, <2>3 DEF CompressCover
    <3>2. req'[h].course \in CourseIds /\ req'[h].pc \in {"filter", "save"} /\ \E r : Continue(h, r)
      BY <1>3, <2>1, <3>1
    <3> QED BY <1>1, <1>2, <3>2, Elsewhere DEF Steps
  <2> QED BY <2>2, <2>3
<1>9. ASSUME NEW h \in Handlers, FilterExistingFiles(h) PROVE \A g \in Handlers : HandlerAt(g)'
  <2>1. req[h].course \in CourseIds /\ \E r : Continue(h, r)
    BY <1>1, <1>9 DEF FilterExistingFiles, HandlerAt
  <2>2. \/ req'[h] = AfterFiles(req[h])
        \/ /\ req'[h].pc = "copy" /\ req'[h].files \subseteq temporary
           /\ req'[h].course = req[h].course
    BY <1>1, <1>9 DEF FilterExistingFiles, Continue, Requests
  <2>3. CASE req'[h] = AfterFiles(req[h])
    BY <1>1, <1>2, <2>1, <2>3, AfterFilesAt, Elsewhere DEF Steps
  <2>4. CASE req'[h].pc = "copy" /\ req'[h].files \subseteq temporary /\ req'[h].course = req[h].course
    <3>1. uploaded' = uploaded
      BY <1>9 DEF FilterExistingFiles, history
    <3>2. HandlerAt(h)'
      BY <1>1, <2>1, <2>4, <3>1 DEF HandlerAt
    <3> QED BY <1>2, <2>1, <3>2
  <2> QED BY <2>2, <2>3, <2>4
<1>10. ASSUME NEW h \in Handlers, CopyFiles(h) PROVE \A g \in Handlers : HandlerAt(g)'
  <2>1. /\ req[h].course \in CourseIds /\ req[h].files \subseteq uploaded /\ \E r : Continue(h, r)
        /\ \A f \in req[h].files \cap temporary : <<req[h].course, f>> \in stored' \/ f \in failed'
    BY <1>1, <1>10 DEF CopyFiles, Refuse, HandlerAt
  <2>2. /\ req'[h].files = req[h].files /\ req'[h].course = req[h].course
        /\ req'[h].pc \in {"record", "discard"}
    BY <1>1, <1>10 DEF CopyFiles, Continue, Requests
  <2>3. ASSUME NEW f \in req[h].files PROVE Secured(f)'
    <3>1. CASE f \in temporary
      BY <2>1, <2>3, <3>1 DEF Secured
    <3>2. CASE f \notin temporary
      <4>1. Secured(f)
        BY <2>1, <2>3, <3>2 DEF CoursesInv, UploadsKept, Secured
      <4> QED BY <1>1, <4>1, SecuredStays
    <3> QED BY <3>1, <3>2
  <2>4. HandlerAt(h)'
    BY <2>1, <2>2, <2>3 DEF HandlerAt
  <2> QED BY <1>2, <2>1, <2>4
<1>11. ASSUME NEW h \in Handlers, CreateFiles(h) \/ DeleteTemporary(h)
       PROVE  \A g \in Handlers : HandlerAt(g)'
  <2>1. /\ req[h].course \in CourseIds /\ \E r : Continue(h, r)
        /\ \A f \in req[h].files : Secured(f)
    BY <1>1, <1>11 DEF CreateFiles, DeleteTemporary, HandlerAt
  <2>2. \/ req'[h] = Idle \/ req'[h] = AfterFiles(req[h])
        \/ req'[h] = [req[h] EXCEPT !.pc = "discard"] \/ req'[h] = [req[h] EXCEPT !.pc = "record"]
    BY <1>1, <1>11 DEF CreateFiles, DeleteTemporary, Continue
  <2>3. CASE req'[h] = Idle \/ req'[h] = AfterFiles(req[h])
    BY <1>1, <1>2, <2>1, <2>3, AfterFilesAt, Elsewhere DEF Steps
  <2>4. CASE req'[h] = [req[h] EXCEPT !.pc = "discard"] \/ req'[h] = [req[h] EXCEPT !.pc = "record"]
    <3>1. /\ req'[h].pc \in {"discard", "record"} /\ req'[h].course = req[h].course
          /\ req'[h].files = req[h].files
      BY <1>1, <2>4 DEF Requests
    <3>2. HandlerAt(h)'
      BY <1>1, <2>1, <3>1, SecuredStays DEF HandlerAt
    <3> QED BY <1>2, <2>1, <3>2
  <2> QED BY <2>2, <2>3, <2>4
<1>12. ASSUME NEW h \in Handlers,
              \/ SetContract(h) \/ DeleteTemporaryCover(h) \/ SaveCourse(h) \/ Compare(h) \/ DeleteFileDocuments(h)
              \/ DeleteCourseFolder(h) \/ Cut(h)
       PROVE  \A g \in Handlers : HandlerAt(g)'
  <2>1. /\ req[h].course \in CourseIds /\ \E r : Continue(h, r)
    BY <1>1, <1>12 DEF SetContract, DeleteTemporaryCover, SaveCourse, Compare, DeleteFileDocuments,
                       DeleteCourseFolder, Cut, HandlerAt
  <2>2. \/ req'[h] = Idle
        \/ /\ req'[h].course = req[h].course
           /\ req'[h].pc \in {"folder", "save", "filter", "compare", "unlink"}
    <3>1. CASE SetContract(h) \/ DeleteCourseFolder(h) \/ Cut(h)
      BY <1>1, <3>1 DEF SetContract, AfterContract, DeleteCourseFolder, Cut, Continue, Requests
    <3>2. CASE DeleteTemporaryCover(h)
      BY <1>1, <3>2 DEF DeleteTemporaryCover, Continue, Requests
    <3>3. CASE SaveCourse(h)
      BY <1>1, <3>3 DEF SaveCourse, Continue, Requests
    <3>4. CASE DeleteFileDocuments(h)
      BY <1>1, <3>4 DEF DeleteFileDocuments, Continue, Requests
    <3>5. CASE Compare(h)
      <4> DEFINE gone == {d \in GetFiles(req[h].course) : d.file \notin req[h].body.files}
                 pc == IF gone = {} THEN "filter" ELSE "unlink"
                 copied == [[req[h] EXCEPT !.pc = pc] EXCEPT !.gone = gone]
                 files == req[h].body.files \ FilesOf(GetFiles(req[h].course))
      <4>1. req'[h] = [copied EXCEPT !.body = [@ EXCEPT !.files = files]]
        BY <1>1, <3>5, Zenon DEF Compare, Continue
      <4> HIDE DEF files, gone
      <4>2. /\ req'[h].pc = pc
            /\ req'[h].course = req[h].course
        BY <1>1, <4>1 DEF Requests
      <4> QED BY <4>1, <4>2
    <3> QED BY <1>12, <3>1, <3>2, <3>3, <3>4, <3>5
  <2> QED BY <1>1, <1>2, <2>1, <2>2, Elsewhere DEF Steps
<1>13. CASE (\E u \in Uploads : Upload(u)) \/ UNCHANGED vars
  BY <1>1, <1>13, HandlerKept DEF Upload, vars
<1> QED BY <1>4, <1>5, <1>6, <1>7, <1>8, <1>9, <1>10, <1>11, <1>12, <1>13 DEF Next

LEMMA Invariance == Spec => []CoursesInv
<1>1. Init => CoursesInv
  <2>1. ASSUME Init PROVE CoursesInv
    <3>1. TypeOK
      <4>1. NoCourse \in CourseDocuments
        BY DEF NoCourse, CourseDocuments
      <4> QED BY <2>1, <4>1, IdleTyped, CopiesAssumption DEF Init, TypeOK
    <3> QED BY <2>1, <3>1 DEF Init, CoursesInv, HandlerAt, UploadsKept, Idle
  <2> QED BY <2>1
<1>2. CoursesInv /\ [Next]_vars => CoursesInv'
  BY TypeStep, HandlersStep, UploadsKeptStep DEF CoursesInv
<1> QED BY <1>1, <1>2, PTL DEF Spec

-----------------------------------------------------------------------------
(* The contract of a course whose requests come one at a time.  What a request at work *)
(* knows of the contract: a creation has asked for the one it is about to make, an     *)
(* update will leave what its body says, a deletion leaves none and no course.         *)
WorkAt(r) ==
    /\ r.pc \notin {"bare", "delete", "rmdir"} => r.course \in There
    /\ r.creates /\ r.pc = "contract" =>
          /\ r.body.contract # "absent"
          /\ r.body.contract = "given" => r.course \in asked
          /\ r.body.contract = "empty" => (r.course \in contracts <=> r.course \in asked)
    /\ r.creates /\ r.pc # "contract" => (r.course \in contracts <=> r.course \in asked)
    /\ ~ r.creates /\ r.pc \notin {"bare", "delete", "rmdir"} =>
          /\ r.body.contract = "given"  => r.course \in asked
          /\ r.body.contract = "absent" => r.course \notin asked
          /\ r.body.contract = "empty"  => (r.course \in contracts <=> r.course \in asked)
    /\ r.pc \in {"bare", "delete", "rmdir"} => ~ r.creates /\ r.course \notin asked
    /\ r.pc \in {"delete", "rmdir"} => r.course \notin contracts
    /\ r.pc = "rmdir" => r.course \notin There

AtRest(c) ==
    /\ c \in contracts <=> c \in asked
    /\ c \notin There => StoredAt(c) \subseteq failed

ContractAt(c) ==
    /\ \A g, h \in AtWork(c) : g = h
    /\ AtWork(c) = {} => AtRest(c)
    /\ \A h \in AtWork(c) : WorkAt(req[h])

ContractInv == \A c \in CourseIds \ disturbed : ContractAt(c)

(* A step of a request leaves the courses it does not work on as they are. *)
Untouched(d) ==
    /\ failed \subseteq failed'
    /\ d \in contracts' <=> d \in contracts
    /\ d \in asked' <=> d \in asked
    /\ courses'[d] = courses[d]
    /\ \A u \in Uploads : <<d, u>> \in stored' <=> <<d, u>> \in stored

LEMMA Apart ==
    ASSUME TypeOK, NEW h \in Handlers, NEW d \in CourseIds, Untouched(d), ContractAt(d),
           \A g \in Handlers \ {h} : req'[g] = req[g], req[h].course # d, req'[h].course # d
    PROVE  ContractAt(d)'
<1>1. AtWork(d)' = AtWork(d) /\ \A g \in AtWork(d) : g # h /\ req'[g] = req[g] /\ req[g].course = d
  BY DEF AtWork
<1>2. AtRest(d) => AtRest(d)'
  BY DEF AtRest, Untouched, There, StoredAt
<1>3. ASSUME NEW g \in AtWork(d) PROVE WorkAt(req[g])'
  <2>1. WorkAt(req[g]) /\ req'[g] = req[g] /\ req[g].course = d
    BY <1>1 DEF ContractAt
  <2> QED BY <2>1 DEF WorkAt, Untouched, There
<1> QED BY <1>1, <1>2, <1>3 DEF ContractAt

LEMMA Entered ==
    ASSUME NEW h \in Handlers, NEW c \in CourseIds, AtWork(c) = {}, WorkAt(req[h])',
           \A g \in Handlers \ {h} : req'[g] = req[g], req'[h].course = c
    PROVE  ContractAt(c)'
<1>1. AtWork(c)' = {h}
  BY DEF AtWork
<1> QED BY <1>1 DEF ContractAt

LEMMA Stayed ==
    ASSUME NEW h \in Handlers, NEW c \in CourseIds, h \in AtWork(c), ContractAt(c),
           \A g \in Handlers \ {h} : req'[g] = req[g],
           \/ req'[h].course = c /\ WorkAt(req[h])'
           \/ req'[h].course = None /\ AtRest(c)'
    PROVE  ContractAt(c)'
<1>1. AtWork(c) = {h}
  BY DEF ContractAt
<1>2. CASE req'[h].course = c /\ WorkAt(req[h])'
  <2>1. AtWork(c)' = {h}
    BY <1>1, <1>2 DEF AtWork
  <2> QED BY <1>2, <2>1 DEF ContractAt
<1>3. CASE req'[h].course = None /\ AtRest(c)'
  <2>1. AtWork(c)' = {}
    BY <1>1, <1>3, NoneAssumption DEF AtWork
  <2> QED BY <1>3, <2>1 DEF ContractAt
<1> QED BY <1>2, <1>3

(* A request goes on: the courses it does not work on are untouched, and its own is at *)
(* rest or has been told right.                                                        *)
LEMMA Continued ==
    ASSUME CoursesInv, ContractInv, [Next]_vars, NEW h \in Handlers,
           NEW c \in CourseIds, req[h].course = c,
           NEW r, Continue(h, r), disturbed \subseteq disturbed', r.course \in {c, None},
           \A d \in CourseIds \ {c} : Untouched(d),
           c \notin disturbed' /\ WorkAt(req[h]) =>
              \/ req'[h].course = c /\ WorkAt(req[h])'
              \/ req'[h].course = None /\ AtRest(c)'
    PROVE  ContractInv'
<1>1. TypeOK /\ req'[h] = r /\ \A g \in Handlers \ {h} : req'[g] = req[g]
  BY DEF CoursesInv, TypeOK, Continue
<1>2. ASSUME NEW d \in CourseIds \ disturbed', d # c PROVE ContractAt(d)'
  <2>1. ContractAt(d) /\ Untouched(d) /\ req[h].course # d /\ req'[h].course # d
    BY <1>1, <1>2, NoneAssumption DEF ContractInv
  <2> QED BY <1>1, <1>2, <2>1, Apart
<1>3. ASSUME c \notin disturbed' PROVE ContractAt(c)'
  <2>1. ContractAt(c) /\ h \in AtWork(c)
    BY <1>3 DEF ContractInv, AtWork
  <2>2. WorkAt(req[h])
    BY <2>1 DEF ContractAt
  <2> QED BY <1>1, <1>3, <2>1, <2>2, Stayed
<1> QED BY <1>2, <1>3 DEF ContractInv

(* A request begins; if another works on the course, the course is disturbed. *)
LEMMA Begun ==
    ASSUME CoursesInv, ContractInv, [Next]_vars, NEW h \in Handlers, NEW c \in CourseIds,
           NEW r, Begin(h, r), r.course = c, \A d \in CourseIds \ {c} : Untouched(d),
           AtWork(c) = {} /\ AtRest(c) => WorkAt(req[h])'
    PROVE  ContractInv'
<1>1. TypeOK /\ req[h] = Idle /\ req'[h] = r /\ \A g \in Handlers \ {h} : req'[g] = req[g]
  BY DEF CoursesInv, TypeOK, Begin
<1>2. req[h].course = None
  BY <1>1 DEF Idle
<1>3. disturbed' = IF AtWork(c) = {} THEN disturbed ELSE disturbed \cup {c}
  BY DEF Begin
<1>4. ASSUME NEW d \in CourseIds \ disturbed', d # c PROVE ContractAt(d)'
  <2>1. ContractAt(d) /\ Untouched(d)
    BY <1>3, <1>4 DEF ContractInv
  <2> QED BY <1>1, <1>2, <1>4, <2>1, Apart, NoneAssumption
<1>5. ASSUME c \notin disturbed' PROVE ContractAt(c)'
  <2>1. AtWork(c) = {} /\ AtRest(c)
    BY <1>3, <1>5 DEF ContractInv, ContractAt
  <2> QED BY <1>1, <2>1, Entered
<1> QED BY <1>4, <1>5 DEF ContractInv

(* The steps that leave the contracts and the courses alone. *)
LEMMA Passed ==
    ASSUME NEW h \in Handlers, NEW c, req[h].course = c, WorkAt(req[h]), contracts' = contracts, asked' = asked, There' = There,
           req[h].pc \notin {"bare", "delete", "rmdir"}, req[h].creates => req[h].pc # "contract",
           \/ req[h].creates /\ req'[h] = Idle
           \/ /\ req'[h].course = req[h].course /\ req'[h].creates = req[h].creates
              /\ req'[h].body.contract = req[h].body.contract
              /\ req'[h].pc \notin {"bare", "delete", "rmdir"}
              /\ req[h].creates => req'[h].pc # "contract"
    PROVE  \/ req'[h].course = c /\ WorkAt(req[h])'
           \/ req'[h].course = None /\ AtRest(c)'
<1>1. CASE req[h].creates /\ req'[h] = Idle
  <2>1. /\ req'[h].course = None /\ c \in There
        /\ c \in contracts <=> c \in asked
    BY <1>1 DEF Idle, WorkAt
  <2> QED BY <2>1 DEF AtRest
<1>2. CASE /\ req'[h].course = req[h].course /\ req'[h].creates = req[h].creates
           /\ req'[h].body.contract = req[h].body.contract
           /\ req'[h].pc \notin {"bare", "delete", "rmdir"}
           /\ req[h].creates => req'[h].pc # "contract"
  BY <1>2 DEF WorkAt
<1> QED BY <1>1, <1>2

(* What passes a course by: the folders, and the documents of other courses. *)
LEMMA PassingSteps ==
    ASSUME CoursesInv, ContractInv, [Next]_vars, NEW h \in Handlers,
           \/ CreateCourseStorage(h) \/ DropCover(h) \/ CompressCover(h) \/ DeleteTemporaryCover(h) \/ SaveCourse(h)
           \/ Compare(h) \/ DeleteOldFiles(h) \/ DeleteFileDocuments(h) \/ FilterExistingFiles(h) \/ CopyFiles(h)
           \/ CreateFiles(h) \/ DeleteTemporary(h)
    PROVE  ContractInv'
<1>1. /\ TypeOK /\ req \in [Handlers -> Requests] /\ req[h] \in Requests /\ HandlerAt(h)
      /\ req[h].body \in Bodies /\ req[h].creates \in BOOLEAN
  BY DocumentsTyped DEF CoursesInv, TypeOK, Requests
<1>2. /\ req[h].pc \notin {"idle", "contract", "bare", "delete", "rmdir"}
      /\ contracts' = contracts /\ asked' = asked /\ disturbed' = disturbed
      /\ \E r : Continue(h, r)
  BY DEF CreateCourseStorage, DropCover, CompressCover, DeleteTemporaryCover, SaveCourse, Compare, DeleteOldFiles,
         DeleteFileDocuments, FilterExistingFiles, CopyFiles, CreateFiles, DeleteTemporary, Goto, Continue, history
<1>3. PICK c \in CourseIds : req[h].course = c
  BY <1>1, <1>2 DEF HandlerAt
<1>4. There' = There /\ \A d \in CourseIds \ {c} : Untouched(d)
  <2>1. CASE SaveCourse(h)
    <3>1. /\ stored' = stored /\ failed' = failed
          /\ courses' = courses \/ courses' = [courses EXCEPT ![c].cover = req[h].body.cover]
      BY <1>3, <2>1 DEF SaveCourse, folders
    <3>2. courses \in [CourseIds -> CourseDocuments]
      BY <1>1 DEF TypeOK
    <3>3. \A d \in CourseIds : courses'[d].state = courses[d].state /\ (d # c => courses'[d] = courses[d])
      BY <3>1, <3>2 DEF CourseDocuments
    <3> QED BY <1>2, <3>1, <3>3 DEF There, Untouched
  <2>2. CASE ~ SaveCourse(h)
    <3>1. courses' = courses
      BY <2>2 DEF CreateCourseStorage, DropCover, CompressCover, DeleteTemporaryCover, Compare, DeleteOldFiles,
                  DeleteFileDocuments, FilterExistingFiles, CopyFiles, CreateFiles, DeleteTemporary
    <3>2. \/ stored' = stored
          \/ \E S : stored' = stored \cup ({c} \X S) \/ stored' = stored \ ({c} \X S)
          \/ \E u : stored' = stored \cup {<<c, u>>}
      <4>1. CASE DropCover(h) \/ DeleteOldFiles(h)
        BY <1>3, <4>1 DEF DropCover, DeleteOldFiles, Unlink
      <4>2. CASE CopyFiles(h)
        BY <1>3, <4>2 DEF CopyFiles
      <4>3. CASE CompressCover(h)
        BY <1>3, <4>3 DEF CompressCover
      <4> QED BY <2>2, <4>1, <4>2, <4>3 DEF CreateCourseStorage, DeleteTemporaryCover, Compare,
                 DeleteFileDocuments, FilterExistingFiles, CreateFiles, DeleteTemporary, folders
    <3>3. failed \subseteq failed'
      BY FoldersMove DEF CoursesInv
    <3> QED BY <1>2, <3>1, <3>2, <3>3 DEF There, Untouched
  <2> QED BY <2>1, <2>2
<1>5. \/ req[h].creates /\ req'[h] = Idle
      \/ /\ req'[h].course = req[h].course /\ req'[h].creates = req[h].creates
         /\ req'[h].body.contract = req[h].body.contract
         /\ req'[h].pc \notin {"bare", "delete", "rmdir"}
         /\ req[h].creates => req'[h].pc # "contract"
  <2>1. CASE CreateCourseStorage(h) \/ DropCover(h) \/ CompressCover(h) \/ DeleteOldFiles(h)
    BY <1>1, <2>1 DEF CreateCourseStorage, DropCover, CompressCover, DeleteOldFiles, Goto, Requests
  <2>2. CASE DeleteTemporaryCover(h) \/ SaveCourse(h) \/ DeleteFileDocuments(h)
    <3>1. CASE DeleteTemporaryCover(h)
      BY <1>1, <3>1 DEF DeleteTemporaryCover, Continue, Requests
    <3>2. CASE SaveCourse(h)
      BY <1>1, <3>2 DEF SaveCourse, Continue, Requests, Bodies
    <3>3. CASE DeleteFileDocuments(h)
      BY <1>1, <3>3 DEF DeleteFileDocuments, Continue, Requests
    <3> QED BY <2>2, <3>1, <3>2, <3>3
  <2> DEFINE after == AfterFiles(req[h])
  <2>7. IF req[h].creates THEN after = Idle
        ELSE /\ after.course = req[h].course /\ after.creates = req[h].creates /\ after.pc = "contract"
             /\ after.body.contract = req[h].body.contract
    BY <1>1 DEF AfterFiles, Idle, Nothing
  <2> HIDE DEF after
  <2>3. CASE FilterExistingFiles(h)
    <3>1. PICK existing : req'[h] = IF existing = {} THEN after ELSE [req[h] EXCEPT !.pc = "copy", !.files = existing]
      BY <1>1, <2>3 DEF FilterExistingFiles, Continue, after
    <3> QED BY <1>1, <2>7, <3>1 DEF Requests
  <2>4. CASE CopyFiles(h)
    <3>1. \E copied : req'[h] = [req[h] EXCEPT !.copied = copied, !.pc = IF req[h].creates THEN "discard" ELSE "record"]
      BY <1>1, <2>4 DEF CopyFiles, Continue
    <3> QED BY <1>1, <3>1 DEF Requests
  <2>5. CASE CreateFiles(h) \/ DeleteTemporary(h)
    <3>1. \/ req'[h] = [req[h] EXCEPT !.pc = "discard"] \/ req'[h] = [req[h] EXCEPT !.pc = "record"]
          \/ req'[h] = after \/ (req'[h] = Idle /\ req[h].creates)
      <4>1. CASE CreateFiles(h)
        BY <1>1, <4>1 DEF CreateFiles, Continue
      <4>2. CASE DeleteTemporary(h)
        BY <1>1, <4>2 DEF DeleteTemporary, Continue, after
      <4> QED BY <2>5, <4>1, <4>2
    <3>2. CASE req'[h] = [req[h] EXCEPT !.pc = "discard"] \/ req'[h] = [req[h] EXCEPT !.pc = "record"]
      BY <1>1, <3>2 DEF Requests
    <3> QED BY <2>7, <3>1, <3>2
  <2>6. CASE Compare(h)
    <3> DEFINE gone == {d \in GetFiles(req[h].course) : d.file \notin req[h].body.files}
               pc == IF gone = {} THEN "filter" ELSE "unlink"
               copied == [[req[h] EXCEPT !.pc = pc] EXCEPT !.gone = gone]
               files == req[h].body.files \ FilesOf(GetFiles(req[h].course))
    <3>1. req'[h] = [copied EXCEPT !.body = [@ EXCEPT !.files = files]]
      BY <1>1, <2>6, Zenon DEF Compare, Continue
    <3> HIDE DEF files, gone
    <3>2. copied.body = req[h].body
      BY <1>1 DEF Requests
    <3>3. [req[h].body EXCEPT !.files = files].contract = req[h].body.contract
      BY <1>1 DEF Bodies
    <3>4. /\ req'[h].course = req[h].course /\ req'[h].creates = req[h].creates /\ req'[h].pc = pc
          /\ req'[h].body = [copied.body EXCEPT !.files = files]
      BY <1>1, <3>1 DEF Requests
    <3>5. /\ req'[h].body.contract = req[h].body.contract
          /\ req'[h].pc \notin {"bare", "delete", "rmdir", "contract"}
      BY <3>2, <3>3, <3>4
    <3> QED BY <3>4, <3>5
  <2> QED BY <2>1, <2>2, <2>3, <2>4, <2>5, <2>6
<1>6. WorkAt(req[h]) =>
         \/ req'[h].course = c /\ WorkAt(req[h])'
         \/ req'[h].course = None /\ AtRest(c)'
  BY <1>2, <1>3, <1>4, <1>5, Passed
<1>7. PICK r : Continue(h, r)
  BY <1>2
<1>8. r.course \in {c, None}
  <2>1. req'[h] = r
    BY <1>1, <1>7 DEF Continue
  <2> QED BY <1>3, <1>5, <2>1 DEF Idle
<1> QED BY <1>2, <1>3, <1>4, <1>6, <1>7, <1>8, Continued

LEMMA ContractStep ==
    ASSUME CoursesInv, ContractInv, [Next]_vars
    PROVE  ContractInv'
<1>1. /\ TypeOK /\ req \in [Handlers -> Requests] /\ courses \in [CourseIds -> CourseDocuments]
      /\ \A h \in Handlers : HandlerAt(h) /\ req[h] \in Requests /\ req[h].body.contract \in Contract
  BY DocumentsTyped DEF CoursesInv, TypeOK, Bodies
<1>2. ASSUME NEW h \in Handlers, NEW c \in CourseIds, NEW b \in Sent, CreateCourse(h, c, b) PROVE ContractInv'
  <2> DEFINE r == [Idle EXCEPT !.pc = IF b.contract = "absent" THEN "folder" ELSE "contract",
                               !.course = c, !.creates = TRUE, !.body = b]
  <2>1. Begin(h, r) /\ r.course = c
    BY <1>2 DEF CreateCourse, Idle
  <2>2. \A d \in CourseIds \ {c} : Untouched(d)
    BY <1>1, <1>2 DEF CreateCourse, Untouched, folders
  <2>3. ASSUME AtRest(c) PROVE WorkAt(req[h])'
    <3>1. /\ req'[h].pc = IF b.contract = "absent" THEN "folder" ELSE "contract"
          /\ req'[h].course = c /\ req'[h].creates = TRUE /\ req'[h].body = b
      BY <1>1, <2>1 DEF Begin, Idle
    <3>2. c \in There' /\ contracts' = contracts
      BY <1>1, <1>2 DEF CreateCourse, There, CourseDocuments
    <3>3. asked' = IF b.contract = "given" THEN asked \cup {c} ELSE asked
      BY <1>2 DEF CreateCourse
    <3> QED BY <2>3, <3>1, <3>2, <3>3 DEF WorkAt, AtRest
  <2> HIDE DEF r
  <2> QED BY <2>1, <2>2, <2>3, Begun
<1>3. ASSUME NEW h \in Handlers, NEW c \in CourseIds, NEW b \in Sent, UpdateCourse(h, c, b) PROVE ContractInv'
  <2>1. PICK r : /\ r = [Idle EXCEPT !.pc = FirstStep(b.cover, courses[c].cover), !.course = c, !.body = b,
                                     !.old = courses[c].cover]
    OBVIOUS
  <2>2. Begin(h, r) /\ r.course = c
    BY <1>3, <2>1 DEF UpdateCourse, Idle
  <2>3. b.contract \in {"absent", "empty", "given"}
    BY SentAssumption DEF Bodies, Contract
  <2>4. \A d \in CourseIds \ {c} : Untouched(d)
    BY <1>1, <1>3, <2>3 DEF UpdateCourse, Untouched, folders
  <2>5. ASSUME AtRest(c) PROVE WorkAt(req[h])'
    <3>1. /\ req'[h].pc \in {"save", "drop", "cover"}
          /\ req'[h].course = c /\ req'[h].creates = FALSE /\ req'[h].body = b
      BY <1>1, <2>1, <2>2 DEF Begin, Idle, FirstStep
    <3>2. c \in There /\ There' = There /\ contracts' = contracts
      BY <1>3 DEF UpdateCourse, There
    <3>3. /\ b.contract = "given"  => c \in asked'
          /\ b.contract = "absent" => c \notin asked'
          /\ b.contract = "empty"  => asked' = asked
      BY <1>3, <2>3 DEF UpdateCourse
    <3> QED BY <2>5, <3>1, <3>2, <3>3 DEF WorkAt, AtRest
  <2> QED BY <2>2, <2>4, <2>5, Begun
<1>4. ASSUME NEW h \in Handlers, NEW c \in CourseIds, DeleteCourse(h, c) PROVE ContractInv'
  <2> DEFINE r == [Idle EXCEPT !.pc = "bare", !.course = c]
  <2>1. Begin(h, r) /\ r.course = c
    BY <1>4 DEF DeleteCourse, Idle
  <2>2. \A d \in CourseIds \ {c} : Untouched(d)
    BY <1>1, <1>4 DEF DeleteCourse, Untouched, folders
  <2>3. WorkAt(req[h])'
    <3>1. req'[h].pc = "bare" /\ req'[h].course = c /\ req'[h].creates = FALSE
      BY <1>1, <2>1 DEF Begin, Idle
    <3> QED BY <1>4, <3>1 DEF DeleteCourse, WorkAt
  <2> HIDE DEF r
  <2> QED BY <2>1, <2>2, <2>3, Begun
<1>5. ASSUME NEW h \in Handlers, SetContract(h) PROVE ContractInv'
  <2>1. PICK c \in CourseIds : req[h].course = c
    BY <1>1, <1>5 DEF SetContract, HandlerAt
  <2>2. PICK r : Continue(h, r)
    BY <1>5 DEF SetContract
  <2>3. /\ req'[h] = r /\ req[h].pc = "contract"
        /\ r = AfterContract(req[h])
    BY <1>1, <1>5, <2>2 DEF SetContract, Continue
  <2>4. /\ asked' = asked /\ There' = There /\ disturbed' = disturbed /\ courses' = courses /\ stored' = stored
        /\ failed' = failed
        /\ req[h].body.contract = "absent" => contracts' = contracts \ {c}
        /\ req[h].body.contract = "empty"  => contracts' = contracts
        /\ req[h].body.contract = "given"  => contracts' = contracts \cup {c}
    BY <1>5, <2>1 DEF SetContract, history, folders, There
  <2>5. req[h].body.contract \in {"absent", "empty", "given"} /\ \A d \in CourseIds \ {c} : Untouched(d)
    BY <1>1, <2>4 DEF Untouched, Contract
  <2>6. ASSUME WorkAt(req[h])
        PROVE  \/ req'[h].course = c /\ WorkAt(req[h])'
               \/ req'[h].course = None /\ AtRest(c)'
    <3>1. CASE req[h].creates /\ req[h].body.contract # "empty"
      <4>1. r = [req[h] EXCEPT !.pc = "folder"]
        BY <2>3, <3>1 DEF AfterContract
      <4>2. /\ req'[h].pc = "folder" /\ req'[h].course = c /\ req'[h].creates
            /\ req[h].body.contract = "given"
        BY <1>1, <2>1, <2>3, <2>5, <2>6, <3>1, <4>1 DEF WorkAt, Requests
      <4> QED BY <2>1, <2>3, <2>4, <2>6, <3>1, <4>2 DEF WorkAt
    <3>2. CASE ~ (req[h].creates /\ req[h].body.contract # "empty")
      <4>1. req'[h].course = None
        BY <2>3, <3>2 DEF AfterContract, Idle
      <4>2. c \in There
        BY <2>1, <2>3, <2>6 DEF WorkAt
      <4>3. c \in contracts' <=> c \in asked'
        BY <2>1, <2>3, <2>4, <2>5, <2>6, <3>2 DEF WorkAt
      <4> QED BY <2>4, <4>1, <4>2, <4>3 DEF AtRest
    <3> QED BY <3>1, <3>2
  <2>7. r.course \in {c, None}
    BY <1>1, <2>1, <2>3 DEF AfterContract, Idle, Requests
  <2> QED BY <2>1, <2>2, <2>4, <2>5, <2>6, <2>7, Continued
<1>6. ASSUME NEW h \in Handlers, DeleteContract(h) \/ DeleteMany(h) \/ DeleteCourseFolder(h) PROVE ContractInv'
  <2>1. PICK c \in CourseIds : req[h].course = c
    BY <1>1, <1>6 DEF DeleteContract, DeleteMany, DeleteCourseFolder, HandlerAt
  <2>2. PICK r : Continue(h, r)
    BY <1>6 DEF DeleteContract, DeleteMany, DeleteCourseFolder, Goto, Continue
  <2>3. /\ req'[h] = r /\ asked' = asked /\ disturbed' = disturbed
        /\ r.course \in {c, None}
    BY <1>1, <1>6, <2>1, <2>2 DEF DeleteContract, DeleteMany, DeleteCourseFolder, Goto, Continue, history, Idle, Requests
  <2>4. \A d \in CourseIds \ {c} : Untouched(d)
    BY <1>1, <1>6, <2>1 DEF DeleteContract, DeleteMany, DeleteCourseFolder, Unlink, Refuse, Untouched, history, folders
  <2>5. ASSUME WorkAt(req[h])
        PROVE  \/ req'[h].course = c /\ WorkAt(req[h])'
               \/ req'[h].course = None /\ AtRest(c)'
    <3>1. CASE DeleteContract(h)
      <4>1. /\ req'[h].pc = "delete" /\ req'[h].course = c /\ req'[h].creates = req[h].creates
            /\ req[h].pc = "bare" /\ contracts' = contracts \ {c}
        BY <1>1, <2>1, <3>1 DEF DeleteContract, Goto, Requests
      <4> QED BY <2>1, <2>3, <2>5, <4>1 DEF WorkAt
    <3>2. CASE DeleteMany(h)
      <4>1. /\ req'[h].pc = "rmdir" /\ req'[h].course = c /\ req'[h].creates = req[h].creates
            /\ req[h].pc = "delete" /\ contracts' = contracts
        BY <1>1, <2>1, <3>2 DEF DeleteMany, Goto, Requests
      <4>2. c \notin There'
        BY <1>1, <2>1, <3>2 DEF DeleteMany, There, NoCourse
      <4> QED BY <2>1, <2>3, <2>5, <4>1, <4>2 DEF WorkAt
    <3>3. CASE DeleteCourseFolder(h)
      <4>1. PICK bad : /\ req'[h].course = None /\ req[h].pc = "rmdir" /\ contracts' = contracts
                       /\ courses' = courses /\ stored' = stored \ ({c} \X (StoredAt(c) \ bad))
                       /\ failed' = failed \cup bad
        BY <1>1, <2>1, <3>3 DEF DeleteCourseFolder, Unlink, Refuse, Continue, Idle
      <4>2. StoredAt(c)' \subseteq failed'
        BY <4>1 DEF StoredAt
      <4> QED BY <2>1, <2>3, <2>5, <4>1, <4>2 DEF WorkAt, AtRest
    <3> QED BY <1>6, <3>1, <3>2, <3>3
  <2> QED BY <2>1, <2>2, <2>3, <2>4, <2>5, Continued
<1>7. ASSUME NEW h \in Handlers, Cut(h) PROVE ContractInv'
  <2>1. PICK c \in CourseIds : req[h].course = c
    BY <1>1, <1>7 DEF Cut, HandlerAt
  <2>2. /\ Continue(h, Idle) /\ Idle.course = None /\ disturbed \subseteq disturbed' /\ c \in disturbed'
        /\ \A d \in CourseIds \ {c} : Untouched(d)
    BY <1>7, <2>1 DEF Cut, Idle, Untouched, folders
  <2> QED BY <2>1, <2>2, Continued
<1>8. CASE (\E u \in Uploads : Upload(u)) \/ UNCHANGED vars
  <2>1. /\ req' = req /\ contracts' = contracts /\ asked' = asked /\ courses' = courses /\ stored' = stored
        /\ disturbed' = disturbed /\ failed' = failed
    BY <1>8 DEF Upload, vars, folders, history
  <2> QED BY <2>1 DEF ContractInv, ContractAt, AtWork, AtRest, WorkAt, There, StoredAt
<1> QED BY <1>2, <1>3, <1>4, <1>5, <1>6, <1>7, <1>8, PassingSteps DEF Next

LEMMA ContractInvariance == Spec => []ContractInv
<1>1. Init => ContractInv
  BY NoneAssumption DEF Init, ContractInv, ContractAt, AtWork, AtRest, StoredAt, Idle, NoCourse, There
<1> QED BY <1>1, Invariance, ContractStep, PTL DEF Spec

-----------------------------------------------------------------------------
(* The folder of a course whose requests come one at a time.  Files that a request will *)
(* give a document to, documents it is about to forget, and files in the folder that    *)
(* have no document yet.                                                                *)
Unwritten(r) == r.pc = "record" \/ (r.creates /\ r.pc = "discard")
Coming(r)  == CASE r.pc \in {"unlink", "forget", "filter"} -> r.body.files
                [] r.pc = "copy"  -> r.files
                [] Unwritten(r)   -> r.copied
                [] OTHER          -> {}
Leaving(r) == IF r.pc = "forget" THEN r.gone ELSE {}
Pending(r) == IF Unwritten(r) THEN r.copied ELSE {}

(* A request r finds the documents K of its course and the uploads S of its folder so: *)
(* no file has two documents, none that has one is about to get another, a new course  *)
(* has none, and the folder has the files of the documents, and of what the disk       *)
(* refused (Bad).                                                                      *)
FilesRight(r, K, S, Bad) ==
    /\ \A d, e \in K : d.file = e.file => d = e
    /\ r.creates => K = {}
    /\ r.gone \subseteq K
    /\ Coming(r) \cap FilesOf(K) = {}
    /\ FilesOf(K \ Leaving(r)) \cup Pending(r) \subseteq S
    /\ S \cap Files \subseteq FilesOf(K \ Leaving(r)) \cup Pending(r) \cup Bad

(* It finds the cover that the course shows, if the file is not lost, until it takes it *)
(* away and puts its own there; the link is written last.                               *)
Shown(r, lost, cover) ==
    CASE r.pc = "cover" -> {}
      [] r.pc = "uncover" \/ (r.pc = "save" /\ r.made) -> {r.body.cover}
      [] OTHER -> IF lost THEN {} ELSE {cover} \ {None}

CoverRight(r, S, Bad, lost, cover) ==
    /\ r.pc \in {"drop", "cover"} => ~ r.made /\ (~ r.creates => r.old = cover)
    /\ r.pc = "folder" => r.creates
    /\ r.pc \in {"drop", "compare"} => ~ r.creates
    /\ r.creates /\ r.pc \in {"contract", "folder", "cover"} => ~ r.made /\ cover = None
    /\ r.pc = "uncover" \/ (r.pc = "save" /\ r.made) => r.body.cover \in Covers
    /\ Shown(r, lost, cover) \subseteq S
    /\ S \cap Covers \subseteq Shown(r, lost, cover) \cup Bad

FolderRight(r, c) ==
    /\ FilesRight(r, GetFiles(c), StoredAt(c), failed)
    /\ CoverRight(r, StoredAt(c), failed, c \in blank, courses[c].cover)

(* The course of a request at work is there until the request deletes it; a course that *)
(* nobody works on has its folder right, and has no documents before it is created.     *)
RightAt(r, c) ==
    /\ courses[c].state = IF r.pc = "rmdir" THEN "deleted" ELSE "there"
    /\ r.pc \notin {"bare", "delete", "rmdir"} => FolderRight(r, c)
RestAt(c) ==
    /\ courses[c].state = "none" => courses[c].cover = None /\ GetFiles(c) = {}
    /\ courses[c].state # "deleted" => FolderRight(Idle, c)

FolderAt(c) ==
    /\ AtWork(c) = {} => RestAt(c)
    /\ \A h \in AtWork(c) : RightAt(req[h], c)

(* A request forgets documents of its own course alone, and the uploads and documents *)
(* are finitely many, being made one at a time or from those that are there.          *)
Modest(r) == (\A d \in r.gone : d.course = r.course) /\ IsFiniteSet(r.copied)

FolderInv ==
    /\ \A c \in CourseIds \ disturbed : FolderAt(c)
    /\ \A h \in Handlers : Modest(req[h])
    /\ IsFiniteSet(temporary) /\ IsFiniteSet(documents)

(* What the disk refuses later excuses no less. *)
LEMMA Excused ==
    ASSUME NEW r, NEW K, NEW S, NEW Bad, NEW More, Bad \subseteq More, NEW lost, NEW cover
    PROVE  /\ FilesRight(r, K, S, Bad) => FilesRight(r, K, S, More)
           /\ CoverRight(r, S, Bad, lost, cover) => CoverRight(r, S, More, lost, cover)
BY DEF FilesRight, CoverRight

(* The steps on the cover leave the files alone, and the steps on the files the cover. *)
LEMMA FilesPass ==
    ASSUME NEW r, NEW q, NEW K, NEW S, NEW Bad, NEW T, FilesRight(r, K, S, Bad), T \cap Files = S \cap Files,
           r.pc \in {"idle", "contract", "folder", "drop", "cover", "uncover", "save"},
           \/ q.pc \in {"drop", "cover", "uncover", "save", "folder", "compare"}
           \/ q.pc = "filter" /\ q.creates,
           q.creates = r.creates, q.gone = r.gone, FilesOf(K) \subseteq Files
    PROVE  FilesRight(q, K, T, Bad)
<1>1. /\ Coming(q) \subseteq Coming(r) \cup q.body.files
      /\ Leaving(q) = {} /\ Pending(q) = {} /\ Leaving(r) = {} /\ Pending(r) = {}
  BY DEF Coming, Leaving, Pending, Unwritten
<1>2. Coming(q) \cap FilesOf(K) = {}
  BY DEF FilesRight, FilesOf, Coming, Unwritten
<1> QED BY <1>1, <1>2 DEF FilesRight

LEMMA CoverPasses ==
    ASSUME NEW r, NEW q, NEW S, NEW T, NEW Bad, NEW lost, NEW cover,
           CoverRight(r, S, Bad, lost, cover), T \cap Covers = S \cap Covers,
           r.pc \notin {"drop", "cover", "uncover", "save"},
           q.pc \notin {"drop", "cover", "uncover", "save", "folder", "compare"}, q.creates => q.pc # "contract",
           cover \in Covers \cup {None}
    PROVE  CoverRight(q, T, Bad, lost, cover)
BY DEF CoverRight, Shown

LEMMA DropRight ==
    ASSUME NEW r \in Requests, NEW S, NEW Bad, NEW lost, NEW cover,
           CoverRight(r, S, Bad, lost, cover), r.pc = "drop",
           NEW q, q = [r EXCEPT !.pc = "cover"], NEW bad, bad \subseteq {r.old}
    PROVE  CoverRight(q, S \ ({r.old} \ bad), Bad \cup bad, lost, cover)
<1>2. q.pc = "cover" /\ q.creates = r.creates /\ q.old = r.old /\ q.made = r.made
  BY DEF Requests
<1>3. Shown(q, lost, cover) = {} /\ Shown(r, lost, cover) \subseteq {r.old}
  BY <1>2 DEF CoverRight, Shown
<1> QED BY <1>2, <1>3 DEF CoverRight

LEMMA FoundRight ==
    ASSUME NEW r \in Requests, NEW S, NEW Bad, NEW lost, NEW cover,
           CoverRight(r, S, Bad, lost, cover), r.pc = "cover", r.body.cover \in Covers,
           NEW q, q = [r EXCEPT !.pc = "uncover"]
    PROVE  CoverRight(q, S \cup {r.body.cover}, Bad, lost, cover)
<1>2. q.pc = "uncover" /\ q.creates = r.creates /\ q.body = r.body
  BY DEF Requests
<1>3. S \cap Covers \subseteq Bad /\ Shown(q, lost, cover) = {r.body.cover}
  BY <1>2 DEF CoverRight, Shown
<1> QED BY <1>2, <1>3 DEF CoverRight

(* A cover that is not found: a new course has none, an update loses the old one. *)
LEMMA NotFoundRight ==
    ASSUME NEW r \in Requests, NEW S, NEW Bad, NEW lost \in BOOLEAN, NEW cover, NEW lost2 \in BOOLEAN,
           CoverRight(r, S, Bad, lost, cover), r.pc = "cover", r.creates \in BOOLEAN,
           lost2 <=> lost \/ ~ (r.creates \/ r.old = None),
           NEW q, q = [r EXCEPT !.pc = IF r.creates THEN "filter" ELSE "save"]
    PROVE  CoverRight(q, S, Bad, lost2, cover)
<1>2. q.pc = (IF r.creates THEN "filter" ELSE "save") /\ q.creates = r.creates /\ q.made = r.made
  BY DEF Requests
<1>3. S \cap Covers \subseteq Bad /\ ~ r.made /\ (IF r.creates THEN cover = None ELSE r.old = cover)
  BY DEF CoverRight, Shown
<1>4. Shown(q, lost2, cover) = {}
  BY <1>2, <1>3 DEF Shown
<1> QED BY <1>2, <1>3, <1>4 DEF CoverRight

LEMMA UncoverRight ==
    ASSUME NEW r \in Requests, NEW S, NEW Bad, NEW lost, NEW cover,
           CoverRight(r, S, Bad, lost, cover), r.pc = "uncover",
           NEW q, q = [r EXCEPT !.pc = "save", !.made = TRUE]
    PROVE  CoverRight(q, S, Bad, lost, cover)
<1>2. q.pc = "save" /\ q.made = TRUE /\ q.body = r.body
  BY DEF Requests
<1> QED BY <1>2 DEF CoverRight, Shown

LEMMA SaveRight ==
    ASSUME NEW r \in Requests, NEW S, NEW Bad, NEW lost, NEW cover, NEW lost2 \in BOOLEAN, NEW cover2,
           CoverRight(r, S, Bad, lost, cover), r.pc = "save", r.creates \in BOOLEAN,
           lost2 <=> lost /\ ~ r.made, cover2 = IF r.made THEN r.body.cover ELSE cover,
           NEW q, q.pc = IF r.creates THEN "filter" ELSE "compare", q.creates = r.creates
    PROVE  CoverRight(q, S, Bad, lost2, cover2)
<1>2. q.pc = IF r.creates THEN "filter" ELSE "compare"
  OBVIOUS
<1>3. r.made => r.body.cover \in Covers /\ r.body.cover # None
  BY NoneAssumption DEF CoverRight
<1>4. Shown(q, lost2, cover2) = Shown(r, lost, cover)
  BY <1>2, <1>3 DEF Shown
<1> QED BY <1>2, <1>4 DEF CoverRight

(* The materials: what is not in the body leaves the folder and then the documents, what *)
(* the body has and the course has not is copied and written.                            *)
LEMMA CompareRight ==
    ASSUME NEW r, NEW q, NEW K, NEW S, NEW Bad, FilesRight(r, K, S, Bad), r.pc = "compare", ~ r.creates,
           q.pc \in {"filter", "unlink"}, q.creates = r.creates, q.gone \subseteq K,
           q.body.files = r.body.files \ FilesOf(K)
    PROVE  FilesRight(q, K, S, Bad)
BY DEF FilesRight, FilesOf, Coming, Leaving, Pending, Unwritten

LEMMA UnlinkRight ==
    ASSUME NEW r \in Requests, NEW K, K \subseteq FileDocuments, NEW S, NEW Bad,
           FilesRight(r, K, S, Bad), r.pc = "unlink",
           NEW q, q = [r EXCEPT !.pc = "forget"], NEW bad
    PROVE  FilesRight(q, K, S \ (FilesOf(r.gone) \ bad), Bad \cup bad)
<1>2. q.pc = "forget" /\ q.creates = r.creates /\ q.body = r.body /\ q.gone = r.gone
  BY DEF Requests
<1>3. /\ \A d, e \in K : d.file = e.file => d = e
      /\ r.gone \subseteq K
      /\ FilesOf(K) \subseteq S /\ S \cap Files \subseteq FilesOf(K) \cup Bad
  BY DEF FilesRight, Leaving, Pending, Unwritten
<1>4. FilesOf(K) = FilesOf(K \ r.gone) \cup FilesOf(r.gone) /\ FilesOf(K \ r.gone) \cap FilesOf(r.gone) = {}
  BY <1>3 DEF FilesOf
<1>5. Leaving(q) = r.gone /\ Pending(q) = {}
  BY <1>2 DEF Leaving, Pending, Unwritten
<1>7. /\ FilesOf(K \ r.gone) \subseteq S \ (FilesOf(r.gone) \ bad)
      /\ (S \ (FilesOf(r.gone) \ bad)) \cap Files \subseteq FilesOf(K \ r.gone) \cup (Bad \cup bad)
  BY <1>3, <1>4
<1>6. Coming(q) = r.body.files /\ Coming(r) = r.body.files
  BY <1>2 DEF Coming, Unwritten
<1> QED BY <1>2, <1>5, <1>6, <1>7 DEF FilesRight

LEMMA ForgetRight ==
    ASSUME NEW r \in Requests, NEW K, NEW S, NEW Bad, FilesRight(r, K, S, Bad), r.pc = "forget",
           NEW q, q = [r EXCEPT !.pc = "filter", !.gone = {}]
    PROVE  FilesRight(q, K \ r.gone, S, Bad)
<1>2. q.pc = "filter" /\ q.creates = r.creates /\ q.body = r.body /\ q.gone = {}
  BY DEF Requests
<1>3. /\ \A d, e \in K : d.file = e.file => d = e
      /\ r.creates => K = {}
      /\ r.body.files \cap FilesOf(K) = {}
      /\ FilesOf(K \ r.gone) \subseteq S /\ S \cap Files \subseteq FilesOf(K \ r.gone) \cup Bad
  BY DEF FilesRight, Coming, Leaving, Pending, Unwritten
<1>4. r.body.files \cap FilesOf(K \ r.gone) = {}
  BY <1>3 DEF FilesOf
<1>5. Coming(q) = r.body.files /\ (K \ r.gone) \ Leaving(q) = K \ r.gone /\ Pending(q) = {}
  BY <1>2 DEF Coming, Leaving, Pending, Unwritten
<1> QED BY <1>2, <1>3, <1>4, <1>5 DEF FilesRight

LEMMA IdleRight ==
    ASSUME NEW r, NEW K, NEW S, NEW Bad, FilesRight(r, K, S, Bad), Leaving(r) = {}, Pending(r) = {}
    PROVE  FilesRight(Idle, K, S, Bad)
BY DEF FilesRight, Idle, Coming, Leaving, Pending, Unwritten

LEMMA AfterFilesRight ==
    ASSUME NEW r \in Requests, NEW K, NEW S, NEW Bad, FilesRight(r, K, S, Bad), Leaving(r) = {}, Pending(r) = {}
    PROVE  FilesRight(AfterFiles(r), K, S, Bad)
<1>1. CASE r.creates
  BY <1>1, IdleRight DEF AfterFiles
<1>2. CASE ~ r.creates
  <2>1. PICK q : q = AfterFiles(r)
    OBVIOUS
  <2>2. q.pc = "contract" /\ q.creates = FALSE /\ q.gone = {}
    BY <1>2, <2>1 DEF AfterFiles, Idle
  <2>3. FilesRight(q, K, S, Bad)
    BY <1>2, <2>2 DEF FilesRight, Coming, Leaving, Pending, Unwritten
  <2> QED BY <2>1, <2>3
<1> QED BY <1>1, <1>2

LEMMA FilterRight ==
    ASSUME NEW r \in Requests, NEW K, NEW S, NEW Bad, FilesRight(r, K, S, Bad), r.pc = "filter",
           NEW F, F \subseteq r.body.files,
           NEW q, q = [r EXCEPT !.pc = "copy", !.files = F]
    PROVE  FilesRight(q, K, S, Bad)
<1>2. q.pc = "copy" /\ q.creates = r.creates /\ q.files = F /\ q.gone = r.gone
  BY DEF Requests
<1> QED BY <1>2 DEF FilesRight, Coming, Leaving, Pending, Unwritten

LEMMA CopyRight ==
    ASSUME NEW r \in Requests, NEW K, NEW S, NEW Bad, FilesRight(r, K, S, Bad), r.pc = "copy",
           NEW F, F \subseteq r.files,
           NEW q, q = [r EXCEPT !.copied = F, !.pc = IF r.creates THEN "discard" ELSE "record"]
    PROVE  FilesRight(q, K, S \cup F, Bad)
<1>2. /\ q.pc = IF r.creates THEN "discard" ELSE "record"
      /\ q.creates = r.creates /\ q.copied = F /\ q.gone = r.gone /\ F \subseteq Files
  BY DEF Requests
<1>3. Unwritten(q) /\ Coming(q) = F /\ Leaving(q) = {} /\ Pending(q) = F
  BY <1>2 DEF Coming, Leaving, Pending, Unwritten
<1>4. Coming(r) = r.files /\ Leaving(r) = {} /\ Pending(r) = {}
  BY DEF Coming, Leaving, Pending, Unwritten
<1>5. /\ FilesOf(K) \subseteq S /\ S \cap Files \subseteq FilesOf(K) \cup Bad
      /\ \A d, e \in K : d.file = e.file => d = e
      /\ r.creates => K = {}
      /\ r.gone \subseteq K /\ r.files \cap FilesOf(K) = {}
  BY <1>4 DEF FilesRight
<1>6. K \ Leaving(q) = K /\ F \cap FilesOf(K) = {}
  BY <1>3, <1>5
<1>7. FilesOf(K) \cup F \subseteq S \cup F /\ (S \cup F) \cap Files \subseteq (FilesOf(K) \cup F) \cup Bad
  BY <1>5
<1> QED BY <1>2, <1>3, <1>5, <1>6, <1>7 DEF FilesRight

(* The documents written for the copied files, one each. *)
LEMMA RecordRight ==
    ASSUME NEW r \in Requests, NEW K, NEW S, NEW Bad, FilesRight(r, K, S, Bad), r.pc = "record",
           NEW New, FilesOf(New) = r.copied, \A d, e \in New : d.file = e.file => d = e,
           NEW q, q = IF r.creates THEN Idle ELSE [r EXCEPT !.pc = "discard"]
    PROVE  FilesRight(q, K \cup New, S, Bad)
<1>2. ~ q.creates /\ q.gone \subseteq r.gone /\ q.pc \in {"idle", "discard"}
  BY DEF Requests, Idle
<1>3. Coming(q) = {} /\ Leaving(q) = {} /\ Pending(q) = {}
  BY <1>2 DEF Coming, Leaving, Pending, Unwritten
<1>4. Coming(r) = r.copied /\ Leaving(r) = {} /\ Pending(r) = r.copied
  BY DEF Coming, Leaving, Pending, Unwritten
<1>5. /\ \A d, e \in K : d.file = e.file => d = e
      /\ r.gone \subseteq K /\ r.copied \cap FilesOf(K) = {}
      /\ FilesOf(K) \cup r.copied \subseteq S /\ S \cap Files \subseteq FilesOf(K) \cup r.copied \cup Bad
  BY <1>4 DEF FilesRight
<1>6. FilesOf(K \cup New) = FilesOf(K) \cup r.copied
  BY DEF FilesOf
<1>7. \A d, e \in K \cup New : d.file = e.file => d = e
  BY <1>5 DEF FilesOf
<1>8. (K \cup New) \ Leaving(q) = K \cup New
  BY <1>3
<1> QED BY <1>2, <1>3, <1>5, <1>6, <1>7, <1>8 DEF FilesRight

LEMMA DiscardRight ==
    ASSUME NEW r \in Requests, NEW K, NEW S, NEW Bad, FilesRight(r, K, S, Bad), r.pc = "discard"
    PROVE  FilesRight(IF r.creates THEN [r EXCEPT !.pc = "record"] ELSE AfterFiles(r), K, S, Bad)
<1>1. CASE r.creates
  <2>1. PICK q : q = [r EXCEPT !.pc = "record"]
    OBVIOUS
  <2>2. q.pc = "record" /\ q.creates = r.creates /\ q.copied = r.copied /\ q.gone = r.gone
    BY <2>1 DEF Requests
  <2>3. FilesRight(q, K, S, Bad)
    BY <1>1, <2>2 DEF FilesRight, Coming, Leaving, Pending, Unwritten
  <2> QED BY <1>1, <2>1, <2>3
<1>2. CASE ~ r.creates
  BY <1>2, AfterFilesRight DEF Leaving, Pending, Unwritten
<1> QED BY <1>1, <1>2

-----------------------------------------------------------------------------
(* What a step of a request leaves behind on the course it works on. *)
After(q, c) == \/ q = Idle /\ RestAt(c)'
               \/ q.course = c /\ RightAt(q, c)'

(* A request r at work on course c, what it finds there, and what it leaves when it has *)
(* become q.                                                                            *)
Finds(h, c, r, K, S, Bad, lost, cover) ==
    /\ r = req[h] /\ r.course = c
    /\ K = GetFiles(c) /\ S = StoredAt(c) /\ Bad = failed
    /\ (lost <=> c \in blank) /\ cover = courses[c].cover
    /\ courses[c].state = "there" /\ FilesRight(r, K, S, Bad) /\ CoverRight(r, S, Bad, lost, cover)

Leaves(c, q, K, S, Bad, lost, cover) ==
    /\ q = Idle \/ (q.course = c /\ q.pc \notin {"bare", "delete", "rmdir"})
    /\ K = GetFiles(c)' /\ S = StoredAt(c)' /\ Bad = failed'
    /\ (lost <=> c \in blank') /\ cover = courses'[c].cover
    /\ courses'[c].state = "there" /\ FilesRight(q, K, S, Bad) /\ CoverRight(q, S, Bad, lost, cover)

LEMMA RightNow ==
    ASSUME NEW h, NEW c, RightAt(req[h], c), req[h].course = c, req[h].pc \notin {"bare", "delete", "rmdir"}
    PROVE  \E r, K, S, Bad, lost, cover : Finds(h, c, r, K, S, Bad, lost, cover) /\ lost \in BOOLEAN
<1>1. PICK r, K, S, Bad, lost, cover : r = req[h] /\ K = GetFiles(c) /\ S = StoredAt(c) /\ Bad = failed
                                       /\ lost = (c \in blank) /\ cover = courses[c].cover
  OBVIOUS
<1>2. /\ courses[c].state = "there"
      /\ FilesRight(r, GetFiles(c), StoredAt(c), failed)
      /\ CoverRight(r, StoredAt(c), failed, c \in blank, courses[c].cover)
  BY <1>1 DEF RightAt, FolderRight
<1>3. FilesRight(r, K, S, Bad) /\ CoverRight(r, S, Bad, lost, cover)
  BY <1>1, <1>2, Zenon
<1>4. lost \in BOOLEAN /\ (lost <=> c \in blank)
  <2>1. (c \in blank) \in BOOLEAN /\ lost = (c \in blank)
    BY <1>1
  <2> QED BY <2>1
<1>5. Finds(h, c, r, K, S, Bad, lost, cover) /\ lost \in BOOLEAN
  BY <1>1, <1>2, <1>3, <1>4, Zenon DEF Finds
<1> QED BY <1>5, Zenon

LEMMA RightThen ==
    ASSUME NEW c, NEW q, NEW K, NEW S, NEW Bad, NEW lost, NEW cover, Leaves(c, q, K, S, Bad, lost, cover)
    PROVE  After(q, c)
<1>1. FolderRight(q, c)' /\ courses'[c].state = "there"
  BY DEF FolderRight, FilesRight, CoverRight, Shown, Leaves
<1>2. CASE q = Idle
  BY <1>1, <1>2 DEF After, RestAt, FolderRight, FilesRight, CoverRight, Shown
<1>3. CASE q.course = c /\ q.pc \notin {"bare", "delete", "rmdir"}
  BY <1>1, <1>3 DEF After, RightAt
<1> QED BY <1>2, <1>3 DEF Leaves

LEMMA StoredMoves ==
    ASSUME NEW c, StoredAt(c) \subseteq Uploads,
           NEW X, X \subseteq Uploads
    PROVE  /\ stored' = stored => StoredAt(c)' = StoredAt(c)
           /\ stored' = stored \cup ({c} \X X) => StoredAt(c)' = StoredAt(c) \cup X
           /\ stored' = stored \ ({c} \X X) => StoredAt(c)' = StoredAt(c) \ X
           /\ \A u \in Uploads : stored' = stored \cup {<<c, u>>} => StoredAt(c)' = StoredAt(c) \cup {u}
           /\ \A u \in Uploads : stored' = stored \ {<<c, u>>} => StoredAt(c)' = StoredAt(c) \ {u}
BY DEF StoredAt

LEMMA Moves ==
    ASSUME TypeOK, NEW h \in Handlers
    PROVE  /\ \A r : Continue(h, r) => req'[h] = r
           /\ \A pc : Goto(h, pc) => req'[h] = [req[h] EXCEPT !.pc = pc]
<1>1. req \in [Handlers -> Requests]
  BY DEF TypeOK
<1> QED BY <1>1 DEF Continue, Goto

LEMMA FindsTyped ==
    ASSUME TypeOK, NEW h \in Handlers, NEW c \in CourseIds, NEW r, NEW K, NEW S, NEW Bad, NEW lost, NEW cover,
           Finds(h, c, r, K, S, Bad, lost, cover)
    PROVE  /\ r \in Requests /\ r.creates \in BOOLEAN /\ r.made \in BOOLEAN
           /\ r.body \in Bodies /\ r.body.cover \in Covers \cup {None} /\ r.body.files \subseteq Files
           /\ r.files \subseteq Files /\ r.copied \subseteq Files
           /\ r.gone \subseteq FileDocuments /\ FilesOf(r.gone) \subseteq Files
           /\ K \subseteq FileDocuments /\ FilesOf(K) \subseteq Files /\ S \subseteq Uploads
           /\ cover \in Covers \cup {None}
           /\ courses \in [CourseIds -> CourseDocuments] /\ courses[c] \in CourseDocuments
<1>1. /\ r \in Requests /\ r.body \in Bodies /\ r.files \subseteq Files /\ r.copied \subseteq Files
      /\ r.gone \in SUBSET FileDocuments /\ FilesOf(r.gone) \in SUBSET Files
  BY DocumentsTyped DEF Finds
<1>2. r.creates \in BOOLEAN /\ r.made \in BOOLEAN
  BY <1>1 DEF Requests
<1>3. r.body.cover \in Covers \cup {None} /\ r.body.files \subseteq Files
  BY <1>1 DEF Bodies
<1>4. K \subseteq FileDocuments /\ FilesOf(K) \subseteq Files /\ S \subseteq Uploads
  <2>1. K \subseteq FileDocuments /\ S \subseteq Uploads
    BY DEF TypeOK, GetFiles, StoredAt, Finds
  <2> QED BY <2>1, DocumentsTyped
<1>5. courses \in [CourseIds -> CourseDocuments] /\ courses[c] \in CourseDocuments /\ cover \in Covers \cup {None}
  BY DocumentsTyped DEF TypeOK, Finds
<1> QED BY <1>1, <1>2, <1>3, <1>4, <1>5

LEMMA Unlinked ==
    ASSUME NEW c, NEW U, Unlink(c, U)
    PROVE  \E bad \in SUBSET U : StoredAt(c)' = StoredAt(c) \ (U \ bad) /\ failed' = failed \cup bad
BY DEF Unlink, Refuse, StoredAt

LEMMA ContractRight ==
    ASSUME CoursesInv, NEW h \in Handlers, NEW c \in CourseIds, NEW r, NEW K, NEW S, NEW Bad,
           NEW lost \in BOOLEAN, NEW cover, Finds(h, c, r, K, S, Bad, lost, cover), NEW q, q = req'[h], SetContract(h)
    PROVE  After(q, c)
<1>1. /\ TypeOK /\ r \in Requests /\ r.creates \in BOOLEAN /\ r.made \in BOOLEAN /\ r.course = c
      /\ FilesOf(K) \subseteq Files /\ cover \in Covers \cup {None}
      /\ FilesRight(r, K, S, Bad) /\ CoverRight(r, S, Bad, lost, cover) /\ r.pc = "contract"
  BY FindsTyped DEF CoursesInv, Finds, SetContract
<1>2. q = AfterContract(r)
  BY <1>1, Moves DEF SetContract, Finds
<1>3. /\ K = GetFiles(c)' /\ S = StoredAt(c)' /\ (lost <=> c \in blank') /\ Bad = failed'
      /\ cover = courses'[c].cover /\ courses'[c].state = "there"
  <2>1. courses' = courses /\ documents' = documents /\ stored' = stored /\ blank' = blank /\ failed' = failed
    BY DEF SetContract, folders, history
  <2> QED BY <2>1 DEF Finds, GetFiles, StoredAt
<1>4. CASE r.creates /\ r.body.contract # "empty"
  <2>1. q.pc = "folder" /\ q.creates = r.creates /\ q.gone = r.gone /\ q.made = r.made /\ q.course = c
    <3>1. q = [r EXCEPT !.pc = "folder"]
      BY <1>2, <1>4 DEF AfterContract
    <3> QED BY <1>1, <3>1 DEF Requests
  <2>2. FilesRight(q, K, S, Bad)
    BY <1>1, <2>1, FilesPass
  <2>3. CoverRight(q, S, Bad, lost, cover)
    BY <1>1, <1>4, <2>1 DEF CoverRight, Shown
  <2> QED BY <1>3, <2>1, <2>2, <2>3, RightThen DEF Leaves
<1>5. CASE ~ (r.creates /\ r.body.contract # "empty")
  <2>1. q = Idle /\ Leaving(r) = {} /\ Pending(r) = {}
    BY <1>1, <1>2, <1>5 DEF AfterContract, Leaving, Pending, Unwritten
  <2>2. FilesRight(q, K, S, Bad)
    BY <1>1, <2>1, IdleRight
  <2>3. CoverRight(q, S, Bad, lost, cover)
    BY <1>1, <2>1, CoverPasses DEF Idle
  <2> QED BY <1>3, <2>1, <2>2, <2>3, RightThen DEF Leaves
<1> QED BY <1>1, <1>4, <1>5

LEMMA StorageRight ==
    ASSUME CoursesInv, NEW h \in Handlers, NEW c \in CourseIds, NEW r, NEW K, NEW S, NEW Bad,
           NEW lost \in BOOLEAN, NEW cover, Finds(h, c, r, K, S, Bad, lost, cover), NEW q, q = req'[h], CreateCourseStorage(h)
    PROVE  After(q, c)
<1>1. /\ TypeOK /\ r \in Requests /\ r.creates \in BOOLEAN /\ r.made \in BOOLEAN /\ r.course = c
      /\ FilesOf(K) \subseteq Files /\ cover \in Covers \cup {None}
      /\ FilesRight(r, K, S, Bad) /\ CoverRight(r, S, Bad, lost, cover) /\ r.pc = "folder"
  BY FindsTyped DEF CoursesInv, Finds, CreateCourseStorage
<1>2. q = [r EXCEPT !.pc = IF r.body.cover = None THEN "filter" ELSE "cover"]
  BY <1>1, Moves DEF CreateCourseStorage, Finds
<1>3. /\ K = GetFiles(c)' /\ S = StoredAt(c)' /\ (lost <=> c \in blank') /\ Bad = failed'
      /\ cover = courses'[c].cover /\ courses'[c].state = "there"
  BY DEF Finds, CreateCourseStorage, folders, history, GetFiles, StoredAt
<1>4. /\ q.pc \in {"filter", "cover"} /\ q.creates = r.creates /\ q.gone = r.gone /\ q.made = r.made /\ q.course = c
      /\ r.creates
  BY <1>1, <1>2 DEF Requests, CoverRight
<1>5. FilesRight(q, K, S, Bad)
  BY <1>1, <1>4, FilesPass
<1>6. CoverRight(q, S, Bad, lost, cover)
  BY <1>1, <1>2, <1>4 DEF CoverRight, Shown
<1> QED BY <1>3, <1>4, <1>5, <1>6, RightThen DEF Leaves

LEMMA DroppedRight ==
    ASSUME CoursesInv, NEW h \in Handlers, NEW c \in CourseIds, NEW r, NEW K, NEW S, NEW Bad,
           NEW lost \in BOOLEAN, NEW cover, Finds(h, c, r, K, S, Bad, lost, cover), NEW q, q = req'[h], DropCover(h)
    PROVE  After(q, c)
<1>1. /\ TypeOK /\ r \in Requests /\ r.creates \in BOOLEAN /\ r.made \in BOOLEAN /\ r.course = c
      /\ FilesOf(K) \subseteq Files /\ cover \in Covers \cup {None}
      /\ FilesRight(r, K, S, Bad) /\ CoverRight(r, S, Bad, lost, cover) /\ r.pc = "drop"
  BY FindsTyped DEF CoursesInv, Finds, DropCover
<1>2. q = [r EXCEPT !.pc = "cover"]
  BY <1>1, Moves DEF DropCover, Finds
<1>3. /\ q.pc = "cover" /\ q.creates = r.creates /\ q.gone = r.gone /\ q.course = c
      /\ r.old \in Covers
  <2>1. r.old \in Covers \cup {None} /\ r.old # None
    BY <1>1, DocumentsTyped DEF CoursesInv, HandlerAt, Finds
  <2> QED BY <1>1, <1>2, <2>1 DEF Requests
<1>4. PICK bad \in SUBSET {r.old} :
            /\ K = GetFiles(c)' /\ S \ ({r.old} \ bad) = StoredAt(c)' /\ (lost <=> c \in blank')
            /\ Bad \cup bad = failed' /\ cover = courses'[c].cover /\ courses'[c].state = "there"
  BY <1>1, <1>3, Unlinked DEF Finds, DropCover, GetFiles
<1>5. FilesRight(q, K, S \ ({r.old} \ bad), Bad \cup bad)
  <2>1. FilesRight(q, K, S \ ({r.old} \ bad), Bad)
    BY <1>1, <1>3, FilesPass, UploadsAssumption
  <2> QED BY <2>1, Excused
<1>6. CoverRight(q, S \ ({r.old} \ bad), Bad \cup bad, lost, cover)
  BY <1>1, <1>2, DropRight
<1> QED BY <1>3, <1>4, <1>5, <1>6, RightThen DEF Leaves

LEMMA CompressedRight ==
    ASSUME CoursesInv, NEW h \in Handlers, NEW c \in CourseIds, NEW r, NEW K, NEW S, NEW Bad,
           NEW lost \in BOOLEAN, NEW cover, Finds(h, c, r, K, S, Bad, lost, cover), NEW q, q = req'[h], CompressCover(h)
    PROVE  After(q, c)
<1>1. /\ TypeOK /\ r \in Requests /\ r.creates \in BOOLEAN /\ r.made \in BOOLEAN /\ r.course = c
      /\ FilesOf(K) \subseteq Files /\ cover \in Covers \cup {None}
      /\ FilesRight(r, K, S, Bad) /\ CoverRight(r, S, Bad, lost, cover) /\ r.pc = "cover"
  BY FindsTyped DEF CoursesInv, Finds, CompressCover
<1>2. r.body.cover \in Covers
  BY <1>1, FindsTyped DEF CoursesInv, HandlerAt, Finds
<1>3. K = GetFiles(c)' /\ cover = courses'[c].cover /\ courses'[c].state = "there"
  BY DEF Finds, CompressCover, GetFiles
<1>4. CASE r.body.cover \in temporary
  <2>1. q = [r EXCEPT !.pc = "uncover"]
    BY <1>1, <1>4, Moves DEF CompressCover, Finds
  <2>2. q.pc = "uncover" /\ q.creates = r.creates /\ q.gone = r.gone /\ q.course = c
    BY <1>1, <2>1 DEF Requests
  <2>3. S \cup {r.body.cover} = StoredAt(c)' /\ (lost <=> c \in blank') /\ Bad = failed'
    BY <1>1, <1>2, <1>4 DEF Finds, CompressCover, StoredAt, Uploads
  <2>4. FilesRight(q, K, S \cup {r.body.cover}, Bad)
    BY <1>1, <1>2, <2>2, FilesPass, UploadsAssumption
  <2>5. CoverRight(q, S \cup {r.body.cover}, Bad, lost, cover)
    BY <1>1, <1>2, <2>1, FoundRight
  <2> QED BY <1>3, <2>2, <2>3, <2>4, <2>5, RightThen DEF Leaves
<1>5. CASE r.body.cover \notin temporary
  <2>1. q = [r EXCEPT !.pc = IF r.creates THEN "filter" ELSE "save"]
    BY <1>1, <1>5, Moves DEF CompressCover, Finds
  <2>2. q.pc = (IF r.creates THEN "filter" ELSE "save") /\ q.creates = r.creates /\ q.gone = r.gone /\ q.course = c
    BY <1>1, <2>1 DEF Requests
  <2>3. PICK lost2 \in BOOLEAN : lost2 <=> lost \/ ~ (r.creates \/ r.old = None)
    BY <1>1
  <2>4. S = StoredAt(c)' /\ (lost2 <=> c \in blank') /\ Bad = failed'
    BY <1>1, <1>5, <2>3 DEF Finds, CompressCover, StoredAt
  <2>5. FilesRight(q, K, S, Bad)
    BY <1>1, <2>2, FilesPass
  <2>6. CoverRight(q, S, Bad, lost2, cover)
    BY <1>1, <2>1, <2>3, NotFoundRight
  <2> QED BY <1>3, <2>2, <2>4, <2>5, <2>6, RightThen DEF Leaves
<1> QED BY <1>4, <1>5

LEMMA UncoveredRight ==
    ASSUME CoursesInv, NEW h \in Handlers, NEW c \in CourseIds, NEW r, NEW K, NEW S, NEW Bad,
           NEW lost \in BOOLEAN, NEW cover, Finds(h, c, r, K, S, Bad, lost, cover), NEW q, q = req'[h], DeleteTemporaryCover(h)
    PROVE  After(q, c)
<1>1. /\ TypeOK /\ r \in Requests /\ r.creates \in BOOLEAN /\ r.made \in BOOLEAN /\ r.course = c
      /\ FilesOf(K) \subseteq Files /\ cover \in Covers \cup {None}
      /\ FilesRight(r, K, S, Bad) /\ CoverRight(r, S, Bad, lost, cover) /\ r.pc = "uncover"
  BY FindsTyped DEF CoursesInv, Finds, DeleteTemporaryCover
<1>2. q = [r EXCEPT !.pc = "save", !.made = TRUE]
  BY <1>1, Moves DEF DeleteTemporaryCover, Finds
<1>3. /\ K = GetFiles(c)' /\ S = StoredAt(c)' /\ (lost <=> c \in blank') /\ Bad = failed'
      /\ cover = courses'[c].cover /\ courses'[c].state = "there"
  BY DEF Finds, DeleteTemporaryCover, folders, history, GetFiles, StoredAt
<1>4. q.pc = "save" /\ q.creates = r.creates /\ q.gone = r.gone /\ q.course = c
  BY <1>1, <1>2 DEF Requests
<1>5. FilesRight(q, K, S, Bad)
  BY <1>1, <1>4, FilesPass
<1>6. CoverRight(q, S, Bad, lost, cover)
  BY <1>1, <1>2, UncoverRight
<1> QED BY <1>3, <1>4, <1>5, <1>6, RightThen DEF Leaves

LEMMA SavedRight ==
    ASSUME CoursesInv, NEW h \in Handlers, NEW c \in CourseIds, NEW r, NEW K, NEW S, NEW Bad,
           NEW lost \in BOOLEAN, NEW cover, Finds(h, c, r, K, S, Bad, lost, cover), NEW q, q = req'[h], SaveCourse(h)
    PROVE  After(q, c)
<1>1. /\ TypeOK /\ r \in Requests /\ r.creates \in BOOLEAN /\ r.made \in BOOLEAN /\ r.course = c
      /\ FilesOf(K) \subseteq Files /\ cover \in Covers \cup {None}
      /\ FilesRight(r, K, S, Bad) /\ CoverRight(r, S, Bad, lost, cover) /\ r.pc = "save"
  BY FindsTyped DEF CoursesInv, Finds, SaveCourse
<1>2. q = [r EXCEPT !.pc = IF r.creates THEN "filter" ELSE "compare",
                    !.body.cover = None, !.old = None, !.made = FALSE]
  BY <1>1, Moves DEF SaveCourse, Finds
<1>3. q.pc = (IF r.creates THEN "filter" ELSE "compare") /\ q.creates = r.creates /\ q.gone = r.gone /\ q.course = c
  BY <1>1, <1>2 DEF Requests
<1>4. PICK lost2 \in BOOLEAN : lost2 <=> lost /\ ~ r.made
  BY <1>1
<1>5. PICK cover2 : cover2 = IF r.made THEN r.body.cover ELSE cover
  OBVIOUS
<1>6. K = GetFiles(c)' /\ S = StoredAt(c)' /\ (lost2 <=> c \in blank') /\ Bad = failed'
  BY <1>1, <1>4 DEF Finds, SaveCourse, folders, GetFiles, StoredAt
<1>7. cover2 = courses'[c].cover /\ courses'[c].state = "there"
  <2>1. courses \in [CourseIds -> CourseDocuments] /\ courses[c] \in CourseDocuments /\ c \in There
    BY <1>1, FindsTyped DEF Finds, There
  <2>2. courses' = IF r.made THEN [courses EXCEPT ![c].cover = r.body.cover] ELSE courses
    BY <1>1, <2>1 DEF SaveCourse, Finds
  <2> QED BY <1>1, <1>5, <2>1, <2>2 DEF Finds, CourseDocuments
<1>8. FilesRight(q, K, S, Bad)
  BY <1>1, <1>3, FilesPass
<1>9. CoverRight(q, S, Bad, lost2, cover2)
  BY <1>1, <1>3, <1>4, <1>5, SaveRight
<1> QED BY <1>3, <1>6, <1>7, <1>8, <1>9, RightThen DEF Leaves

LEMMA ComparedRight ==
    ASSUME CoursesInv, NEW h \in Handlers, NEW c \in CourseIds, NEW r, NEW K, NEW S, NEW Bad,
           NEW lost \in BOOLEAN, NEW cover, Finds(h, c, r, K, S, Bad, lost, cover), NEW q, q = req'[h], Compare(h)
    PROVE  After(q, c)
<1>1. /\ TypeOK /\ r \in Requests /\ r.creates \in BOOLEAN /\ r.made \in BOOLEAN /\ r.course = c
      /\ FilesOf(K) \subseteq Files /\ cover \in Covers \cup {None}
      /\ FilesRight(r, K, S, Bad) /\ CoverRight(r, S, Bad, lost, cover) /\ r.pc = "compare"
  BY FindsTyped DEF CoursesInv, Finds, Compare
<1>2. PICK gone : gone = {d \in K : d.file \notin r.body.files}
  OBVIOUS
<1>3. PICK pc \in {"filter", "unlink"} : pc = IF gone = {} THEN "filter" ELSE "unlink"
  OBVIOUS
<1>4. PICK body : body = [r.body EXCEPT !.files = r.body.files \ FilesOf(K)]
  OBVIOUS
<1>5. q = [r EXCEPT !.pc = pc, !.gone = gone, !.body = body]
  <2>1. Continue(h, [r EXCEPT !.pc = pc, !.gone = gone, !.body = body])
    BY <1>1, <1>2, <1>3, <1>4 DEF Compare, Continue, Requests, Finds
  <2> QED BY <1>1, <2>1, Moves
<1>6. q.pc = pc /\ q.creates = r.creates /\ q.gone = gone /\ q.body = body /\ q.course = c /\ ~ r.creates
  BY <1>1, <1>5 DEF Requests, CoverRight
<1>7. q.body.files = r.body.files \ FilesOf(K)
  BY <1>1, <1>4, <1>6, FindsTyped DEF Bodies
<1>8. /\ K = GetFiles(c)' /\ S = StoredAt(c)' /\ (lost <=> c \in blank') /\ Bad = failed'
      /\ cover = courses'[c].cover /\ courses'[c].state = "there"
  BY DEF Finds, Compare, folders, history, GetFiles, StoredAt
<1>9. FilesRight(q, K, S, Bad)
  BY <1>1, <1>2, <1>3, <1>6, <1>7, CompareRight
<1>10. CoverRight(q, S, Bad, lost, cover)
  BY <1>1, <1>3, <1>6, CoverPasses
<1> QED BY <1>3, <1>6, <1>8, <1>9, <1>10, RightThen DEF Leaves

LEMMA UnlinkedRight ==
    ASSUME CoursesInv, NEW h \in Handlers, NEW c \in CourseIds, NEW r, NEW K, NEW S, NEW Bad,
           NEW lost \in BOOLEAN, NEW cover, Finds(h, c, r, K, S, Bad, lost, cover), NEW q, q = req'[h], DeleteOldFiles(h)
    PROVE  After(q, c)
<1>1. /\ TypeOK /\ r \in Requests /\ r.creates \in BOOLEAN /\ r.made \in BOOLEAN /\ r.course = c
      /\ FilesOf(K) \subseteq Files /\ cover \in Covers \cup {None}
      /\ FilesRight(r, K, S, Bad) /\ CoverRight(r, S, Bad, lost, cover) /\ r.pc = "unlink"
  BY FindsTyped DEF CoursesInv, Finds, DeleteOldFiles
<1>2. q = [r EXCEPT !.pc = "forget"]
  BY <1>1, Moves DEF DeleteOldFiles, Finds
<1>3. q.pc = "forget" /\ q.creates = r.creates /\ q.course = c
  BY <1>1, <1>2 DEF Requests
<1>4. PICK bad \in SUBSET FilesOf(r.gone) :
            /\ K = GetFiles(c)' /\ S \ (FilesOf(r.gone) \ bad) = StoredAt(c)' /\ (lost <=> c \in blank')
            /\ Bad \cup bad = failed' /\ cover = courses'[c].cover /\ courses'[c].state = "there"
  BY <1>1, Unlinked DEF Finds, DeleteOldFiles, GetFiles
<1>5. FilesRight(q, K, S \ (FilesOf(r.gone) \ bad), Bad \cup bad)
  BY <1>1, <1>2, UnlinkRight, FindsTyped
<1>6. CoverRight(q, S \ (FilesOf(r.gone) \ bad), Bad \cup bad, lost, cover)
  <2>1. (S \ (FilesOf(r.gone) \ bad)) \cap Covers = S \cap Covers
    BY <1>1, FindsTyped, UploadsAssumption
  <2>2. CoverRight(q, S \ (FilesOf(r.gone) \ bad), Bad, lost, cover)
    BY <1>1, <1>3, <2>1, CoverPasses
  <2> QED BY <2>2, Excused
<1> QED BY <1>3, <1>4, <1>5, <1>6, RightThen DEF Leaves

LEMMA ForgottenRight ==
    ASSUME CoursesInv, NEW h \in Handlers, NEW c \in CourseIds, NEW r, NEW K, NEW S, NEW Bad,
           NEW lost \in BOOLEAN, NEW cover, Finds(h, c, r, K, S, Bad, lost, cover), NEW q, q = req'[h], DeleteFileDocuments(h)
    PROVE  After(q, c)
<1>1. /\ TypeOK /\ r \in Requests /\ r.creates \in BOOLEAN /\ r.made \in BOOLEAN /\ r.course = c
      /\ FilesOf(K) \subseteq Files /\ cover \in Covers \cup {None}
      /\ FilesRight(r, K, S, Bad) /\ CoverRight(r, S, Bad, lost, cover) /\ r.pc = "forget"
  BY FindsTyped DEF CoursesInv, Finds, DeleteFileDocuments
<1>2. q = [r EXCEPT !.pc = "filter", !.gone = {}]
  BY <1>1, Moves DEF DeleteFileDocuments, Finds
<1>3. q.pc = "filter" /\ q.course = c
  BY <1>1, <1>2 DEF Requests
<1>4. /\ K \ r.gone = GetFiles(c)' /\ S = StoredAt(c)' /\ (lost <=> c \in blank') /\ Bad = failed'
      /\ cover = courses'[c].cover /\ courses'[c].state = "there"
  BY <1>1 DEF Finds, DeleteFileDocuments, GetFiles, StoredAt, folders, history
<1>5. FilesRight(q, K \ r.gone, S, Bad)
  BY <1>1, <1>2, ForgetRight
<1>6. CoverRight(q, S, Bad, lost, cover)
  BY <1>1, <1>3, CoverPasses
<1> QED BY <1>3, <1>4, <1>5, <1>6, RightThen DEF Leaves

LEMMA AfterFilesFields ==
    ASSUME NEW r \in Requests
    PROVE  IF r.creates THEN AfterFiles(r) = Idle
           ELSE /\ AfterFiles(r).pc = "contract" /\ AfterFiles(r).course = r.course
                /\ ~ AfterFiles(r).creates
BY DEF AfterFiles, Idle

LEMMA CoverAfterFiles ==
    ASSUME NEW r \in Requests, NEW S, NEW Bad, NEW lost, NEW cover, CoverRight(r, S, Bad, lost, cover),
           r.pc \in {"filter", "discard"}, cover \in Covers \cup {None}
    PROVE  CoverRight(AfterFiles(r), S, Bad, lost, cover)
<1>1. AfterFiles(r).pc \in {"contract", "idle"} /\ ~ AfterFiles(r).creates
  BY AfterFilesFields DEF Idle
<1> QED BY <1>1, CoverPasses

LEMMA FilteredRight ==
    ASSUME CoursesInv, NEW h \in Handlers, NEW c \in CourseIds, NEW r, NEW K, NEW S, NEW Bad,
           NEW lost \in BOOLEAN, NEW cover, Finds(h, c, r, K, S, Bad, lost, cover), NEW q, q = req'[h], FilterExistingFiles(h)
    PROVE  After(q, c)
<1>1. /\ TypeOK /\ r \in Requests /\ r.creates \in BOOLEAN /\ r.made \in BOOLEAN /\ r.course = c
      /\ FilesOf(K) \subseteq Files /\ cover \in Covers \cup {None}
      /\ FilesRight(r, K, S, Bad) /\ CoverRight(r, S, Bad, lost, cover) /\ r.pc = "filter"
  BY FindsTyped DEF CoursesInv, Finds, FilterExistingFiles
<1>2. PICK existing : existing = r.body.files \cap temporary
  OBVIOUS
<1>3. q = IF existing = {} THEN AfterFiles(r) ELSE [r EXCEPT !.pc = "copy", !.files = existing]
  BY <1>1, <1>2, Moves DEF FilterExistingFiles, Finds
<1>4. /\ K = GetFiles(c)' /\ S = StoredAt(c)' /\ (lost <=> c \in blank') /\ Bad = failed'
      /\ cover = courses'[c].cover /\ courses'[c].state = "there"
  BY DEF Finds, FilterExistingFiles, folders, history, GetFiles, StoredAt
<1>5. CASE existing = {}
  <2>1. q = AfterFiles(r) /\ Leaving(r) = {} /\ Pending(r) = {}
    BY <1>1, <1>3, <1>5 DEF Leaving, Pending, Unwritten
  <2>2. FilesRight(q, K, S, Bad)
    BY <1>1, <2>1, AfterFilesRight
  <2>3. CoverRight(q, S, Bad, lost, cover)
    BY <1>1, <2>1, CoverAfterFiles
  <2>4. q = Idle \/ (q.course = c /\ q.pc = "contract")
    BY <1>1, <2>1, AfterFilesFields
  <2> QED BY <1>4, <2>2, <2>3, <2>4, RightThen DEF Leaves
<1>6. CASE existing # {}
  <2>1. q = [r EXCEPT !.pc = "copy", !.files = existing]
    BY <1>3, <1>6
  <2>2. q.pc = "copy" /\ q.course = c
    BY <1>1, <2>1 DEF Requests
  <2>3. FilesRight(q, K, S, Bad)
    BY <1>1, <1>2, <2>1, FilterRight
  <2>4. CoverRight(q, S, Bad, lost, cover)
    BY <1>1, <2>2, CoverPasses
  <2> QED BY <1>4, <2>2, <2>3, <2>4, RightThen DEF Leaves
<1> QED BY <1>5, <1>6

LEMMA CopiedRight ==
    ASSUME CoursesInv, NEW h \in Handlers, NEW c \in CourseIds, NEW r, NEW K, NEW S, NEW Bad,
           NEW lost \in BOOLEAN, NEW cover, Finds(h, c, r, K, S, Bad, lost, cover), NEW q, q = req'[h], CopyFiles(h)
    PROVE  After(q, c)
<1>1. /\ TypeOK /\ r \in Requests /\ r.creates \in BOOLEAN /\ r.made \in BOOLEAN /\ r.course = c
      /\ FilesOf(K) \subseteq Files /\ cover \in Covers \cup {None}
      /\ FilesRight(r, K, S, Bad) /\ CoverRight(r, S, Bad, lost, cover) /\ r.pc = "copy"
  BY FindsTyped DEF CoursesInv, Finds, CopyFiles
<1>2. PICK copied \in SUBSET r.files, bad \in SUBSET Failing :
            /\ stored' = stored \cup ({c} \X copied) /\ failed' = failed \cup bad
            /\ Continue(h, [r EXCEPT !.copied = copied, !.pc = IF r.creates THEN "discard" ELSE "record"])
  BY <1>1 DEF CopyFiles, Refuse, Finds
<1>3. q = [r EXCEPT !.copied = copied, !.pc = IF r.creates THEN "discard" ELSE "record"]
  BY <1>1, <1>2, Moves
<1>4. q.pc = (IF r.creates THEN "discard" ELSE "record") /\ q.course = c /\ copied \subseteq Files
  BY <1>1, <1>2, <1>3, FindsTyped DEF Requests
<1>5. /\ K = GetFiles(c)' /\ S \cup copied = StoredAt(c)' /\ (lost <=> c \in blank') /\ Bad \cup bad = failed'
      /\ cover = courses'[c].cover /\ courses'[c].state = "there"
  BY <1>1, <1>2, <1>4 DEF Finds, CopyFiles, GetFiles, StoredAt, Uploads
<1>6. FilesRight(q, K, S \cup copied, Bad \cup bad)
  <2>1. FilesRight(q, K, S \cup copied, Bad)
    BY <1>1, <1>2, <1>3, CopyRight
  <2> QED BY <2>1, Excused
<1>7. CoverRight(q, S \cup copied, Bad \cup bad, lost, cover)
  <2>1. (S \cup copied) \cap Covers = S \cap Covers
    BY <1>4, UploadsAssumption
  <2>2. CoverRight(q, S \cup copied, Bad, lost, cover)
    BY <1>1, <1>4, <2>1, CoverPasses
  <2> QED BY <2>2, Excused
<1> QED BY <1>4, <1>5, <1>6, <1>7, RightThen DEF Leaves

LEMMA RecordedRight ==
    ASSUME CoursesInv, NEW h \in Handlers, NEW c \in CourseIds, NEW r, NEW K, NEW S, NEW Bad,
           NEW lost \in BOOLEAN, NEW cover, Finds(h, c, r, K, S, Bad, lost, cover), NEW q, q = req'[h], CreateFiles(h)
    PROVE  After(q, c)
<1>1. /\ TypeOK /\ r \in Requests /\ r.creates \in BOOLEAN /\ r.made \in BOOLEAN /\ r.course = c
      /\ FilesOf(K) \subseteq Files /\ cover \in Covers \cup {None}
      /\ FilesRight(r, K, S, Bad) /\ CoverRight(r, S, Bad, lost, cover) /\ r.pc = "record"
  BY FindsTyped DEF CoursesInv, Finds, CreateFiles
<1>2. PICK New : New = {[file |-> f, course |-> r.course, copy |-> copies[f] + 1] : f \in r.copied}
  OBVIOUS
<1>3. q = IF r.creates THEN Idle ELSE [r EXCEPT !.pc = "discard"]
  BY <1>1, Moves DEF CreateFiles, Finds
<1>4. q = Idle \/ (q.course = c /\ q.pc = "discard" /\ ~ q.creates)
  BY <1>1, <1>3 DEF Requests
<1>5. \A d \in New : d.course = c
  BY <1>1, <1>2
<1>6. documents' = documents \cup New
  BY <1>2 DEF Finds, CreateFiles
<1>7. K \cup New = GetFiles(c)'
  BY <1>5, <1>6 DEF Finds, GetFiles
<1>8. S = StoredAt(c)' /\ (lost <=> c \in blank') /\ Bad = failed' /\ cover = courses'[c].cover /\ courses'[c].state = "there"
  BY DEF Finds, CreateFiles, StoredAt, folders, history
<1>9. FilesOf(New) = r.copied /\ \A d, e \in New : d.file = e.file => d = e
  <2>1. \A f \in r.copied : \E d \in New : f = d.file
    <3>1. \A f \in r.copied : LET d == [file |-> f, course |-> r.course, copy |-> copies[f] + 1]
                             IN  d \in New /\ d.file = f
      BY <1>2
    <3> QED BY <3>1
  <2>2. \A d \in New : d.file \in r.copied
    BY <1>2
  <2>3. \A d, e \in New : d.file = e.file => d = e
    BY <1>2
  <2> QED BY <2>1, <2>2, <2>3 DEF FilesOf
<1>10. FilesRight(q, K \cup New, S, Bad)
  BY <1>1, <1>3, <1>9, RecordRight
<1>11. CoverRight(q, S, Bad, lost, cover)
  BY <1>1, <1>4, CoverPasses DEF Idle
<1> QED BY <1>4, <1>7, <1>8, <1>10, <1>11, RightThen DEF Leaves

LEMMA DiscardedRight ==
    ASSUME CoursesInv, NEW h \in Handlers, NEW c \in CourseIds, NEW r, NEW K, NEW S, NEW Bad,
           NEW lost \in BOOLEAN, NEW cover, Finds(h, c, r, K, S, Bad, lost, cover), NEW q, q = req'[h], DeleteTemporary(h)
    PROVE  After(q, c)
<1>1. /\ TypeOK /\ r \in Requests /\ r.creates \in BOOLEAN /\ r.made \in BOOLEAN /\ r.course = c
      /\ FilesOf(K) \subseteq Files /\ cover \in Covers \cup {None}
      /\ FilesRight(r, K, S, Bad) /\ CoverRight(r, S, Bad, lost, cover) /\ r.pc = "discard"
  BY FindsTyped DEF CoursesInv, Finds, DeleteTemporary
<1>2. q = IF r.creates THEN [r EXCEPT !.pc = "record"] ELSE AfterFiles(r)
  BY <1>1, Moves DEF DeleteTemporary, Finds
<1>3. PICK More : Bad \subseteq More
                  /\ K = GetFiles(c)' /\ S = StoredAt(c)' /\ (lost <=> c \in blank') /\ More = failed'
                  /\ cover = courses'[c].cover /\ courses'[c].state = "there"
  BY DEF Finds, DeleteTemporary, Refuse, GetFiles, StoredAt
<1>4. FilesRight(q, K, S, More)
  BY <1>1, <1>2, <1>3, DiscardRight, Excused
<1>5. CASE r.creates
  <2>1. q.course = c /\ q.pc = "record"
    BY <1>1, <1>2, <1>5 DEF Requests
  <2>2. CoverRight(q, S, More, lost, cover)
    <3>1. CoverRight(q, S, Bad, lost, cover)
      BY <1>1, <2>1, CoverPasses
    <3> QED BY <1>3, <3>1, Excused
  <2> QED BY <1>3, <1>4, <2>1, <2>2, RightThen DEF Leaves
<1>6. CASE ~ r.creates
  <2>1. q = AfterFiles(r) /\ q.course = c /\ q.pc = "contract"
    BY <1>1, <1>2, <1>6, AfterFilesFields
  <2>2. CoverRight(q, S, More, lost, cover)
    <3>1. CoverRight(q, S, Bad, lost, cover)
      BY <1>1, <2>1, CoverAfterFiles
    <3> QED BY <1>3, <3>1, Excused
  <2> QED BY <1>3, <1>4, <2>1, <2>2, RightThen DEF Leaves
<1> QED BY <1>5, <1>6

-----------------------------------------------------------------------------
(* A course that a step passes by. *)
Same(d) ==
    /\ courses'[d] = courses[d] /\ (d \in blank' <=> d \in blank) /\ failed \subseteq failed'
    /\ GetFiles(d)' = GetFiles(d) /\ StoredAt(d)' = StoredAt(d)

LEMMA RightLater ==
    ASSUME NEW h, NEW c, NEW q, q = req'[h], RightAt(q, c)'
    PROVE  RightAt(req[h], c)'
BY DEF RightAt, FolderRight, FilesRight, CoverRight, Coming, Leaving, Pending, Unwritten

LEMMA RightKept ==
    ASSUME NEW d, NEW r, Same(d)
    PROVE  /\ RightAt(r, d) => RightAt(r, d)'
           /\ RestAt(d) => RestAt(d)'
<1>1. FolderRight(r, d) => FolderRight(r, d)'
  BY DEF Same, FolderRight, FilesRight, CoverRight, Shown
<1>2. FolderRight(Idle, d) => FolderRight(Idle, d)'
  BY DEF Same, FolderRight, FilesRight, CoverRight, Shown
<1> QED BY <1>1, <1>2 DEF Same, RightAt, RestAt

LEMMA FolderApart ==
    ASSUME NEW h \in Handlers, NEW d \in CourseIds, Same(d), FolderAt(d),
           \A g \in Handlers \ {h} : req'[g] = req[g], req[h].course # d, req'[h].course # d
    PROVE  FolderAt(d)'
<1>1. AtWork(d)' = AtWork(d) /\ \A g \in AtWork(d) : g # h /\ req'[g] = req[g]
  BY DEF AtWork
<1>2. ASSUME NEW g \in AtWork(d) PROVE RightAt(req[g], d)'
  <2>1. PICK r : r = req[g] /\ r = req'[g]
    BY <1>1
  <2>2. RightAt(r, d)
    BY <1>2, <2>1 DEF FolderAt
  <2> QED BY <2>1, <2>2, RightKept, RightLater
<1> QED BY <1>1, <1>2, RightKept DEF FolderAt

LEMMA FolderStayed ==
    ASSUME NEW h \in Handlers, NEW c \in CourseIds, h \in AtWork(c), \A f, g \in AtWork(c) : f = g,
           \A g \in Handlers \ {h} : req'[g] = req[g], NEW q, q = req'[h], After(q, c)
    PROVE  FolderAt(c)'
<1>1. AtWork(c) = {h}
  OBVIOUS
<1>2. CASE q.course = c /\ RightAt(q, c)'
  <2>1. AtWork(c)' = {h}
    BY <1>1, <1>2 DEF AtWork
  <2> QED BY <1>2, <2>1, RightLater DEF FolderAt
<1>3. CASE q = Idle /\ RestAt(c)'
  <2>1. req'[h].course = None
    BY <1>3 DEF Idle
  <2>2. AtWork(c)' = {}
    BY <1>1, <2>1, NoneAssumption DEF AtWork
  <2> QED BY <1>3, <2>2 DEF FolderAt
<1> QED BY <1>2, <1>3 DEF After

LEMMA FolderContinued ==
    ASSUME CoursesInv, ContractInv, FolderInv, NEW h \in Handlers, NEW c \in CourseIds, req[h].course = c,
           NEW q, q = req'[h], Continue(h, q), disturbed \subseteq disturbed', q.course \in {c, None},
           \A d \in CourseIds \ {c} : Same(d), c \notin disturbed' /\ RightAt(req[h], c) => After(q, c)
    PROVE  \A d \in CourseIds \ disturbed' : FolderAt(d)'
<1>1. TypeOK /\ \A g \in Handlers \ {h} : req'[g] = req[g]
  BY DEF CoursesInv, TypeOK, Continue
<1>2. ASSUME NEW d \in CourseIds \ disturbed', d # c PROVE FolderAt(d)'
  <2>1. FolderAt(d) /\ Same(d) /\ req[h].course # d /\ req'[h].course # d
    BY <1>2, NoneAssumption DEF FolderInv
  <2> QED BY <1>1, <1>2, <2>1, FolderApart
<1>3. ASSUME c \notin disturbed' PROVE FolderAt(c)'
  <2>1. FolderAt(c) /\ h \in AtWork(c) /\ \A f, g \in AtWork(c) : f = g
    BY <1>3 DEF FolderInv, AtWork, ContractInv, ContractAt
  <2>2. RightAt(req[h], c)
    BY <2>1 DEF FolderAt
  <2> QED BY <1>1, <1>3, <2>1, <2>2, FolderStayed
<1> QED BY <1>2, <1>3

LEMMA FolderBegun ==
    ASSUME CoursesInv, FolderInv, NEW h \in Handlers, NEW c \in CourseIds, NEW q, Begin(h, q), q.course = c,
           \A d \in CourseIds \ {c} : Same(d), RestAt(c) => RightAt(q, c)'
    PROVE  \A d \in CourseIds \ disturbed' : FolderAt(d)'
<1>1. TypeOK /\ req[h] = Idle /\ req'[h] = q /\ \A g \in Handlers \ {h} : req'[g] = req[g]
  BY DEF CoursesInv, TypeOK, Begin
<1>2. disturbed' = IF AtWork(c) = {} THEN disturbed ELSE disturbed \cup {c}
  BY DEF Begin
<1>3. ASSUME NEW d \in CourseIds \ disturbed', d # c PROVE FolderAt(d)'
  <2>1. FolderAt(d) /\ Same(d) /\ req[h].course # d /\ req'[h].course # d
    BY <1>1, <1>2, <1>3, NoneAssumption DEF FolderInv, Idle
  <2> QED BY <1>1, <1>3, <2>1, FolderApart
<1>4. ASSUME c \notin disturbed' PROVE FolderAt(c)'
  <2>1. AtWork(c) = {} /\ RestAt(c)
    BY <1>2, <1>4 DEF FolderInv, FolderAt
  <2>2. AtWork(c)' = {h}
    BY <1>1, <2>1 DEF AtWork
  <2> QED BY <1>1, <2>1, <2>2, RightLater DEF FolderAt
<1> QED BY <1>3, <1>4

(* Requests begin. *)
LEMMA CreateBegins ==
    ASSUME CoursesInv, FolderInv, NEW h \in Handlers, NEW c \in CourseIds, NEW b \in Sent, CreateCourse(h, c, b)
    PROVE  \A d \in CourseIds \ disturbed' : FolderAt(d)'
<1>1. PICK q : q = [Idle EXCEPT !.pc = IF b.contract = "absent" THEN "folder" ELSE "contract",
                                !.course = c, !.creates = TRUE, !.body = b]
  OBVIOUS
<1>2. /\ Begin(h, q) /\ q.course = c /\ q.creates = TRUE /\ q.pc \in {"contract", "folder"}
      /\ q.gone = {} /\ q.made = FALSE
  BY <1>1 DEF CreateCourse, Idle
<1>3. /\ courses \in [CourseIds -> CourseDocuments] /\ courses' = [courses EXCEPT ![c].state = "there"]
      /\ courses[c].state = "none"
      /\ documents' = documents /\ stored' = stored /\ blank' = blank /\ failed' = failed
  BY DEF CoursesInv, TypeOK, CreateCourse, NoCourse, folders
<1>4. /\ courses'[c].state = "there" /\ courses'[c].cover = courses[c].cover
      /\ \A d \in CourseIds \ {c} : courses'[d] = courses[d]
  BY <1>3 DEF CourseDocuments
<1>5. \A d \in CourseIds \ {c} : Same(d)
  BY <1>3, <1>4 DEF Same, GetFiles, StoredAt
<1>6. ASSUME RestAt(c) PROVE RightAt(q, c)'
  <2>1. PICK K, S, Bad, cover : K = GetFiles(c) /\ S = StoredAt(c) /\ Bad = failed /\ cover = courses[c].cover
    OBVIOUS
  <2>2. PICK lost \in BOOLEAN : lost <=> c \in blank
    OBVIOUS
  <2>3. /\ cover = None /\ K = {} /\ FilesRight(Idle, K, S, Bad) /\ S \cap Covers \subseteq Bad
    BY <1>3, <1>6, <2>1 DEF RestAt, FolderRight, CoverRight, Shown, Idle
  <2>4. FilesRight(q, K, S, Bad)
    <3>1. /\ Coming(q) = {} /\ Leaving(q) = {} /\ Pending(q) = {}
          /\ Leaving(Idle) = {} /\ Pending(Idle) = {}
      BY <1>2 DEF Coming, Leaving, Pending, Unwritten, Idle
    <3> QED BY <1>2, <2>3, <3>1 DEF FilesRight
  <2>5. CoverRight(q, S, Bad, lost, cover)
    BY <1>2, <2>3 DEF CoverRight, Shown
  <2>6. Leaves(c, q, K, S, Bad, lost, cover)
    BY <1>2, <1>3, <1>4, <2>1, <2>2, <2>4, <2>5 DEF Leaves, GetFiles, StoredAt
  <2> QED BY <1>2, <2>6, RightThen, NoneAssumption DEF After, Idle
<1> QED BY <1>2, <1>5, <1>6, FolderBegun

LEMMA UpdateBegins ==
    ASSUME CoursesInv, FolderInv, NEW h \in Handlers, NEW c \in CourseIds, NEW b \in Sent, UpdateCourse(h, c, b)
    PROVE  \A d \in CourseIds \ disturbed' : FolderAt(d)'
<1>1. PICK cover : cover = courses[c].cover
  OBVIOUS
<1>2. PICK q : q = [Idle EXCEPT !.pc = FirstStep(b.cover, cover), !.course = c, !.body = b, !.old = cover]
  OBVIOUS
<1>3. /\ Begin(h, q) /\ q.course = c /\ q.creates = FALSE /\ q.pc = FirstStep(b.cover, cover)
      /\ q.gone = {} /\ q.made = FALSE /\ q.old = cover
  BY <1>1, <1>2 DEF UpdateCourse, Idle
<1>4. /\ courses' = courses /\ courses[c].state = "there"
      /\ documents' = documents /\ stored' = stored /\ blank' = blank /\ failed' = failed
  BY DEF UpdateCourse, There, folders
<1>5. \A d \in CourseIds \ {c} : Same(d)
  BY <1>4 DEF Same, GetFiles, StoredAt
<1>6. q.pc \in {"save", "drop", "cover"} /\ (q.pc = "cover" => cover = None)
  BY <1>3 DEF FirstStep
<1>7. ASSUME RestAt(c) PROVE RightAt(q, c)'
  <2>1. PICK K, S, Bad : K = GetFiles(c) /\ S = StoredAt(c) /\ Bad = failed
    OBVIOUS
  <2>2. PICK lost \in BOOLEAN : lost <=> c \in blank
    OBVIOUS
  <2> DEFINE shown == IF lost THEN {} ELSE {cover} \ {None}
  <2>3. FilesRight(Idle, K, S, Bad) /\ shown \subseteq S /\ S \cap Covers \subseteq shown \cup Bad
    BY <1>1, <1>4, <1>7, <2>1, <2>2 DEF RestAt, FolderRight, CoverRight, Shown, Idle
  <2>4. FilesRight(q, K, S, Bad)
    <3>1. FilesOf(K) \subseteq Files
      BY <2>1, DocumentsTyped DEF CoursesInv, TypeOK, GetFiles
    <3> QED BY <1>3, <1>6, <2>3, <3>1, FilesPass DEF Idle
  <2>5. CoverRight(q, S, Bad, lost, cover)
    BY <1>3, <1>6, <2>3 DEF CoverRight, Shown
  <2>6. Leaves(c, q, K, S, Bad, lost, cover)
    BY <1>1, <1>3, <1>4, <1>6, <2>1, <2>2, <2>4, <2>5 DEF Leaves, GetFiles, StoredAt
  <2> QED BY <1>3, <2>6, RightThen, NoneAssumption DEF After, Idle
<1> QED BY <1>3, <1>5, <1>7, FolderBegun

LEMMA DeleteBegins ==
    ASSUME CoursesInv, FolderInv, NEW h \in Handlers, NEW c \in CourseIds, DeleteCourse(h, c)
    PROVE  \A d \in CourseIds \ disturbed' : FolderAt(d)'
<1>1. PICK q : q = [Idle EXCEPT !.pc = "bare", !.course = c]
  OBVIOUS
<1>2. Begin(h, q) /\ q.course = c /\ q.pc = "bare"
  BY <1>1 DEF DeleteCourse, Idle
<1>3. /\ courses' = courses /\ courses[c].state = "there"
      /\ documents' = documents /\ stored' = stored /\ blank' = blank /\ failed' = failed
  BY DEF DeleteCourse, There, folders
<1>4. \A d \in CourseIds \ {c} : Same(d)
  BY <1>3 DEF Same, GetFiles, StoredAt
<1>5. RightAt(q, c)'
  BY <1>2, <1>3 DEF RightAt
<1> QED BY <1>2, <1>4, <1>5, FolderBegun

(* Requests go on: a request changes the documents and the folder of its own course. *)
LEMMA OthersSame ==
    ASSUME CoursesInv, FolderInv, [Next]_vars, NEW h \in Handlers, NEW c \in CourseIds, req[h].course = c,
           \/ SetContract(h) \/ CreateCourseStorage(h) \/ DropCover(h) \/ CompressCover(h) \/ DeleteTemporaryCover(h)
           \/ SaveCourse(h) \/ Compare(h) \/ DeleteOldFiles(h) \/ DeleteFileDocuments(h) \/ FilterExistingFiles(h)
           \/ CopyFiles(h) \/ CreateFiles(h) \/ DeleteTemporary(h) \/ DeleteContract(h) \/ DeleteMany(h)
           \/ DeleteCourseFolder(h) \/ Cut(h)
    PROVE  \A d \in CourseIds \ {c} : Same(d)
<1>1. ASSUME NEW d \in CourseIds \ {c} PROVE courses'[d] = courses[d]
  BY <1>1 DEF CoursesInv, TypeOK, SetContract, CreateCourseStorage, DropCover, CompressCover, DeleteTemporaryCover,
     SaveCourse, Compare, DeleteOldFiles, DeleteFileDocuments, FilterExistingFiles, CopyFiles, CreateFiles,
     DeleteTemporary, DeleteContract, DeleteMany, DeleteCourseFolder, Cut
<1>2. ASSUME NEW d \in CourseIds \ {c} PROVE d \in blank' <=> d \in blank
  BY <1>2 DEF SetContract, CreateCourseStorage, DropCover, CompressCover, DeleteTemporaryCover,
     SaveCourse, Compare, DeleteOldFiles, DeleteFileDocuments, FilterExistingFiles, CopyFiles, CreateFiles,
     DeleteTemporary, DeleteContract, DeleteMany, DeleteCourseFolder, Cut, history
<1>3. ASSUME NEW d \in CourseIds \ {c} PROVE StoredAt(d)' = StoredAt(d)
  <2>1. \/ stored' = stored
        \/ \E S : stored' = stored \cup ({c} \X S) \/ stored' = stored \ ({c} \X S)
        \/ \E u : stored' = stored \cup {<<c, u>>}
    <3>1. CASE DropCover(h) \/ DeleteOldFiles(h) \/ DeleteCourseFolder(h)
      BY <3>1 DEF DropCover, DeleteOldFiles, DeleteCourseFolder, Unlink
    <3>2. CASE CopyFiles(h)
      BY <3>2 DEF CopyFiles
    <3>3. CASE CompressCover(h)
      BY <3>3 DEF CompressCover
    <3> QED BY <3>1, <3>2, <3>3 DEF SetContract, CreateCourseStorage, DeleteTemporaryCover,
       SaveCourse, Compare, DeleteFileDocuments, FilterExistingFiles, CreateFiles,
       DeleteTemporary, DeleteContract, DeleteMany, Cut, folders
  <2>2. \A u : <<d, u>> \in stored' <=> <<d, u>> \in stored
    BY <1>3, <2>1
  <2> QED BY <2>2 DEF StoredAt
<1>4. ASSUME NEW d \in CourseIds \ {c} PROVE GetFiles(d)' = GetFiles(d)
  <2>1. CASE CreateFiles(h)
    <3>1. PICK New : New = {[file |-> f, course |-> c, copy |-> copies[f] + 1] : f \in req[h].copied}
      OBVIOUS
    <3>2. \A e \in New : e.course = c
      BY <3>1
    <3>3. documents' = documents \cup New
      BY <2>1, <3>1 DEF CreateFiles
    <3> QED BY <1>4, <3>2, <3>3 DEF GetFiles
  <2>2. CASE DeleteFileDocuments(h)
    <3>1. documents' = documents \ req[h].gone /\ \A e \in req[h].gone : e.course = c
      BY <2>2 DEF DeleteFileDocuments, FolderInv, Modest
    <3> QED BY <1>4, <3>1 DEF GetFiles
  <2>3. CASE documents' = documents
    BY <2>3 DEF GetFiles
  <2> QED BY <2>1, <2>2, <2>3 DEF SetContract, CreateCourseStorage, DropCover, CompressCover, DeleteTemporaryCover,
       SaveCourse, Compare, DeleteOldFiles, FilterExistingFiles, CopyFiles,
       DeleteTemporary, DeleteContract, DeleteMany, DeleteCourseFolder, Cut
<1> QED BY <1>1, <1>2, <1>3, <1>4, FoldersMove DEF Same, CoursesInv

LEMMA RightSteps ==
    ASSUME CoursesInv, NEW h \in Handlers, NEW c \in CourseIds, req[h].course = c, RightAt(req[h], c),
           NEW q, q = req'[h],
           \/ SetContract(h) \/ CreateCourseStorage(h) \/ DropCover(h) \/ CompressCover(h) \/ DeleteTemporaryCover(h)
           \/ SaveCourse(h) \/ Compare(h) \/ DeleteOldFiles(h) \/ DeleteFileDocuments(h) \/ FilterExistingFiles(h)
           \/ CopyFiles(h) \/ CreateFiles(h) \/ DeleteTemporary(h)
    PROVE  After(q, c)
<1>1. req[h].pc \notin {"bare", "delete", "rmdir"}
  BY DEF SetContract, CreateCourseStorage, DropCover, CompressCover, DeleteTemporaryCover, SaveCourse, Compare,
         DeleteOldFiles, DeleteFileDocuments, FilterExistingFiles, CopyFiles, CreateFiles, DeleteTemporary
<1>2. PICK r, K, S, Bad, lost, cover : Finds(h, c, r, K, S, Bad, lost, cover) /\ lost \in BOOLEAN
  BY <1>1, RightNow
<1> QED BY <1>2, ContractRight, StorageRight, DroppedRight, CompressedRight, UncoveredRight, SavedRight,
           ComparedRight, UnlinkedRight, ForgottenRight, FilteredRight, CopiedRight, RecordedRight, DiscardedRight

(* A deletion: the course is there, then it is not, and then its folder is gone too. *)
LEMMA DeletionSteps ==
    ASSUME CoursesInv, NEW h \in Handlers, NEW c \in CourseIds, req[h].course = c, RightAt(req[h], c),
           NEW q, q = req'[h], DeleteContract(h) \/ DeleteMany(h) \/ DeleteCourseFolder(h)
    PROVE  After(q, c)
<1>1. req[h] \in Requests /\ TypeOK /\ courses \in [CourseIds -> CourseDocuments]
  BY DocumentsTyped DEF CoursesInv, TypeOK
<1>2. CASE DeleteContract(h)
  <2>1. q = [req[h] EXCEPT !.pc = "delete"]
    BY <1>1, <1>2, Moves DEF DeleteContract
  <2>2. q.pc = "delete" /\ q.course = c
    BY <1>1, <2>1 DEF Requests
  <2>3. courses' = courses /\ courses[c].state = "there"
    BY <1>2 DEF DeleteContract, RightAt
  <2> QED BY <2>2, <2>3 DEF After, RightAt
<1>3. CASE DeleteMany(h)
  <2>1. q = [req[h] EXCEPT !.pc = "rmdir"]
    BY <1>1, <1>3, Moves DEF DeleteMany
  <2>2. q.pc = "rmdir" /\ q.course = c
    BY <1>1, <2>1 DEF Requests
  <2>3. courses'[c].state = "deleted"
    BY <1>1, <1>3 DEF DeleteMany, NoCourse
  <2> QED BY <2>2, <2>3 DEF After, RightAt
<1>4. CASE DeleteCourseFolder(h)
  <2>1. q = Idle
    BY <1>1, <1>4, Moves DEF DeleteCourseFolder
  <2>2. courses' = courses /\ courses[c].state = "deleted"
    BY <1>4 DEF DeleteCourseFolder, RightAt
  <2> QED BY <2>1, <2>2 DEF After, RestAt
<1> QED BY <1>2, <1>3, <1>4

(* The course of a request, the documents it is about to forget and the files it copied. *)
LEMMA Onward ==
    ASSUME CoursesInv, FolderInv, NEW h \in Handlers, NEW q, q = req'[h], NEW r, r = req[h],
           \/ SetContract(h) \/ CreateCourseStorage(h) \/ DropCover(h) \/ CompressCover(h) \/ DeleteTemporaryCover(h)
           \/ SaveCourse(h) \/ Compare(h) \/ DeleteOldFiles(h) \/ DeleteFileDocuments(h) \/ FilterExistingFiles(h)
           \/ CopyFiles(h) \/ CreateFiles(h) \/ DeleteTemporary(h) \/ DeleteContract(h) \/ DeleteMany(h)
           \/ DeleteCourseFolder(h) \/ Cut(h)
    PROVE  q.course \in {r.course, None} /\ Modest(q)
<1>1. TypeOK /\ r \in Requests /\ Modest(r)
  BY DocumentsTyped DEF CoursesInv, FolderInv
<1>2. Idle.course = None /\ Modest(Idle)
  BY FS_EmptySet DEF Idle, Modest
<1>3. ASSUME NEW p, p.course = r.course, p.gone = r.gone, p.copied = r.copied PROVE Modest(p)
  BY <1>1, <1>3 DEF Modest
<1>4. ASSUME NEW pc, q = [r EXCEPT !.pc = pc] PROVE q.course = r.course /\ Modest(q)
  <2>1. q.course = r.course /\ q.gone = r.gone /\ q.copied = r.copied
    BY <1>1, <1>4 DEF Requests
  <2> QED BY <1>3, <2>1
<1>5. CASE \/ CreateCourseStorage(h) \/ DropCover(h) \/ CompressCover(h) \/ DeleteOldFiles(h)
           \/ DeleteContract(h) \/ DeleteMany(h)
  <2>1. \E pc : Goto(h, pc)
    BY <1>5 DEF CreateCourseStorage, DropCover, CompressCover, DeleteOldFiles, DeleteContract, DeleteMany
  <2> QED BY <1>1, <1>4, <2>1, Moves
<1>12. CASE SaveCourse(h)
  <2>1. q = [r EXCEPT !.pc = IF r.creates THEN "filter" ELSE "compare", !.body.cover = None, !.old = None, !.made = FALSE]
    BY <1>1, <1>12, Moves DEF SaveCourse
  <2>2. q.course = r.course /\ q.gone = r.gone /\ q.copied = r.copied
    BY <1>1, <2>1 DEF Requests
  <2> QED BY <1>3, <2>2
<1>13. AfterFiles(r).course \in {r.course, None} /\ Modest(AfterFiles(r))
  <2>1. AfterFiles(r).course \in {r.course, None} /\ AfterFiles(r).gone = {} /\ AfterFiles(r).copied = {}
    BY DEF AfterFiles, Idle
  <2> QED BY <2>1, FS_EmptySet DEF Modest
<1>6. CASE \/ SetContract(h) \/ DeleteCourseFolder(h) \/ Cut(h) \/ CreateFiles(h)
  <2>1. q = Idle \/ \E pc : q = [r EXCEPT !.pc = pc]
    BY <1>1, <1>6, Moves DEF SetContract, AfterContract, DeleteCourseFolder, Cut, CreateFiles
  <2> QED BY <1>2, <1>4, <2>1
<1>7. CASE FilterExistingFiles(h) \/ DeleteTemporary(h)
  <2>1. \/ q = AfterFiles(r) \/ \E pc : q = [r EXCEPT !.pc = pc]
        \/ \E F : q = [r EXCEPT !.pc = "copy", !.files = F]
    BY <1>1, <1>7, Moves DEF FilterExistingFiles, DeleteTemporary
  <2>2. ASSUME NEW F, q = [r EXCEPT !.pc = "copy", !.files = F] PROVE q.course = r.course /\ Modest(q)
    <3>1. q.course = r.course /\ q.gone = r.gone /\ q.copied = r.copied
      BY <1>1, <2>2 DEF Requests
    <3> QED BY <1>3, <3>1
  <2> QED BY <1>4, <1>13, <2>1, <2>2
<1>8. CASE DeleteTemporaryCover(h)
  <2>1. q = [r EXCEPT !.pc = "save", !.made = TRUE]
    BY <1>1, <1>8, Moves DEF DeleteTemporaryCover
  <2>2. q.course = r.course /\ q.gone = r.gone /\ q.copied = r.copied
    BY <1>1, <2>1 DEF Requests
  <2> QED BY <1>3, <2>2
<1>9. CASE DeleteFileDocuments(h)
  <2>1. q = [r EXCEPT !.pc = "filter", !.gone = {}]
    BY <1>1, <1>9, Moves DEF DeleteFileDocuments
  <2>2. q.course = r.course /\ q.gone = {} /\ q.copied = r.copied
    BY <1>1, <2>1 DEF Requests
  <2> QED BY <1>1, <2>2 DEF Modest
<1>10. CASE CopyFiles(h)
  <2>1. PICK copied \in SUBSET temporary :
             Continue(h, [r EXCEPT !.copied = copied, !.pc = IF r.creates THEN "discard" ELSE "record"])
    BY <1>10 DEF CopyFiles
  <2>2. q = [r EXCEPT !.copied = copied, !.pc = IF r.creates THEN "discard" ELSE "record"]
    BY <1>1, <2>1, Moves
  <2>3. q.course = r.course /\ q.gone = r.gone /\ q.copied = copied
    BY <1>1, <2>2 DEF Requests
  <2>4. IsFiniteSet(copied)
    BY <2>1, FS_Subset DEF FolderInv
  <2> QED BY <1>1, <2>3, <2>4 DEF Modest
<1>11. CASE Compare(h)
  <2>1. PICK gone : gone = {d \in GetFiles(r.course) : d.file \notin r.body.files}
    OBVIOUS
  <2>2. PICK body : body = [r.body EXCEPT !.files = r.body.files \ FilesOf(GetFiles(r.course))]
    OBVIOUS
  <2>3. PICK pc : pc = IF gone = {} THEN "filter" ELSE "unlink"
    OBVIOUS
  <2>4. q = [r EXCEPT !.pc = pc, !.gone = gone, !.body = body]
    <3>1. Continue(h, [r EXCEPT !.pc = pc, !.gone = gone, !.body = body])
      BY <1>1, <1>11, <2>1, <2>2, <2>3 DEF Compare, Continue, Requests
    <3> QED BY <1>1, <3>1, Moves
  <2>5. q.course = r.course /\ q.gone = gone /\ q.copied = r.copied
    BY <1>1, <2>4 DEF Requests
  <2>6. \A d \in gone : d.course = r.course
    BY <2>1 DEF GetFiles
  <2> QED BY <1>1, <2>5, <2>6 DEF Modest
<1> QED BY <1>2, <1>5, <1>6, <1>7, <1>8, <1>9, <1>10, <1>11, <1>12

(* The step taken by a request keeps every undisturbed course right. *)
LEMMA WorkRight ==
    ASSUME CoursesInv, ContractInv, FolderInv, [Next]_vars, NEW h \in Handlers, NEW q, q = req'[h],
           \/ SetContract(h) \/ CreateCourseStorage(h) \/ DropCover(h) \/ CompressCover(h) \/ DeleteTemporaryCover(h)
           \/ SaveCourse(h) \/ Compare(h) \/ DeleteOldFiles(h) \/ DeleteFileDocuments(h) \/ FilterExistingFiles(h)
           \/ CopyFiles(h) \/ CreateFiles(h) \/ DeleteTemporary(h) \/ DeleteContract(h) \/ DeleteMany(h)
           \/ DeleteCourseFolder(h) \/ Cut(h)
    PROVE  \A d \in CourseIds \ disturbed' : FolderAt(d)'
<1>1. TypeOK /\ HandlerAt(h)
  BY DEF CoursesInv
<1>2. req[h].pc # "idle"
  BY <1>1 DEF SetContract, CreateCourseStorage, DropCover, CompressCover, DeleteTemporaryCover, SaveCourse, Compare,
     DeleteOldFiles, DeleteFileDocuments, FilterExistingFiles, CopyFiles, CreateFiles, DeleteTemporary,
     DeleteContract, DeleteMany, DeleteCourseFolder, Cut, HandlerAt
<1>3. PICK c \in CourseIds : req[h].course = c
  BY <1>1, <1>2 DEF HandlerAt
<1>4. Continue(h, q)
  <2>1. \E r : Continue(h, r)
    BY DEF SetContract, CreateCourseStorage, DropCover, CompressCover, DeleteTemporaryCover, SaveCourse, Compare,
       DeleteOldFiles, DeleteFileDocuments, FilterExistingFiles, CopyFiles, CreateFiles, DeleteTemporary,
       DeleteContract, DeleteMany, DeleteCourseFolder, Cut, Goto, Continue
  <2> QED BY <1>1, <2>1, Moves
<1>5. (\A d \in CourseIds \ {c} : Same(d)) /\ q.course \in {c, None}
  BY <1>3, OthersSame, Onward
<1>6. disturbed \subseteq disturbed' /\ (Cut(h) => c \in disturbed')
  BY <1>3 DEF SetContract, CreateCourseStorage, DropCover, CompressCover, DeleteTemporaryCover, SaveCourse, Compare,
     DeleteOldFiles, DeleteFileDocuments, FilterExistingFiles, CopyFiles, CreateFiles, DeleteTemporary,
     DeleteContract, DeleteMany, DeleteCourseFolder, Cut, history
<1>7. c \notin disturbed' /\ RightAt(req[h], c) => After(q, c)
  BY <1>3, <1>6, RightSteps, DeletionSteps
<1> QED BY <1>3, <1>4, <1>5, <1>6, <1>7, FolderContinued

LEMMA BeginModest ==
    ASSUME CoursesInv, FolderInv, NEW h \in Handlers, NEW q, Begin(h, q), Modest(q)
    PROVE  \A g \in Handlers : Modest(req[g])'
<1>1. req'[h] = q /\ \A g \in Handlers \ {h} : req'[g] = req[g]
  BY DEF CoursesInv, TypeOK, Begin
<1> QED BY <1>1 DEF FolderInv, Modest

LEMMA ContinueModest ==
    ASSUME CoursesInv, FolderInv, NEW h \in Handlers, NEW q, Continue(h, q), Modest(q)
    PROVE  \A g \in Handlers : Modest(req[g])'
<1>1. req'[h] = q /\ \A g \in Handlers \ {h} : req'[g] = req[g]
  BY DEF CoursesInv, TypeOK, Continue
<1> QED BY <1>1 DEF FolderInv, Modest

LEMMA DocumentsFinite ==
    ASSUME FolderInv, NEW h \in Handlers, CreateFiles(h)
    PROVE  IsFiniteSet(documents')
<1>1. PICK C, c : C = req[h].copied /\ c = req[h].course
  OBVIOUS
<1>2. PICK New : New = {[file |-> f, course |-> c, copy |-> copies[f] + 1] : f \in C}
  OBVIOUS
<1>3. PICK m : m = [f \in C |-> [file |-> f, course |-> c, copy |-> copies[f] + 1]]
  OBVIOUS
<1>4. m \in Surjection(C, New)
  <2>1. m \in [C -> New]
    BY <1>2, <1>3
  <2>2. \A d \in New : \E f \in C : m[f] = d
    BY <1>2, <1>3
  <2> QED BY <2>1, <2>2 DEF Surjection
<1>5. IsFiniteSet(C) /\ documents' = documents \cup New
  BY <1>1, <1>2 DEF FolderInv, Modest, CreateFiles
<1>6. IsFiniteSet(New)
  BY <1>4, <1>5, FS_Surjection
<1> QED BY <1>5, <1>6, FS_Union DEF FolderInv

LEMMA FolderStep ==
    ASSUME CoursesInv, ContractInv, FolderInv, [Next]_vars
    PROVE  FolderInv'
<1>1. ASSUME NEW h \in Handlers, NEW c \in CourseIds, NEW b \in Sent, CreateCourse(h, c, b) PROVE FolderInv'
  <2>1. PICK q : q = [Idle EXCEPT !.pc = IF b.contract = "absent" THEN "folder" ELSE "contract",
                                  !.course = c, !.creates = TRUE, !.body = b]
    OBVIOUS
  <2>2. Begin(h, q) /\ q.gone = {} /\ q.copied = {}
    BY <1>1, <2>1 DEF CreateCourse, Idle
  <2>3. Modest(q)
    BY <2>2, FS_EmptySet DEF Modest
  <2>4. temporary' = temporary /\ documents' = documents
    BY <1>1 DEF CreateCourse, folders
  <2> QED BY <1>1, <2>2, <2>3, <2>4, BeginModest, CreateBegins DEF FolderInv
<1>2. ASSUME NEW h \in Handlers, NEW c \in CourseIds, NEW b \in Sent, UpdateCourse(h, c, b) PROVE FolderInv'
  <2>1. PICK q : q = [Idle EXCEPT !.pc = FirstStep(b.cover, courses[c].cover), !.course = c, !.body = b,
                                  !.old = courses[c].cover]
    OBVIOUS
  <2>2. Begin(h, q) /\ q.gone = {} /\ q.copied = {}
    BY <1>2, <2>1 DEF UpdateCourse, Idle
  <2>3. Modest(q)
    BY <2>2, FS_EmptySet DEF Modest
  <2>4. temporary' = temporary /\ documents' = documents
    BY <1>2 DEF UpdateCourse, folders
  <2> QED BY <1>2, <2>2, <2>3, <2>4, BeginModest, UpdateBegins DEF FolderInv
<1>3. ASSUME NEW h \in Handlers, NEW c \in CourseIds, DeleteCourse(h, c) PROVE FolderInv'
  <2>1. PICK q : q = [Idle EXCEPT !.pc = "bare", !.course = c]
    OBVIOUS
  <2>2. Begin(h, q) /\ q.gone = {} /\ q.copied = {}
    BY <1>3, <2>1 DEF DeleteCourse, Idle
  <2>3. Modest(q)
    BY <2>2, FS_EmptySet DEF Modest
  <2>4. temporary' = temporary /\ documents' = documents
    BY <1>3 DEF DeleteCourse, folders
  <2> QED BY <1>3, <2>2, <2>3, <2>4, BeginModest, DeleteBegins DEF FolderInv
<1>4. ASSUME NEW h \in Handlers, NEW q, q = req'[h],
             \/ SetContract(h) \/ CreateCourseStorage(h) \/ DropCover(h) \/ CompressCover(h) \/ DeleteTemporaryCover(h)
             \/ SaveCourse(h) \/ Compare(h) \/ DeleteOldFiles(h) \/ DeleteFileDocuments(h) \/ FilterExistingFiles(h)
             \/ CopyFiles(h) \/ CreateFiles(h) \/ DeleteTemporary(h) \/ DeleteContract(h) \/ DeleteMany(h)
             \/ DeleteCourseFolder(h) \/ Cut(h)
      PROVE  FolderInv'
  <2>1. Continue(h, q)
    <3>1. \E r : Continue(h, r)
      BY <1>4 DEF SetContract, CreateCourseStorage, DropCover, CompressCover, DeleteTemporaryCover, SaveCourse, Compare,
         DeleteOldFiles, DeleteFileDocuments, FilterExistingFiles, CopyFiles, CreateFiles, DeleteTemporary,
         DeleteContract, DeleteMany, DeleteCourseFolder, Cut, Goto, Continue
    <3> QED BY <1>4, <3>1, Moves DEF CoursesInv
  <2>2. \A g \in Handlers : Modest(req[g])'
    BY <1>4, <2>1, Onward, ContinueModest
  <2>3. IsFiniteSet(temporary')
    <3>1. temporary' \subseteq temporary
      BY <1>4 DEF SetContract, CreateCourseStorage, DropCover, CompressCover, DeleteTemporaryCover, SaveCourse, Compare,
         DeleteOldFiles, DeleteFileDocuments, FilterExistingFiles, CopyFiles, CreateFiles, DeleteTemporary,
         DeleteContract, DeleteMany, DeleteCourseFolder, Cut, folders, history
    <3> QED BY <3>1, FS_Subset DEF FolderInv
  <2>4. IsFiniteSet(documents')
    <3>1. CreateFiles(h) \/ documents' \subseteq documents
      BY <1>4 DEF SetContract, CreateCourseStorage, DropCover, CompressCover, DeleteTemporaryCover, SaveCourse, Compare,
         DeleteOldFiles, DeleteFileDocuments, FilterExistingFiles, CopyFiles, DeleteTemporary,
         DeleteContract, DeleteMany, DeleteCourseFolder, Cut
    <3> QED BY <3>1, DocumentsFinite, FS_Subset DEF FolderInv
  <2> QED BY <1>4, <2>2, <2>3, <2>4, WorkRight DEF FolderInv
<1>5. CASE (\E u \in Uploads : Upload(u)) \/ UNCHANGED vars
  <2>1. /\ req' = req /\ courses' = courses /\ documents' = documents /\ stored' = stored
        /\ blank' = blank /\ disturbed' = disturbed /\ failed' = failed
        /\ temporary' = temporary \/ \E u : temporary' = temporary \cup {u}
    BY <1>5 DEF Upload, vars, folders, history
  <2>2. IsFiniteSet(temporary')
    BY <2>1, FS_AddElement DEF FolderInv
  <2>3. \A g \in Handlers : Modest(req[g])'
    BY <2>1 DEF FolderInv, Modest
  <2>4. ASSUME NEW d \in CourseIds \ disturbed' PROVE FolderAt(d)'
    <3>1. Same(d) /\ FolderAt(d) /\ AtWork(d)' = AtWork(d)
      BY <2>1, <2>4 DEF Same, GetFiles, StoredAt, FolderInv, AtWork
    <3>2. ASSUME NEW g \in AtWork(d) PROVE RightAt(req[g], d)'
      <4>1. PICK r : r = req[g] /\ r = req'[g]
        BY <2>1
      <4>2. RightAt(r, d)
        BY <3>1, <3>2, <4>1 DEF FolderAt
      <4> QED BY <3>1, <4>1, <4>2, RightKept, RightLater
    <3> QED BY <3>1, <3>2, RightKept DEF FolderAt
  <2> QED BY <2>1, <2>2, <2>3, <2>4 DEF FolderInv
<1> QED BY <1>1, <1>2, <1>3, <1>4, <1>5 DEF Next

LEMMA FolderInvariance == Spec => []FolderInv
<1>1. ASSUME Init PROVE FolderInv
  <2>1. \A h \in Handlers : req[h] = Idle /\ req[h].course = None /\ Modest(req[h])
    BY <1>1, FS_EmptySet DEF Init, Idle, Modest
  <2>2. ASSUME NEW c \in CourseIds PROVE FolderAt(c)
    <3>1. AtWork(c) = {} /\ GetFiles(c) = {} /\ StoredAt(c) = {} /\ courses[c].state = "none" /\ courses[c].cover = None
      BY <1>1, <2>1, NoneAssumption DEF Init, AtWork, GetFiles, StoredAt, NoCourse
    <3>2. FilesRight(Idle, {}, {}, failed)
      BY DEF FilesRight, FilesOf, Coming, Leaving, Pending, Unwritten, Idle
    <3>3. CoverRight(Idle, {}, failed, c \in blank, None)
      BY DEF CoverRight, Shown, Idle
    <3>4. FolderRight(Idle, c)
      BY <3>1, <3>2, <3>3 DEF FolderRight
    <3> QED BY <3>1, <3>4 DEF FolderAt, RestAt
  <2>3. IsFiniteSet(temporary) /\ IsFiniteSet(documents)
    BY <1>1, FS_EmptySet DEF Init
  <2> QED BY <2>1, <2>2, <2>3 DEF FolderInv
<1> QED BY <1>1, Invariance, ContractInvariance, FolderStep, PTL DEF Spec

-----------------------------------------------------------------------------
(* The courses, the collections, the folders and the handlers keep the shape that *)
(* course.schema.ts, contract.schema.ts and course.service.ts give them.          *)
THEOREM TypeCorrect == Spec => []TypeOK
BY Invariance, PTL DEF CoursesInv

(* However many requests create, edit and delete courses at once, and wherever they are *)
(* cut, no cover and no file is lost on its way into a course, unless the disk refused  *)
(* to copy it or to remove it (course.service.ts, storage.service.ts).                  *)
THEOREM NoUploadLost == Spec => []UploadsKept
BY Invariance, PTL DEF CoursesInv

(* A course whose requests came one at a time has a contract exactly if the last one that *)
(* spoke of contracts asked for it, and a deleted one leaves none, and no file behind but *)
(* those the disk refused to remove (createCourse, updateCourse, deleteCourse).           *)
THEOREM ContractKept == Spec => []ContractAsAsked
<1>1. ContractInv => ContractAsAsked
  BY DEF ContractInv, ContractAt, AtRest, ContractAsAsked, Settled
<1> QED BY <1>1, ContractInvariance, PTL

(* A course whose requests came one at a time has in its folder the materials that have a  *)
(* document, and no others but for files the disk refused to remove, and no material has   *)
(* two documents (updateCourse, copyFiles, createCourseStorage).                           *)
THEOREM MaterialsRecorded == Spec => []MaterialsMatch
<1>1. ASSUME FolderInv PROVE MaterialsMatch
  <2>1. SUFFICES ASSUME NEW c \in Settled \cap There
                 PROVE  /\ FilesOf(GetFiles(c)) \subseteq StoredAt(c)
                        /\ StoredAt(c) \cap Files \subseteq FilesOf(GetFiles(c)) \cup failed
                        /\ Cardinality(GetFiles(c)) = Cardinality(FilesOf(GetFiles(c)))
    BY DEF MaterialsMatch
  <2>2. PICK K : K = GetFiles(c)
    OBVIOUS
  <2>3. FilesRight(Idle, K, StoredAt(c), failed)
    BY <1>1, <2>1, <2>2 DEF FolderInv, FolderAt, RestAt, FolderRight, Settled, There
  <2>4. /\ FilesOf(K) \subseteq StoredAt(c) /\ StoredAt(c) \cap Files \subseteq FilesOf(K) \cup failed
        /\ \A d, e \in K : d.file = e.file => d = e
    BY <2>3 DEF FilesRight, Leaving, Pending, Unwritten, Idle
  <2>5. IsFiniteSet(K)
    BY <1>1, <2>2, FS_Subset DEF FolderInv, GetFiles
  <2>6. PICK m : m = [d \in K |-> d.file]
    OBVIOUS
  <2>7. m \in Surjection(K, FilesOf(K)) /\ m \in Injection(K, FilesOf(K))
    <3>1. m \in [K -> FilesOf(K)] /\ \A f \in FilesOf(K) : \E d \in K : m[d] = f
      BY <2>6 DEF FilesOf
    <3>2. \A d, e \in K : m[d] = m[e] => d = e
      BY <2>4, <2>6
    <3>3. DOMAIN m = K
      BY <2>6
    <3> QED BY <3>1, <3>2, <3>3 DEF Surjection, Injection, IsInjective
  <2>8. Cardinality(FilesOf(K)) = Cardinality(K)
    BY <2>5, <2>7, FS_Surjection
  <2> QED BY <2>2, <2>4, <2>8
<1> QED BY <1>1, FolderInvariance, PTL

(* Its folder has the cover the course shows, unless an update replaced the cover by one   *)
(* that was not in the temporary folder, and no other but those the disk refused to unlink *)
(* (updateCourse, createCourseStorage).                                                    *)
THEOREM CoverKept == Spec => []CoverShown
<1>1. FolderInv => CoverShown
  BY DEF FolderInv, FolderAt, RestAt, FolderRight, CoverRight, Shown, CoverShown, Settled, There, Idle
<1> QED BY <1>1, FolderInvariance, PTL
=============================================================================
