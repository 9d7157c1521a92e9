------------------------------ MODULE LessonsProofs ------------------------------
(***************************************************************************)
(* That no file is lost on its way into a lesson, and that the folder, the *)
(* documents and the lists of a lesson fit each other, for any number of   *)
(* requests, lessons and files.                                            *)
(***************************************************************************)
EXTENDS Lessons, TLAPS

(* A file that no step of a request can lose any more: it is in the folder of a lesson, *)
(* was dropped, or the disk refused it.                                                  *)
Secured(f) == (\E l \in LessonIds : <<l, f>> \in stored) \/ f \in removed \cup failed

(* A request at work has a lesson; the files it is about to delete from the temporary *)
(* folder were uploaded, and are secured from the moment they were copied.            *)
HandlerAt(h) ==
    /\ req[h].pc = "idle" => req[h] = Idle
    /\ req[h].pc # "idle" => req[h].lesson \in LessonIds
    /\ req[h].pc = "copy" => req[h].files \subseteq uploaded
    /\ req[h].pc \in {"record", "discard"} => \A f \in req[h].files : Secured(f)

LessonInv ==
    /\ TypeOK
    /\ temporary \subseteq uploaded
    /\ \A h \in Handlers : HandlerAt(h)
    /\ NothingLost

(* A request with one field set. *)
LEMMA RequestSet ==
    ASSUME NEW r \in Requests
    PROVE  /\ \A pc \in Steps : [r EXCEPT !.pc = pc] \in Requests
           /\ \A l \in LessonIds : [r EXCEPT !.lesson = l] \in Requests
           /\ \A b \in BOOLEAN : [r EXCEPT !.creates = b] \in Requests
           /\ \A k \in Lists : [r EXCEPT !.list = k] \in Requests
           /\ \A b \in [Lists -> SUBSET Files] : [r EXCEPT !.body = b] \in Requests
           /\ \A o \in [Lists -> SUBSET FileDocuments] : /\ [r EXCEPT !.old = o] \in Requests
                                                         /\ [r EXCEPT !.new = o] \in Requests
           /\ \A S \in SUBSET FileDocuments : [r EXCEPT !.gone = S] \in Requests
           /\ \A S \in SUBSET Files : /\ [r EXCEPT !.files = S] \in Requests
                                      /\ [r EXCEPT !.copied = S] \in Requests
BY Zenon DEF Requests

LEMMA StepsThere ==
    /\ \A pc \in {"idle", "folder", "compare", "unlink", "forget", "filter", "copy", "record",
                  "discard", "lists", "delete", "rmdir"} : pc \in Steps
    /\ "homework" \in Lists /\ "bonus" \in Lists
BY DEF Steps, Lists

LEMMA IdleTyped == Idle \in Requests
<1>1. Empty \in [Lists -> SUBSET FileDocuments] /\ Empty \in [Lists -> SUBSET Files]
  BY DEF Empty
<1>2. "idle" \in Steps /\ "homework" \in Lists /\ None \in LessonIds \cup {None}
  BY StepsThere
<1> QED BY <1>1, <1>2, Zenon DEF Idle, Requests

(* The request that NextList makes of another, one field at a time. *)
LEMMA NextListTyped ==
    ASSUME NEW r \in Requests
    PROVE  NextList(r) \in Requests
<1>1. r.body["bonus"] \in SUBSET Files
  BY StepsThere DEF Requests
<1>2. CASE r.list = "homework"
  <2>1. [[[[r EXCEPT !.list = "bonus"] EXCEPT !.files = r.body["bonus"]] EXCEPT !.copied = {}]
           EXCEPT !.pc = IF r.creates THEN "filter" ELSE "compare"] \in Requests
    <3>1. [r EXCEPT !.list = "bonus"] \in Requests
      BY StepsThere, RequestSet
    <3>2. [[r EXCEPT !.list = "bonus"] EXCEPT !.files = r.body["bonus"]] \in Requests
      BY <1>1, <3>1, RequestSet
    <3>3. {} \in SUBSET Files /\ (IF r.creates THEN "filter" ELSE "compare") \in Steps
      BY StepsThere
    <3>4. [[[r EXCEPT !.list = "bonus"] EXCEPT !.files = r.body["bonus"]] EXCEPT !.copied = {}] \in Requests
      BY <3>2, <3>3, RequestSet, Zenon
    <3> QED BY <3>3, <3>4, RequestSet, Zenon
  <2> QED BY <1>2, <2>1 DEF NextList
<1>3. CASE r.list # "homework"
  BY <1>3, StepsThere, IdleTyped, RequestSet DEF NextList
<1> QED BY <1>2, <1>3

LEMMA DocumentsTyped ==
    ASSUME TypeOK
    PROVE  /\ \A S \in SUBSET FileDocuments : FilesOf(S) \in SUBSET Files
           /\ \A l \in LessonIds : lessons[l].files \in [Lists -> SUBSET FileDocuments]
           /\ There \subseteq LessonIds
           /\ \A h \in Handlers : req[h] \in Requests
BY DEF TypeOK, FileDocuments, FilesOf, LessonDocuments, There

LEMMA ContinueTyped ==
    ASSUME TypeOK, NEW h \in Handlers, NEW r \in Requests, Continue(h, r)
    PROVE  req' \in [Handlers -> Requests]
BY DEF TypeOK, Continue

LEMMA GotoTyped ==
    ASSUME TypeOK, NEW h \in Handlers, NEW pc \in Steps, Goto(h, pc)
    PROVE  req' \in [Handlers -> Requests]
<1>1. req \in [Handlers -> Requests] /\ req[h] \in Requests
  BY DEF TypeOK
<1>2. [req[h] EXCEPT !.pc = pc] \in Requests
  BY <1>1, RequestSet
<1>3. req' = [req EXCEPT ![h] = [req[h] EXCEPT !.pc = pc]]
  BY <1>1 DEF Goto
<1> QED BY <1>1, <1>2, <1>3

(* A request that works on files works on a lesson, and the documents it creates are new. *)
LEMMA Recorded ==
    ASSUME TypeOK, NEW h \in Handlers, req[h].lesson \in LessonIds,
           \A f \in req[h].copied : copies[f] < MaxCopies
    PROVE  AttachTarget(req[h].lesson, req[h].copied) \in SUBSET FileDocuments
<1>1. req[h].copied \in SUBSET Files /\ copies \in [Files -> 0..MaxCopies] /\ MaxCopies \in Nat
  BY CopiesAssumption DEF TypeOK, Requests
<1>2. \A f \in req[h].copied : copies[f] + 1 \in 1..MaxCopies
  BY <1>1
<1> QED BY <1>1, <1>2 DEF AttachTarget, FileDocuments

(* What the request handlers do to their requests, action by action. *)
LEMMA RequestsTyped ==
    ASSUME TypeOK, \A h \in Handlers : HandlerAt(h), [Next]_vars
    PROVE  req' \in [Handlers -> Requests]
<1>1. ASSUME NEW h \in Handlers, NEW l \in LessonIds, NEW b \in Bodies, CreateLesson(h, l, b)
      PROVE  req' \in [Handlers -> Requests]
  <2>1. [[[[Idle EXCEPT !.pc = "folder"] EXCEPT !.lesson = l] EXCEPT !.creates = TRUE] EXCEPT !.body = b] \in Requests
    <3>1. [[Idle EXCEPT !.pc = "folder"] EXCEPT !.lesson = l] \in Requests
      BY StepsThere, IdleTyped, RequestSet
    <3>2. [[[Idle EXCEPT !.pc = "folder"] EXCEPT !.lesson = l] EXCEPT !.creates = TRUE] \in Requests
      BY <3>1, RequestSet, Zenon
    <3>3. b \in [Lists -> SUBSET Files]
      BY BodiesAssumption DEF UpdateLessonDto
    <3> QED BY <3>2, <3>3, RequestSet, Zenon
  <2> QED BY <1>1, <2>1 DEF CreateLesson, Begin, TypeOK
<1>2. ASSUME NEW h \in Handlers, NEW l \in LessonIds, NEW b \in Bodies, UpdateLesson(h, l, b)
      PROVE  req' \in [Handlers -> Requests]
  <2>1. [[[[Idle EXCEPT !.pc = "compare"] EXCEPT !.lesson = l] EXCEPT !.body = b] EXCEPT !.old = lessons[l].files]
          \in Requests
    <3>1. [[Idle EXCEPT !.pc = "compare"] EXCEPT !.lesson = l] \in Requests
      BY StepsThere, IdleTyped, RequestSet
    <3>2. b \in [Lists -> SUBSET Files]
      BY BodiesAssumption DEF UpdateLessonDto
    <3>3. [[[Idle EXCEPT !.pc = "compare"] EXCEPT !.lesson = l] EXCEPT !.body = b] \in Requests
      BY <3>1, <3>2, RequestSet, Zenon
    <3>4. lessons[l].files \in [Lists -> SUBSET FileDocuments]
      BY DocumentsTyped
    <3> QED BY <3>3, <3>4, RequestSet, Zenon
  <2> QED BY <1>2, <2>1 DEF UpdateLesson, Begin, TypeOK
<1>3. ASSUME NEW h \in Handlers, NEW l \in LessonIds, DeleteLesson(h, l)
      PROVE  req' \in [Handlers -> Requests]
  <2>1. [[Idle EXCEPT !.pc = "delete"] EXCEPT !.lesson = l] \in Requests
    BY StepsThere, IdleTyped, RequestSet
  <2> QED BY <1>3, <2>1 DEF DeleteLesson, Begin, TypeOK
<1>4. ASSUME NEW h \in Handlers, CreateLessonStorage(h)
      PROVE  req' \in [Handlers -> Requests]
  <2>1. [[req[h] EXCEPT !.pc = "filter"] EXCEPT !.files = req[h].body["homework"]] \in Requests
    <3>1. req[h] \in Requests
      BY DocumentsTyped
    <3>2. [req[h] EXCEPT !.pc = "filter"] \in Requests
      BY <3>1, StepsThere, RequestSet
    <3>3. req[h].body["homework"] \in SUBSET Files
      BY <3>1, StepsThere DEF Requests
    <3> QED BY <3>2, <3>3, RequestSet, Zenon
  <2> QED BY <1>4, <2>1, ContinueTyped DEF CreateLessonStorage
<1>5. ASSUME NEW h \in Handlers, Compare(h)
      PROVE  req' \in [Handlers -> Requests]
  <2> DEFINE r == req[h]
             known == GetFilesByIds(r.old[r.list])
             names == r.body[r.list]
             pc == IF OnlyInOld(known, names) = {} THEN "filter" ELSE "unlink"
             r1 == [r EXCEPT !.pc = pc]
             r2 == [r1 EXCEPT !.old = [r.old EXCEPT ![r.list] = {}]]
             r3 == [r2 EXCEPT !.body = [r.body EXCEPT ![r.list] = {}]]
             r4 == [r3 EXCEPT !.gone = OnlyInOld(known, names)]
             r5 == [r4 EXCEPT !.files = OnlyInNew(known, names)]
             r6 == [r5 EXCEPT !.new = [r.new EXCEPT ![r.list] = InBoth(known, names)]]
  <2>1. r \in Requests /\ r.list \in Lists
    BY DocumentsTyped DEF Requests
  <2>2. names \in SUBSET Files /\ known \in SUBSET FileDocuments /\ pc \in Steps
    BY <2>1, StepsThere DEF Requests, TypeOK, GetFilesByIds
  <2>3. /\ OnlyInOld(known, names) \in SUBSET FileDocuments
        /\ InBoth(known, names) \in SUBSET FileDocuments
        /\ OnlyInNew(known, names) \in SUBSET Files
    BY <2>2 DEF OnlyInOld, OnlyInNew, InBoth
  <2>4. /\ [r.old EXCEPT ![r.list] = {}] \in [Lists -> SUBSET FileDocuments]
        /\ [r.body EXCEPT ![r.list] = {}] \in [Lists -> SUBSET Files]
        /\ [r.new EXCEPT ![r.list] = InBoth(known, names)] \in [Lists -> SUBSET FileDocuments]
    BY <2>1, <2>3 DEF Requests
  <2>5. r1 \in Requests
    BY <2>1, <2>2, RequestSet, Zenon
  <2>6. r2 \in Requests
    BY <2>4, <2>5, RequestSet, Zenon
  <2>7. r3 \in Requests
    BY <2>4, <2>6, RequestSet, Zenon
  <2>8. r4 \in Requests
    BY <2>3, <2>7, RequestSet, Zenon
  <2>9. r5 \in Requests
    BY <2>3, <2>8, RequestSet, Zenon
  <2>10. r6 \in Requests
    BY <2>4, <2>9, RequestSet, Zenon
  <2>11. Continue(h, r6)
    BY <1>5, <2>1 DEF Compare, Continue, Requests
  <2> QED BY <2>10, <2>11, ContinueTyped
<1>6. ASSUME NEW h \in Handlers, NEW bad \in SUBSET Failing, DeleteOldFiles(h, bad)
      PROVE  req' \in [Handlers -> Requests]
  BY <1>6, StepsThere, GotoTyped DEF DeleteOldFiles
<1>7. ASSUME NEW h \in Handlers, DeleteFileDocuments(h)
      PROVE  req' \in [Handlers -> Requests]
  <2>1. [[req[h] EXCEPT !.pc = "filter"] EXCEPT !.gone = {}] \in Requests
    <3>1. [req[h] EXCEPT !.pc = "filter"] \in Requests
      BY DocumentsTyped, StepsThere, RequestSet
    <3>2. {} \in SUBSET FileDocuments
      OBVIOUS
    <3> QED BY <3>1, <3>2, RequestSet, Zenon
  <2> QED BY <1>7, <2>1, ContinueTyped DEF DeleteFileDocuments
<1>8. ASSUME NEW h \in Handlers, FilterExistingFiles(h)
      PROVE  req' \in [Handlers -> Requests]
  <2>1. req[h].files \cap temporary \in SUBSET Files /\ req[h] \in Requests
    BY DocumentsTyped DEF TypeOK, Requests
  <2>2. [req[h] EXCEPT !.pc = "copy"] \in Requests
    BY <2>1, StepsThere, RequestSet
  <2>3. [[req[h] EXCEPT !.pc = "copy"] EXCEPT !.files = req[h].files \cap temporary] \in Requests
    BY <2>1, <2>2, RequestSet, Zenon
  <2> QED BY <1>8, <2>1, <2>3, NextListTyped, ContinueTyped DEF FilterExistingFiles
<1>9. ASSUME NEW h \in Handlers, NEW bad \in SUBSET Failing, CopyFiles(h, bad)
      PROVE  req' \in [Handlers -> Requests]
  <2>1. (req[h].files \cap temporary) \ bad \in SUBSET Files /\ req[h] \in Requests
        /\ (IF req[h].creates THEN "discard" ELSE "record") \in Steps
    BY DocumentsTyped, StepsThere DEF TypeOK, Requests
  <2>2. [req[h] EXCEPT !.copied = (req[h].files \cap temporary) \ bad] \in Requests
    BY <2>1, RequestSet, Zenon
  <2>3. [[req[h] EXCEPT !.copied = (req[h].files \cap temporary) \ bad]
           EXCEPT !.pc = IF req[h].creates THEN "discard" ELSE "record"] \in Requests
    BY <2>1, <2>2, RequestSet, Zenon
  <2> QED BY <1>9, <2>3, ContinueTyped DEF CopyFiles
<1>10. ASSUME NEW h \in Handlers, CreateFiles(h)
       PROVE  req' \in [Handlers -> Requests]
  <2> DEFINE r == req[h]
             saved == AttachTarget(r.lesson, r.copied)
             listed == [r EXCEPT !.new = [r.new EXCEPT ![r.list] = @ \cup saved]]
  <2>1. r \in Requests /\ r.list \in Lists
    BY DocumentsTyped DEF Requests
  <2>2. saved \in SUBSET FileDocuments
    BY <1>10, Recorded DEF CreateFiles, HandlerAt
  <2>3. [r.new EXCEPT ![r.list] = @ \cup saved] \in [Lists -> SUBSET FileDocuments]
    BY <2>1, <2>2 DEF Requests
  <2>4. listed \in Requests
    BY <2>1, <2>3, RequestSet, Zenon
  <2>5. NextList(listed) \in Requests /\ [listed EXCEPT !.pc = "discard"] \in Requests
    BY <2>4, NextListTyped, StepsThere, RequestSet
  <2>6. Continue(h, IF r.creates THEN NextList(listed) ELSE [listed EXCEPT !.pc = "discard"])
    BY <1>10 DEF CreateFiles
  <2> QED BY <2>5, <2>6, ContinueTyped
<1>11. ASSUME NEW h \in Handlers, NEW bad \in SUBSET Failing, DeleteTemporary(h, bad)
       PROVE  req' \in [Handlers -> Requests]
  <2>1. req[h] \in Requests /\ [req[h] EXCEPT !.pc = "record"] \in Requests
    BY DocumentsTyped, StepsThere, RequestSet
  <2> QED BY <1>11, <2>1, NextListTyped, ContinueTyped DEF DeleteTemporary
<1>12. ASSUME NEW h \in Handlers,
              UpdateLists(h) \/ Cut(h) \/ \E bad \in SUBSET Failing : DeleteLessonFolder(h, bad)
       PROVE  req' \in [Handlers -> Requests]
  BY <1>12, IdleTyped, ContinueTyped DEF UpdateLists, DeleteLessonFolder, Cut
<1>13. ASSUME NEW h \in Handlers, DeleteMany(h)
       PROVE  req' \in [Handlers -> Requests]
  BY <1>13, StepsThere, GotoTyped DEF DeleteMany
<1>14. CASE (\E f \in Files : UploadFiles(f)) \/ UNCHANGED vars
  BY <1>14 DEF UploadFiles, vars, TypeOK
<1> QED BY <1>1, <1>2, <1>3, <1>4, <1>5, <1>6, <1>7, <1>8, <1>9, <1>10, <1>11, <1>12, <1>13, <1>14 DEF Next

(* What the actions do to the folders and to the histories of the files: the temporary     *)
(* folder is filled by uploads and emptied by DeleteTemporary alone, and what leaves the  *)
(* folder of a lesson is among the files that were dropped.                               *)
LEMMA FoldersMove ==
    ASSUME TypeOK, \A h \in Handlers : HandlerAt(h), [Next]_vars
    PROVE  /\ temporary' \subseteq Files /\ stored' \subseteq LessonIds \X Files
           /\ uploaded' \subseteq Files /\ removed' \subseteq Files /\ failed' \subseteq Files
           /\ uploaded \subseteq uploaded' /\ removed \subseteq removed' /\ failed \subseteq failed'
           /\ \A l \in LessonIds, f \in Files : <<l, f>> \in stored => <<l, f>> \in stored' \/ f \in removed'
           /\ \/ temporary' = temporary /\ uploaded' = uploaded
              \/ \E f \in Files : UploadFiles(f)
              \/ \E h \in Handlers, bad \in SUBSET Failing : DeleteTemporary(h, bad)
<1>1. CASE \E f \in Files : UploadFiles(f)
  BY <1>1 DEF UploadFiles, TypeOK
<1>2. CASE \E h \in Handlers, bad \in SUBSET Failing : DeleteTemporary(h, bad)
  BY <1>2, FailingAssumption DEF DeleteTemporary, TypeOK
<1>3. CASE \E h \in Handlers, bad \in SUBSET Failing : DeleteOldFiles(h, bad)
  <2>1. PICK h \in Handlers, bad \in SUBSET Failing : DeleteOldFiles(h, bad)
    BY <1>3
  <2>2. FilesOf(req[h].gone) \in SUBSET Files /\ bad \in SUBSET Files
    BY DocumentsTyped, FailingAssumption DEF Requests
  <2> QED BY <2>1, <2>2 DEF DeleteOldFiles, TypeOK
<1>4. CASE \E h \in Handlers, bad \in SUBSET Failing : CopyFiles(h, bad)
  <2>1. PICK h \in Handlers, bad \in SUBSET Failing : CopyFiles(h, bad)
    BY <1>4
  <2>2. req[h].files \in SUBSET Files /\ bad \in SUBSET Files /\ req[h].lesson \in LessonIds
    BY <2>1, DocumentsTyped, FailingAssumption DEF Requests, CopyFiles, HandlerAt
  <2> QED BY <2>1, <2>2 DEF CopyFiles, TypeOK
<1>5. CASE \E h \in Handlers, bad \in SUBSET Failing : DeleteLessonFolder(h, bad)
  <2>1. PICK h \in Handlers, bad \in SUBSET Failing : DeleteLessonFolder(h, bad)
    BY <1>5
  <2> QED BY <2>1, FailingAssumption DEF DeleteLessonFolder, TypeOK
<1>6. CASE \/ \E h \in Handlers, l \in LessonIds :
                \/ DeleteLesson(h, l)
                \/ \E b \in Bodies : CreateLesson(h, l, b) \/ UpdateLesson(h, l, b)
           \/ \E h \in Handlers : \/ CreateLessonStorage(h) \/ Compare(h) \/ FilterExistingFiles(h) \/ CreateFiles(h)
                                   \/ DeleteFileDocuments(h) \/ UpdateLists(h) \/ DeleteMany(h) \/ Cut(h)
           \/ UNCHANGED vars
  <2>1. temporary' = temporary /\ stored' = stored /\ uploaded' = uploaded /\ removed' = removed /\ failed' = failed
    BY <1>6 DEF DeleteLesson, CreateLesson, UpdateLesson, CreateLessonStorage, Compare, FilterExistingFiles,
                CreateFiles, DeleteFileDocuments, UpdateLists, DeleteMany, Cut, folders, history, vars
  <2> QED BY <2>1 DEF TypeOK
<1> QED BY <1>1, <1>2, <1>3, <1>4, <1>5, <1>6 DEF Next

LEMMA TypeStep ==
    ASSUME TypeOK, \A h \in Handlers : HandlerAt(h), [Next]_vars
    PROVE  TypeOK'
<1>1. req' \in [Handlers -> Requests]
  BY RequestsTyped
<1>2. /\ lessons' \in [LessonIds -> LessonDocuments]
      /\ documents' \subseteq FileDocuments
      /\ copies' \in [Files -> 0..MaxCopies]
  <2>1. ASSUME NEW h \in Handlers, CreateFiles(h)
        PROVE  /\ documents' \subseteq FileDocuments /\ copies' \in [Files -> 0..MaxCopies] /\ lessons' = lessons
    <3>1. AttachTarget(req[h].lesson, req[h].copied) \subseteq FileDocuments
      BY <2>1, Recorded DEF CreateFiles, HandlerAt
    <3>2. copies \in [Files -> 0..MaxCopies] /\ MaxCopies \in Nat
      BY CopiesAssumption DEF TypeOK
    <3> QED BY <2>1, <3>1, <3>2 DEF CreateFiles, TypeOK
  <2>2. ASSUME NEW h \in Handlers, UpdateLists(h)
        PROVE  documents' = documents /\ copies' = copies /\ lessons' \in [LessonIds -> LessonDocuments]
    <3>1. \A k \in Lists : lessons[req[h].lesson].files[k] \subseteq FileDocuments /\ req[h].new[k] \subseteq FileDocuments
      BY <2>2 DEF UpdateLists, HandlerAt, TypeOK, LessonDocuments, Requests
    <3>2. ASSUME NEW l \in LessonIds, NEW w \in [Lists -> SUBSET FileDocuments]
          PROVE  [lessons EXCEPT ![l].files = w] \in [LessonIds -> LessonDocuments]
      BY DEF TypeOK, LessonDocuments
    <3> QED BY <2>2, <3>1, <3>2 DEF UpdateLists, HandlerAt, TypeOK
  <2>3. ASSUME NEW h \in Handlers, NEW l \in LessonIds, NEW b \in Bodies, CreateLesson(h, l, b)
        PROVE  documents' = documents /\ copies' = copies /\ lessons' \in [LessonIds -> LessonDocuments]
    BY <2>3 DEF CreateLesson, TypeOK, LessonDocuments
  <2>4. ASSUME NEW h \in Handlers, DeleteMany(h)
        PROVE  documents' = documents /\ copies' = copies /\ lessons' \in [LessonIds -> LessonDocuments]
    <3>1. [NoLesson EXCEPT !.state = "deleted"] \in LessonDocuments
      BY DEF NoLesson, LessonDocuments, Empty
    <3> QED BY <2>4, <3>1 DEF DeleteMany, TypeOK
  <2>5. ASSUME NEW h \in Handlers, DeleteFileDocuments(h)
        PROVE  documents' \subseteq FileDocuments /\ copies' = copies /\ lessons' = lessons
    BY <2>5 DEF DeleteFileDocuments, TypeOK
  <2>6. ASSUME \/ \E f \in Files : UploadFiles(f)
               \/ \E h \in Handlers, l \in LessonIds : DeleteLesson(h, l) \/ \E b \in Bodies : UpdateLesson(h, l, b)
               \/ \E h \in Handlers : \/ CreateLessonStorage(h) \/ Compare(h) \/ FilterExistingFiles(h)
                                       \/ Cut(h)
                                       \/ \E bad \in SUBSET Failing :
                                             \/ DeleteOldFiles(h, bad) \/ CopyFiles(h, bad)
                                             \/ DeleteTemporary(h, bad) \/ DeleteLessonFolder(h, bad)
               \/ UNCHANGED vars
        PROVE  documents' = documents /\ copies' = copies /\ lessons' = lessons
    BY <2>6, ZenonT(40) DEF UploadFiles, DeleteLesson, UpdateLesson, CreateLessonStorage, Compare, FilterExistingFiles,
                DeleteTemporary, DeleteLessonFolder, Cut, DeleteOldFiles, CopyFiles, vars
  <2> QED BY <2>1, <2>2, <2>3, <2>4, <2>5, <2>6 DEF TypeOK, Next
<1>3. /\ temporary' \subseteq Files /\ stored' \subseteq LessonIds \X Files
      /\ uploaded' \subseteq Files /\ removed' \subseteq Files /\ failed' \subseteq Files
  BY FoldersMove
<1>4. disturbed' \subseteq LessonIds
  <2>1. ASSUME NEW h \in Handlers, NEW r, r.lesson \in LessonIds, Begin(h, r)
        PROVE  disturbed' \subseteq LessonIds
    BY <2>1 DEF Begin, TypeOK
  <2>2. ASSUME NEW h \in Handlers, NEW l \in LessonIds
        PROVE  /\ \A b \in Bodies : CreateLesson(h, l, b) => disturbed' \subseteq LessonIds
               /\ \A b \in Bodies : UpdateLesson(h, l, b) => disturbed' \subseteq LessonIds
               /\ DeleteLesson(h, l) => disturbed' \subseteq LessonIds
    BY <2>1 DEF CreateLesson, UpdateLesson, DeleteLesson, Idle
  <2>3. ASSUME NEW h \in Handlers, Cut(h)
        PROVE  disturbed' \subseteq LessonIds
    <3>1. req[h].lesson \in LessonIds
      <4>1. req[h].pc = "idle" => FALSE
        BY <2>3 DEF Cut, HandlerAt
      <4> QED BY <4>1 DEF HandlerAt
    <3> QED BY <2>3, <3>1 DEF Cut, TypeOK
  <2>4. ASSUME \/ \E f \in Files : UploadFiles(f)
               \/ \E h \in Handlers : \/ CreateLessonStorage(h) \/ Compare(h) \/ FilterExistingFiles(h)
                                       \/ CreateFiles(h)
                                       \/ DeleteFileDocuments(h) \/ UpdateLists(h) \/ DeleteMany(h)
                                       \/ \E bad \in SUBSET Failing :
                                             \/ DeleteOldFiles(h, bad) \/ CopyFiles(h, bad)
                                             \/ DeleteTemporary(h, bad) \/ DeleteLessonFolder(h, bad)
               \/ UNCHANGED vars
        PROVE  disturbed' = disturbed
    BY <2>4, ZenonT(40) DEF UploadFiles, CreateLessonStorage, Compare, FilterExistingFiles, DeleteTemporary, DeleteLessonFolder,
                CreateFiles, DeleteFileDocuments, UpdateLists, DeleteMany, DeleteOldFiles, CopyFiles, history, vars
  <2> QED BY <2>2, <2>3, <2>4 DEF TypeOK, Next
<1> QED BY <1>1, <1>2, <1>3, <1>4 DEF TypeOK

(* A file that is secured stays so: what leaves the folder of a lesson was dropped. *)
LEMMA SecuredStays ==
    ASSUME TypeOK, \A h \in Handlers : HandlerAt(h), [Next]_vars, NEW f, Secured(f)
    PROVE  Secured(f)'
<1>1. CASE f \in removed \cup failed
  BY <1>1, FoldersMove DEF Secured
<1>2. ASSUME NEW l \in LessonIds, <<l, f>> \in stored PROVE Secured(f)'
  <2>1. f \in Files
    BY <1>2 DEF TypeOK
  <2> QED BY <1>2, <2>1, FoldersMove DEF Secured
<1> QED BY <1>1, <1>2 DEF Secured

LEMMA NothingLostStep ==
    ASSUME LessonInv, [Next]_vars
    PROVE  temporary' \subseteq uploaded' /\ NothingLost'
<1>1. CASE \E f \in Files : UploadFiles(f)
  BY <1>1 DEF UploadFiles, LessonInv, NothingLost
<1>2. CASE \E h \in Handlers, bad \in SUBSET Failing : DeleteTemporary(h, bad)
  <2>1. PICK h \in Handlers, bad \in SUBSET Failing : DeleteTemporary(h, bad)
    BY <1>2
  <2>2. /\ temporary' = temporary \ (req[h].files \ bad) /\ stored' = stored
        /\ uploaded' = uploaded /\ removed' = removed /\ failed' = failed \cup bad
        /\ \A f \in req[h].files : Secured(f)
    BY <2>1 DEF DeleteTemporary, LessonInv, HandlerAt
  <2> QED BY <2>2 DEF LessonInv, NothingLost, Secured
<1>3. CASE temporary' = temporary /\ uploaded' = uploaded
  <2>1. ASSUME NEW f \in uploaded' \ (removed' \cup failed'), f \notin temporary'
        PROVE  \E l \in LessonIds : <<l, f>> \in stored'
    <3>1. Secured(f)
      BY <1>3, <2>1, FoldersMove DEF LessonInv, NothingLost, Secured
    <3> QED BY <2>1, <3>1, SecuredStays DEF LessonInv, Secured
  <2> QED BY <1>3, <2>1 DEF LessonInv, NothingLost
<1> QED BY <1>1, <1>2, <1>3, FoldersMove DEF LessonInv

(* Another handler's step leaves a handler as it was. *)
LEMMA OthersStay ==
    ASSUME TypeOK, NEW h \in Handlers, NEW g \in Handlers \ {h}, NEW r,
           Begin(h, r) \/ Continue(h, r)
    PROVE  req'[g] = req[g]
BY DEF Begin, Continue, TypeOK

LEMMA HandlerKept ==
    ASSUME LessonInv, [Next]_vars, NEW g \in Handlers, req'[g] = req[g]
    PROVE  HandlerAt(g)'
BY FoldersMove, SecuredStays DEF LessonInv, HandlerAt

LEMMA NextListAt ==
    ASSUME NEW r \in Requests
    PROVE  \/ NextList(r) = Idle
           \/ NextList(r).lesson = r.lesson /\ NextList(r).pc \in {"filter", "compare", "lists"}
BY DEF NextList, Requests

(* A request that is neither to copy nor to discard anything asks only for its lesson. *)
LEMMA Elsewhere ==
    ASSUME TypeOK, NEW h \in Handlers,
           \/ req'[h] = Idle
           \/ req'[h].lesson \in LessonIds /\ req'[h].pc \in Steps \ {"idle", "copy", "record", "discard"}
    PROVE  HandlerAt(h)'
BY DEF HandlerAt, Idle, Steps

LEMMA HandlersStep ==
    ASSUME LessonInv, [Next]_vars
    PROVE  \A h \in Handlers : HandlerAt(h)'
<1>1. /\ TypeOK /\ req \in [Handlers -> Requests]
      /\ \A h \in Handlers : HandlerAt(h) /\ req[h] \in Requests
      /\ temporary \subseteq uploaded
  BY DEF LessonInv, TypeOK
<1>2. ASSUME NEW h \in Handlers, HandlerAt(h)', \E r : Begin(h, r) \/ Continue(h, r)
      PROVE  \A g \in Handlers : HandlerAt(g)'
  BY <1>1, <1>2, OthersStay, HandlerKept
<1>3. CASE \E h \in Handlers, l \in LessonIds :
              \/ DeleteLesson(h, l)
              \/ \E b \in Bodies : CreateLesson(h, l, b) \/ UpdateLesson(h, l, b)
  <2>1. PICK h \in Handlers, l \in LessonIds :
              \/ DeleteLesson(h, l)
              \/ \E b \in Bodies : CreateLesson(h, l, b) \/ UpdateLesson(h, l, b)
    BY <1>3
  <2>2. /\ req'[h].lesson = l /\ req'[h].pc \in {"folder", "compare", "delete"}
        /\ \E r : Begin(h, r)
    <3>1. CASE DeleteLesson(h, l)
      BY <1>1, <3>1 DEF DeleteLesson, Begin, Idle
    <3>2. ASSUME NEW b \in Bodies, CreateLesson(h, l, b) 
          PROVE  /\ req'[h].lesson = l /\ req'[h].pc \in {"folder", "compare", "delete"} /\ \E r : Begin(h, r)
      BY <1>1, <3>2 DEF CreateLesson, Begin, Idle
    <3>3. ASSUME NEW b \in Bodies, UpdateLesson(h, l, b) 
          PROVE  /\ req'[h].lesson = l /\ req'[h].pc \in {"folder", "compare", "delete"} /\ \E r : Begin(h, r)
      BY <1>1, <3>3 DEF UpdateLesson, Begin, Idle
    <3> QED BY <2>1, <3>1, <3>2, <3>3
  <2> QED BY <1>1, <1>2, <2>2, Elsewhere DEF Steps
<1>4. ASSUME NEW h \in Handlers, FilterExistingFiles(h) PROVE \A g \in Handlers : HandlerAt(g)'
  <2>1. /\ req[h].lesson \in LessonIds /\ \E r : Continue(h, r) /\ uploaded' = uploaded
    BY <1>1, <1>4 DEF FilterExistingFiles, HandlerAt, history
  <2>2. \/ req'[h] = NextList(req[h])
        \/ /\ req'[h].pc = "copy" /\ req'[h].files \subseteq temporary
           /\ req'[h].lesson = req[h].lesson
    BY <1>1, <1>4 DEF FilterExistingFiles, Continue, Requests
  <2>3. CASE req'[h] = NextList(req[h])
    BY <1>1, <1>2, <2>1, <2>3, NextListAt, Elsewhere DEF Steps
  <2>4. CASE req'[h].pc = "copy" /\ req'[h].files \subseteq temporary /\ req'[h].lesson = req[h].lesson
    BY <1>1, <1>2, <2>1, <2>4 DEF HandlerAt
  <2> QED BY <2>2, <2>3, <2>4
<1>5. ASSUME NEW h \in Handlers, NEW bad \in SUBSET Failing, CopyFiles(h, bad)
      PROVE  \A g \in Handlers : HandlerAt(g)'
  <2>1. /\ req[h].lesson \in LessonIds /\ req[h].files \subseteq uploaded /\ \E r : Continue(h, r)
        /\ failed' = failed \cup bad /\ removed' = removed /\ temporary' = temporary
        /\ stored' = stored \cup ({req[h].lesson} \X ((req[h].files \cap temporary) \ bad))
    BY <1>1, <1>5 DEF CopyFiles, HandlerAt
  <2>2. /\ req'[h].files = req[h].files /\ req'[h].lesson = req[h].lesson
        /\ req'[h].pc \in {"record", "discard"}
    BY <1>1, <1>5 DEF CopyFiles, Continue, Requests
  <2>3. ASSUME NEW f \in req[h].files PROVE Secured(f)'
    <3>1. CASE f \in temporary \ bad
      BY <2>1, <2>3, <3>1 DEF Secured
    <3>2. CASE f \in bad
      BY <2>1, <3>2 DEF Secured
    <3>3. CASE f \notin temporary
      <4>1. Secured(f)
        BY <2>1, <2>3, <3>3 DEF LessonInv, NothingLost, Secured
      <4> QED BY <1>1, <4>1, SecuredStays
    <3> QED BY <3>1, <3>2, <3>3
  <2>4. HandlerAt(h)'
    BY <2>1, <2>2, <2>3 DEF HandlerAt
  <2> QED BY <1>2, <2>1, <2>4
<1>6. ASSUME NEW h \in Handlers, NEW bad \in SUBSET Failing, DeleteTemporary(h, bad)
      PROVE  \A g \in Handlers : HandlerAt(g)'
  <2>1. /\ req[h].lesson \in LessonIds /\ \E r : Continue(h, r)
        /\ \A f \in req[h].files : Secured(f)
    BY <1>1, <1>6 DEF DeleteTemporary, HandlerAt
  <2>2. \/ req'[h] = NextList(req[h])
        \/ /\ req'[h].pc = "record" /\ req'[h].files = req[h].files
           /\ req'[h].lesson = req[h].lesson
    BY <1>1, <1>6 DEF DeleteTemporary, Continue, Requests
  <2>3. CASE req'[h] = NextList(req[h])
    BY <1>1, <1>2, <2>1, <2>3, NextListAt, Elsewhere DEF Steps
  <2>4. CASE req'[h].pc = "record" /\ req'[h].files = req[h].files /\ req'[h].lesson = req[h].lesson
    <3>1. HandlerAt(h)'
      BY <1>1, <2>1, <2>4, SecuredStays DEF HandlerAt
    <3> QED BY <1>2, <2>1, <3>1
  <2> QED BY <2>2, <2>3, <2>4
<1>7. ASSUME NEW h \in Handlers, CreateFiles(h) PROVE \A g \in Handlers : HandlerAt(g)'
  <2> DEFINE r == req[h]
             saved == AttachTarget(r.lesson, r.copied)
             listed == [r EXCEPT !.new = [r.new EXCEPT ![r.list] = @ \cup saved]]
  <2>1. /\ r.lesson \in LessonIds /\ \E x : Continue(h, x)
        /\ \A f \in r.files : Secured(f)
    BY <1>1, <1>7 DEF CreateFiles, HandlerAt
  <2>2. listed \in Requests
    <3>1. r \in Requests /\ r.list \in Lists /\ saved \in SUBSET FileDocuments
      BY <1>1, <1>7, <2>1, Recorded DEF CreateFiles, Requests
    <3>2. [r.new EXCEPT ![r.list] = @ \cup saved] \in [Lists -> SUBSET FileDocuments]
      BY <3>1 DEF Requests
    <3> QED BY <3>1, <3>2, RequestSet, Zenon
  <2>3. listed.lesson = r.lesson /\ listed.files = r.files
    BY <1>1 DEF Requests
  <2>4. req'[h] = IF r.creates THEN NextList(listed) ELSE [listed EXCEPT !.pc = "discard"]
    BY <1>1, <1>7 DEF CreateFiles, Continue
  <2>5. CASE req'[h] = NextList(listed)
    <3>1. \/ req'[h] = Idle
          \/ req'[h].lesson \in LessonIds /\ req'[h].pc \in {"filter", "compare", "lists"}
      BY <2>1, <2>2, <2>3, <2>5, NextListAt
    <3> QED BY <1>1, <1>2, <2>1, <3>1, Elsewhere DEF Steps
  <2>6. CASE req'[h] = [listed EXCEPT !.pc = "discard"]
    <3>1. req'[h].pc = "discard" /\ req'[h].files = r.files /\ req'[h].lesson = r.lesson
      BY <2>2, <2>3, <2>6 DEF Requests
    <3>2. HandlerAt(h)'
      BY <1>1, <2>1, <3>1, SecuredStays DEF HandlerAt
    <3> QED BY <1>2, <2>1, <3>2
  <2> QED BY <2>4, <2>5, <2>6
<1>8. ASSUME NEW h \in Handlers,
             \/ CreateLessonStorage(h) \/ Compare(h) \/ DeleteFileDocuments(h) \/ UpdateLists(h)
             \/ DeleteMany(h) \/ Cut(h)
             \/ \E bad \in SUBSET Failing : DeleteOldFiles(h, bad) \/ DeleteLessonFolder(h, bad)
      PROVE  \A g \in Handlers : HandlerAt(g)'
  <2>1. /\ req[h].lesson \in LessonIds
        /\ \E r : Continue(h, r)
    BY <1>1, <1>8 DEF CreateLessonStorage, Compare, DeleteFileDocuments, UpdateLists, DeleteMany, DeleteLessonFolder,
                      Cut, DeleteOldFiles, Goto, Continue, HandlerAt
  <2>2. \/ req'[h] = Idle
        \/ /\ req'[h].lesson = req[h].lesson
           /\ req'[h].pc \in {"filter", "unlink", "forget", "rmdir"}
    <3>1. CASE Compare(h)
      <4>1. ASSUME NEW pc, NEW o, NEW b, NEW gone, NEW files, NEW new
            PROVE  LET r == [req[h] EXCEPT !.pc = pc, !.old[req[h].list] = o, !.body[req[h].list] = b,
                                           !.gone = gone, !.files = files, !.new[req[h].list] = new]
                   IN  r.pc = pc /\ r.lesson = req[h].lesson
        BY <1>1 DEF Requests
      <4>2. req'[h].lesson = req[h].lesson /\ req'[h].pc \in {"filter", "unlink"}
        BY <1>1, <3>1, <4>1 DEF Compare, Continue
      <4> QED BY <4>2
    <3>2. CASE CreateLessonStorage(h) \/ DeleteFileDocuments(h)
      <4>1. ASSUME NEW files, NEW gone
            PROVE  /\ [req[h] EXCEPT !.pc = "filter", !.files = files].pc = "filter"
                   /\ [req[h] EXCEPT !.pc = "filter", !.files = files].lesson = req[h].lesson
                   /\ [req[h] EXCEPT !.pc = "filter", !.gone = gone].pc = "filter"
                   /\ [req[h] EXCEPT !.pc = "filter", !.gone = gone].lesson = req[h].lesson
        BY <1>1 DEF Requests
      <4>2. \/ req'[h] = [req[h] EXCEPT !.pc = "filter", !.files = req[h].body["homework"]]
            \/ req'[h] = [req[h] EXCEPT !.pc = "filter", !.gone = {}]
        BY <1>1, <3>2 DEF CreateLessonStorage, DeleteFileDocuments, Continue
      <4> QED BY <4>1, <4>2
    <3>3. CASE UpdateLists(h) \/ Cut(h) \/ \E bad \in SUBSET Failing : DeleteLessonFolder(h, bad)
      BY <1>1, <3>3 DEF UpdateLists, DeleteLessonFolder, Cut, Continue
    <3>4. CASE DeleteMany(h) \/ \E bad \in SUBSET Failing : DeleteOldFiles(h, bad)
      BY <1>1, <3>4 DEF DeleteMany, DeleteOldFiles, Goto, Requests
    <3> QED BY <1>8, <3>1, <3>2, <3>3, <3>4
  <2> QED BY <1>1, <1>2, <2>1, <2>2, Elsewhere DEF Steps
<1>9. CASE (\E f \in Files : UploadFiles(f)) \/ UNCHANGED vars
  BY <1>1, <1>9, HandlerKept DEF UploadFiles, vars
<1> QED BY <1>3, <1>4, <1>5, <1>6, <1>7, <1>8, <1>9 DEF Next

LEMMA InitInv ==
    ASSUME Init
    PROVE  LessonInv
<1>1. TypeOK
  <2>1. NoLesson \in LessonDocuments
    BY DEF NoLesson, LessonDocuments, Empty
  <2> QED BY <2>1, IdleTyped, CopiesAssumption DEF Init, TypeOK
<1> QED BY <1>1 DEF Init, LessonInv, HandlerAt, NothingLost, Idle

LEMMA Invariance == Spec => []LessonInv
<1>1. LessonInv /\ [Next]_vars => LessonInv'
  BY TypeStep, HandlersStep, NothingLostStep DEF LessonInv
<1> QED BY <1>1, InitInv, PTL DEF Spec

-----------------------------------------------------------------------------
(* Of lessons that no two requests met at and none was cut at: what their folders and *)
(* documents are between two steps of the one request that works on them.             *)

(* The documents that name a lesson, and the files in its folder. *)
Known(l) == {d \in documents : d.lesson = l}
At(l)    == {f \in Files : <<l, f>> \in stored}

Both(p)  == p["homework"] \cup p["bonus"]
Apart(p) == p["homework"] \cap p["bonus"] = {}

(* Documents and folder of a lesson agree, but for files whose documents are still to be *)
(* created; a file that was recorded has left the temporary folder, but for those that    *)
(* are about to and those that the disk kept there, which may be recorded twice.          *)
Sound(l, pending, spare) ==
    /\ \A d, e \in Known(l) : d.file = e.file => d = e \/ d.file \in failed
    /\ At(l) \subseteq FilesOf(Known(l)) \cup failed \cup pending
    /\ FilesOf(Known(l)) \cap temporary \subseteq spare \cup failed

(* A lesson no request works on. *)
RestAt(l) ==
    /\ Sound(l, {}, {})
    /\ Both(lessons[l].files) \subseteq Known(l)
    /\ FilesOf(Both(lessons[l].files)) \subseteq At(l) \cup failed
    /\ Apart(lessons[l].files)

(* Files that were copied and not recorded, and files that were recorded and not discarded. *)
Pending(r) == IF r.pc = "record" \/ (r.pc = "discard" /\ r.creates) THEN r.copied ELSE {}
Spare(r)   == IF r.pc = "discard" /\ ~r.creates THEN r.files ELSE {}

(* The documents a request drops, has still to compare and will list are apart. *)
ListsAt(l, r) ==
    /\ r.gone \subseteq Known(l) /\ Both(r.old) \subseteq Known(l) /\ Both(r.new) \subseteq Known(l)
    /\ FilesOf(Both(r.old)) \subseteq At(l) \cup failed /\ FilesOf(Both(r.new)) \subseteq At(l) \cup failed
    /\ Apart(r.old) /\ Apart(r.new) /\ Both(r.old) \cap Both(r.new) = {}
    /\ r.gone \cap Both(r.old) = {} /\ r.gone \cap Both(r.new) = {}

PlanAt(l, r) ==
    /\ r.pc = "forget" => FilesOf(r.gone) \cap At(l) \subseteq failed
    /\ Pending(r) \cap FilesOf(Known(l)) \subseteq failed /\ Pending(r) \subseteq At(l) \cap r.files
    /\ (r.pc = "record" /\ r.creates) => Pending(r) \cap temporary \subseteq failed
    /\ (r.creates \/ r.pc = "rmdir") => Both(lessons[l].files) = {}

(* A lesson one request works on. *)
WorkAt(l, r) == Sound(l, Pending(r), Spare(r)) /\ ListsAt(l, r) /\ PlanAt(l, r)

(* Whoever meets whom: a request has documents of its own lesson in its hands, a lesson *)
(* lists its own ones, what was copied or recorded was uploaded, and the documents of a  *)
(* file are told apart by their numbers.                                                 *)
OwnedBy(r) ==
    /\ r.copied \subseteq uploaded
    /\ \A d \in r.gone \cup Both(r.old) \cup Both(r.new) : d.lesson = r.lesson

Owned ==
    /\ \A d \in documents : d.file \in uploaded /\ d.copy <= copies[d.file]
    /\ \A l \in LessonIds : /\ \A d \in Both(lessons[l].files) : d.lesson = l
                            /\ lessons[l].state # "there" => Both(lessons[l].files) = {}
    /\ \A h \in Handlers : OwnedBy(req[h])

TidyAt(l) ==
    /\ AtWork(l) = {} => RestAt(l)
    /\ \A h \in AtWork(l) : WorkAt(l, req[h]) /\ AtWork(l) = {h}

TidyInv ==
    /\ LessonInv /\ Owned
    /\ \A l \in LessonIds \ disturbed : TidyAt(l)

-----------------------------------------------------------------------------
(* A step of a request on its way, other than that it is cut. *)
Advance(h) ==
    \/ CreateLessonStorage(h) \/ Compare(h) \/ DeleteFileDocuments(h) \/ FilterExistingFiles(h)
    \/ CreateFiles(h) \/ UpdateLists(h) \/ DeleteMany(h)
    \/ \E bad \in SUBSET Failing : \/ DeleteOldFiles(h, bad) \/ CopyFiles(h, bad)
                                   \/ DeleteTemporary(h, bad) \/ DeleteLessonFolder(h, bad)

(* A step at one lesson. *)
Only(l) ==
    \A m \in LessonIds \ {l} :
        Known(m)' = Known(m) /\ At(m)' = At(m) /\ lessons'[m] = lessons[m]

LEMMA SoundKept ==
    ASSUME NEW l, NEW p, NEW s, Sound(l, p, s), Known(l)' = Known(l), At(l)' = At(l),
           failed \subseteq failed', FilesOf(Known(l)) \cap temporary' \subseteq temporary
    PROVE  Sound(l, p, s)'
BY DEF Sound

LEMMA ListsKept ==
    ASSUME NEW l, NEW r, NEW q, ListsAt(l, r), Known(l) \subseteq Known(l)', At(l) \subseteq At(l)',
           failed \subseteq failed', q.gone = r.gone, q.old = r.old, q.new = r.new
    PROVE  ListsAt(l, q)'
BY DEF ListsAt

LEMMA PlanKept ==
    ASSUME NEW l, NEW r, PlanAt(l, r), Known(l)' = Known(l), At(l)' = At(l), lessons'[l] = lessons[l],
           failed \subseteq failed', Pending(r) \cap temporary' \subseteq temporary
    PROVE  PlanAt(l, r)'
BY DEF PlanAt

LEMMA RestKept ==
    ASSUME NEW l, RestAt(l), Known(l)' = Known(l), At(l)' = At(l), lessons'[l] = lessons[l],
           failed \subseteq failed', FilesOf(Known(l)) \cap temporary' \subseteq temporary
    PROVE  RestAt(l)'
BY SoundKept DEF RestAt

(* What a step of the request r at lesson l leaves: another request or none. *)
After(l, q) == IF q = Idle THEN RestAt(l)' ELSE q.lesson = l /\ WorkAt(l, q)'

(* A request with nothing on its way between folders. *)
Quiet(r) == r.pc \notin {"idle", "record", "discard", "forget", "rmdir"}

LEMMA QuietPlan ==
    ASSUME NEW l, NEW q, Quiet(q), q.creates => Both(lessons'[l].files) = {}
    PROVE  Pending(q) = {} /\ Spare(q) = {} /\ PlanAt(l, q)' /\ q # Idle
BY DEF Quiet, Pending, Spare, PlanAt, Idle

LEMMA QuietAfter ==
    ASSUME NEW l, NEW q, q.lesson = l, Quiet(q), q.creates => Both(lessons'[l].files) = {},
           Sound(l, {}, {})', ListsAt(l, q)'
    PROVE  After(l, q)
BY QuietPlan DEF After, WorkAt

LEMMA NextListFields ==
    ASSUME NEW r \in Requests, NextList(r) # Idle
    PROVE  LET q == NextList(r) IN
           /\ q.pc \in {"filter", "compare", "lists"}
           /\ q.lesson = r.lesson /\ q.creates = r.creates
           /\ q.gone = r.gone /\ q.old = r.old /\ q.new = r.new
BY DEF NextList, Requests

LEMMA NextListAfter ==
    ASSUME NEW l \in LessonIds, NEW r \in Requests, r.lesson = l,
           Sound(l, {}, {})', ListsAt(l, r)', r.creates => Both(lessons'[l].files) = {}
    PROVE  After(l, NextList(r))
<1>1. CASE NextList(r) = Idle
  <2>1. r.creates
    <3>1. "idle" \notin {"compare", "filter", "lists"}
      OBVIOUS
    <3>2. Idle.pc = "idle"
      BY DEF Idle
    <3> QED BY <1>1, <3>1, <3>2 DEF NextList, Requests
  <2> QED BY <1>1, <2>1 DEF After, RestAt, Both, Apart, FilesOf
<1>2. CASE NextList(r) # Idle
  <2> DEFINE q == NextList(r)
  <2>1. /\ q.pc \in {"filter", "compare", "lists"} /\ q.lesson = l /\ q.creates = r.creates
        /\ q.gone = r.gone /\ q.old = r.old /\ q.new = r.new
    BY <1>2, NextListFields
  <2> HIDE DEF q
  <2>2. Quiet(q)
    BY <2>1 DEF Quiet
  <2>3. ListsAt(l, q)'
    BY <2>1 DEF ListsAt
  <2>4. After(l, q)
    BY <2>1, <2>2, <2>3, QuietAfter
  <2> QED BY <2>4 DEF q
<1> QED BY <1>1, <1>2

(* What every request of the model has, and what it is after a step of its own. *)
LEMMA Moves ==
    ASSUME TypeOK, NEW h \in Handlers
    PROVE  /\ req[h] \in Requests
           /\ \A q : Continue(h, q) => req'[h] = q
           /\ \A pc : Goto(h, pc) => req'[h] = [req[h] EXCEPT !.pc = pc]
BY DEF TypeOK, Continue, Goto

LEMMA NotIdle ==
    ASSUME NEW q, q.pc # "idle"
    PROVE  q # Idle
BY DEF Idle

(* What comparing a list makes of a request. *)
LEMMA ComparedRequest ==
    ASSUME TypeOK, NEW h \in Handlers, NEW r, r = req[h], Compare(h), NEW q, q = req'[h]
    PROVE  LET known == GetFilesByIds(r.old[r.list])
               names == r.body[r.list]
           IN  /\ q.pc \in {"filter", "unlink"}
               /\ q.lesson = r.lesson /\ q.creates = r.creates /\ q.copied = r.copied
               /\ q.gone = OnlyInOld(known, names)
               /\ q.old = [r.old EXCEPT ![r.list] = {}]
               /\ q.new = [r.new EXCEPT ![r.list] = InBoth(known, names)]
<1> DEFINE known == GetFilesByIds(r.old[r.list])
           names == r.body[r.list]
<1>1. PICK pc, o, b, gone, files, new :
            /\ pc = IF OnlyInOld(known, names) = {} THEN "filter" ELSE "unlink"
            /\ o = [r.old EXCEPT ![r.list] = {}] /\ b = [r.body EXCEPT ![r.list] = {}]
            /\ gone = OnlyInOld(known, names) /\ files = OnlyInNew(known, names)
            /\ new = [r.new EXCEPT ![r.list] = InBoth(known, names)]
  OBVIOUS
<1> HIDE DEF known, names
<1>2. r \in Requests
  BY Moves
<1>3. q = [r EXCEPT !.pc = pc, !.old = o, !.body = b, !.gone = gone, !.files = files, !.new = new]
  <2>1. Continue(h, [r EXCEPT !.pc = pc, !.old = o, !.body = b, !.gone = gone, !.files = files, !.new = new])
    BY <1>1, <1>2 DEF Compare, Continue, Requests, known, names
  <2> QED BY <2>1, Moves
<1>4. /\ q.pc = pc /\ q.old = o /\ q.gone = gone /\ q.new = new
      /\ q.lesson = r.lesson /\ q.creates = r.creates /\ q.copied = r.copied
  BY <1>2, <1>3 DEF Requests
<1>5. pc \in {"filter", "unlink"}
  BY <1>1
<1> QED BY <1>1, <1>4, <1>5 DEF known, names

LEMMA FolderStep ==
    ASSUME TidyInv, NEW h \in Handlers, NEW l \in LessonIds, NEW r, r = req[h], r.lesson = l,
           WorkAt(l, r), CreateLessonStorage(h), NEW q, q = req'[h]
    PROVE  After(l, q)
<1>1. /\ r \in Requests /\ r.pc = "folder"
      /\ q = [r EXCEPT !.pc = "filter", !.files = r.body["homework"]]
  BY Moves DEF CreateLessonStorage, TidyInv, LessonInv
<1>2. /\ q.pc = "filter" /\ q.lesson = l /\ q.creates = r.creates
      /\ q.gone = r.gone /\ q.old = r.old /\ q.new = r.new
  BY <1>1 DEF Requests
<1>3. Known(l)' = Known(l) /\ At(l)' = At(l) /\ lessons' = lessons /\ failed' = failed /\ temporary' = temporary
  BY DEF CreateLessonStorage, folders, history, Known, At
<1>4. Quiet(q) /\ (q.creates => Both(lessons'[l].files) = {})
  BY <1>2, <1>3 DEF Quiet, WorkAt, PlanAt
<1>5. Sound(l, {}, {})
  BY <1>1 DEF WorkAt, Pending, Spare
<1>6. Sound(l, {}, {})' /\ ListsAt(l, q)'
  BY <1>2, <1>3, <1>5, SoundKept, ListsKept DEF WorkAt
<1> QED BY <1>2, <1>4, <1>6, QuietAfter

LEMMA CompareStep ==
    ASSUME TidyInv, NEW h \in Handlers, NEW l \in LessonIds, NEW r, r = req[h], r.lesson = l,
           WorkAt(l, r), Compare(h), NEW q, q = req'[h]
    PROVE  After(l, q)
<1> DEFINE known == GetFilesByIds(r.old[r.list])
           names == r.body[r.list]
<1>1. r \in Requests /\ r.pc = "compare" /\ r.list \in Lists
  <2>1. r \in Requests
    BY Moves DEF TidyInv, LessonInv
  <2> QED BY <2>1 DEF Compare, Requests
<1>2. /\ q.pc \in {"filter", "unlink"} /\ q.lesson = l /\ q.creates = r.creates
      /\ q.gone = OnlyInOld(known, names)
      /\ q.old = [r.old EXCEPT ![r.list] = {}]
      /\ q.new = [r.new EXCEPT ![r.list] = InBoth(known, names)]
  BY ComparedRequest DEF TidyInv, LessonInv
<1>3. Known(l)' = Known(l) /\ At(l)' = At(l) /\ lessons' = lessons /\ failed' = failed /\ temporary' = temporary
  BY DEF Compare, folders, history, Known, At
<1>4. Sound(l, {}, {}) /\ ListsAt(l, r) /\ Quiet(q) /\ (q.creates => Both(lessons'[l].files) = {})
  BY <1>1, <1>2, <1>3 DEF WorkAt, Pending, Spare, Quiet, PlanAt
<1>5. Sound(l, {}, {})'
  BY <1>3, <1>4, SoundKept
<1>6. /\ OnlyInOld(known, names) \cap InBoth(known, names) = {}
      /\ OnlyInOld(known, names) \subseteq r.old[r.list] /\ InBoth(known, names) \subseteq r.old[r.list]
  BY DEF OnlyInOld, InBoth, GetFilesByIds
<1>7. ListsAt(l, q)
  <2>1. CASE r.list = "homework"
    <3>1. /\ q.old["homework"] = {} /\ q.old["bonus"] = r.old["bonus"]
          /\ q.new["homework"] = InBoth(known, names) /\ q.new["bonus"] = r.new["bonus"]
      BY <1>1, <1>2, <2>1 DEF Requests, Lists
    <3> HIDE DEF known, names
    <3> QED BY <1>2, <1>4, <1>6, <2>1, <3>1 DEF ListsAt, Both, Apart, FilesOf
  <2>2. CASE r.list = "bonus"
    <3>1. /\ q.old["bonus"] = {} /\ q.old["homework"] = r.old["homework"]
          /\ q.new["bonus"] = InBoth(known, names) /\ q.new["homework"] = r.new["homework"]
      BY <1>1, <1>2, <2>2 DEF Requests, Lists
    <3> HIDE DEF known, names
    <3> QED BY <1>2, <1>4, <1>6, <2>2, <3>1 DEF ListsAt, Both, Apart, FilesOf
  <2> QED BY <1>1, <2>1, <2>2 DEF Lists
<1>8. ListsAt(l, q)'
  BY <1>3, <1>7, ListsKept
<1>9. q.lesson = l
  BY <1>2
<1> QED BY <1>4, <1>5, <1>8, <1>9, QuietAfter

LEMMA UnlinkStep ==
    ASSUME TidyInv, NEW h \in Handlers, NEW l \in LessonIds, NEW r, r = req[h], r.lesson = l,
           WorkAt(l, r), NEW bad \in SUBSET Failing, DeleteOldFiles(h, bad), NEW q, q = req'[h]
    PROVE  After(l, q)
<1>1. /\ r \in Requests /\ r.pc = "unlink" /\ q = [r EXCEPT !.pc = "forget"]
  BY Moves DEF DeleteOldFiles, TidyInv, LessonInv
<1>2. /\ q.pc = "forget" /\ q.lesson = l /\ q.creates = r.creates
      /\ q.gone = r.gone /\ q.old = r.old /\ q.new = r.new
  BY <1>1 DEF Requests
<1>3. /\ Known(l)' = Known(l) /\ lessons' = lessons /\ failed' = failed \cup bad /\ temporary' = temporary
      /\ At(l)' = At(l) \ (FilesOf(r.gone) \ bad)
  BY <1>1 DEF DeleteOldFiles, Known, At
<1>4. Sound(l, {}, {}) /\ ListsAt(l, r) /\ PlanAt(l, r)
  BY <1>1 DEF WorkAt, Pending, Spare
<1>5. Sound(l, {}, {})'
  BY <1>3, <1>4 DEF Sound
<1>6. /\ FilesOf(r.gone) \cap FilesOf(Both(r.old)) \subseteq failed
      /\ FilesOf(r.gone) \cap FilesOf(Both(r.new)) \subseteq failed
  BY <1>4 DEF Sound, ListsAt, FilesOf
<1>7. ListsAt(l, q)'
  BY <1>2, <1>3, <1>4, <1>6 DEF ListsAt
<1>8. Pending(q) = {} /\ Spare(q) = {}
  BY <1>2 DEF Pending, Spare
<1>9. PlanAt(l, q)'
  BY <1>2, <1>3, <1>4, <1>8 DEF PlanAt
<1> QED BY <1>2, <1>5, <1>7, <1>8, <1>9 DEF After, WorkAt, Idle

LEMMA ForgetStep ==
    ASSUME TidyInv, NEW h \in Handlers, NEW l \in LessonIds, NEW r, r = req[h], r.lesson = l,
           WorkAt(l, r), DeleteFileDocuments(h), NEW q, q = req'[h]
    PROVE  After(l, q)
<1>1. /\ r \in Requests /\ r.pc = "forget" /\ q = [r EXCEPT !.pc = "filter", !.gone = {}]
  BY Moves DEF DeleteFileDocuments, TidyInv, LessonInv
<1>2. /\ q.pc = "filter" /\ q.lesson = l /\ q.creates = r.creates
      /\ q.gone = {} /\ q.old = r.old /\ q.new = r.new
  BY <1>1 DEF Requests
<1>3. /\ lessons' = lessons /\ failed' = failed /\ temporary' = temporary
      /\ At(l)' = At(l) /\ Known(l)' = Known(l) \ r.gone
  BY DEF DeleteFileDocuments, folders, history, Known, At
<1>4. Sound(l, {}, {}) /\ ListsAt(l, r) /\ PlanAt(l, r)
  BY <1>1 DEF WorkAt, Pending, Spare
<1>5. FilesOf(r.gone) \cap At(l) \subseteq failed
  BY <1>1, <1>4 DEF PlanAt
<1>6. Sound(l, {}, {})'
  <2>1. FilesOf(Known(l)) \subseteq FilesOf(Known(l) \ r.gone) \cup FilesOf(r.gone)
    BY DEF FilesOf
  <2>2. FilesOf(Known(l) \ r.gone) \subseteq FilesOf(Known(l))
    BY DEF FilesOf
  <2>3. FilesOf(Known(l))' = FilesOf(Known(l) \ r.gone)
    BY <1>3 DEF FilesOf
  <2>4. FilesOf(Known(l)) \cap temporary \subseteq failed /\ At(l) \subseteq FilesOf(Known(l)) \cup failed
    BY <1>4 DEF Sound
  <2>5. At(l) \subseteq FilesOf(Known(l) \ r.gone) \cup failed
    BY <1>5, <2>1, <2>4
  <2>6. \A d, e \in Known(l) \ r.gone : d.file = e.file => d = e \/ d.file \in failed
    BY <1>4 DEF Sound
  <2>7. \A d, e \in Known(l)' : d.file = e.file => d = e \/ d.file \in failed'
    BY <1>3, <2>6
  <2>8. At(l)' \subseteq FilesOf(Known(l))' \cup failed'
    BY <1>3, <2>3, <2>5
  <2>9. FilesOf(Known(l))' \cap temporary' \subseteq failed'
    BY <1>3, <2>2, <2>3, <2>4
  <2> QED BY <2>7, <2>8, <2>9 DEF Sound
<1>7. ListsAt(l, q)'
  BY <1>2, <1>3, <1>4 DEF ListsAt
<1>8. Quiet(q) /\ (q.creates => Both(lessons'[l].files) = {})
  BY <1>2, <1>3, <1>4 DEF Quiet, PlanAt
<1> QED BY <1>2, <1>6, <1>7, <1>8, QuietAfter

LEMMA FilterStep ==
    ASSUME TidyInv, NEW h \in Handlers, NEW l \in LessonIds, NEW r, r = req[h], r.lesson = l,
           WorkAt(l, r), FilterExistingFiles(h), NEW q, q = req'[h]
    PROVE  After(l, q)
<1>1. /\ r \in Requests /\ r.pc = "filter"
      /\ \/ q = NextList(r)
         \/ q = [r EXCEPT !.pc = "copy", !.files = r.files \cap temporary]
  BY Moves DEF FilterExistingFiles, TidyInv, LessonInv
<1>2. Known(l)' = Known(l) /\ At(l)' = At(l) /\ lessons' = lessons /\ failed' = failed /\ temporary' = temporary
  BY DEF FilterExistingFiles, folders, history, Known, At
<1>3. Sound(l, {}, {}) /\ ListsAt(l, r) /\ (r.creates => Both(lessons'[l].files) = {})
  BY <1>1, <1>2 DEF WorkAt, Pending, Spare, PlanAt
<1>4. Sound(l, {}, {})' /\ ListsAt(l, r)'
  BY <1>2, <1>3, SoundKept, ListsKept
<1>5. CASE q = NextList(r)
  BY <1>1, <1>3, <1>4, <1>5, NextListAfter
<1>6. CASE q = [r EXCEPT !.pc = "copy", !.files = r.files \cap temporary]
  <2>1. /\ q.pc = "copy" /\ q.lesson = l /\ q.creates = r.creates
        /\ q.gone = r.gone /\ q.old = r.old /\ q.new = r.new
    BY <1>1, <1>6 DEF Requests
  <2>2. Quiet(q) /\ (q.creates => Both(lessons'[l].files) = {})
    BY <1>3, <2>1 DEF Quiet
  <2>3. ListsAt(l, q)'
    BY <1>2, <1>3, <2>1, ListsKept
  <2> QED BY <1>4, <2>1, <2>2, <2>3, QuietAfter
<1> QED BY <1>1, <1>5, <1>6

LEMMA CopyStep ==
    ASSUME TidyInv, NEW h \in Handlers, NEW l \in LessonIds, NEW r, r = req[h], r.lesson = l,
           WorkAt(l, r), NEW bad \in SUBSET Failing, CopyFiles(h, bad), NEW q, q = req'[h]
    PROVE  After(l, q)
<1>0. PICK copied : copied = (r.files \cap temporary) \ bad
  OBVIOUS
<1>1. /\ r \in Requests /\ r.pc = "copy"
      /\ q = [r EXCEPT !.copied = copied, !.pc = IF r.creates THEN "discard" ELSE "record"]
  BY <1>0, Moves DEF CopyFiles, TidyInv, LessonInv
<1>2. /\ q.pc = (IF r.creates THEN "discard" ELSE "record") /\ q.lesson = l /\ q.creates = r.creates
      /\ q.gone = r.gone /\ q.old = r.old /\ q.new = r.new /\ q.files = r.files /\ q.copied = copied
  BY <1>1 DEF Requests
<1>3. copied \subseteq Files /\ copied \subseteq r.files \cap temporary
  BY <1>0, <1>1 DEF Requests
<1>4. /\ Known(l)' = Known(l) /\ lessons' = lessons /\ failed' = failed \cup bad /\ temporary' = temporary
      /\ At(l)' = At(l) \cup copied
  BY <1>0, <1>3 DEF CopyFiles, Known, At
<1>5. Sound(l, {}, {}) /\ ListsAt(l, r) /\ PlanAt(l, r)
  BY <1>1 DEF WorkAt, Pending, Spare
<1>6. Pending(q) = copied /\ Spare(q) = {} /\ q # Idle
  <2>1. q.pc # "idle"
    BY <1>2
  <2>2. r.creates \in BOOLEAN
    BY <1>1 DEF Requests
  <2> QED BY <1>2, <2>1, <2>2, NotIdle DEF Pending, Spare
<1>7. Sound(l, copied, {})'
  BY <1>4, <1>5 DEF Sound
<1>8. ListsAt(l, q)'
  BY <1>2, <1>4, <1>5, ListsKept
<1>9. copied \cap FilesOf(Known(l)) \subseteq failed
  BY <1>3, <1>5 DEF Sound
<1>10. PlanAt(l, q)'
  BY <1>2, <1>3, <1>4, <1>5, <1>6, <1>9 DEF PlanAt
<1>11. WorkAt(l, q)'
  BY <1>6, <1>7, <1>8, <1>10 DEF WorkAt
<1> QED BY <1>2, <1>6, <1>11 DEF After

LEMMA DiscardStep ==
    ASSUME TidyInv, NEW h \in Handlers, NEW l \in LessonIds, NEW r, r = req[h], r.lesson = l,
           WorkAt(l, r), NEW bad \in SUBSET Failing, DeleteTemporary(h, bad), NEW q, q = req'[h]
    PROVE  After(l, q)
<1>1. /\ r \in Requests /\ r.pc = "discard"
      /\ q = IF r.creates THEN [r EXCEPT !.pc = "record"] ELSE NextList(r)
  BY Moves DEF DeleteTemporary, TidyInv, LessonInv
<1>2. /\ Known(l)' = Known(l) /\ At(l)' = At(l) /\ lessons' = lessons /\ failed' = failed \cup bad
      /\ temporary' = temporary \ (r.files \ bad)
  BY DEF DeleteTemporary, Known, At
<1>3. ListsAt(l, r)'
  BY <1>2, ListsKept DEF WorkAt
<1>4. CASE r.creates
  <2>1. /\ q.pc = "record" /\ q.lesson = l /\ q.creates = r.creates /\ q # Idle
        /\ q.gone = r.gone /\ q.old = r.old /\ q.new = r.new /\ q.files = r.files /\ q.copied = r.copied
    <3>1. r \in Requests /\ q = [r EXCEPT !.pc = "record"]
      BY <1>1, <1>4
    <3>2. q.pc = "record"
      BY <3>1 DEF Requests
    <3> QED BY <3>1, <3>2, NotIdle DEF Requests
  <2>2. Pending(r) = r.copied /\ Pending(q) = r.copied /\ Spare(r) = {} /\ Spare(q) = {}
    BY <1>1, <1>4, <2>1 DEF Pending, Spare
  <2>3. Sound(l, r.copied, {})'
    BY <1>2, <2>2, SoundKept DEF WorkAt
  <2>4. PlanAt(l, q)'
    BY <1>1, <1>2, <1>4, <2>1, <2>2 DEF WorkAt, PlanAt
  <2>5. ListsAt(l, q)'
    BY <1>3, <2>1 DEF ListsAt
  <2>6. WorkAt(l, q)'
    BY <2>2, <2>3, <2>4, <2>5 DEF WorkAt
  <2> QED BY <2>1, <2>6 DEF After
<1>5. CASE ~r.creates
  <2>1. Pending(r) = {} /\ Spare(r) = r.files
    BY <1>1, <1>5 DEF Pending, Spare
  <2>2. Sound(l, {}, {})'
    BY <1>2, <2>1 DEF WorkAt, Sound
  <2> QED BY <1>1, <1>3, <1>5, <2>2, NextListAfter
<1> QED BY <1>4, <1>5

LEMMA RecordStep ==
    ASSUME TidyInv, NEW h \in Handlers, NEW l \in LessonIds, NEW r, r = req[h], r.lesson = l,
           WorkAt(l, r), CreateFiles(h), NEW q, q = req'[h]
    PROVE  After(l, q)
<1>1. PICK saved, listed : /\ saved = AttachTarget(l, r.copied)
                           /\ listed = [r EXCEPT !.new = [r.new EXCEPT ![r.list] = @ \cup saved]]
  OBVIOUS
<1>2. /\ r \in Requests /\ r.pc = "record" /\ r.list \in Lists
      /\ q = IF r.creates THEN NextList(listed) ELSE [listed EXCEPT !.pc = "discard"]
  BY <1>1, Moves DEF CreateFiles, TidyInv, LessonInv, Requests
<1>3. /\ lessons' = lessons /\ failed' = failed /\ temporary' = temporary
      /\ At(l)' = At(l) /\ documents' = documents \cup saved
  BY <1>1 DEF CreateFiles, folders, history, At
<1>4. /\ \A d \in saved : d.lesson = l /\ d.file \in r.copied
      /\ \A d, e \in saved : d.file = e.file => d = e
      /\ FilesOf(saved) = r.copied
  <2>1. \A d : d \in saved <=> \E f \in r.copied : d = [file |-> f, lesson |-> l, copy |-> copies[f] + 1]
    BY <1>1 DEF AttachTarget
  <2>2. \A f \in r.copied : /\ [file |-> f, lesson |-> l, copy |-> copies[f] + 1] \in saved
                           /\ [file |-> f, lesson |-> l, copy |-> copies[f] + 1].file = f
    BY <2>1
  <2>3. \A d \in saved : d.lesson = l /\ d.file \in r.copied
    BY <2>1
  <2>4. \A d, e \in saved : d.file = e.file => d = e
    BY <2>1
  <2>5. FilesOf(saved) = r.copied
    <3>1. \A f \in r.copied : \E d \in saved : f = d.file
      BY <2>2
    <3> QED BY <2>3, <3>1 DEF FilesOf
  <2> QED BY <2>3, <2>4, <2>5
<1>5. saved \in SUBSET FileDocuments
  BY <1>1, <1>2, Recorded DEF CreateFiles, TidyInv, LessonInv
<1>6. Known(l)' = Known(l) \cup saved
  BY <1>3, <1>4 DEF Known
<1>7. /\ Pending(r) = r.copied /\ Spare(r) = {}
      /\ r.copied \cap FilesOf(Known(l)) \subseteq failed /\ r.copied \subseteq At(l) \cap r.files
      /\ r.creates => r.copied \cap temporary \subseteq failed
      /\ r.creates => Both(lessons'[l].files) = {}
      /\ Sound(l, r.copied, {}) /\ ListsAt(l, r)
  BY <1>2, <1>3 DEF WorkAt, PlanAt, Pending, Spare
<1>8. saved \cap Known(l) = {}
  <2>1. \A d \in documents : d.copy <= copies[d.file]
    BY DEF TidyInv, Owned
  <2>2. copies \in [Files -> Nat] /\ documents \subseteq FileDocuments /\ r.copied \subseteq Files
    BY <1>2, CopiesAssumption DEF TidyInv, LessonInv, TypeOK, Requests
  <2>3. \A d \in saved : d.copy = copies[d.file] + 1 /\ copies[d.file] \in Nat
    BY <1>1, <2>2 DEF AttachTarget
  <2>4. \A d \in saved : d \notin documents
    BY <2>1, <2>3
  <2> QED BY <2>4 DEF Known
<1>9. FilesOf(Known(l) \cup saved) = FilesOf(Known(l)) \cup r.copied
  BY <1>4 DEF FilesOf
<1>10. FilesOf(Known(l))' = FilesOf(Known(l)) \cup r.copied
  BY <1>6, <1>9 DEF FilesOf
<1>11. \A d, e \in Known(l)' : d.file = e.file => d = e \/ d.file \in failed'
  <2>1. \A d \in Known(l), e \in saved : d.file = e.file => d.file \in failed
    BY <1>4, <1>7 DEF FilesOf
  <2> QED BY <1>3, <1>4, <1>6, <1>7, <2>1 DEF Sound
<1>12. Sound(l, {}, r.files)' /\ (r.creates => Sound(l, {}, {})')
  BY <1>3, <1>7, <1>10, <1>11 DEF Sound
<1>13. [r.new EXCEPT ![r.list] = @ \cup saved] \in [Lists -> SUBSET FileDocuments]
  BY <1>2, <1>5 DEF Requests
<1>14. listed \in Requests
  BY <1>1, <1>2, <1>13, RequestSet, Zenon
<1>15. /\ listed.pc = "record" /\ listed.lesson = l /\ listed.creates = r.creates
       /\ listed.gone = r.gone /\ listed.old = r.old /\ listed.files = r.files
       /\ listed.new = [r.new EXCEPT ![r.list] = @ \cup saved]
  BY <1>1, <1>2 DEF Requests
<1>16. ListsAt(l, listed)'
  <2>1. Both(listed.new) = Both(r.new) \cup saved
    BY <1>2, <1>15 DEF Both, Requests, Lists
  <2>2. Apart(listed.new)
    <3>1. Both(r.new) \cap saved = {} /\ Apart(r.new)
      BY <1>7, <1>8 DEF ListsAt
    <3> QED BY <1>2, <1>15, <3>1 DEF Both, Apart, Requests, Lists
  <2>3. FilesOf(Both(listed.new)) \subseteq At(l) \cup failed
    BY <1>4, <1>7, <2>1 DEF ListsAt, FilesOf
  <2>4. saved \cap r.gone = {} /\ saved \cap Both(r.old) = {}
    BY <1>7, <1>8 DEF ListsAt
  <2>5. listed.gone = r.gone /\ listed.old = r.old
    BY <1>15
  <2>6. /\ Known(l) \subseteq Known(l)' /\ saved \subseteq Known(l)' /\ At(l)' = At(l) /\ failed' = failed
    BY <1>3, <1>6
  <2>7. ListsAt(l, r)
    BY <1>7
  <2>8. Both(listed.new) \subseteq Known(l)' /\ Both(listed.new) \cap r.gone = {} /\ Both(listed.new) \cap Both(r.old) = {}
    BY <2>1, <2>4, <2>6, <2>7 DEF ListsAt
  <2> QED BY <2>2, <2>3, <2>5, <2>6, <2>7, <2>8 DEF ListsAt
<1>17. CASE r.creates
  <2>1. q = NextList(listed) /\ Sound(l, {}, {})' /\ Both(lessons'[l].files) = {}
    BY <1>2, <1>7, <1>12, <1>17
  <2>2. listed.lesson = l
    BY <1>15
  <2> QED BY <1>14, <1>16, <2>1, <2>2, NextListAfter
<1>18. CASE ~r.creates
  <2>1. /\ q.pc = "discard" /\ q.lesson = l /\ q.creates = r.creates /\ q # Idle
        /\ q.gone = listed.gone /\ q.old = listed.old /\ q.new = listed.new /\ q.files = r.files
    BY <1>2, <1>14, <1>15, <1>18, NotIdle DEF Requests
  <2>2. Pending(q) = {} /\ Spare(q) = r.files
    BY <1>18, <2>1 DEF Pending, Spare
  <2>3. ListsAt(l, q)'
    BY <1>16, <2>1 DEF ListsAt
  <2>4. PlanAt(l, q)'
    BY <1>18, <2>1, <2>2 DEF PlanAt
  <2>5. WorkAt(l, q)'
    BY <1>12, <2>2, <2>3, <2>4 DEF WorkAt
  <2> QED BY <2>1, <2>5 DEF After
<1> QED BY <1>17, <1>18

LEMMA ListsStep ==
    ASSUME TidyInv, NEW h \in Handlers, NEW l \in LessonIds, NEW r, r = req[h], r.lesson = l,
           WorkAt(l, r), UpdateLists(h), NEW q, q = req'[h]
    PROVE  After(l, q)
<1>1. /\ r \in Requests /\ r.pc = "lists" /\ q = Idle
  BY Moves DEF UpdateLists, TidyInv, LessonInv
<1>2. Known(l)' = Known(l) /\ At(l)' = At(l) /\ failed' = failed /\ temporary' = temporary
  BY DEF UpdateLists, folders, history, Known, At
<1>3. Sound(l, {}, {}) /\ ListsAt(l, r) /\ (r.creates => Both(lessons[l].files) = {})
  BY <1>1 DEF WorkAt, Pending, Spare, PlanAt
<1>4. Sound(l, {}, {})'
  BY <1>2, <1>3, SoundKept
<1>5. \/ Both(lessons'[l].files) = {}
      \/ Both(lessons'[l].files) = Both(r.new) /\ Apart(lessons'[l].files)
  <2>1. lessons \in [LessonIds -> LessonDocuments]
    BY DEF TidyInv, LessonInv, TypeOK
  <2>2. CASE l \notin There
    BY <2>2 DEF UpdateLists, There, TidyInv, Owned
  <2>3. CASE l \in There
    <3>1. lessons'[l].files = [k \in Lists |-> IF r.creates /\ r.new[k] = {} THEN lessons[l].files[k] ELSE r.new[k]]
      BY <2>1, <2>3 DEF UpdateLists, LessonDocuments
    <3>2. /\ lessons'[l].files["homework"] = IF r.creates /\ r.new["homework"] = {}
                                             THEN lessons[l].files["homework"] ELSE r.new["homework"]
          /\ lessons'[l].files["bonus"] = IF r.creates /\ r.new["bonus"] = {}
                                          THEN lessons[l].files["bonus"] ELSE r.new["bonus"]
      BY <3>1 DEF Lists
    <3>3. /\ lessons'[l].files["homework"] = r.new["homework"]
          /\ lessons'[l].files["bonus"] = r.new["bonus"]
      BY <1>3, <3>2 DEF Both
    <3> QED BY <1>3, <3>3 DEF Both, Apart, ListsAt
  <2> QED BY <2>2, <2>3
<1>6. RestAt(l)'
  <2>1. CASE Both(lessons'[l].files) = {}
    BY <1>4, <2>1 DEF RestAt, Both, Apart, FilesOf
  <2>2. CASE Both(lessons'[l].files) = Both(r.new) /\ Apart(lessons'[l].files)
    BY <1>2, <1>3, <1>4, <2>2 DEF RestAt, ListsAt
  <2> QED BY <1>5, <2>1, <2>2
<1> QED BY <1>1, <1>6 DEF After

LEMMA DeleteStep ==
    ASSUME TidyInv, NEW h \in Handlers, NEW l \in LessonIds, NEW r, r = req[h], r.lesson = l,
           WorkAt(l, r), DeleteMany(h), NEW q, q = req'[h]
    PROVE  After(l, q)
<1>1. /\ r \in Requests /\ r.pc = "delete" /\ q = [r EXCEPT !.pc = "rmdir"]
  BY Moves DEF DeleteMany, TidyInv, LessonInv
<1>2. /\ q.pc = "rmdir" /\ q.lesson = l /\ q # Idle
      /\ q.gone = r.gone /\ q.old = r.old /\ q.new = r.new
  <2>1. q.pc = "rmdir"
    BY <1>1 DEF Requests
  <2> QED BY <1>1, <2>1, NotIdle DEF Requests
<1>3. Known(l)' = Known(l) /\ At(l)' = At(l) /\ failed' = failed /\ temporary' = temporary
  BY DEF DeleteMany, folders, history, Known, At
<1>4. Sound(l, {}, {}) /\ ListsAt(l, r)
  BY <1>1 DEF WorkAt, Pending, Spare
<1>5. Both(lessons'[l].files) = {}
  <2>1. lessons \in [LessonIds -> LessonDocuments]
    BY DEF TidyInv, LessonInv, TypeOK
  <2>2. lessons'[l].files = Empty
    BY <2>1 DEF DeleteMany, NoLesson
  <2> QED BY <2>2, StepsThere DEF Both, Empty
<1>6. Sound(l, {}, {})' /\ ListsAt(l, q)'
  BY <1>2, <1>3, <1>4, SoundKept, ListsKept
<1>7. Pending(q) = {} /\ Spare(q) = {}
  BY <1>2 DEF Pending, Spare
<1>8. PlanAt(l, q)'
  BY <1>2, <1>5, <1>7 DEF PlanAt
<1>9. WorkAt(l, q)'
  BY <1>6, <1>7, <1>8 DEF WorkAt
<1> QED BY <1>2, <1>9 DEF After

LEMMA RmdirStep ==
    ASSUME TidyInv, NEW h \in Handlers, NEW l \in LessonIds, NEW r, r = req[h], r.lesson = l,
           WorkAt(l, r), NEW bad \in SUBSET Failing, DeleteLessonFolder(h, bad), NEW q, q = req'[h]
    PROVE  After(l, q)
<1>1. /\ r \in Requests /\ r.pc = "rmdir" /\ q = Idle
  BY Moves DEF DeleteLessonFolder, TidyInv, LessonInv
<1>2. /\ Known(l)' = Known(l) /\ At(l)' \subseteq bad /\ failed' = failed \cup bad
      /\ temporary' = temporary /\ lessons' = lessons
  BY DEF DeleteLessonFolder, Known, At
<1>3. Sound(l, {}, {}) /\ Both(lessons[l].files) = {}
  BY <1>1 DEF WorkAt, Pending, Spare, PlanAt
<1>4. Sound(l, {}, {})'
  BY <1>2, <1>3 DEF Sound
<1>5. RestAt(l)'
  BY <1>2, <1>3, <1>4 DEF RestAt, Both, Apart, FilesOf
<1> QED BY <1>1, <1>5 DEF After

(* How a request begins, at a lesson at rest. *)
LEMMA CreateStep ==
    ASSUME TidyInv, NEW h \in Handlers, NEW l \in LessonIds, NEW b \in Bodies,
           RestAt(l), CreateLesson(h, l, b), NEW q, q = req'[h]
    PROVE  After(l, q)
<1>1. /\ q = [Idle EXCEPT !.pc = "folder", !.lesson = l, !.creates = TRUE, !.body = b]
      /\ lessons[l] = NoLesson
  BY DEF CreateLesson, Begin, TidyInv, LessonInv, TypeOK
<1>2. /\ q.pc = "folder" /\ q.lesson = l /\ q.gone = {} /\ q.old = Empty /\ q.new = Empty
  BY <1>1 DEF Idle
<1>3. Known(l)' = Known(l) /\ At(l)' = At(l) /\ failed' = failed /\ temporary' = temporary
  BY DEF CreateLesson, folders, Known, At
<1>4. Both(Empty) = {} /\ Apart(Empty)
  BY StepsThere DEF Both, Apart, Empty
<1>5. Both(lessons'[l].files) = {}
  <2>1. lessons \in [LessonIds -> LessonDocuments]
    BY DEF TidyInv, LessonInv, TypeOK
  <2>2. lessons'[l].files = Empty
    BY <1>1, <2>1 DEF CreateLesson, NoLesson
  <2> QED BY <1>4, <2>2
<1>6. Sound(l, {}, {})'
  BY <1>3, SoundKept DEF RestAt
<1>7. ListsAt(l, q)'
  BY <1>2, <1>4 DEF ListsAt, FilesOf
<1>8. Quiet(q)
  BY <1>2 DEF Quiet
<1> QED BY <1>2, <1>5, <1>6, <1>7, <1>8, QuietAfter

LEMMA UpdateStep ==
    ASSUME TidyInv, NEW h \in Handlers, NEW l \in LessonIds, NEW b \in Bodies,
           RestAt(l), UpdateLesson(h, l, b), NEW q, q = req'[h]
    PROVE  After(l, q)
<1>1. q = [Idle EXCEPT !.pc = "compare", !.lesson = l, !.body = b, !.old = lessons[l].files]
  BY DEF UpdateLesson, Begin, TidyInv, LessonInv, TypeOK
<1>2. /\ q.pc = "compare" /\ q.lesson = l /\ q.gone = {} /\ q.old = lessons[l].files /\ q.new = Empty
      /\ ~q.creates
  BY <1>1 DEF Idle
<1>3. Known(l)' = Known(l) /\ At(l)' = At(l) /\ failed' = failed /\ temporary' = temporary
  BY DEF UpdateLesson, folders, Known, At
<1>4. Both(Empty) = {} /\ Apart(Empty)
  BY StepsThere DEF Both, Apart, Empty
<1>5. Sound(l, {}, {})'
  BY <1>3, SoundKept DEF RestAt
<1>6. ListsAt(l, q)'
  BY <1>2, <1>3, <1>4 DEF ListsAt, FilesOf, RestAt
<1>7. Quiet(q)
  BY <1>2 DEF Quiet
<1> QED BY <1>2, <1>5, <1>6, <1>7, QuietAfter

LEMMA DeleteBeginStep ==
    ASSUME TidyInv, NEW h \in Handlers, NEW l \in LessonIds,
           RestAt(l), DeleteLesson(h, l), NEW q, q = req'[h]
    PROVE  After(l, q)
<1>1. q = [Idle EXCEPT !.pc = "delete", !.lesson = l]
  BY DEF DeleteLesson, Begin, TidyInv, LessonInv, TypeOK
<1>2. /\ q.pc = "delete" /\ q.lesson = l /\ q.gone = {} /\ q.old = Empty /\ q.new = Empty /\ ~q.creates
  BY <1>1 DEF Idle
<1>3. Known(l)' = Known(l) /\ At(l)' = At(l) /\ failed' = failed /\ temporary' = temporary
  BY DEF DeleteLesson, folders, Known, At
<1>4. Both(Empty) = {} /\ Apart(Empty)
  BY StepsThere DEF Both, Apart, Empty
<1>5. Sound(l, {}, {})'
  BY <1>3, SoundKept DEF RestAt
<1>6. ListsAt(l, q)'
  BY <1>2, <1>4 DEF ListsAt, FilesOf
<1>7. Quiet(q)
  BY <1>2 DEF Quiet
<1> QED BY <1>2, <1>5, <1>6, <1>7, QuietAfter

-----------------------------------------------------------------------------
LEMMA OwnedSame ==
    ASSUME NEW r, NEW q, OwnedBy(r), uploaded \subseteq uploaded',
           q.lesson = r.lesson, q.copied \subseteq uploaded', q.gone \subseteq r.gone,
           Both(q.old) \subseteq Both(r.old), Both(q.new) \subseteq Both(r.new)
    PROVE  OwnedBy(q)'
BY DEF OwnedBy

LEMMA OwnedIdle == OwnedBy(Idle)
<1>1. Both(Empty) = {}
  BY StepsThere DEF Both, Empty
<1> QED BY <1>1 DEF OwnedBy, Idle

LEMMA OwnedNextList ==
    ASSUME NEW r \in Requests, OwnedBy(r), uploaded \subseteq uploaded'
    PROVE  OwnedBy(NextList(r))'
<1>1. PICK q : q = NextList(r)
  OBVIOUS
<1>2. CASE q = Idle
  BY <1>1, <1>2, OwnedIdle, StepsThere DEF OwnedBy, Idle, Both, Empty
<1>3. CASE q # Idle
  <2>1. /\ q.lesson = r.lesson /\ q.gone = r.gone /\ q.old = r.old /\ q.new = r.new
    BY <1>1, <1>3, NextListFields
  <2>2. q.copied = {} \/ q.copied = r.copied
    BY <1>1, <1>3 DEF NextList, Requests
  <2>3. OwnedBy(q)'
    BY <2>1, <2>2 DEF OwnedBy
  <2> QED BY <1>1, <2>3
<1> QED BY <1>2, <1>3

(* The request after a step of its own. *)
LEMMA OwnedRequest ==
    ASSUME TidyInv, NEW h \in Handlers, NEW r, r = req[h], NEW q, q = req'[h],
           Advance(h) \/ Cut(h)
    PROVE  OwnedBy(q)' /\ (q = Idle \/ q.lesson = r.lesson)
<1>1. /\ r \in Requests /\ r.list \in Lists /\ OwnedBy(r) /\ TypeOK /\ HandlerAt(h)
      /\ temporary \subseteq uploaded
  <2>1. r \in Requests
    BY Moves DEF TidyInv, LessonInv
  <2>2. OwnedBy(r) /\ TypeOK /\ HandlerAt(h) /\ temporary \subseteq uploaded
    BY DEF TidyInv, LessonInv, Owned
  <2> QED BY <2>1, <2>2 DEF Requests
<1>2. uploaded' = uploaded
  BY DEF Advance, CreateLessonStorage, Compare, DeleteFileDocuments, FilterExistingFiles, CreateFiles, DeleteTemporary,
         UpdateLists, DeleteMany, DeleteLessonFolder, Cut, DeleteOldFiles, CopyFiles, history
<1>3. CASE Compare(h)
  <2> DEFINE known == GetFilesByIds(r.old[r.list])
             names == r.body[r.list]
  <2>1. /\ q.lesson = r.lesson /\ q.copied = r.copied
        /\ q.gone = OnlyInOld(known, names)
        /\ q.old = [r.old EXCEPT ![r.list] = {}]
        /\ q.new = [r.new EXCEPT ![r.list] = InBoth(known, names)]
    BY <1>1, <1>3, ComparedRequest
  <2>2. /\ OnlyInOld(known, names) \subseteq r.old[r.list]
        /\ InBoth(known, names) \subseteq r.old[r.list]
        /\ r.old[r.list] \subseteq Both(r.old)
    BY <1>1 DEF OnlyInOld, InBoth, GetFilesByIds, Both, Lists
  <2>3. Both(q.old) \subseteq Both(r.old) /\ Both(q.new) \subseteq Both(r.new) \cup r.old[r.list]
    <3> HIDE DEF known, names
    <3> QED BY <1>1, <2>1, <2>2 DEF Both, Requests, Lists
  <2>4. q.gone \cup Both(q.old) \cup Both(q.new) \subseteq Both(r.old) \cup Both(r.new)
    <3> HIDE DEF known, names
    <3>1. q.gone \subseteq Both(r.old)
      BY <2>1, <2>2
    <3>2. Both(q.old) \subseteq Both(r.old) /\ Both(q.new) \subseteq Both(r.old) \cup Both(r.new)
      BY <2>2, <2>3
    <3> QED BY <3>1, <3>2
  <2>5. q.lesson = r.lesson /\ q.copied = r.copied
    BY <2>1
  <2> QED BY <1>1, <1>2, <2>4, <2>5 DEF OwnedBy
<1>4. CASE CreateFiles(h)
  <2>1. PICK saved, listed : /\ saved = AttachTarget(r.lesson, r.copied)
                             /\ listed = [r EXCEPT !.new = [r.new EXCEPT ![r.list] = @ \cup saved]]
    OBVIOUS
  <2>2. q = IF r.creates THEN NextList(listed) ELSE [listed EXCEPT !.pc = "discard"]
    BY <1>4, <2>1, Moves DEF CreateFiles, TidyInv, LessonInv
  <2>3. saved \in SUBSET FileDocuments /\ \A d \in saved : d.lesson = r.lesson
    <3>1. r.lesson \in LessonIds
      BY <1>1, <1>4 DEF CreateFiles, HandlerAt
    <3> QED BY <1>1, <1>4, <2>1, <3>1, Recorded DEF CreateFiles, AttachTarget
  <2>4. [r.new EXCEPT ![r.list] = @ \cup saved] \in [Lists -> SUBSET FileDocuments]
    BY <1>1, <2>3 DEF Requests
  <2>5. listed \in Requests
    BY <1>1, <2>1, <2>4, RequestSet, Zenon
  <2>6. /\ listed.lesson = r.lesson /\ listed.copied = r.copied /\ listed.gone = r.gone /\ listed.old = r.old
        /\ listed.new = [r.new EXCEPT ![r.list] = @ \cup saved]
    BY <1>1, <2>1 DEF Requests
  <2>7. Both(listed.new) = Both(r.new) \cup saved
    BY <1>1, <2>6 DEF Both, Requests, Lists
  <2>8. OwnedBy(listed)
    BY <1>1, <2>3, <2>6, <2>7 DEF OwnedBy
  <2>9. CASE r.creates
    <3>1. OwnedBy(q)'
      BY <1>2, <2>2, <2>5, <2>8, <2>9, OwnedNextList
    <3>2. q = Idle \/ q.lesson = listed.lesson
      BY <2>2, <2>5, <2>9, NextListFields
    <3> QED BY <2>6, <3>1, <3>2
  <2>10. CASE ~r.creates
    <3>1. q.lesson = listed.lesson /\ q.copied = listed.copied /\ q.gone = listed.gone
          /\ q.old = listed.old /\ q.new = listed.new
      BY <2>2, <2>5, <2>10 DEF Requests
    <3> QED BY <1>2, <2>6, <2>8, <3>1 DEF OwnedBy
  <2> QED BY <2>9, <2>10
<1>5. CASE FilterExistingFiles(h) \/ \E bad \in SUBSET Failing : DeleteTemporary(h, bad)
  <2>1. \/ q = NextList(r)
        \/ q.lesson = r.lesson /\ q.copied = r.copied /\ q.gone = r.gone /\ q.old = r.old /\ q.new = r.new
    <3>1. \/ q = NextList(r)
          \/ q = [r EXCEPT !.pc = "copy", !.files = r.files \cap temporary]
          \/ q = [r EXCEPT !.pc = "record"]
      BY <1>1, <1>5, Moves DEF FilterExistingFiles, DeleteTemporary
    <3>2. CASE q = [r EXCEPT !.pc = "copy", !.files = r.files \cap temporary]
      BY <1>1, <3>2 DEF Requests
    <3>3. CASE q = [r EXCEPT !.pc = "record"]
      BY <1>1, <3>3 DEF Requests
    <3> QED BY <3>1, <3>2, <3>3
  <2>2. CASE q = NextList(r)
    BY <1>1, <1>2, <2>2, OwnedNextList, NextListFields
  <2> QED BY <1>1, <1>2, <2>1, <2>2 DEF OwnedBy
<1>6. CASE UpdateLists(h) \/ Cut(h) \/ \E bad \in SUBSET Failing : DeleteLessonFolder(h, bad)
  <2>1. q = Idle
    BY <1>1, <1>6, Moves DEF UpdateLists, DeleteLessonFolder, Cut
  <2> QED BY <1>2, <2>1, OwnedIdle DEF OwnedBy, Idle
<1>7. CASE \/ CreateLessonStorage(h) \/ DeleteFileDocuments(h) \/ DeleteMany(h)
           \/ \E bad \in SUBSET Failing : DeleteOldFiles(h, bad) \/ CopyFiles(h, bad)
  <2>1. /\ q.lesson = r.lesson /\ q.gone \subseteq r.gone /\ q.old = r.old /\ q.new = r.new
        /\ q.copied \subseteq r.copied \cup temporary
    <3>1. CASE CreateLessonStorage(h)
      <4>1. q = [r EXCEPT !.pc = "filter", !.files = r.body["homework"]]
        BY <1>1, <3>1, Moves DEF CreateLessonStorage
      <4> QED BY <1>1, <4>1 DEF Requests
    <3>2. CASE DeleteFileDocuments(h)
      <4>1. q = [r EXCEPT !.pc = "filter", !.gone = {}]
        BY <1>1, <3>2, Moves DEF DeleteFileDocuments
      <4> QED BY <1>1, <4>1 DEF Requests
    <3>3. CASE DeleteMany(h)
      <4>1. q = [r EXCEPT !.pc = "rmdir"]
        BY <1>1, <3>3, Moves DEF DeleteMany
      <4> QED BY <1>1, <4>1 DEF Requests
    <3>4. ASSUME NEW bad \in SUBSET Failing, DeleteOldFiles(h, bad)
          PROVE  q = [r EXCEPT !.pc = "forget"]
      BY <1>1, <3>4, Moves DEF DeleteOldFiles
    <3>5. ASSUME NEW bad \in SUBSET Failing, CopyFiles(h, bad)
          PROVE  /\ q.lesson = r.lesson /\ q.gone = r.gone /\ q.old = r.old /\ q.new = r.new
                 /\ q.copied \subseteq temporary
      <4>1. PICK c, pc : /\ c = (r.files \cap temporary) \ bad
                         /\ pc = IF r.creates THEN "discard" ELSE "record"
        OBVIOUS
      <4>2. q = [r EXCEPT !.copied = c, !.pc = pc]
        BY <1>1, <3>5, <4>1, Moves DEF CopyFiles
      <4> QED BY <1>1, <4>1, <4>2 DEF Requests
    <3>6. CASE q = [r EXCEPT !.pc = "forget"]
      BY <1>1, <3>6 DEF Requests
    <3> QED BY <1>7, <3>1, <3>2, <3>3, <3>4, <3>5, <3>6
  <2> QED BY <1>1, <1>2, <2>1 DEF OwnedBy
<1> QED BY <1>3, <1>4, <1>5, <1>6, <1>7 DEF Advance

(* A step of a request, or of the one that begins, changes its own lesson alone. *)
LEMMA StepsApart ==
    ASSUME TidyInv, NEW h \in Handlers, NEW l \in LessonIds,
           \/ req[h].lesson = l /\ (Advance(h) \/ Cut(h))
           \/ DeleteLesson(h, l)
           \/ \E b \in Bodies : CreateLesson(h, l, b) \/ UpdateLesson(h, l, b)
    PROVE  Only(l)
<1>1. lessons \in [LessonIds -> LessonDocuments] /\ OwnedBy(req[h])
  BY DEF TidyInv, LessonInv, TypeOK, Owned
<1>2. ASSUME documents' = documents, stored' = stored, lessons' = lessons PROVE Only(l)
  BY <1>2 DEF Only, Known, At
<1>3. CASE CreateFiles(h) /\ req[h].lesson = l
  <2>1. stored' = stored /\ lessons' = lessons /\ documents' = documents \cup AttachTarget(l, req[h].copied)
    BY <1>3 DEF CreateFiles, folders
  <2>2. \A d \in AttachTarget(l, req[h].copied) : d.lesson = l
    BY DEF AttachTarget
  <2> QED BY <2>1, <2>2 DEF Only, Known, At
<1>4. CASE DeleteFileDocuments(h) /\ req[h].lesson = l
  <2>1. stored' = stored /\ lessons' = lessons /\ documents' = documents \ req[h].gone
    BY <1>4 DEF DeleteFileDocuments, folders
  <2>2. \A d \in req[h].gone : d.lesson = l
    BY <1>1, <1>4 DEF OwnedBy
  <2> QED BY <2>1, <2>2 DEF Only, Known, At
<1>5. ASSUME documents' = documents, lessons' = lessons, NEW S, stored' = stored \ ({l} \X S) \/ stored' = stored \cup ({l} \X S)
      PROVE  Only(l)
  BY <1>5 DEF Only, Known, At
<1>6. CASE /\ req[h].lesson = l
           /\ \E bad \in SUBSET Failing : DeleteLessonFolder(h, bad) \/ DeleteOldFiles(h, bad) \/ CopyFiles(h, bad)
  BY <1>5, <1>6 DEF DeleteLessonFolder, DeleteOldFiles, CopyFiles
<1>7. ASSUME documents' = documents, stored' = stored, \A m \in LessonIds \ {l} : lessons'[m] = lessons[m]
      PROVE  Only(l)
  BY <1>7 DEF Only, Known, At
<1>8. CASE ((UpdateLists(h) \/ DeleteMany(h)) /\ req[h].lesson = l) \/ \E b \in Bodies : CreateLesson(h, l, b)
  BY <1>1, <1>7, <1>8 DEF UpdateLists, DeleteMany, CreateLesson, folders
<1>9. CASE \/ CreateLessonStorage(h) \/ Compare(h) \/ FilterExistingFiles(h) \/ Cut(h)
           \/ \E bad \in SUBSET Failing : DeleteTemporary(h, bad)
           \/ DeleteLesson(h, l) \/ \E b \in Bodies : UpdateLesson(h, l, b)
  BY <1>2, <1>9 DEF CreateLessonStorage, Compare, FilterExistingFiles, DeleteTemporary, Cut, DeleteLesson, UpdateLesson, folders
<1> QED BY <1>3, <1>4, <1>6, <1>8, <1>9 DEF Advance

-----------------------------------------------------------------------------
LEMMA WorkAtLater ==
    ASSUME NEW l, NEW h, NEW q, q = req'[h], WorkAt(l, q)'
    PROVE  WorkAt(l, req[h])'
BY DEF WorkAt, Sound, ListsAt, PlanAt, Pending, Spare, Both, Apart, Known, At, FilesOf

LEMMA WorkKept ==
    ASSUME TidyInv, NEW l, NEW h \in Handlers, NEW r, r = req[h], WorkAt(l, r),
           Known(l)' = Known(l), At(l)' = At(l), lessons'[l] = lessons[l],
           failed \subseteq failed', uploaded \cap temporary' \subseteq temporary
    PROVE  WorkAt(l, r)'
<1>1. FilesOf(Known(l)) \subseteq uploaded
  BY DEF TidyInv, Owned, Known, FilesOf
<1>2. Pending(r) \subseteq uploaded
  BY DEF TidyInv, Owned, OwnedBy, Pending
<1>3. PlanAt(l, r)'
  BY <1>2, PlanKept DEF WorkAt
<1>4. Sound(l, Pending(r), Spare(r))'
  <2>1. PICK p, s : p = Pending(r) /\ s = Spare(r)
    OBVIOUS
  <2>2. Sound(l, p, s)'
    BY <1>1, <2>1, SoundKept DEF WorkAt
  <2> QED BY <2>1, <2>2
<1>5. ListsAt(l, r)'
  BY ListsKept DEF WorkAt
<1> QED BY <1>3, <1>4, <1>5 DEF WorkAt

(* A step at one lesson leaves the others tidy. *)
LEMMA TidyElsewhere ==
    ASSUME TidyInv, NEW l, NEW m \in LessonIds \ {l}, Only(l), TidyAt(m),
           failed \subseteq failed', uploaded \cap temporary' \subseteq temporary,
           \A g \in Handlers : req'[g] = req[g] \/ (req[g].lesson # m /\ req'[g].lesson # m)
    PROVE  TidyAt(m)'
<1>1. AtWork(m)' = AtWork(m)
  BY DEF AtWork
<1>2. Known(m)' = Known(m) /\ At(m)' = At(m) /\ lessons'[m] = lessons[m]
  BY DEF Only
<1>3. FilesOf(Known(m)) \cap temporary' \subseteq temporary
  BY DEF TidyInv, Owned, Known, FilesOf
<1>4. AtWork(m) = {} => RestAt(m)'
  BY <1>2, <1>3, RestKept DEF TidyAt
<1>5. ASSUME NEW g \in AtWork(m) PROVE WorkAt(m, req[g])' /\ AtWork(m) = {g}
  <2>1. PICK r : r = req[g]
    OBVIOUS
  <2>2. g \in Handlers /\ req'[g] = r
    BY <2>1 DEF AtWork
  <2>3. WorkAt(m, r) /\ AtWork(m) = {g}
    BY <2>1 DEF TidyAt
  <2>4. WorkAt(m, r)'
    BY <1>2, <2>1, <2>2, <2>3, WorkKept
  <2> QED BY <2>2, <2>3, <2>4, WorkAtLater
<1> QED BY <1>1, <1>4, <1>5 DEF TidyAt

(* The lesson of the step itself. *)
LEMMA TidyHere ==
    ASSUME TidyInv, NEW h \in Handlers, NEW l \in LessonIds, NEW q, q = req'[h], After(l, q),
           \A g \in Handlers \ {h} : req'[g] = req[g] /\ req[g].lesson # l
    PROVE  TidyAt(l)'
<1>1. CASE q = Idle
  <2>1. req'[h].lesson # l
    BY <1>1, NoneAssumption DEF Idle
  <2>2. AtWork(l)' = {}
    BY <2>1 DEF AtWork
  <2> QED BY <1>1, <2>2 DEF TidyAt, After
<1>2. CASE q # Idle
  <2>1. q.lesson = l /\ WorkAt(l, q)'
    BY <1>2 DEF After
  <2>2. AtWork(l)' = {h}
    BY <2>1 DEF AtWork
  <2>3. WorkAt(l, req[h])'
    BY <2>1, WorkAtLater
  <2> QED BY <2>2, <2>3 DEF TidyAt
<1> QED BY <1>1, <1>2

(* What a step does to the rest of the state. *)
LEMMA OwnedStep ==
    ASSUME TidyInv, [Next]_vars
    PROVE  Owned'
<1>1. /\ TypeOK /\ \A h \in Handlers : HandlerAt(h) /\ OwnedBy(req[h]) /\ req[h] \in Requests
      /\ lessons \in [LessonIds -> LessonDocuments] /\ Owned
  BY DEF TidyInv, LessonInv, Owned, TypeOK
<1>2. uploaded \subseteq uploaded'
  BY <1>1, FoldersMove
<1>3. \A d \in documents' : d.file \in uploaded' /\ d.copy <= copies'[d.file]
  <2>1. /\ copies \in [Files -> Nat] /\ documents \subseteq FileDocuments
        /\ \A h \in Handlers : req[h].copied \subseteq Files
    BY <1>1, CopiesAssumption DEF TypeOK, Requests
  <2>2. ASSUME NEW h \in Handlers, CreateFiles(h)
        PROVE  \A d \in documents' : d.file \in uploaded' /\ d.copy <= copies'[d.file]
    <3>1. copies' = [f \in Files |-> copies[f] + IF f \in req[h].copied THEN 1 ELSE 0]
      BY <2>2 DEF CreateFiles
    <3>2. \A d \in AttachTarget(req[h].lesson, req[h].copied) :
             d.file \in uploaded /\ d.copy = copies[d.file] + 1 /\ d.file \in req[h].copied
      BY <1>1 DEF AttachTarget, OwnedBy
    <3>3. \A d \in AttachTarget(req[h].lesson, req[h].copied) : d.file \in uploaded /\ d.copy <= copies'[d.file]
      BY <2>1, <3>1, <3>2
    <3>4. \A d \in documents : d.file \in uploaded /\ d.copy <= copies'[d.file]
      <4>1. \A d \in documents : /\ d.file \in Files /\ d.copy \in Nat
                                 /\ d.file \in uploaded /\ d.copy <= copies[d.file]
        BY <1>1, <2>1, CopiesAssumption DEF FileDocuments, Owned
      <4>2. \A f \in Files : copies[f] \in Nat /\ copies'[f] \in Nat /\ copies[f] <= copies'[f]
        BY <2>1, <3>1
      <4> QED BY <4>1, <4>2
    <3>5. documents' = documents \cup AttachTarget(req[h].lesson, req[h].copied)
      BY <2>2 DEF CreateFiles
    <3> QED BY <1>2, <3>3, <3>4, <3>5
  <2>3. CASE documents' \subseteq documents /\ copies' = copies
    BY <1>1, <1>2, <2>3 DEF Owned
  <2>4. (\E h \in Handlers : CreateFiles(h)) \/ (documents' \subseteq documents /\ copies' = copies)
    BY ZenonT(40) DEF Next, vars, UploadFiles, CreateLesson, UpdateLesson, DeleteLesson, CreateLessonStorage, Compare,
       DeleteFileDocuments, FilterExistingFiles, DeleteTemporary, UpdateLists, DeleteMany, DeleteLessonFolder, Cut,
       DeleteOldFiles, CopyFiles
  <2> QED BY <2>2, <2>3, <2>4
<1>4. \A l \in LessonIds : /\ \A d \in Both(lessons'[l].files) : d.lesson = l
                           /\ lessons'[l].state # "there" => Both(lessons'[l].files) = {}
  <2>1. ASSUME NEW h \in Handlers, NEW l \in LessonIds, NEW b \in Bodies, CreateLesson(h, l, b)
        PROVE  \A m \in LessonIds : /\ lessons'[m].files = lessons[m].files
                                    /\ lessons'[m].state \in {lessons[m].state, "there"}
    BY <1>1, <2>1 DEF CreateLesson, LessonDocuments
  <2>2. ASSUME NEW h \in Handlers, UpdateLists(h)
        PROVE  \A m \in LessonIds : \/ lessons'[m] = lessons[m]
                                    \/ /\ lessons'[m].state = "there" /\ req[h].lesson = m
                                       /\ Both(lessons'[m].files) \subseteq Both(lessons[m].files) \cup Both(req[h].new)
    <3>1. CASE req[h].lesson \notin There
      BY <2>2, <3>1 DEF UpdateLists
    <3>2. CASE req[h].lesson \in There
      <4>1. PICK l, r : l \in LessonIds /\ l = r.lesson /\ r = req[h] /\ lessons[l].state = "there"
        BY <3>2 DEF There
      <4>2. PICK w : w = [k \in Lists |-> IF r.creates /\ r.new[k] = {} THEN lessons[l].files[k] ELSE r.new[k]]
        OBVIOUS
      <4>3. lessons' = [lessons EXCEPT ![l].files = w]
        BY <2>2, <3>2, <4>1, <4>2 DEF UpdateLists
      <4>4. Both(w) \subseteq Both(lessons[l].files) \cup Both(r.new)
        BY <4>2, StepsThere DEF Both
      <4>5. lessons'[l].state = "there" /\ lessons'[l].files = w
        BY <1>1, <4>1, <4>3 DEF LessonDocuments
      <4>6. \A m \in LessonIds \ {l} : lessons'[m] = lessons[m]
        BY <1>1, <4>3
      <4> QED BY <4>1, <4>4, <4>5, <4>6
    <3> QED BY <3>1, <3>2
  <2>3. ASSUME NEW h \in Handlers, DeleteMany(h)
        PROVE  \A m \in LessonIds : lessons'[m] = lessons[m] \/ Both(lessons'[m].files) = {}
    <3>1. Both(Empty) = {}
      BY StepsThere DEF Both, Empty
    <3> QED BY <1>1, <2>3, <3>1 DEF DeleteMany, NoLesson
  <2>4. \/ lessons' = lessons
        \/ \E h \in Handlers : \/ UpdateLists(h) \/ DeleteMany(h)
                               \/ \E l \in LessonIds, b \in Bodies : CreateLesson(h, l, b)
    BY ZenonT(40) DEF Next, vars, UploadFiles, UpdateLesson, DeleteLesson, CreateLessonStorage, Compare,
       DeleteFileDocuments, FilterExistingFiles, CreateFiles, DeleteTemporary, DeleteLessonFolder, Cut,
       DeleteOldFiles, CopyFiles
  <2>5. CASE lessons' = lessons
    BY <1>1, <2>5 DEF Owned
  <2>6. CASE \E h \in Handlers : UpdateLists(h)
    <3>1. PICK h \in Handlers : UpdateLists(h)
      BY <2>6
    <3>2. OwnedBy(req[h])
      BY <1>1
    <3> QED BY <1>1, <2>2, <3>1, <3>2 DEF Owned, OwnedBy
  <2>7. CASE \E h \in Handlers : DeleteMany(h)
    BY <1>1, <2>3, <2>7 DEF Owned
  <2>8. CASE \E h \in Handlers, l \in LessonIds, b \in Bodies : CreateLesson(h, l, b)
    BY <1>1, <2>1, <2>8 DEF Owned
  <2> QED BY <2>4, <2>5, <2>6, <2>7, <2>8
<1>5. \A h \in Handlers : OwnedBy(req[h])'
  <2>1. ASSUME NEW h \in Handlers, \E r : Begin(h, r) \/ Continue(h, r),
               NEW q, q = req'[h], OwnedBy(q)'
        PROVE  \A g \in Handlers : OwnedBy(req[g])'
    <3>1. OwnedBy(req[h])'
      BY <2>1 DEF OwnedBy
    <3>2. ASSUME NEW g \in Handlers \ {h} PROVE OwnedBy(req[g])'
      <4>1. req'[g] = req[g] /\ OwnedBy(req[g])
        BY <1>1, <2>1, OthersStay
      <4> QED BY <1>2, <4>1 DEF OwnedBy
    <3> QED BY <3>1, <3>2
  <2>2. ASSUME NEW h \in Handlers,
               Advance(h) \/ Cut(h)
        PROVE  \A g \in Handlers : OwnedBy(req[g])'
    <3>1. \E r : Continue(h, r)
      BY <2>2 DEF Advance, CreateLessonStorage, Compare, DeleteFileDocuments, FilterExistingFiles, CreateFiles,
                  DeleteTemporary, UpdateLists, DeleteMany, DeleteLessonFolder, Cut, DeleteOldFiles, CopyFiles,
                  Goto, Continue
    <3>2. PICK q : q = req'[h]
      OBVIOUS
    <3>3. OwnedBy(q)'
      BY <2>2, <3>2, OwnedRequest
    <3> QED BY <2>1, <3>1, <3>2, <3>3
  <2>3. ASSUME NEW h \in Handlers, NEW l \in LessonIds,
               DeleteLesson(h, l) \/ \E b \in Bodies : CreateLesson(h, l, b) \/ UpdateLesson(h, l, b)
        PROVE  \A g \in Handlers : OwnedBy(req[g])'
    <3>1. \E r : Begin(h, r)
      BY <2>3 DEF DeleteLesson, CreateLesson, UpdateLesson
    <3>2. PICK q : q = req'[h]
      OBVIOUS
    <3>3. /\ q.lesson = l /\ q.copied = {} /\ q.gone = {} /\ q.new = Empty
          /\ q.old \in {Empty, lessons[l].files}
      <4>1. CASE DeleteLesson(h, l)
        <5>1. q = [Idle EXCEPT !.pc = "delete", !.lesson = l]
          BY <1>1, <3>2, <4>1 DEF DeleteLesson, Begin, TypeOK
        <5> QED BY <5>1 DEF Idle
      <4>2. CASE \E b \in Bodies : CreateLesson(h, l, b)
        <5>1. PICK b \in Bodies : CreateLesson(h, l, b)
          BY <4>2
        <5>2. q = [Idle EXCEPT !.pc = "folder", !.lesson = l, !.creates = TRUE, !.body = b]
          BY <1>1, <3>2, <5>1 DEF CreateLesson, Begin, TypeOK
        <5> QED BY <5>2 DEF Idle
      <4>3. CASE \E b \in Bodies : UpdateLesson(h, l, b)
        <5>1. PICK b \in Bodies : UpdateLesson(h, l, b)
          BY <4>3
        <5>2. q = [Idle EXCEPT !.pc = "compare", !.lesson = l, !.body = b, !.old = lessons[l].files]
          BY <1>1, <3>2, <5>1 DEF UpdateLesson, Begin, TypeOK
        <5> QED BY <5>2 DEF Idle
      <4> QED BY <2>3, <4>1, <4>2, <4>3
    <3>4. Both(Empty) = {} /\ \A d \in Both(lessons[l].files) : d.lesson = l
      BY <1>1, StepsThere DEF Both, Empty, Owned
    <3>5. OwnedBy(q)'
      BY <3>3, <3>4 DEF OwnedBy
    <3> QED BY <2>1, <3>1, <3>2, <3>5
  <2>4. CASE (\E f \in Files : UploadFiles(f)) \/ UNCHANGED vars
    <3>1. req' = req
      BY <2>4 DEF UploadFiles, vars
    <3> QED BY <1>1, <1>2, <3>1 DEF OwnedBy
  <2> QED BY <2>2, <2>3, <2>4 DEF Next, Advance
<1> QED BY <1>3, <1>4, <1>5 DEF Owned

(* The step of a request that is not cut, at a lesson that is not disturbed. *)
LEMMA WorkStep ==
    ASSUME TidyInv, NEW h \in Handlers, NEW l \in LessonIds, NEW r, r = req[h], r.lesson = l, WorkAt(l, r),
           Advance(h),
           NEW q, q = req'[h]
    PROVE  After(l, q)
BY FolderStep, CompareStep, ForgetStep, FilterStep, RecordStep, DiscardStep, ListsStep, DeleteStep, RmdirStep,
   UnlinkStep, CopyStep DEF Advance

LEMMA BeginStep ==
    ASSUME TidyInv, NEW h \in Handlers, NEW l \in LessonIds, RestAt(l),
           DeleteLesson(h, l) \/ \E b \in Bodies : CreateLesson(h, l, b) \/ UpdateLesson(h, l, b),
           NEW q, q = req'[h]
    PROVE  After(l, q)
BY CreateStep, UpdateStep, DeleteBeginStep

LEMMA TemporaryMoves ==
    ASSUME TidyInv, [Next]_vars
    PROVE  failed \subseteq failed' /\ uploaded \cap temporary' \subseteq temporary
<1>1. TypeOK /\ \A h \in Handlers : HandlerAt(h)
  BY DEF TidyInv, LessonInv
<1>2. CASE \E f \in Files : UploadFiles(f)
  BY <1>2 DEF UploadFiles
<1>3. CASE \E h \in Handlers, bad \in SUBSET Failing : DeleteTemporary(h, bad)
  BY <1>3 DEF DeleteTemporary
<1> QED BY <1>1, <1>2, <1>3, FoldersMove

LEMMA TidyStep ==
    ASSUME TidyInv, [Next]_vars, NEW m \in LessonIds, m \notin disturbed'
    PROVE  TidyAt(m)'
<1>1. /\ TypeOK /\ \A h \in Handlers : HandlerAt(h)
      /\ failed \subseteq failed' /\ uploaded \cap temporary' \subseteq temporary
  BY TemporaryMoves DEF TidyInv, LessonInv
<1>2. ASSUME NEW h \in Handlers,
             Advance(h) \/ Cut(h)
      PROVE  TidyAt(m)'
  <2>1. PICK l, r, q : r = req[h] /\ l = r.lesson /\ q = req'[h]
    OBVIOUS
  <2>2. r.pc # "idle"
    <3>1. CASE Cut(h)
      BY <1>1, <2>1, <3>1 DEF Cut, HandlerAt
    <3>2. CASE ~Cut(h)
      BY <1>2, <2>1, <3>2 DEF Advance, CreateLessonStorage, Compare, DeleteFileDocuments, FilterExistingFiles, CreateFiles,
                 DeleteTemporary, UpdateLists, DeleteMany, DeleteLessonFolder, DeleteOldFiles, CopyFiles
    <3> QED BY <3>1, <3>2
  <2>3. l \in LessonIds
    BY <1>1, <2>1, <2>2 DEF HandlerAt
  <2>4. \E x : Continue(h, x)
    BY <1>2 DEF Advance, CreateLessonStorage, Compare, DeleteFileDocuments, FilterExistingFiles, CreateFiles,
                DeleteTemporary, UpdateLists, DeleteMany, DeleteLessonFolder, Cut, DeleteOldFiles, CopyFiles,
                Goto, Continue
  <2>5. \A g \in Handlers \ {h} : req'[g] = req[g]
    BY <1>1, <2>4, OthersStay
  <2>6. Only(l)
    BY <1>2, <2>1, <2>3, StepsApart
  <2>7. q = Idle \/ q.lesson = l
    BY <1>2, <2>1, OwnedRequest
  <2>8. disturbed \subseteq disturbed' /\ (Cut(h) => l \in disturbed')
    BY <1>2, <2>1, ZenonT(40) DEF Advance, CreateLessonStorage, Compare, DeleteFileDocuments, FilterExistingFiles, CreateFiles,
                DeleteTemporary, UpdateLists, DeleteMany, DeleteLessonFolder, Cut, DeleteOldFiles, CopyFiles, history
  <2>9. TidyAt(m)
    BY <2>8 DEF TidyInv
  <2>10. CASE m # l
    <3>1. \A g \in Handlers : req'[g] = req[g] \/ (req[g].lesson # m /\ req'[g].lesson # m)
      BY <2>1, <2>5, <2>7, <2>10, NoneAssumption DEF Idle
    <3> QED BY <1>1, <2>3, <2>6, <2>9, <2>10, <3>1, TidyElsewhere
  <2>11. CASE m = l
    <3>1. h \in AtWork(l)
      BY <2>1 DEF AtWork
    <3>2. WorkAt(l, r) /\ AtWork(l) = {h}
      BY <2>1, <2>9, <2>11, <3>1 DEF TidyAt
    <3>3. ~Cut(h)
      BY <2>8, <2>11
    <3>4. After(l, q)
      BY <1>2, <2>1, <2>3, <3>2, <3>3, WorkStep
    <3>5. \A g \in Handlers \ {h} : req'[g] = req[g] /\ req[g].lesson # l
      BY <2>5, <3>2 DEF AtWork
    <3> QED BY <2>1, <2>3, <2>11, <3>4, <3>5, TidyHere
  <2> QED BY <2>10, <2>11
<1>3. ASSUME NEW h \in Handlers, NEW l \in LessonIds,
             DeleteLesson(h, l) \/ \E b \in Bodies : CreateLesson(h, l, b) \/ UpdateLesson(h, l, b)
      PROVE  TidyAt(m)'
  <2>1. PICK q : q = req'[h]
    OBVIOUS
  <2>2. \E r : Begin(h, r) /\ r.lesson = l
    <3>1. \A b : /\ [Idle EXCEPT !.pc = "delete", !.lesson = l].lesson = l
                 /\ [Idle EXCEPT !.pc = "folder", !.lesson = l, !.creates = TRUE, !.body = b].lesson = l
                 /\ [Idle EXCEPT !.pc = "compare", !.lesson = l, !.body = b, !.old = lessons[l].files].lesson = l
      BY DEF Idle
    <3> QED BY <1>3, <3>1 DEF DeleteLesson, CreateLesson, UpdateLesson
  <2>3. /\ req[h] = Idle /\ q.lesson = l
        /\ disturbed' = IF AtWork(l) = {} THEN disturbed ELSE disturbed \cup {l}
        /\ \A g \in Handlers \ {h} : req'[g] = req[g]
    BY <1>1, <2>1, <2>2 DEF Begin, TypeOK
  <2>4. Only(l)
    BY <1>3, StepsApart
  <2>5. TidyAt(m)
    BY <2>3 DEF TidyInv
  <2>6. CASE m # l
    <3>1. \A g \in Handlers : req'[g] = req[g] \/ (req[g].lesson # m /\ req'[g].lesson # m)
      BY <2>1, <2>3, <2>6, NoneAssumption DEF Idle
    <3> QED BY <1>1, <2>4, <2>5, <2>6, <3>1, TidyElsewhere
  <2>7. CASE m = l
    <3>1. AtWork(l) = {}
      BY <2>3, <2>7
    <3>2. RestAt(l)
      BY <2>5, <2>7, <3>1 DEF TidyAt
    <3>3. After(l, q)
      BY <1>3, <2>1, <3>2, BeginStep
    <3>4. \A g \in Handlers \ {h} : req'[g] = req[g] /\ req[g].lesson # l
      BY <2>3, <3>1 DEF AtWork
    <3> QED BY <2>1, <2>7, <3>3, <3>4, TidyHere
  <2> QED BY <2>6, <2>7
<1>4. CASE (\E f \in Files : UploadFiles(f)) \/ UNCHANGED vars
  <2>1. /\ req' = req /\ lessons' = lessons /\ documents' = documents /\ stored' = stored
        /\ disturbed' = disturbed
    BY <1>4 DEF UploadFiles, vars, folders, history
  <2>2. Only(None) /\ m \in LessonIds \ {None}
    BY <2>1, NoneAssumption DEF Only, Known, At
  <2>3. TidyAt(m)
    BY <2>1 DEF TidyInv
  <2> QED BY <1>1, <2>1, <2>2, <2>3, TidyElsewhere
<1> QED BY <1>2, <1>3, <1>4 DEF Next, Advance

LEMMA TidyInvariance == Spec => []TidyInv
<1>1. Init => TidyInv
  <2>1. ASSUME Init PROVE TidyInv
    <3>1. LessonInv
      BY <2>1, InitInv
    <3>2. Both(Empty) = {} /\ Apart(Empty)
      BY StepsThere DEF Both, Apart, Empty
    <3>3. \A l \in LessonIds : Known(l) = {} /\ At(l) = {} /\ AtWork(l) = {} /\ lessons[l] = NoLesson
      BY <2>1, NoneAssumption DEF Init, Known, At, AtWork, Idle
    <3>4. \A l \in LessonIds : TidyAt(l)
      BY <3>2, <3>3 DEF TidyAt, RestAt, Sound, NoLesson, FilesOf
    <3>5. Owned
      BY <2>1, <3>2, OwnedIdle DEF Init, Owned, NoLesson
    <3> QED BY <3>1, <3>4, <3>5 DEF TidyInv
  <2> QED BY <2>1
<1>2. TidyInv /\ [Next]_vars => TidyInv'
  <2>1. ASSUME TidyInv, [Next]_vars PROVE TidyInv'
    <3>1. LessonInv'
      BY <2>1, TypeStep, HandlersStep, NothingLostStep DEF TidyInv, LessonInv
    <3> QED BY <2>1, <3>1, OwnedStep, TidyStep DEF TidyInv
  <2> QED BY <2>1
<1> QED BY <1>1, <1>2, PTL DEF Spec

-----------------------------------------------------------------------------
(* The lessons, the collections, the folders and the handlers keep the shape that *)
(* lesson.schema.ts, file.schema.ts and lesson.service.ts give them.              *)
THEOREM TypeCorrect == Spec => []TypeOK
BY Invariance, PTL DEF LessonInv

(* However many requests create, edit and delete lessons at once, and wherever they *)
(* are cut, no upload is lost on its way from the temporary folder into a lesson    *)
(* (lesson.service.ts, storage.service.ts).                                         *)
THEOREM NoFileLost == Spec => []NothingLost
BY Invariance, PTL DEF LessonInv

(* As long as no two requests meet at a lesson and none is cut there, every file in its *)
(* folder has its document or is about to get one, whatever requests at other lessons   *)
(* do with the same uploads (storage.service.ts, file.service.ts).                      *)
THEOREM RecordedWhenStored == Spec => []StoredIsRecorded
<1>1. TidyInv => StoredIsRecorded
  <2>1. ASSUME TidyInv, NEW l \in LessonIds \ disturbed, NEW f \in Files \ failed, <<l, f>> \in stored,
               AtWork(l) = {}
        PROVE  \E d \in documents : d.file = f /\ d.lesson = l
    BY <2>1 DEF TidyInv, TidyAt, RestAt, Sound, Known, At, FilesOf
  <2> QED BY <2>1 DEF StoredIsRecorded
<1> QED BY <1>1, TidyInvariance, PTL

(* ... and what it lists is there, document and file, in its own folder, if the disk     *)
(* refused nothing of that file (lesson.service.ts, storage.service.ts).                 *)
THEOREM StoredWhenListed == Spec => []ListedIsStored
<1>1. TidyInv => ListedIsStored
  <2>1. ASSUME TidyInv, NEW l \in There \ disturbed, AtWork(l) = {}, NEW d \in Listed(l)
        PROVE  d \in documents /\ d.lesson = l /\ (d.file \in failed \/ <<l, d.file>> \in stored)
    <3>1. l \in LessonIds \ disturbed
      BY <2>1 DEF There
    <3>2. RestAt(l)
      BY <2>1, <3>1 DEF TidyInv, TidyAt
    <3>3. d \in Both(lessons[l].files)
      BY <2>1 DEF Listed, Both, Lists
    <3>4. d.file \in FilesOf(Both(lessons[l].files))
      BY <3>3 DEF FilesOf
    <3> QED BY <3>2, <3>3, <3>4 DEF RestAt, Known, At
  <2> QED BY <2>1 DEF ListedIsStored
<1> QED BY <1>1, TidyInvariance, PTL
=============================================================================
