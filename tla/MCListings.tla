------------------------------ MODULE MCListings ------------------------------
EXTENDS Listings

MCRoutes == {"lessonCourse", "lessonModule", "course", "module", "user", "promo", "bin", "event"}

(* Each list by one status or any; searched and not; by creation and by a key.  Those *)
(* with most documents to tell apart are asked one way each.                          *)
MCAsked ==
    [r \in MCRoutes |->
        CASE r = "lessonCourse" -> {q \in Queries : q.status = "any" /\ ~q.search /\ q.sorted}
          [] r = "lessonModule" -> {q \in Queries : q.status = "ARCHIVE" /\ ~q.sorted}
          [] r = "course" -> {q \in Queries : q.status = "ARCHIVE" /\ q.sorted}
          [] r = "user" -> {q \in Queries : ~q.search \/ ~q.targeted}
          [] r = "event" -> {q \in Queries : q.status = "PUBLISHED" /\ ~q.search}
          [] OTHER -> Queries]
=============================================================================
