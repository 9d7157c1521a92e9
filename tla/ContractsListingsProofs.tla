------------------------ MODULE ContractsListingsProofs ------------------------
(***************************************************************************)
(* Proofs about two components that share neither state nor names:         *)
(* Contracts, where no buyer gets stuck between signing and reading a       *)
(* contract, for any number of users, contracts and handlers; and Listings,*)
(* where a reader by offset is shown what she asked for, for any number of *)
(* documents and any sizes of pages.                                       *)
(***************************************************************************)
EXTENDS Contracts, Listings, TLAPS, FiniteSetTheorems, WellFoundedInduction

(* Of some contracts, or some documents, one came first: a set of naturals that is not *)
(* empty has a smallest member.                                                         *)
LEMMA FirstOf ==
    ASSUME NEW n \in Nat, NEW C \in SUBSET (1..n), C # {}
    PROVE  \E k \in C : \A i \in C : k <= i
<1> DEFINE UpTo(k) == {i \in C : i <= k}
           T == {UpTo(k) : k \in C}
<1>1. IsFiniteSet(C)
  <2>1. IsFiniteSet(1..n)
    BY FS_Interval
  <2> QED BY <2>1, FS_Subset
<1>2. T \subseteq FiniteSubsetsOf(C) /\ T # {}
  <2>1. \A k \in C : UpTo(k) \subseteq C
    OBVIOUS
  <2>2. \A k \in C : IsFiniteSet(UpTo(k))
    BY <1>1, <2>1, FS_Subset
  <2> QED BY <2>1, <2>2 DEF FiniteSubsetsOf
<1>3. PICK x \in T : \A y \in T : <<y, x>> \notin StrictSubsetOrdering(C)
  <2> HIDE DEF T
  <2> QED BY <1>2, FS_StrictSubsetOrderingWellFounded, WFMin
<1>4. PICK k \in C : x = UpTo(k)
  BY <1>3
<1>5. ASSUME NEW i \in C, ~(k <= i) PROVE FALSE
  <2>1. i \in Int /\ k \in Int /\ i < k
    BY <1>5
  <2>2. UpTo(i) \subseteq UpTo(k) /\ k \in UpTo(k) /\ k \notin UpTo(i)
    <3>1. \A j \in C : j <= i => j <= k
      BY <2>1
    <3>2. k <= k /\ ~(k <= i)
      BY <2>1
    <3> QED BY <3>1, <3>2, Zenon
  <2>3. UpTo(i) \in T /\ UpTo(i) \in SUBSET C /\ UpTo(k) \in SUBSET C
    OBVIOUS
  <2>4. <<UpTo(i), UpTo(k)>> \in StrictSubsetOrdering(C)
    <3> HIDE DEF UpTo
    <3>1. ASSUME NEW X \in SUBSET C, NEW Y \in SUBSET C, X \subseteq Y, X # Y
          PROVE  <<X, Y>> \in StrictSubsetOrdering(C)
      BY <3>1 DEF StrictSubsetOrdering
    <3>2. UpTo(i) # UpTo(k)
      BY <2>2
    <3> QED BY <2>2, <2>3, <3>1, <3>2
  <2> QED BY <1>3, <1>4, <2>3, <2>4
<1> QED BY <1>5

-----------------------------------------------------------------------------
(* Contracts *)

(* A user with any participant has the flag, or a handler that is about to set it. *)
(* Contracts come and go, so it is the participants of all of them that count.     *)
Answered ==
    \A u \in Users \ stuck :
        SignedAny(u) =>
            \/ purchases[u] = "signed"
            \/ \E h \in Handlers : req[h].user = u /\ req[h].pc = "agree"

(* A handler that signs knows who signs and what. *)
Named ==
    \A h \in Handlers :
        req[h].pc \in {"sign", "save", "agree"} =>
            req[h].user \in Users /\ req[h].contract \in ContractIds

-----------------------------------------------------------------------------
(* GetContract is a contract of the course. *)
LEMMA GetContractIsThere == TypeOK /\ contracts # {} => GetContract \in contracts
<1> SUFFICES ASSUME TypeOK, contracts # {} PROVE GetContract \in contracts
  OBVIOUS
<1>1. \E k \in contracts : \A i \in contracts : k <= i
  BY FirstOf, MaxContractsAssumption DEF TypeOK, ContractIds
<1> QED BY <1>1 DEF GetContract

-----------------------------------------------------------------------------
LEMMA InitInv == Init => TypeOK /\ Named /\ Answered
<1> SUFFICES ASSUME Init PROVE TypeOK /\ Named /\ Answered
  OBVIOUS
<1>1. Idle \in Requests /\ [Idle EXCEPT !.pc = "create"] \in Requests
  BY DEF Idle, Requests, Steps
<1>2. req \in [Handlers -> Requests]
  BY <1>1 DEF Init
<1>3. Answered
  BY DEF Init, Answered, SignedAny, Signed
<1>4. Named
  BY DEF Init, Named, Idle
<1> QED BY <1>2, <1>3, <1>4, MaxContractsAssumption DEF Init, TypeOK, Flags, Participants

LEMMA TypeStep == TypeOK /\ Named /\ [Next]_vars => TypeOK'
<1> SUFFICES ASSUME TypeOK, Named, [Next]_vars PROVE TypeOK'
  OBVIOUS
<1> USE DEF TypeOK
<1>1. /\ Idle \in Requests
      /\ [Idle EXCEPT !.pc = "update"] \in Requests
      /\ [Idle EXCEPT !.pc = "create"] \in Requests
      /\ [Idle EXCEPT !.pc = "delete"] \in Requests
  BY DEF Idle, Requests, Steps
<1>2. \A h \in Handlers : /\ [req[h] EXCEPT !.pc = "save"] \in Requests
                          /\ [req[h] EXCEPT !.pc = "agree"] \in Requests
  BY DEF Requests, Steps
<1>3. ASSUME NEW h \in Handlers, UpdateContract(h) \/ UpdateInPlace(h) \/ DeleteContract(h) PROVE TypeOK'
  BY <1>1, <1>3 DEF UpdateContract, UpdateInPlace, DeleteContract, Begin, Done
<1>4. ASSUME NEW h \in Handlers, CreateMissing(h) PROVE TypeOK'
  <2>1. created' \in 0..MaxContracts /\ contracts' \subseteq ContractIds
    BY <1>4, MaxContractsAssumption DEF CreateMissing, CreateContract, ContractIds
  <2> QED BY <1>1, <1>4, <2>1 DEF CreateMissing, Done
<1>5. ASSUME NEW h \in Handlers, DeleteMany(h) PROVE TypeOK'
  BY <1>1, <1>5 DEF DeleteMany, Done
<1>6. ASSUME NEW h \in Handlers, NEW u \in Users, SignContract(h, u) PROVE TypeOK'
  <2>1. GetContract \in ContractIds
    BY <1>6, GetContractIsThere DEF SignContract
  <2>2. [pc |-> "sign", user |-> u, contract |-> GetContract] \in Requests
    BY <2>1 DEF Requests, Steps
  <2> QED BY <1>6, <2>2 DEF SignContract, Begin
<1>7. ASSUME NEW h \in Handlers, RefuseSigned(h) PROVE TypeOK'
  BY <1>1, <1>2, <1>7 DEF RefuseSigned, Done, Goto
<1>8. ASSUME NEW h \in Handlers, SaveParticipant(h) PROVE TypeOK'
  <2>1. participants' \in Participants
    <3>1. req[h].user \in Users /\ req[h].contract \in ContractIds
      BY <1>8 DEF SaveParticipant, Named
    <3> QED BY <1>8, <3>1 DEF SaveParticipant, Participants
  <2> QED BY <1>2, <1>8, <2>1 DEF SaveParticipant, Goto
<1>9. ASSUME NEW h \in Handlers, Agree(h) PROVE TypeOK'
  BY <1>1, <1>9 DEF Agree, Done, Flags
<1>10. ASSUME NEW h \in Handlers, Cut(h) PROVE TypeOK'
  <2>1. stuck' \subseteq Users
    BY <1>10 DEF Cut, Named
  <2> QED BY <1>1, <1>10, <2>1 DEF Cut, Done
<1>11. ASSUME NEW u \in Users, BuyCourse(u) PROVE TypeOK'
  BY <1>11 DEF BuyCourse, Flags
<1>12. CASE UNCHANGED vars
  BY <1>12 DEF vars
<1> QED
  BY <1>3, <1>4, <1>5, <1>6, <1>7, <1>8, <1>9, <1>10, <1>11, <1>12 DEF Next

LEMMA NamedStep == TypeOK /\ Named /\ [Next]_vars => Named'
<1> SUFFICES ASSUME TypeOK, Named, [Next]_vars PROVE Named'
  OBVIOUS
<1> USE DEF Named
<1>1. req \in [Handlers -> Requests]
  BY DEF TypeOK
<1>2. ASSUME NEW h \in Handlers, NEW u \in Users, SignContract(h, u) PROVE Named'
  <2>1. GetContract \in ContractIds
    BY <1>2, GetContractIsThere DEF SignContract, TypeOK
  <2> QED BY <1>1, <1>2, <2>1 DEF SignContract, Begin
<1>3. ASSUME NEW h \in Handlers,
             \/ UpdateContract(h) \/ UpdateInPlace(h) \/ CreateMissing(h) \/ DeleteContract(h)
             \/ DeleteMany(h) \/ Agree(h) \/ Cut(h)
      PROVE Named'
  BY <1>1, <1>3 DEF UpdateContract, UpdateInPlace, CreateMissing, DeleteContract, DeleteMany, Agree, Cut,
                    Begin, Done, Idle
<1>4. ASSUME NEW h \in Handlers, RefuseSigned(h) \/ SaveParticipant(h) PROVE Named'
  BY <1>1, <1>4 DEF RefuseSigned, SaveParticipant, Goto, Done, Idle, Requests
<1>5. ASSUME NEW u \in Users, BuyCourse(u) PROVE Named'
  BY <1>5 DEF BuyCourse
<1>6. CASE UNCHANGED vars
  BY <1>6 DEF vars
<1> QED BY <1>2, <1>3, <1>4, <1>5, <1>6 DEF Next

LEMMA AnsweredStep == TypeOK /\ Named /\ Answered /\ [Next]_vars => Answered'
<1> SUFFICES ASSUME TypeOK, Named, Answered, [Next]_vars PROVE Answered'
  OBVIOUS
<1> USE DEF Answered, SignedAny, Signed
<1>1. req \in [Handlers -> Requests] /\ purchases \in [Users -> Flags] /\ participants \in Participants
  BY DEF TypeOK
<1>2. ASSUME NEW h \in Handlers, req[h] = Idle \/ req[h].pc # "agree",
             UNCHANGED <<participants, purchases, stuck>>,
             \A g \in Handlers \ {h} : req'[g] = req[g]
      PROVE Answered'
  BY <1>2 DEF Idle
<1>3. ASSUME NEW h \in Handlers,
             \/ UpdateContract(h) \/ UpdateInPlace(h) \/ CreateMissing(h) \/ DeleteContract(h)
             \/ DeleteMany(h) \/ RefuseSigned(h) \/ \E u \in Users : SignContract(h, u)
      PROVE Answered'
  BY <1>1, <1>2, <1>3
     DEF UpdateContract, UpdateInPlace, CreateMissing, CreateContract, DeleteContract, DeleteMany,
         RefuseSigned, SignContract, Begin, Done, Goto
<1>4. ASSUME NEW h \in Handlers, SaveParticipant(h) PROVE Answered'
  <2>1. /\ req[h].user \in Users /\ req[h].contract \in ContractIds /\ req[h].pc = "save"
        /\ req'[h].pc = "agree" /\ req'[h].user = req[h].user
        /\ \A g \in Handlers \ {h} : req'[g] = req[g]
    BY <1>1, <1>4 DEF SaveParticipant, Goto, Named, Requests
  <2>2. \A u \in Users \ {req[h].user} : participants'[u] = participants[u]
    BY <1>1, <1>4 DEF SaveParticipant, Participants
  <2> QED BY <1>4, <2>1, <2>2 DEF SaveParticipant
<1>5. ASSUME NEW h \in Handlers, Agree(h) PROVE Answered'
  <2>1. req[h].user \in Users /\ purchases'[req[h].user] = "signed"
    BY <1>1, <1>5 DEF Agree, Named
  <2>2. /\ \A u \in Users \ {req[h].user} : purchases'[u] = purchases[u]
        /\ \A g \in Handlers \ {h} : req'[g] = req[g]
    BY <1>1, <1>5 DEF Agree, Done
  <2> QED BY <1>5, <2>1, <2>2 DEF Agree
<1>6. ASSUME NEW h \in Handlers, Cut(h) PROVE Answered'
  <2>1. \A g \in Handlers \ {h} : req'[g] = req[g]
    BY <1>1, <1>6 DEF Cut, Done
  <2> QED BY <1>6, <2>1 DEF Cut
<1>7. ASSUME NEW u \in Users, BuyCourse(u) PROVE Answered'
  BY <1>1, <1>7 DEF BuyCourse
<1>8. CASE UNCHANGED vars
  BY <1>8 DEF vars
<1> QED BY <1>3, <1>4, <1>5, <1>6, <1>7, <1>8 DEF Next

-----------------------------------------------------------------------------
LEMMA Invariance == Spec => [](TypeOK /\ Named /\ Answered)
<1>1. TypeOK /\ Named /\ Answered /\ [Next]_vars => (TypeOK /\ Named /\ Answered)'
  BY TypeStep, NamedStep, AnsweredStep
<1> QED BY InitInv, <1>1, PTL DEF Spec

(* The contract requests keep the types of their documents and of what they have read, *)
(* the smallest contract among the many a course may have had included.                *)
THEOREM TypeCorrect == Spec => []TypeOK
BY Invariance, PTL

(* A buyer of a course with a contract can sign it or read the one she signed, however *)
(* signing and editing the course interleave or are cut after other steps.             *)
THEOREM NobodyStuck == Spec => []NeverStuck
<1>1. TypeOK /\ Answered => NeverStuck
  <2> SUFFICES ASSUME TypeOK, Answered, NEW u \in Users \ stuck, HasCourse(u), contracts # {}
               PROVE  \/ Signable(u) \/ Readable(u)
                      \/ \E h \in Handlers : req[h].user = u /\ req[h].pc = "agree"
    BY DEF NeverStuck
  <2>1. GetContract \in ContractIds
    BY GetContractIsThere DEF TypeOK
  <2> QED BY <2>1 DEF Answered, Signable, Readable, CheckSign, SignedAny
<1> QED BY Invariance, <1>1, PTL

-----------------------------------------------------------------------------
(* Paged lists.  A reader by offset is where she is by the number of documents she has *)
(* been past; Ahead is what a list holds before a document, whether the document is in *)
(* it or not.                                                                           *)
Shown == reader.page * reader.limit
Ahead(i, S) == IF query.newest THEN {j \in S : j > i} ELSE {j \in S : j < i}

(* What the filters and the query allow. *)
Asking ==
    /\ query \in QueriesOf(route)
    /\ \A i \in There(docs) : Holds(route, query, docs[i].kind)

(* A reader who is away has seen nothing. *)
Reading ==
    /\ reader.pc = "idle" => seen = {} /\ due = {}
    /\ reader.pc # "idle" => reader.limit \in Limits

(* Only lists of events ask for the counters by themselves. *)
Counting == reader.pc = "counting" => route = "event"

(* Unless one left a page already shown, no document that is due has slipped to a page *)
(* behind the reader unseen; unless one came in there or was sorted elsewhere, no      *)
(* document she has seen, even one that has left the list since, would come back on a  *)
(* page ahead of her.                                                                   *)
Unmissed == "slipped" \notin marks =>
    \A i \in due \ seen : Cardinality(Ahead(i, Found(docs))) >= Shown
Behind == marks \cap {"pushed", "resorted"} = {} =>
    \A i \in seen : Cardinality(Ahead(i, Found(docs))) < Shown

PagingInv ==
    /\ ListTypeOK /\ Asking /\ Reading /\ Counting
    /\ due \subseteq Found(docs)
    /\ Unmissed /\ Behind
    /\ NothingMissed /\ NoneTwice

(* Arithmetic of pages *)

LEMMA PagesEnough ==
    ASSUME NEW n \in Nat, NEW limit \in Nat \ {0}, NEW page \in Nat, page >= Pages(n, limit)
    PROVE  page * limit >= n
<1> DEFINE m == n + limit - 1
           q == m \div limit
<1>1. m = limit * q + (m % limit) /\ m % limit < limit /\ q \in Int /\ m % limit \in Int
  OBVIOUS
<1>2. n <= limit * q
  <2> HIDE DEF q
  <2> QED BY <1>1
<1>3. q <= page
  BY DEF Pages
<1>4. limit * q <= limit * page
  <2> HIDE DEF q
  <2> QED BY <1>1, <1>3
<1>5. page * limit = limit * page /\ limit * page \in Int
  OBVIOUS
<1> HIDE DEF q
<1> QED BY <1>1, <1>2, <1>4, <1>5

LEMMA PagesNat ==
    ASSUME NEW n \in Nat, NEW limit \in Nat \ {0}
    PROVE  Pages(n, limit) \in Nat
BY DEF Pages

(* Places in a list *)

LEMMA IdsNat == Ids \subseteq Nat
BY DocumentsAssumption DEF Ids

LEMMA IdsFinite == ASSUME NEW S \in SUBSET Ids PROVE IsFiniteSet(S) /\ Cardinality(S) \in Nat
<1>1. IsFiniteSet(Ids)
  BY DocumentsAssumption, FS_Interval DEF Ids
<1>2. IsFiniteSet(S)
  BY <1>1, FS_Subset
<1> QED BY <1>2, FS_CardinalityType

LEMMA RankUnfolds ==
    ASSUME NEW S, NEW i
    PROVE  Rank(i, S) = Cardinality(IF query.newest THEN {j \in S : j >= i} ELSE {j \in S : j <= i})
<1>1. CASE query.newest
  BY <1>1, Zenon DEF Rank
<1>2. CASE ~query.newest
  BY <1>2, Zenon DEF Rank
<1> QED BY <1>1, <1>2

LEMMA AheadIn ==
    ASSUME NEW S \in SUBSET Ids, NEW i \in Ids
    PROVE  /\ Ahead(i, S) \subseteq S /\ i \notin Ahead(i, S)
           /\ IsFiniteSet(Ahead(i, S)) /\ Cardinality(Ahead(i, S)) \in Nat
<1>1. Ahead(i, S) \subseteq S
  BY DEF Ahead
<1>2. i \notin Ahead(i, S)
  BY IdsNat DEF Ahead
<1> QED BY <1>1, <1>2, IdsFinite

LEMMA RankIs ==
    ASSUME NEW S \in SUBSET Ids, NEW i \in Ids
    PROVE  Rank(i, S) = IF i \in S THEN Cardinality(Ahead(i, S)) + 1
                                   ELSE Cardinality(Ahead(i, S))
<1> DEFINE upTo == IF query.newest THEN {j \in S : j >= i} ELSE {j \in S : j <= i}
<1>1. Rank(i, S) = Cardinality(upTo)
  BY RankUnfolds
<1>2. \A j \in S : (j >= i <=> j > i \/ j = i) /\ (j <= i <=> j < i \/ j = i)
  BY IdsNat
<1>3. CASE i \in S
  <2>1. upTo = Ahead(i, S) \cup {i}
    BY <1>2, <1>3 DEF Ahead
  <2>2. Cardinality(upTo) = Cardinality(Ahead(i, S)) + 1
    <3> HIDE DEF upTo
    <3> QED BY <2>1, AheadIn, FS_AddElement
  <2> QED BY <1>1, <1>3, <2>2
<1>4. CASE i \notin S
  <2>1. upTo = Ahead(i, S)
    BY <1>2, <1>4 DEF Ahead
  <2> QED BY <1>1, <1>4, <2>1
<1> QED BY <1>3, <1>4

(* Of some documents, one stands before the others. *)
LEMMA FirstDocument ==
    ASSUME NEW C \in SUBSET Ids, C # {}
    PROVE  \E m \in C : C \cap Ahead(m, C) = {}
<1>1. MaxDocuments \in Nat /\ C \in SUBSET (1..MaxDocuments)
  BY DocumentsAssumption DEF Ids
<1>2. CASE ~query.newest
  <2>1. PICK m \in C : \A i \in C : m <= i
    BY <1>1, FirstOf
  <2>2. \A i \in C : ~(i < m)
    BY <1>1, <2>1
  <2> QED BY <1>2, <2>2 DEF Ahead
<1>3. CASE query.newest
  <2> DEFINE T == {i \in 1..MaxDocuments : MaxDocuments + 1 - i \in C}
  <2>1. \A i \in C : MaxDocuments + 1 - i \in T /\ MaxDocuments + 1 - (MaxDocuments + 1 - i) = i
    BY <1>1
  <2>2. T \in SUBSET (1..MaxDocuments) /\ T # {}
    <3>1. T \in SUBSET (1..MaxDocuments)
      OBVIOUS
    <3>2. PICK i \in C : TRUE
      OBVIOUS
    <3> QED BY <2>1, <3>1, <3>2
  <2>3. PICK t \in T : \A i \in T : t <= i
    <3> HIDE DEF T
    <3> QED BY <1>1, <2>2, FirstOf
  <2>4. PICK m \in C : m = MaxDocuments + 1 - t
    BY <2>3
  <2>5. \A i \in C : m >= i
    <3>1. SUFFICES ASSUME NEW i \in C PROVE m >= i
      OBVIOUS
    <3>2. t <= MaxDocuments + 1 - i
      BY <2>1, <2>3
    <3> QED BY <1>1, <2>3, <2>4, <3>2
  <2>6. \A i \in C : ~(i > m)
    BY <1>1, <2>5
  <2> QED BY <1>3, <2>6 DEF Ahead
<1> QED BY <1>2, <1>3

(* If all that A has and B has not comes after the first n of A, then whatever has n of *)
(* A ahead of it has n of B ahead of it.                                                *)
LEMMA AheadKept ==
    ASSUME NEW A \in SUBSET Ids, NEW B \in SUBSET Ids, NEW n \in Nat, NEW i \in Ids,
           \A j \in A \ B : Rank(j, A) > n,
           Cardinality(Ahead(i, A)) >= n
    PROVE  Cardinality(Ahead(i, B)) >= n
<1> DEFINE C == Ahead(i, A) \ B
<1>1. C \subseteq Ids /\ Ahead(i, A) \subseteq Ids /\ Ahead(i, B) \subseteq Ids
  BY AheadIn
<1>2. ASSUME NEW X \in SUBSET Ids, NEW Y \in SUBSET Ids, X \subseteq Y, Cardinality(X) >= n
      PROVE  Cardinality(Y) >= n
  <2>1. /\ IsFiniteSet(Y) /\ Cardinality(Y) \in Nat /\ Cardinality(X) \in Nat
    BY IdsFinite
  <2>2. Cardinality(X) <= Cardinality(Y)
    BY <1>2, <2>1, FS_Subset
  <2> QED BY <1>2, <2>1, <2>2
<1>3. CASE C = {}
  <2>1. Ahead(i, A) \subseteq Ahead(i, B)
    BY <1>3 DEF Ahead
  <2> QED BY <1>1, <1>2, <2>1
<1>4. CASE C # {}
  <2>1. PICK m \in C : C \cap Ahead(m, C) = {}
    <3> HIDE DEF C
    <3> QED BY <1>1, <1>4, FirstDocument
  <2>2. m \in Ids /\ m \in A \ B /\ m \in Ahead(i, A)
    BY <1>1, <2>1 DEF Ahead
  <2>3. Cardinality(Ahead(m, A)) >= n
    <3>1. Rank(m, A) > n
      BY <2>2
    <3>2. Cardinality(Ahead(m, A)) \in Nat
      BY <2>2, AheadIn
    <3> QED BY <2>2, <3>1, <3>2, RankIs
  <2>4. Ahead(m, A) \subseteq Ahead(i, B)
    <3>1. SUFFICES ASSUME NEW j \in Ahead(m, A) PROVE j \in Ahead(i, B)
      OBVIOUS
    <3>2. j \in A /\ j \in Ahead(i, A)
      <4>1. j \in A /\ j \in Nat /\ m \in Nat /\ i \in Nat
        BY <2>2, <3>1, AheadIn, IdsNat
      <4> QED BY <2>2, <3>1, <4>1 DEF Ahead
    <3>3. j \notin C
      BY <2>1, <3>1 DEF Ahead
    <3> QED BY <3>2, <3>3 DEF Ahead
  <2>5. Ahead(m, A) \subseteq Ids
    BY <2>2, AheadIn
  <2> QED BY <1>1, <1>2, <2>3, <2>4, <2>5
<1> QED BY <1>3, <1>4

(* Nothing has as many documents ahead of it as its list has. *)
LEMMA AheadOfOne ==
    ASSUME NEW S \in SUBSET Ids, NEW i \in S
    PROVE  Cardinality(Ahead(i, S)) < Cardinality(S)
<1>1. Ahead(i, S) \subseteq S /\ i \notin Ahead(i, S)
  BY DocumentsAssumption DEF Ahead, Ids
<1>2. IsFiniteSet(S) /\ Cardinality(S) \in Nat /\ Cardinality(Ahead(i, S)) \in Nat
  BY <1>1, IdsFinite
<1>3. Cardinality(Ahead(i, S)) <= Cardinality(S) /\ Cardinality(Ahead(i, S)) # Cardinality(S)
  BY <1>1, <1>2, FS_Subset
<1> QED BY <1>2, <1>3

(* What lists hold *)

LEMMA QueryTypes ==
    ASSUME route \in Routes, query \in QueriesOf(route)
    PROVE  /\ query \in Queries
           /\ route = "event" => query.status \in STATUSES
           /\ route \in {"course", "event"} => ~query.targeted
<1>1. CASE route \in {"lessonCourse", "lessonModule", "module", "bin"}
  BY <1>1 DEF QueriesOf, Queries, getAllLesson, getLessonsOfModule, getModules, PaginationDto,
              GetAllLessonCourseQueryDto, GetAllLessonModuleQueryDto, GetAllModuleQueryDto
<1>2. CASE route = "course"
  BY <1>2 DEF QueriesOf, Queries, getCourses, GetAllCoursesQueryDto
<1>3. CASE route = "event"
  BY <1>3 DEF QueriesOf, Queries, GetAllEventsDto
<1>4. CASE route \in {"user", "promo"}
  BY <1>4 DEF QueriesOf, Queries, GetUsersQueryDto, PaginationDto
<1> QED BY <1>1, <1>2, <1>3, <1>4, RoutesAssumption

(* A list answers with documents that are there, and pages count at least those. *)
LEMMA FoundAndCounted ==
    ASSUME route \in Routes, query \in QueriesOf(route), NEW d
    PROVE  /\ Found(d) \subseteq There(d)
           /\ Found(d) \subseteq Answer(route, d, query).counted
           /\ Answer(route, d, query).counted \subseteq There(d)
           /\ There(d) \subseteq Ids
           /\ route = "event" => Answer(route, d, query).counted = getEventsCount(d)[query.status]
<1>1. CASE route = "event"
  <2>1. query.status \in STATUSES
    BY <1>1, QueryTypes
  <2> QED BY <1>1, <2>1 DEF Found, Answer, getAllEvents, getEventsCount, Searched, There
<1>2. CASE route \in {"lessonCourse", "lessonModule", "course"}
  BY <1>2 DEF Found, Answer, getAllLessonCourse, getAllLessonModule, getAllCourse, Searched,
              OfStatus, OfTarget, There
<1>3. CASE route \in {"module", "user", "promo", "bin"}
  BY <1>3 DEF Found, Answer, getAllModule, getAllUsers, findAllPromoCode, getAllDeleted, Uncounted,
              Searched, OfTarget, There
<1> QED BY <1>1, <1>2, <1>3, RoutesAssumption

(* The steps *)

LEMMA PagingInit == ListInit => PagingInv
<1> SUFFICES ASSUME ListInit PROVE PagingInv
  OBVIOUS
<1>1. route \in Routes /\ query \in QueriesOf(route) /\ query \in Queries
  BY QueryTypes DEF ListInit
<1>2. docs \in [Ids -> Documents] /\ There(docs) = {}
  BY DEF ListInit, Documents, States, NoKind, Kinds, STATUSES, There
<1>3. /\ reader.pc = "idle" /\ seen = {} /\ due = {} /\ marks = {} /\ reader \in Readers
  BY DEF ListInit, Away, Readers
<1> QED BY <1>1, <1>2, <1>3
        DEF PagingInv, ListTypeOK, Asking, Reading, Counting, Unmissed, Behind, NothingMissed,
            NoneTwice, Marks

LEMMA ShownNat == ListTypeOK => Shown \in Nat
<1> SUFFICES ASSUME ListTypeOK PROVE Shown \in Nat
  OBVIOUS
<1>1. reader.page \in Nat /\ reader.limit \in Limits \cup {0}
  BY DEF ListTypeOK, Readers
<1>2. reader.limit \in Nat
  <2>1. CASE reader.limit \in Limits
    BY <2>1, LimitsAssumption
  <2>2. CASE reader.limit = 0
    BY <2>2
  <2> QED BY <1>1, <2>1, <2>2
<1>3. \A p, l \in Nat : p * l \in Nat
  OBVIOUS
<1> QED BY <1>1, <1>2, <1>3 DEF Shown

(* Whatever is created, deleted, edited, sorted elsewhere or over is one Change to well- *)
(* formed documents, in which those that were shown are kept but for one that left its   *)
(* place, which the marks tell of.                                                        *)
Possible(d) ==
    d \in [Ids -> Documents] /\ \A i \in There(d) : Holds(route, query, d[i].kind)

Keeps(d, kept, more) ==
    /\ kept \subseteq Ids /\ more \subseteq {"resorted"}
    /\ seen \cap There(docs) \cap There(d) \subseteq kept
    /\ seen = {} => kept = {}
    /\ more = {} => kept \subseteq seen

Changes == \E d, kept, more : Possible(d) /\ Keeps(d, kept, more) /\ Change(d, kept, more)

LEMMA WriteChanges ==
    ASSUME ListTypeOK, NEW d, Possible(d), Write(d)
    PROVE  Changes
<1>1. Keeps(d, seen \cap There(d), {})
  BY DEF Keeps, ListTypeOK
<1> QED BY <1>1 DEF Changes, Write

LEMMA PutPossible ==
    ASSUME ListTypeOK, Asking, NEW i, NEW k \in Kinds, Holds(route, query, k)
    PROVE  Possible(Put(i, k))
<1>1. [state |-> "there", kind |-> k] \in Documents
  BY DEF Documents, States
<1> QED BY <1>1 DEF ListTypeOK, Asking, Possible, Put, There

LEMMA EditWrites ==
    ASSUME ListTypeOK, Asking, NEW i, NEW k \in Kinds, Edit(i, k)
    PROVE  Changes
BY PutPossible, WriteChanges DEF Edit

LEMMA LeftPossible ==
    ASSUME ListTypeOK, Asking, NEW i
    PROVE  Possible(Left(i)) /\ i \notin There(Left(i))
<1> DEFINE none == [state |-> IF Between THEN "unborn" ELSE "gone", kind |-> NoKind]
<1>1. none \in Documents /\ none.state # "there"
  BY DEF Documents, States, NoKind, Kinds, STATUSES
<1>2. Left(i) = [docs EXCEPT ![i] = none]
  BY DEF Left
<1> HIDE DEF none
<1> QED BY <1>1, <1>2 DEF Possible, ListTypeOK, Asking, There

LEMMA SortedElsewhere ==
    ASSUME ListTypeOK, Asking, NEW i \in There(docs), NEW place \in Ids, NEW named \in BOOLEAN,
           singIn(i, place, named)
    PROVE  Changes
<1> DEFINE k == [docs[i].kind EXCEPT !.named = named]
           put == [state |-> "there", kind |-> k]
           moved == [Left(i) EXCEPT ![place] = put]
           kept == {IF j = i THEN place ELSE j : j \in seen}
           more == {m \in {"resorted"} : i \in seen}
<1>1. /\ place \in Unborn /\ Holds(route, query, k) /\ Change(moved, kept, more)
  BY DEF singIn
<1>2. i \in Ids /\ i # place /\ docs[i].kind \in Kinds
  BY <1>1 DEF Unborn, There, ListTypeOK, Documents
<1>3. put \in Documents
  BY <1>2 DEF Documents, States, Kinds
<1>4. Possible(Left(i)) /\ i \notin There(Left(i))
  BY LeftPossible
<1>5. Possible(moved) /\ i \notin There(moved)
  <2>1. put.state = "there" /\ put.kind = k
    OBVIOUS
  <2>2. moved \in [Ids -> Documents] /\ moved[place] = put
    BY <1>3, <1>4 DEF Possible
  <2>3. \A j \in Ids \ {place} : moved[j] = Left(i)[j]
    BY <1>4 DEF Possible
  <2> HIDE DEF moved, put, k
  <2> QED BY <1>1, <1>2, <1>4, <2>1, <2>2, <2>3 DEF Possible, There
<1>6. Keeps(moved, kept, more)
  <2>1. kept \subseteq Ids /\ more \subseteq {"resorted"} /\ (seen = {} => kept = {})
    BY DEF ListTypeOK
  <2>2. seen \cap There(moved) \subseteq kept
    BY <1>5
  <2>3. more = {} => kept \subseteq seen
    OBVIOUS
  <2> QED BY <2>1, <2>2, <2>3 DEF Keeps
<1> QED BY <1>1, <1>5, <1>6 DEF Changes

LEMMA WriteSteps ==
    ASSUME ListTypeOK, Asking,
           \/ \E k \in Kinds : Create(k)
           \/ \E i \in There(docs) :
                 \/ \E s \in STATUSES : updateStatusLesson(i, s) \/ updateStatusCourse(i, s) \/ updateEvent(i, s)
                 \/ Delete(i) \/ updateModuleLesson(i) \/ restoreProducts(i) \/ updateModule(i) \/ Ends(i)
                 \/ \E place \in Ids, named \in BOOLEAN : singIn(i, place, named)
    PROVE  Changes
<1>1. CASE \E k \in Kinds : Create(k)
  BY <1>1, PutPossible, WriteChanges DEF Create
<1>2. ASSUME NEW i \in There(docs), Delete(i) PROVE Changes
  BY <1>2, LeftPossible, WriteChanges DEF Delete
<1>3. ASSUME NEW i \in There(docs), NEW s \in STATUSES,
             updateStatusLesson(i, s) \/ updateStatusCourse(i, s) \/ updateEvent(i, s)
      PROVE  Changes
  <2>1. docs[i].kind \in Kinds
    BY DEF ListTypeOK, There, Documents
  <2>2. [docs[i].kind EXCEPT !.status = s] \in Kinds
    BY <2>1 DEF Kinds
  <2> QED BY <1>3, <2>2, EditWrites DEF updateStatusLesson, updateStatusCourse, updateEvent
<1>4. ASSUME NEW i \in There(docs),
             updateModuleLesson(i) \/ restoreProducts(i) \/ updateModule(i) \/ Ends(i)
      PROVE  Changes
  <2>1. docs[i].kind \in Kinds
    BY DEF ListTypeOK, There, Documents
  <2>2. /\ [docs[i].kind EXCEPT !.target = ~@] \in Kinds
        /\ [docs[i].kind EXCEPT !.named = ~@] \in Kinds
        /\ [docs[i].kind EXCEPT !.over = TRUE] \in Kinds
    BY <2>1 DEF Kinds
  <2> QED BY <1>4, <2>2, EditWrites DEF updateModuleLesson, restoreProducts, updateModule, Ends
<1> QED BY <1>1, <1>2, <1>3, <1>4, SortedElsewhere

LEMMA PagingChange ==
    ASSUME PagingInv, NEW d, NEW kept, NEW more, Possible(d), Keeps(d, kept, more),
           Change(d, kept, more)
    PROVE  PagingInv'
<1> DEFINE was == Found(docs)
           now == Found(d)
<1>1. /\ docs' = d /\ due' = due \cap now /\ seen' = kept
      /\ marks' = marks \cup more
                        \cup {m \in {"slipped"} : \E i \in was \ now : Rank(i, was) <= Shown}
                        \cup {m \in {"pushed"} : \E i \in now \ was : Rank(i, now) <= Shown}
      /\ UNCHANGED <<route, query, reader>>
  BY DEF Change, Shown
<1>2. ListTypeOK /\ Asking /\ Reading /\ due \subseteq was /\ Shown \in Nat
  BY ShownNat DEF PagingInv
<1>3. /\ was \subseteq Ids /\ now \subseteq There(d) /\ now \subseteq Ids
      /\ was \subseteq There(docs)
  BY <1>2, FoundAndCounted DEF ListTypeOK, Asking
<1>4. /\ Found(docs)' = now /\ Shown' = Shown
      /\ \A i, S : Ahead(i, S)' = Ahead(i, S)
  BY <1>1 DEF Found, Shown, Ahead
<1> HIDE DEF was, now
<1>5. \A S \in SUBSET Ids : \A i \in S : Rank(i, S) \in Nat
  BY RankIs, AheadIn
<1>6. /\ kept \subseteq Ids /\ more \subseteq {"resorted"} /\ (seen = {} => kept = {})
      /\ due \cap now \cap seen \subseteq kept /\ (more = {} => kept \subseteq seen)
  BY <1>2, <1>3 DEF Keeps
<1>7. Unmissed'
  <2>1. SUFFICES ASSUME "slipped" \notin marks', NEW i \in due' \ seen'
                 PROVE  Cardinality(Ahead(i, now)) >= Shown
    BY <1>4 DEF Unmissed
  <2>2. \A j \in was \ now : Rank(j, was) > Shown
    BY <1>1, <1>2, <1>3, <1>5, <2>1
  <2>3. "slipped" \notin marks /\ i \in due \ seen /\ i \in Ids
    BY <1>1, <1>3, <1>6, <2>1
  <2>4. Cardinality(Ahead(i, was)) >= Shown
    BY <2>3 DEF PagingInv, Unmissed, was
  <2> QED BY <1>2, <1>3, <2>2, <2>3, <2>4, AheadKept
<1>8. Behind'
  <2>1. SUFFICES ASSUME marks' \cap {"pushed", "resorted"} = {}, NEW i \in seen'
                 PROVE  Cardinality(Ahead(i, now)) < Shown
    BY <1>4 DEF Behind
  <2>2. \A j \in now \ was : Rank(j, now) > Shown
    BY <1>1, <1>2, <1>3, <1>5, <2>1
  <2>3. marks \cap {"pushed", "resorted"} = {} /\ i \in seen /\ i \in Ids
    <3>1. more = {}
      BY <1>1, <1>6, <2>1
    <3> QED BY <1>1, <1>6, <2>1, <3>1
  <2>4. Cardinality(Ahead(i, was)) < Shown
    BY <2>3 DEF PagingInv, Behind, was
  <2>5. Cardinality(Ahead(i, was)) \in Nat /\ Cardinality(Ahead(i, now)) \in Nat
    BY <1>3, <2>3, AheadIn
  <2>6. ~(Cardinality(Ahead(i, now)) >= Shown)
    BY <1>2, <1>3, <2>2, <2>3, <2>4, <2>5, AheadKept
  <2> QED BY <1>2, <2>5, <2>6
<1>9. ListTypeOK'
  <2>1. seen' \subseteq Ids /\ due' \subseteq seen' \cup now /\ marks' \subseteq Marks
    BY <1>1, <1>2, <1>6 DEF ListTypeOK, Marks
  <2> QED BY <1>1, <1>2, <1>4, <2>1 DEF ListTypeOK, Possible
<1>10. Asking' /\ Reading' /\ Counting'
  <2>1. There(docs)' = There(d)
    BY <1>1 DEF There
  <2> QED BY <1>1, <1>2, <1>6, <2>1 DEF PagingInv, Asking, Reading, Counting, Possible
<1>11. due' \subseteq Found(docs)'
  BY <1>1, <1>4
<1>12. NothingMissed' /\ NoneTwice'
  <2>1. \A m \in {"slipped", "twice"} : m \in marks => m \in marks'
    BY <1>1
  <2>2. "twice" \in marks' <=> "twice" \in marks
    BY <1>1, <1>6
  <2>3. \A m \in {"pushed", "resorted"} : m \in marks => m \in marks'
    BY <1>1
  <2>4. due \subseteq seen => due' \subseteq seen'
    BY <1>1, <1>6
  <2> QED BY <1>1, <2>1, <2>2, <2>3, <2>4 DEF PagingInv, NothingMissed, NoneTwice
<1> QED BY <1>7, <1>8, <1>9, <1>10, <1>11, <1>12 DEF PagingInv

(* A page takes the reader past exactly what it shows. *)
LEMMA OnPageIs ==
    ASSUME NEW S \in SUBSET Ids, NEW i \in S, NEW page \in Nat \ {0}, NEW limit \in Nat \ {0}
    PROVE  i \in OnPage(S, page, limit) <=>
              /\ Cardinality(Ahead(i, S)) >= (page - 1) * limit
              /\ Cardinality(Ahead(i, S)) < page * limit
<1>1. i \in Ids /\ Cardinality(Ahead(i, S)) \in Nat
  BY AheadIn
<1>2. Rank(i, S) = Cardinality(Ahead(i, S)) + 1
  BY <1>1, RankIs
<1>3. (page - 1) * limit \in Int /\ page * limit \in Int
  OBVIOUS
<1> QED BY <1>1, <1>2, <1>3 DEF OnPage

(* Once the pages are told and all turned, nothing due is ahead any more. *)
LEMMA TurnedLast ==
    ASSUME NEW F \in SUBSET Ids, NEW counted \in SUBSET Ids, F \subseteq counted,
           NEW limit \in Nat \ {0}, NEW page \in Nat,
           page >= Pages(Cardinality(counted), limit),
           NEW D \in SUBSET F, \A i \in D : Cardinality(Ahead(i, F)) >= page * limit
    PROVE  D = {}
<1>1. /\ Cardinality(counted) \in Nat /\ IsFiniteSet(counted) /\ Cardinality(F) \in Nat
  BY IdsFinite
<1>2. page * limit >= Cardinality(counted) /\ page * limit \in Int
  BY <1>1, PagesEnough
<1>3. Cardinality(F) <= Cardinality(counted)
  BY <1>1, FS_Subset
<1>4. ASSUME NEW i \in D PROVE FALSE
  <2>1. Cardinality(Ahead(i, F)) < Cardinality(F) /\ Cardinality(Ahead(i, F)) \in Nat
    BY AheadOfOne, AheadIn
  <2> QED BY <1>1, <1>2, <1>3, <1>4, <2>1
<1> QED BY <1>4

LEMMA PagingShow ==
    ASSUME PagingInv, NEW ids \in SUBSET seen, NEW page \in Nat \ {0}, NEW limit \in Limits,
           Show(ids, page, limit), marks' \subseteq Marks, due' \subseteq Found(docs),
           "slipped" \notin marks' =>
              \A i \in due' \ ids : Cardinality(Ahead(i, Found(docs))) >= (page - 1) * limit,
           marks' \cap {"pushed", "resorted"} = {} =>
              \A i \in ids : Cardinality(Ahead(i, Found(docs))) < page * limit,
           NoneTwice'
    PROVE  PagingInv'
<1> DEFINE F == Found(docs)
           a == Answer(route, docs, query)
<1>1. /\ reader' = [pc |-> IF route = "event" THEN "counting" ELSE "paging", page |-> page, limit |-> limit,
                    pages |-> IF route = "event" THEN 0 ELSE Pages(Cardinality(a.counted), limit)]
      /\ seen' = ids \cup OnPage(F, page, limit)
      /\ UNCHANGED <<route, docs, query>>
  BY DEF Show, Found
<1>2. ListTypeOK /\ Asking /\ route \in Routes /\ query \in QueriesOf(route)
  BY DEF PagingInv, ListTypeOK, Asking
<1>3. F \subseteq Ids /\ F \subseteq a.counted /\ a.counted \subseteq Ids
  BY <1>2, FoundAndCounted
<1>4. Found(docs)' = F /\ \A i, S : Ahead(i, S)' = Ahead(i, S)
  BY <1>1 DEF Found, Ahead
<1> HIDE DEF F, a
<1>5. limit \in Nat \ {0} /\ page * limit \in Int /\ (page - 1) * limit \in Int
  BY LimitsAssumption
<1>6. Shown' = page * limit
  BY <1>1 DEF Shown
<1>7. OnPage(F, page, limit) \subseteq F
  BY DEF OnPage
<1>8. ListTypeOK'
  <2>1. reader' \in Readers
    <3>1. Pages(Cardinality(a.counted), limit) \in Nat
      BY <1>3, <1>5, IdsFinite, PagesNat
    <3> QED BY <1>1, <3>1 DEF Readers
  <2>2. seen' \subseteq Ids
    BY <1>1, <1>2, <1>3, <1>7 DEF ListTypeOK
  <2>3. due' \subseteq seen' \cup F
    BY DEF F
  <2> QED BY <1>1, <1>2, <1>4, <2>1, <2>2, <2>3 DEF ListTypeOK
<1>9. Asking' /\ Reading' /\ Counting'
  BY <1>1, <1>2 DEF Asking, Reading, Counting, There
<1>10. ASSUME "slipped" \notin marks', NEW i \in due' \ seen'
       PROVE  Cardinality(Ahead(i, F)) >= page * limit
  <2>1. i \in F /\ i \notin ids /\ i \notin OnPage(F, page, limit)
    BY <1>1, <1>10 DEF F
  <2>2. Cardinality(Ahead(i, F)) >= (page - 1) * limit
    BY <1>10, <2>1 DEF F
  <2>3. Cardinality(Ahead(i, F)) \in Nat
    BY <1>3, <2>1, AheadIn
  <2> QED BY <1>3, <1>5, <2>1, <2>2, <2>3, OnPageIs
<1>11. Unmissed'
  BY <1>4, <1>6, <1>10 DEF Unmissed
<1>12. Behind'
  <2>1. SUFFICES ASSUME marks' \cap {"pushed", "resorted"} = {}, NEW i \in seen'
                 PROVE  Cardinality(Ahead(i, F)) < page * limit
    BY <1>4, <1>6 DEF Behind
  <2>2. CASE i \in ids
    BY <2>1, <2>2 DEF F
  <2>3. CASE i \in OnPage(F, page, limit)
    BY <1>3, <1>5, <1>7, <2>3, OnPageIs
  <2> QED BY <1>1, <2>1, <2>2, <2>3
<1>13. NothingMissed'
  <2>1. SUFFICES ASSUME reader'.pc = "paging", reader'.page >= reader'.pages,
                        "slipped" \notin marks'
                 PROVE  due' \subseteq seen'
    BY DEF NothingMissed
  <2>2. page >= Pages(Cardinality(a.counted), limit)
    BY <1>1, <2>1
  <2>3. due' \ seen' \subseteq F
    BY DEF F
  <2>4. due' \ seen' = {}
    BY <1>3, <1>5, <1>10, <2>1, <2>2, <2>3, TurnedLast
  <2> QED BY <2>4
<1>14. due' \subseteq Found(docs)'
  BY <1>4 DEF F
<1> QED BY <1>8, <1>9, <1>11, <1>12, <1>13, <1>14 DEF PagingInv

LEMMA PagingFirst ==
    ASSUME PagingInv, NEW limit \in Limits, FirstPage(limit)
    PROVE  PagingInv'
<1>1. /\ Show({}, 1, limit) /\ due' = Found(docs) /\ marks' = {}
  BY DEF FirstPage
<1>2. Found(docs) \subseteq Ids
  BY FoundAndCounted DEF PagingInv, ListTypeOK, Asking
<1>3. limit \in Nat \ {0} /\ (1 - 1) * limit = 0
  BY LimitsAssumption
<1>4. \A i \in Found(docs) : Cardinality(Ahead(i, Found(docs))) >= (1 - 1) * limit
  <2>1. \A i \in Found(docs) : Cardinality(Ahead(i, Found(docs))) \in Nat
    BY <1>2, AheadIn
  <2> QED BY <1>3, <2>1
<1>5. NoneTwice'
  BY <1>1 DEF NoneTwice
<1> QED BY <1>1, <1>4, <1>5, PagingShow

LEMMA PagingNext ==
    ASSUME PagingInv, NextPage
    PROVE  PagingInv'
<1> DEFINE page == reader.page
           limit == reader.limit
           F == Found(docs)
<1>1. /\ reader.pc = "paging" /\ Show(seen, page + 1, limit) /\ due' = due
      /\ marks' = marks \cup {m \in {"twice"} : OnPage(F, page + 1, limit) \cap seen # {}}
  BY DEF NextPage
<1>2. /\ page \in Nat /\ limit \in Limits /\ limit \in Nat \ {0} /\ Shown = page * limit
      /\ due \subseteq F /\ marks \subseteq Marks
  BY <1>1, LimitsAssumption DEF PagingInv, ListTypeOK, Readers, Reading, Shown
<1>3. F \subseteq Ids /\ seen \subseteq Ids
  BY FoundAndCounted DEF PagingInv, ListTypeOK, Asking
<1>4. /\ page + 1 \in Nat \ {0} /\ (page + 1) - 1 = page
      /\ page * limit \in Nat /\ (page + 1) * limit = page * limit + limit
  BY <1>2
<1> HIDE DEF page, limit, F
<1>5. marks' \cap {"pushed", "resorted"} = {} => \A i \in seen : Cardinality(Ahead(i, F)) < page * limit
  BY <1>1, <1>2 DEF PagingInv, Behind, F
<1>6. \A i \in seen : Cardinality(Ahead(i, F)) \in Nat
  BY <1>3, AheadIn
<1>7. marks' \cap {"pushed", "resorted"} = {} => \A i \in seen : Cardinality(Ahead(i, F)) < (page + 1) * limit
  BY <1>2, <1>4, <1>5, <1>6
<1>8. NoneTwice'
  <2>1. SUFFICES ASSUME marks' \cap {"pushed", "resorted"} = {} PROVE "twice" \notin marks'
    BY DEF NoneTwice
  <2>2. "twice" \notin marks
    BY <1>1, <2>1 DEF PagingInv, NoneTwice
  <2>3. OnPage(F, page + 1, limit) \cap seen = {}
    <3>1. SUFFICES ASSUME NEW i \in seen, i \in OnPage(F, page + 1, limit) PROVE FALSE
      OBVIOUS
    <3>2. i \in F
      BY <3>1 DEF OnPage
    <3>3. Cardinality(Ahead(i, F)) >= ((page + 1) - 1) * limit
      BY <1>2, <1>3, <1>4, <3>1, <3>2, OnPageIs
    <3> QED BY <1>4, <1>5, <1>6, <2>1, <3>1, <3>3
  <2> QED BY <1>1, <2>2, <2>3
<1>9. "slipped" \notin marks' =>
         \A i \in due' \ seen : Cardinality(Ahead(i, F)) >= ((page + 1) - 1) * limit
  BY <1>1, <1>2, <1>4 DEF PagingInv, Unmissed, F
<1>10. marks' \subseteq Marks
  BY <1>1, <1>2 DEF Marks
<1>11. seen \in SUBSET seen /\ due' \subseteq Found(docs)
  BY <1>1, <1>2 DEF F
<1>12. Show(seen, page + 1, limit)
  BY <1>1
<1> QED BY <1>2, <1>4, <1>7, <1>8, <1>9, <1>10, <1>11, <1>12, PagingShow DEF F

(* The answer about the counters may be younger than the page: pages are told then. *)
LEMMA PagingCount ==
    ASSUME PagingInv, CountEvents
    PROVE  PagingInv'
<1> DEFINE counted == getEventsCount(docs)[query.status]
           pages == Pages(Cardinality(counted), reader.limit)
           F == Found(docs)
<1>1. /\ reader.pc = "counting" /\ reader' = [reader EXCEPT !.pc = "paging", !.pages = pages]
      /\ UNCHANGED <<route, docs, query, seen, due, marks>>
  BY DEF CountEvents
<1>2. /\ ListTypeOK /\ Asking /\ Reading /\ reader \in Readers /\ route \in Routes
      /\ query \in QueriesOf(route) /\ due \subseteq F /\ reader.page \in Nat
      /\ reader.limit \in Limits /\ reader.limit \in Nat \ {0}
  BY <1>1, LimitsAssumption DEF PagingInv, ListTypeOK, Asking, Reading, Readers
<1>3. route = "event"
  BY <1>1 DEF PagingInv, Counting
<1>4. F \subseteq Ids /\ F \subseteq counted /\ counted \subseteq Ids
  BY <1>2, <1>3, FoundAndCounted
<1>5. pages \in Nat
  BY <1>2, <1>4, IdsFinite, PagesNat
<1> HIDE DEF counted, pages
<1>6. /\ reader' \in Readers /\ reader'.pc = "paging" /\ reader'.page = reader.page
      /\ reader'.limit = reader.limit /\ reader'.pages = pages
  BY <1>1, <1>2, <1>5 DEF Readers
<1>7. /\ Found(docs)' = F /\ Shown' = Shown
      /\ \A i, S : Ahead(i, S)' = Ahead(i, S)
  BY <1>1, <1>6 DEF Found, Shown, Ahead
<1>8. NothingMissed'
  <2>1. SUFFICES ASSUME reader.page >= pages, "slipped" \notin marks PROVE due \ seen = {}
    BY <1>1, <1>6 DEF NothingMissed
  <2>2. \A i \in due \ seen : Cardinality(Ahead(i, F)) >= reader.page * reader.limit
    BY <2>1 DEF PagingInv, Unmissed, Shown
  <2>3. due \ seen \subseteq F
    BY <1>2
  <2> HIDE DEF F
  <2> QED BY <1>2, <1>4, <2>1, <2>2, <2>3, TurnedLast DEF pages
<1>9. ListTypeOK' /\ Asking' /\ Reading' /\ Counting'
  BY <1>1, <1>2, <1>6, <1>7 DEF ListTypeOK, Asking, Reading, Counting, There
<1>10. Unmissed' /\ Behind'
  BY <1>1, <1>7 DEF PagingInv, Unmissed, Behind
<1>11. NoneTwice' /\ due' \subseteq Found(docs)'
  BY <1>1, <1>2, <1>7 DEF PagingInv, NoneTwice
<1> QED BY <1>8, <1>9, <1>10, <1>11 DEF PagingInv

LEMMA PagingUnchanged == PagingInv /\ UNCHANGED listVars => PagingInv'
<1> SUFFICES ASSUME PagingInv, UNCHANGED listVars PROVE PagingInv'
  OBVIOUS
<1>1. UNCHANGED <<route, docs, query, reader, seen, due, marks>>
  BY DEF listVars
<1>2. Found(docs)' = Found(docs) /\ Shown' = Shown /\ There(docs)' = There(docs)
  BY <1>1 DEF Found, Shown, There
<1>3. \A i, S : Ahead(i, S)' = Ahead(i, S)
  BY <1>1 DEF Ahead
<1>4. Unmissed' /\ Behind'
  BY <1>1, <1>2, <1>3 DEF PagingInv, Unmissed, Behind
<1>5. ListTypeOK' /\ Asking' /\ Reading' /\ Counting'
  BY <1>1, <1>2 DEF PagingInv, ListTypeOK, Asking, Reading, Counting
<1>6. NothingMissed' /\ NoneTwice' /\ due' \subseteq Found(docs)'
  BY <1>1, <1>2 DEF PagingInv, NothingMissed, NoneTwice
<1> QED BY <1>4, <1>5, <1>6 DEF PagingInv

LEMMA PagingInvariance == ListSpec => []PagingInv
<1>1. PagingInv /\ [ListNext]_listVars => PagingInv'
  <2> SUFFICES ASSUME PagingInv, [ListNext]_listVars PROVE PagingInv'
    OBVIOUS
  <2>1. CASE UNCHANGED listVars
    BY <2>1, PagingUnchanged
  <2>2. CASE \E limit \in Limits : FirstPage(limit)
    BY <2>2, PagingFirst
  <2>3. CASE NextPage
    BY <2>3, PagingNext
  <2>4. CASE CountEvents
    BY <2>4, PagingCount
  <2>5. ASSUME Changes PROVE PagingInv'
    BY <2>5, PagingChange DEF Changes
  <2>6. ListTypeOK /\ Asking
    BY DEF PagingInv
  <2> QED BY <2>1, <2>2, <2>3, <2>4, <2>5, <2>6, WriteSteps DEF ListNext
<1> QED BY PagingInit, <1>1, PTL DEF ListSpec

-----------------------------------------------------------------------------
(* Every variable of the lists keeps its type. *)
THEOREM ListsTypeCorrect == ListSpec => []ListTypeOK
<1>1. PagingInv => ListTypeOK
  BY DEF PagingInv
<1> QED BY PagingInvariance, <1>1, PTL

(* Whatever is created, deleted, moved, published or sorted elsewhere between two pages *)
(* of a list, who turned all its pages was shown what was in its place all the while,   *)
(* unless a document left its place on a page already shown.                            *)
THEOREM EverythingShown == ListSpec => []NothingMissed
<1>1. PagingInv => NothingMissed
  BY DEF PagingInv
<1> QED BY PagingInvariance, <1>1, PTL

(* A document is shown again only after another came in on a page already shown, or one *)
(* that was shown went to another place.                                                 *)
THEOREM ShownOnce == ListSpec => []NoneTwice
<1>1. PagingInv => NoneTwice
  BY DEF PagingInv
<1> QED BY PagingInvariance, <1>1, PTL

(* The counters over a list of lessons, courses or events are the lengths of its lists *)
(* by status, and each document of the target is behind one of them.                    *)
THEOREM CountersRight == ListSpec => []CountersAgree
<1>1. PagingInv => CountersAgree
  <2> SUFFICES ASSUME PagingInv, route \in {"lessonCourse", "lessonModule", "course", "event"}
               PROVE  /\ UNION {Counted(s) : s \in STATUSES} = OfTarget(docs, query)
                      /\ \A s \in STATUSES :
                            Counted(s) = Answer(route, docs, [query EXCEPT !.status = s, !.search = FALSE]).found
                      /\ \A s, t \in STATUSES : s # t => Counted(s) \cap Counted(t) = {}
    BY DEF CountersAgree
  <2>1. \A i \in There(docs) : docs[i].kind \in Kinds /\ docs[i].kind.status \in STATUSES
    BY DEF PagingInv, ListTypeOK, There, Documents, Kinds
  <2>2. query \in Queries /\ (route \in {"course", "event"} => ~query.targeted)
    BY QueryTypes DEF PagingInv, ListTypeOK, Asking
  <2>3. ASSUME NEW s \in STATUSES
        PROVE  LET q == [query EXCEPT !.status = s, !.search = FALSE]
               IN  q.status = s /\ q.search = FALSE /\ q.targeted = query.targeted
    BY <2>2 DEF Queries
  <2>4. CASE route = "event"
    <3>1. \A i \in There(docs) : docs[i].kind.status # "ARCHIVE"
      BY <2>4 DEF PagingInv, Asking, Holds, Statusless
    <3>2. OfTarget(docs, query) = There(docs)
      BY <2>2, <2>4 DEF OfTarget
    <3>3. \A s \in STATUSES :
             Counted(s) = {i \in There(docs) : IF s = "ARCHIVE" THEN docs[i].kind.over
                                               ELSE docs[i].kind.status = s /\ ~docs[i].kind.over}
      BY <2>4 DEF Counted, Answer, getAllEvents, getEventsCount
    <3>4. UNION {Counted(s) : s \in STATUSES} = There(docs)
      BY <2>1, <3>1, <3>3 DEF STATUSES
    <3>5. \A s \in STATUSES :
             Counted(s) = Answer(route, docs, [query EXCEPT !.status = s, !.search = FALSE]).found
      <4>1. SUFFICES ASSUME NEW s \in STATUSES,
                            NEW q, q = [query EXCEPT !.status = s, !.search = FALSE]
                     PROVE  Counted(s) = Answer(route, docs, q).found
        OBVIOUS
      <4>2. q.status = s /\ q.search = FALSE
        BY <2>3, <4>1
      <4>3. Answer(route, docs, q).found = Searched(docs, q, getEventsCount(docs)[s])
        BY <2>4, <4>2 DEF Answer, getAllEvents
      <4>4. Counted(s) = getEventsCount(docs)[s]
        BY <2>4 DEF Counted, Answer, getAllEvents
      <4> QED BY <4>2, <4>3, <4>4 DEF Searched
    <3>6. \A s, t \in STATUSES : s # t => Counted(s) \cap Counted(t) = {}
      BY <3>3
    <3> QED BY <3>2, <3>4, <3>5, <3>6
  <2>5. CASE route \in {"lessonCourse", "lessonModule", "course"}
    <3>1. \A s \in STATUSES : Counted(s) = {i \in OfTarget(docs, query) : docs[i].kind.status = s}
      BY <2>2, <2>5 DEF Counted, Answer, getAllLessonCourse, getAllLessonModule, getAllCourse, OfTarget
    <3>2. UNION {Counted(s) : s \in STATUSES} = OfTarget(docs, query)
      <4>1. OfTarget(docs, query) \subseteq There(docs)
        BY DEF OfTarget
      <4> QED BY <2>1, <3>1, <4>1
    <3>3. ASSUME NEW s \in STATUSES
          PROVE  Counted(s) = Answer(route, docs, [query EXCEPT !.status = s, !.search = FALSE]).found
      <4>1. PICK q : q = [query EXCEPT !.status = s, !.search = FALSE]
        OBVIOUS
      <4>2. q.status = s /\ q.search = FALSE /\ q.targeted = query.targeted
        BY <2>3, <4>1
      <4>3. OfTarget(docs, q) = OfTarget(docs, query)
        BY <4>2 DEF OfTarget
      <4>4. Answer(route, docs, q).found = {i \in OfTarget(docs, query) : s \in {"any", docs[i].kind.status}}
        BY <2>5, <4>2, <4>3 DEF Answer, getAllLessonCourse, getAllLessonModule, getAllCourse, Searched,
                                OfStatus
      <4>5. s # "any"
        BY DEF STATUSES
      <4> QED BY <3>1, <4>1, <4>4, <4>5
    <3>4. \A s, t \in STATUSES : s # t => Counted(s) \cap Counted(t) = {}
      BY <3>1
    <3> QED BY <3>2, <3>3, <3>4
  <2> QED BY <2>4, <2>5
<1> QED BY PagingInvariance, <1>1, PTL
=============================================================================
