# Karmolog: a specification of the backend

TLA+ models, TLC configurations and TLAPS proofs for the NestJS backend in this
repository. Paths below are relative to `src/src/` unless they say otherwise.

The backend is one Node process in front of MongoDB and Redis. A request handler is an
async function: it runs without interruption up to an `await`, other handlers run there,
and no transaction spans two writes. Almost everything that can go wrong follows from
that: a check and the write it guards are two steps, two documents are written one after
the other, a document is saved field by field by handlers that loaded different versions
of it, and a crash forgets the handler but not what it has already written. The models
cut each handler at its awaits and let every other handler in between.

## The system

| Component | State | Operations | Talks to |
|---|---|---|---|
| Payments (`payments/`) | `purchases` | create a payment for a product, an SSK course, an ADVANCED or CONSULTING course; callback of the provider; status | products, promo codes, discounts, users, product and course purchases, Redis |
| Payment stream (`payments.service.ts`, `redis/`) | subscriptions, heartbeats | subscribe, publish, tear down | callback, Redis |
| Course access (`admin/coursePurchase`, `coursePurchase`, `user/education`) | `coursePurchases` | add, prolong, add a practice, complete, change status; guard, lesson list, lesson | courses, modules, lessons, users |
| Courses, modules, lessons (`admin/education`) | their documents and files | create, edit, delete, status | storage, contract |
| Contract signing (`user/education/сontractParticipant`, `admin/education/contract`) | participants, `agreement` of a purchase | sign, download, create contract | PDF, mail, course edits |
| Product catalogue (`admin/products`) | webinars, meditations, guides and books, gifts | create, edit, status, toggle the bin, restore, delete for good; TTL index | discounts, promo codes, covers |
| Discounts, promo codes | `discounts`, `promocodes` | create, edit, delete, block | catalogue, payments |
| Product purchases | `productPurchases` | grant by callback, by administrator, list | payments |
| Accounts (`auth`, `user`, `verification`, `admin/user`) | `users`, `verifications` | sign up, verify, reset, import, ban, bin | mail, storage, tokens |
| Sessions (`token`, `auth.guard.ts`) | `tokens` | sign in, refresh, sign out, reset | accounts |
| Files (`storage`, `files`, `image`) | temporary, product, course and lesson folders | upload, copy, delete | lessons, courses, guides |
| Lists of the administration | none of their own | a page, counters, search | all collections above, events |
| Drive, mail, PDF, HTTP layer | none that two requests share | rendering, transport | |

Hard behaviours, and what correct means for each part:

- **Payments.** Overlapping requests of one buyer, callbacks that overlap, repeat, arrive in
  any order, are forged, or are cut by a crash; the discount's window; the grant that fails
  after the order was saved. An order says only what the provider said about it; no order
  contradicts what was on record from the arrival of its request to its insert; a verdict is
  announced and acknowledged only when saved. That money taken is recorded in the end is not
  among them: the callback route is behind the user guard.
- **Course access.** Read, compute, write of dates and counters; an unawaited `save`; dates
  compared in two places with different bounds. A purchase is added once per buyer, months
  are never gained by an overlap, practices stay within bounds, and until the earlier of the
  two ends a purchase was sold with both places let its buyer in.
- **Catalogue.** A toggle, a restore route and a TTL index that all decide about one
  deadline; batches treated collection by collection that may be cut short. What is binned
  has its full grace and then goes; what is on sale stays; what is gone stays gone.
- **Contract signing.** Participant and agreement are two writes; a course edit may replace
  the contract between them.
- **Accounts and sessions.** An account is saved before its folder and its verification
  document; sessions must end on sign-out and on a password reset.
- **Files.** Copy, record and delete are separate steps, and each failure of the disk is
  logged and passed over; no upload may be lost in between, and a lesson or course must end up
  with the files it was given.
- **Lists.** Pages are taken by offset from collections that change, sorted by keys that
  requests rewrite; the list, its counters and its number of pages repeat their conditions. A
  reader is shown everything, once.
- **Stream.** One Redis connection for all streams; teardown before `subscribe` resolves.

`PROJECT.json` lists every component with its status and, under `hazards`, each of these at
its line, with the properties that cover it or the reason why none does.

## Modules

| Module | What it is |
|---|---|
| `OrderBook` | abstract: one order book; placed once, decided only on a verdict of the provider |
| `SessionBook` | abstract: a session is opened for one account and ends once |
| `AddressBook` | abstract: an address belongs to one account at a time, and accounts stay |
| `Payments` | the request and callback handlers, await by await, with the environment; implements `OrderBook` |
| `CourseAccess` | the administrators' operations on a buyer's purchases of a course, and the reads that decide access |
| `Catalog` | products, bin, TTL index, batches, promo codes |
| `Sessions` | sign-in, refresh, sign-out, the resets, the guard; implements `SessionBook` |
| `Accounts` | sign-up, verification, profile and cover, import, the administrators' updates; implements `AddressBook` |
| `Lessons` | creating, editing and deleting lessons with their files |
| `Courses` | creating, editing and deleting courses with cover, materials and contract |
| `Contracts` | the contract of a course, and signing it |
| `Listings` | the eight paged lists of the administration |
| `MC*` | the small instance of each: values for TLC, symmetry |
| `PaymentsProofs`, `CourseAccessProofs`, `CatalogProofs`, `SessionsProofs`, `AccountsProofs`, `LessonsProofs`, `CoursesProofs`, `ContractsListingsProofs` | the theorems of each, the last of two |

The modules share facts, not variables: each takes what its neighbours do to its documents
as free moves (`Elsewhere` in `Payments`, `SetVerified` in `Sessions`, purchases in
`Contracts`), so that it says nothing less of them than they may do. `Courses` and
`Contracts` overlap in the contract: the first follows it through the requests of the
course, the second through those who sign. `Cut` is, in each module of handlers, a call that
fails or a process that dies: the request is forgotten, its writes stay.

### Payments

State: `accounts` (the address of each account), `catalog`, `discount`, `holdings`
(productPurchases), `enrolments` (coursePurchases) and `orders` are the collections; `req`
and `cb` are the handlers with their program counters and local variables, among them the
account as the guard loaded it (`user`, `address`) and the buyer a callback found (`buyer`);
`reported`, `unacked` are the provider's side; `announced` is what was published on
`payment:<reference>`. `context` and `held` are history: what was on record when a request
came in and stayed until its insert, and every status an order has had.

One action per stretch between two awaits: `ReceiveProduct`/`ReceiveCourse` (the body),
`GetProductDetails`, `PriceProduct`, `GetProductType`, `CheckExistingUser`,
`CheckExistingPurchase`, `CheckHolding`, `CreateProductOrder`; `GetCourseData`,
`CheckPaymentPlan`, `CheckCoursePurchase`, `PriceCourse`, `CreateCourseOrder`;
`RespondForm`; and for the callback `Deliver`/`DeliverUnsigned` (with the guard, `Admit`),
`FindPurchase` (lookup, signature, the assignments to the loaded document),
`SavePurchase` (writes only what differs from the loaded document, as Mongoose does),
`FindAccount`, `Grant`, `Publish`, `Reply`. `Crash` empties the handlers. `Elsewhere` is
what the rest of the system does to the documents meanwhile: accounts are made, moved to
another address (`UpdateUser`) and granted products and courses, entitlements are deleted
(`DeletePurchase`), items unlisted, discounts set and over. What is taken away while a
request is under way leaves its context too, which so says what was on record all the while.

Assumptions. Accounts are never deleted (no route does). `findOne` returns any one of several
matches. Whether a promo code is valid is a free choice. The callback route is not public, so
the global guard (`auth/auth.module.ts:33-40`) answers 401 to a callback without a token of
this system, and a payment provider has none. Both runs with callbacks have callbacks with a
token and without (`Bearers`): the properties say what those that pass do, and that the others
do nothing; that a report arrives in the end is claimed nowhere. The provider does not decline
a reference it has approved, but may report the two in the other order, repeat them and
deliver them late.

### CourseAccess

One buyer and one course: no operation relates two of either. Dates are whole months.
`admin[h]` is the handler of an administrator's request, with the fields it is going to
write (`draft`) and what it has read (`seen`). `AddCoursePurchase`, `FindPurchase`,
`ReadCourse`, `ReadLessons`, `InsertPurchase` are the stretches of adding a purchase, the
last one after the answer since its `save()` is not awaited; `ExtendAccess`/`WriteAccess`,
`ExtendPractice`/`CountPractices`/`AddPractice` and
`CompleteAccess`/`ReadAllLessons`/`WriteComplete` are the others. Lessons and practical
modules come and go. What the buyer's routes answer changes nothing, so it is operators:
`HasCourse` (guard), `ShownAvailable` (list), `CourseLessonServed` and
`ModuleLessonServed` (lesson route). Every handler makes one write, its last step, so a
crash only drops the request and needs no action.

### Catalog

`products` holds `state` (unborn, stored, gone), `toDelete`, `expiredAt` as the days that
are left (so time needs no bound) and `status`. `Delete` is the one pipeline update of the
delete routes, which toggles. The bin's routes treat one collection after the other:
`Request`, `RestoreBatch`, `RemoveBatch`, `RemoveCodes`, and `Cut` for a failed write or a
crash. `Expire` is the TTL index, external to this repository. `binned`, `restored`,
`uncascaded`, `late` are history. Bodies hold any ids of the collections the validation
admits, so gifts, which the page of the bin shows, can be neither restored nor deleted
through it.

### Sessions

State: `users` (verified, password), `tokens`, the handlers `req`, and `second`, the clock as
a token shows it. An account is made with a password of its owner's choice (`SingUp`), or by
an administrator with a generated one, which is mailed (`CreateUser`) or, with `sendToEmail`
false, told to nobody (`CreateUserUntold`); an import makes its accounts in one of the last
two ways. Sign-in is `Login` (`SingIn` reads the account), `SignTokens`, `NewToken`; a refresh
is `RefreshToken`, `SignAccess`, `UpdateToken`; signing out is `Logout` (behind the guard,
`CanActivate`) and `DeleteToken`; a reset is `ResetPassword`, `UpdateUserPassword`,
`DeleteAllSession`, `MailPassword`. `Expire` is the TTL index. A token is what it says, so two
of one account made within one second are equal; `issued`, `twice` and `left` remember which
were handed out, handed out again, and signed out, `told` and `lost` the passwords that
reached their owner, and those whose mail was cut or never asked for. A password is a number,
fresh with each reset, and 0 before the account is made. `DeleteAllSession` filters on the
fields of a spread ObjectId and matches no session: `FilterOfSpreadId` models that.

### Accounts

State: `users`, `verifications` (one document per account, by account and by address),
the folders of covers, `mailed`. `Register` and `CreateUser` save the account,
`CreateUserStorage`, `CreateVerifyToken` and `SendVerifyEmail` follow; `VerifyUser`,
`SetVerified`, `DeleteVerifyToken` verify it; `ResendVerification` mails again. An update by
its owner is one write (`UpdateByUser`) or goes through the cover (`UpdateCover`,
`Compress`, `DeleteTemporary`, `UpdateProfile`). `ImportUsers`/`InsertMany` and `UpdateUser`
are the administrators'. The unique index is `Unique`. `stranded` names the accounts that
cannot be verified any more: imported unverified, set back by an administrator, or cut after
the account was saved (`user.service.ts:86`).

What the model shows besides: the verification document of an account created verified, or
moved to another address, is never deleted and refuses the next sign-up with that address;
an import looks addresses up in lower case and stores them as they came, so `Ann@` and
`ann@` become two accounts; banning and the bin of users are flags no route reads.

### Lessons and Courses

Both follow a request from the document through the folder and the files: `CreateLesson`,
`UpdateLesson`, `DeleteLesson` begin it; `CreateLessonStorage`, `Compare` (old and new list,
by name), `DeleteOldFiles`, `DeleteFileDocuments`, `FilterExistingFiles`, `CopyFiles`,
`CreateFiles`, `DeleteTemporary`, `UpdateLists`, `DeleteMany`, `DeleteLessonFolder` are its
awaits; `Courses` has the same for the materials, and `DropCover`, `CompressCover`,
`DeleteTemporaryCover`, `SaveCourse` for the cover and `SetContract`, `DeleteContract` for
the contract. `temporary` and `stored` are the folders, `documents` the `files` collection;
a document is told from another of the same file by the number of its copy (`MaxCopies`).
History: `removed` (dropped by a request), `failed` (the disk refused it), `disturbed`
(lessons or courses two requests worked on at once, or one was cut at), `asked` and `blank`
for the contract last asked for and the cover that lost its file. `storage.service.ts` logs
what it cannot copy, unlink or remove and goes on: each of these steps leaves out any of the
`Failing` uploads (the argument `bad` in `Lessons`, `Refuse` and `Unlink` in `Courses`), which
are `failed` from then on, at most `MaxFailures` of them in `Courses`.

What the models show besides: `copyFiles` swallows a failure and the temporary file is
deleted all the same (`storage.service.ts:263`, `lesson.service.ts:57`,
`course.service.ts:88`), so the upload is lost, which is what `NothingLost` and `UploadsKept`
excuse by `failed`; a file that cannot be unlinked stays in the folder while its document
goes, and a cover stays beside its successor (`storage.service.ts:284`,
`course.service.ts:354`); one that cannot be unlinked from the temporary folder is copied
again for the other list of a lesson, and an update that drops one of the two takes the file
from both, which is what `ListedIsStored` excuses; the folder of a deleted lesson or course may
stay (`storage.service.ts:384`); a creation with an empty contract object saves the course,
fails on the fields the contract requires and leaves the course without a folder
(`course.service.ts:44`); a file moved from homework to bonus is unlinked before
it is looked for; documents of files stay when their lesson or course is deleted; a cover
that is not in the temporary folder costs the course the file of the old one and leaves the
link (`course.service.ts:353`), which is what `CoverShown` excludes by `blank`; an update
without a contract deletes it (`course.service.ts:429`); and an update that overlaps a
deletion may leave a contract for a course that is gone, which is why `ContractAsAsked` is
about undisturbed courses.

### Contracts

`contracts` are the contracts the course has, numbered as they are created (`MaxContracts`);
`participants` counts the signatures of a user under a contract, `purchases` is her
`agreement` flag. `UpdateContract` with `UpdateInPlace` and `CreateMissing`, and
`DeleteContract` with `DeleteMany` are what course edits do; `SignContract`,
`SaveParticipant`, `Agree` sign, `RefuseSigned` refuses. `Readable` and `Signable` are what
the routes answer. A request cut between `SaveParticipant` and `Agree` leaves a buyer who is
told that she has signed and may not read what she signed: those are `stuck`. Overlapping
signatures double the participant; a mail that fails after `Agree` answers 500 although she
has signed.

### Listings

One list at a time: `route` says which, `docs` what its filters see of the document at each
place of the order, `query` what the reader asks for, `reader` where she is. In a list by
creation a place is a document; in one sorted by a key that requests rewrite (`lastLogin`,
which every sign-in writes, names, dates) a document comes in between others (`NextPlaces`)
and moves when its key does (`singIn`). Each route has its filter and counters as
operators named after it (`getAllLessonCourse`, `getAllCourse`, ..., `getAllEvents`), `Answer`
chooses among them. `FirstPage` and `NextPage` take a page by offset; events are counted by
a call after it, `CountEvents`. `Create`, `Delete`, `Edit` and the named edits
(`updateStatusLesson`, `updateModuleLesson`, `restoreProducts`, ..., `Ends` for time) change
the collection meanwhile. `slipped` and `pushed` mark a reader whom a change on a page
already shown has shifted, `resorted` one who was shown a document that went elsewhere then:
paging by offset cannot do better.

Assumed: without a sort, documents come in the order of insertion; ties of a sort are broken
the same way on every page. What the model shows besides: the number of pages of lessons and
courses ignores the search, so a reader may be sent to empty pages; an event that ends in
this very millisecond is on no list; deleting a module leaves its lessons.

## Runs

Passing runs:

| Run | Instance | What it shows |
|---|---|---|
| `PaymentsOrders` | 2 accounts, 2 addresses, 1 product, 2 requests, 2 references; registration, moves to other addresses, grants, revocations, unlisting | `TypeOK`, `OrderInTurn` |
| `PaymentsCourses` | 1 account, 1 course, 2 requests, 2 references, 1 callback, three transaction states, forged bodies, with and without a token | `CourseOrderInTurn` |
| `PaymentsReports` | 1 order, 2 callbacks, forged bodies, with and without a token, 1 fault, registration, discount phases | `DecidedByProvider`, `AnnouncedAfterSaved`, `AckedIsRecorded`, `StatusReflectsTransaction`, `ImplementsOrderBook` (refinement) |
| `AccessPurchases` | 2 handlers, 2 documents, 4 requests, 2 lessons, 1 practical module, 2 months | `TypeOK`, `AddedInTurn`, `PracticesBounded`, `MonthsGranted`, `OpenWhileBought`, `CompletionKeepsLessons` |
| `Catalog` | 2 products of 2 collections, 2 handlers, 1 code, 1 day in the bin | `TypeOK`, `CodesGoToo`, `GraceKept`, `OnSaleStays`, `NeverReturns`, `BinEmptied` (liveness) |
| `Sessions` | 1 account, made in any of three ways, 2 sessions, 2 handlers, 2 seconds, 3 passwords | `TypeOK`, `SignedOutIsRefused`, `PasswordTold`, `ImplementsSessionBook` (refinement) |
| `Accounts` | 2 accounts, 2 addresses that differ in case, 2 covers, 2 handlers | `Verifiable`, `CoverKept`, `ImplementsAddressBook` (refinement) |
| `Lessons` | 2 lessons, 1 file, 2 handlers, 2 copies, a disk that may refuse the file at every step | `NothingLost`, `StoredIsRecorded`, `ListedIsStored` |
| `Courses` | 1 course, 2 covers, 1 file, 2 handlers, 2 copies, three bodies, a disk that may refuse one cover or the file | `UploadsKept`, `MaterialsMatch`, `CoverShown`, `ContractAsAsked` |
| `Contracts` | 1 buyer, 3 handlers, 4 contracts | `NeverStuck` |
| `Listings` | 8 lists, by creation and sorted by a key, 3 places, pages of 1 and 2, 2 statuses | `NothingMissed`, `NoneTwice`, `CountersAgree` |

One run ends in a violation, of a claim of the repository that `findings` quotes:
`LessonsHomework` shows that a lesson created with homework files and no bonus files does
not list the homework files that were stored and recorded for it (`RecordedIsListed`), since
the write that lists both is inside the branch for the bonus files.

Why the bounds are enough. Every hazard modelled is an overlap of two: two requests, two
callbacks, a request and a callback, a request and time; signing has a third handler, for the
two edits that replace a contract around it. More handlers add repetitions of the same
overlap, and the theorems hold for any number. Two references and two documents are what the
second of two overlapping inserts needs; one fault is one crash or one lost answer at any
place, and redelivery restores the situation before it; `Cut` is unbounded. One day in the bin
distinguishes a fresh deadline from one that is over; two collections make a second batch. Two
seconds make tokens that are equal and tokens that are not. One file meets itself in both
lists of a lesson, in two lessons, and in an edit that drops it and one that brings it back;
files are treated independently of each other, and two covers are what a replacement needs.
Three documents on pages of one or two make a middle page and a last one that is not full, and
a place for a document to go to. One upload the disk refuses meets every step that can fail; a
second one would meet it independently. Two accounts and two addresses are what a move from
one to the other needs. `MaxRequests`, `Horizon`, `MaxLessons`, `MaxPracticals`, `MaxFaults`,
`MaxSecond`, `MaxPassword`, `MaxCopies`, `MaxFailures`, `MaxContracts` and `MaxDocuments` are
the only bounds in guards, besides the finite sets.

Symmetry is declared over identifiers no property tells apart, in runs without liveness
only: `Catalog` has a liveness property and declares none. Deadlock is
checked in `Catalog`, `Accounts` and `Contracts`, where something can always be done. It is
not in the others: a server without requests may wait for ever, and bounded requests,
references, passwords and copies run out.

### Fairness

`Catalog`: weak fairness on the passing of days and on the TTL monitor, which runs every
minute. No fairness on requests. The other modules have no liveness property. A handler may be
cut anywhere and nothing repeats it, so what it leaves behind is a matter of safety; and what
would repeat a payment report, the provider, is refused by the guard each time.

`StatusReflectsTransaction` is stated for a provider that reports only Approved and
Declined. With a third state two overlapping callbacks can leave one verdict in `status`
and the other in `transactionStatus`, since each saves only the fields it changed. The
theorem `StatusFollows` says so without the restriction: the fields agree as long as nothing
else has been reported.

### Claims the models refute without a run of their own

They are defined beside the properties. Those with a configuration beside the runs show
their counterexample with `tlc -config <name>.cfg <MC module>`:

| Configuration | Claim | What it shows |
|---|---|---|
| `PaymentsDuplicate` | `OneOpenOrder` | two overlapping requests of one buyer both pass the check and both insert |
| `PaymentsRedelivery` | `ApprovedStays` | a Declined report repeated after Approved turns a paid order back; `processed` is written and never read |
| `PaymentsUnheld` | `BoughtIsHeld` | the grant fails its enum validation after the order was saved as paid |
| `PaymentsResold` | `FullPlanNotSoldAgain` | the plan lookup is called with its arguments swapped and finds nothing |
| `AccessPartial` | `AvailableIsServed` | on a PARTIAL plan the lesson route refuses exactly the lessons the list shows as paid |
| `CatalogRestored` | `RestoredStays` | a restored product keeps its deadline and the TTL index removes it |
| `SessionsReset` | `ResetEndsSessions` | a reset leaves every session of the account open |

Without one: `CallbackIsServed` (the callback route is behind the user guard, and the provider
has no token for it),
`PendingIsPayable` (a crash between insert and answer leaves an order that blocks its buyer),
`DeclinedMayRetry` (an address declined once is refused for that product from then on),
`OnePurchase` (overlapping additions, or a course named twice in one body),
`BlockedIsRefused` (no route reads BLOCKED), `OnlyTheBinIsDeleted` (deleting for good
filters by id alone), `NoCodeOfTheGone`. `OneOpenOrder` fails for courses behind a DECLINED
order.

## Proofs

All proofs are checked by TLAPS with Z3, Zenon and LS4, for every value of the constants
that satisfies the named assumptions, which TLC evaluates on each run. They ask that
identifiers differ from `None` (`NoneAssumption`), that bounds and dates are numbers, that
what the disk may refuse are uploads (`FailingAssumption`), that
products and items are of a kind (`KindAssumption`, `TypesAssumption`), that the requests
served at once are finitely many and at least one (`HandlersAssumption`), that the two kinds
of references differ as covers and files do (`RefsAssumption`, `UploadsAssumption`), that
the bodies sent are bodies, and that an address in lower case is an address
(`LowerAssumption`). `None` is not a verdict either, since it stands for an order no callback
has reported on, and the limit of a page is at least one (`LimitsAssumption`): the DTOs of
lessons, courses and events ask for it, modules and the bin take ten instead of zero, and
for users and codes zero reaches the `$limit` stage of the driver, which is not in this
repository.

`PaymentsProofs`:
- `TypeCorrect`: `TypeOK`, strengthened to `Typed` by `Filled` (a handler at work names what
  it is about); a step reads fields of its handler, whose types depend on its counter.
- `VerdictsComeFromProvider`, `AnnouncementsAreSaved`, `AcceptedIsRecorded`: from
  `VerdictInv`. None of the three is inductive: what a callback is about to save has to be
  a verdict that was reported (`Traceable`, carried from delivery to save), what it is
  about to publish has to be saved already, and what it is about to accept has to be
  published (`Carried`). `Grows` says that reports, statuses held and announcements only
  accumulate, so what one handler has secured another cannot undo.
- `Implementation`: `Spec => ImplementsOrderBook`. Inserting maps to `Place`, a report to
  `Report`, a save to `Decide` or to a stutter, everything else to a stutter; the save is
  where `Traceable` is needed.
- `ProductOrdersInTurn`, `CourseOrdersInTurn`: from `TurnInv`, which records for a handler
  between a check and its insert what the check established about the context of its request,
  and that what the context says was there is there still (`Checked`). The second half is what
  the administrators threaten: `CheckedKept` shows that a move of an account and the deletion
  of an entitlement take from the context what they take from the record, and `AccountsStay`
  that nothing else takes an account from an address.
- `StatusFollows`, `StatusReflected`: from `AgreeInv`. `save` writes only the fields that
  differ from what was loaded, so the order may take `status` from one callback and
  `transactionStatus` from another. It does not while only verdicts are reported: the two
  fields agree in every order and in every copy a callback has loaded (`Loaded`), and as
  each verdict has a status of its own (`VerdictInjective`), a save writes both or neither.
  The hypothesis is on what was reported so far (`OnlyVerdicts`) and not on a constant, so
  `StatusReflected`, for a provider without other reports, is a consequence.

`CatalogProofs`:
- `TypeCorrect` and `CodesFollow`: `CodesGoToo` is inductive with `TypeOK`; `CodesKept` is
  the frame lemma for the steps that leave codes alone.
- `GoneForGood`: `GoneStays`, action by action.
- `FullGrace`, `OnSaleKept`: from `Deadlines` (in the bin, days spent and days left add up to
  `Keep`; out of the bin, a deadline means a restore; an unborn product has neither) and
  `TimeIsExpire`: a product that goes while no handler moves was taken by the index.

`CourseAccessProofs`:
- `TypeCorrect`, `AddedOnlyInTurn`, `NoMonthGained`, `CompletionKeeps`: from `AccessInv`. A
  handler writes what it read earlier, so what it is about to write has to fit the purchase as
  it is by now, whatever was written in between (`HandlerAt`): a date within the limit of the
  months granted, lessons that exist; `PurchaseAt` says the same of what is stored, and
  `Grows` that limits only rise.
- `OpenAsBought`: from `BoughtInv`, which bounds the same date from below: the end that is
  stored, and the one an extension has computed and not yet written, is no earlier than both
  of those the purchase was sold with (`Lasts`). A completion overwrites an extension, but with
  one of the two.
- `PracticesWithin`: the check and the increment are two steps, so the bound is not inductive.
  `Behind` says of every k from the highest number of practical modules on: the practices
  beyond k, together with the handlers that saw fewer than k and have not written yet, stay
  below the number of handlers.

`SessionsProofs`: `TypeCorrect`; `SignedOutStays`, from `SessionInv`: a session has a token
that was handed out for its owner (`Owned`), two open sessions share one only if it was handed
out twice (`Shared`), and who signs out or renews works on a session of her own (`Working`);
`PasswordKnown`, inductive beside them; `Implementation` of `SessionBook`, where `NewToken`
maps to `SignIn`, `DeleteToken`, `DeleteAllSession` and `Expire` to `End`, the rest to
stutters: a refresh does so because it does not upsert.

`AccountsProofs`: `TypeCorrect`, `AlwaysVerifiable`, `CoversKept` and `Implementation` of
`AddressBook`, from one invariant: a handler names an account and an address
that are on record, its cover is stored once it says so, and an account whose document it is
about to discard is verified or was set back since (`Named`).

`LessonsProofs` and `CoursesProofs`: `TypeCorrect`, `NoFileLost`, `NoUploadLost`. What is
about to be discarded from the temporary folder must have been `Secured` since it was
copied - in a folder, dropped by a request, or refused by the disk - whatever other requests
do between the copy and the discard (`HandlerAt`). `ContractKept`: `ContractInv` says that an
undisturbed course has at most one request at work, and what the contract is while nobody
works at it (`AtRest`) and at each step of each kind of request (`WorkAt`).

The other properties of the two speak of a lesson or a course at rest, so their invariants say
how far from it each step of a request is. `RecordedWhenStored`, `StoredWhenListed`:
`TidyInv`. Of a lesson whose requests came one at a time it says that one request is at work
at most, which files that request has copied and not recorded (`Pending`) or recorded and not
discarded (`Spare`), that apart from them folder and documents agree and no file has two
documents (`Sound`), and that the documents the request drops, has still to compare and will
list are apart and of this lesson (`ListsAt`). `Owned` holds of any lesson: no request has
documents of another in its hands, which is why requests elsewhere leave this one alone even
when they take the same uploads. What the disk refused is excused throughout, and nothing
else. `MaterialsRecorded`, `CoverKept`: `FolderInv`. A request that works on a course finds
its folder as `FilesRight` and `CoverRight` say for its counter: which uploads will get a
document (`Coming`), which have left the folder and not the collection (`Leaving`), which have
a file and no document yet (`Pending`). That each file is recorded once is a comparison of
cardinalities, for which the documents have to be finitely many; the invariant carries that
too. Either one was first checked by TLC on the run of its module.

`ContractsListingsProofs` proves about two modules that share no names.
- `Contracts`: `TypeCorrect`, `NobodyStuck`.
- `Listings`: `ListsTypeCorrect`, `EverythingShown`, `ShownOnce`, `CountersRight`, the first
  three from `PagingInv`. The rank of a document is the number of those sorted before it
  (`Ahead`), plus one. A document that is due and was not shown has at least as many before it
  as were shown (`Unmissed`), one that was shown has fewer (`Behind`), unless a write took one
  from, or put one on, a page already shown, or moved one that was shown. That any other write
  keeps both is `AheadKept`: if nothing left among the first n, what has n before it still
  has; read from the new list to the old, if nothing entered among the first n, what has fewer
  before it has no more. It needs the first of the documents that left, which exists because
  documents are ordered by number (`FirstDocument`), so no induction is called for.
  `PagesEnough` turns "the last page the answer told of" into "as many as there are". TLC had
  checked `PagingInv` on the run `Listings`.

Only model-checked: `BinEmptied`, since TLAPS does not prove properties that rest on fairness.
Every other property of a passing run is a theorem.

## Not modelled

- The stream of a payment (`payments.service.ts`, `redis/`): all streams share one Redis
  connection, and what it makes of two subscriptions to one channel is not in this
  repository. What is published on it is (`announced`).
- In the catalogue: covers and files of products, the discount calls of create and edit, and
  blocking a promo code, since what the driver makes of that update is not in this
  repository; the public product pages, which filter and change nothing.
- In course access: feedback, certificates and progress.
- Drive, mail, PDF and the HTTP layer keep no state that two requests share; a failure in
  them is a `Cut` of the handler that calls them.
- Amounts, signatures and texts are abstracted to what the properties tell apart; the day of
  the month, with the overflow of `setMonth`, is below the grain of `CourseAccess`; the order
  of ties in a sort is below the grain of `Listings`.

## Plan

Left, in this order:

1. `CatalogDiscounts`: create and edit of a product with its discount as two writes (an
   upsert without a unique index, an edit that overlaps a creation), the TTL of discounts,
   and on top of it the window of a discount in `Payments`.
2. `PaymentStream`: shared subscription, teardown before `subscribe` resolves, publish before
   subscribe, heartbeat; composed with the announcements of `Payments`.
3. Covers and files of products, with the proofs of `Courses` carried over.
