# Borrow Hub: a formal model of the marketplace

Borrow Hub lends things between people: an owner lists an asset, a renter asks
for a period, pays, signs, receives the asset and returns it. The API is a
NestJS service over one PostgreSQL database (`src/apps/api`); the mobile app
(`src/apps/mobile`) is its client, for the parties and for the staff. This
directory holds TLA+ models of both, TLC configurations that check them on
small instances, and proofs, checked by TLAPS, of properties for instances of
any size.

Paths below are relative to `src/apps/api/src/`, those of the app (`app/`,
`hooks/`, `services/`, `utils/`, `store/`) to `src/apps/mobile/src/`, unless
they say otherwise.

## 1. The system

### Components

| Component | State | Operations that change it | What makes it correct |
|---|---|---|---|
| rentals | the rental row (status, `updatedAt`), contract, signatures, handover sessions, QR sessions | create, approve, decline, cancel, signContract, startHandover, confirmHandover(ByQr), generateHandoverQr, requestReturn | an asset is reserved once; no stage without its evidence; a finished rental stays finished; a QR code is spent once and for something |
| payment | one payment row per rental, its intent id | getPaymentIntent, recordPayment / confirmDemoPayment, handleSepayWebhook, settleVerifiedPayment | one settlement per transfer; a mismatch is set aside; one price from quote to payout |
| finance | refund rows, payout row | createRefund, updateRefundStatus, updatePayoutStatus | refunds within the payment; the payment says what was refunded; a payout only for a completed rental |
| disputes | dispute rows, their events, the analysis timer | reportIssue, markAssetNotReturned, create, respond, acceptDamageReport, assign, updateStatus, image analysis | one active dispute; it holds the rental; a closed one stays closed; the analysis ends |
| notifications | notifications, reminders | runReminderJobs (which also marks rentals OVERDUE) | no reminder twice; only delivered rentals are late |
| auth | refresh and reset hashes of a user | register, login, refresh, logout, forgot/resetPassword | a refresh token is exchanged once; a reset has both credentials of one mail |
| users | account status, deletion token | requestAccountDeletion, deleteAccount | no deletion while a rental is active; all or nothing |
| kyc | verification row, document files | submit, reviewRequest | the files a row names exist |
| admin | account status, roles, cached lists, configuration | updateUserStatus, updateUserRoles, createInternalUser, updateSystemConfig | somebody is in charge; the cached lists show the changes |
| assets, favorites | asset status, availability, favorites | create, update, remove, moderate, search, add, remove | a removed listing stays removed; the pages are the list; what is found can be booked |
| risk incidents | incidents per listing and per user, rules | assessment of submissions, edits and cancellations, status of incidents and rules | a listing that breaks a rule has had an incident |
| reviews, trust score | review rows, the user's score | create, update, moderate, recalculateUserTrustScore | the score follows the reviews and the record it was computed from |
| reports | report rows, the five moderation actions | create, assign, updateStatus | the verdict names what was done |
| support tickets | ticket rows and events | create, assign, updateStatus, addNote | the ticket is what its history says |
| chat, chat timeline | conversations, messages | ensureRentalConversation, direct conversation, appendSystemMessageForRental, send | one thread per pair; no deadlock of the row locks |
| app: session (`services/api/client.ts`, `store/authStore.ts`) | tokens in memory and on disk, the queue of waiting calls | refresh, retry, sign-in, sign-out, restart | one refresh at a time; the device keeps the good token |
| app: rental screens | none of its own: what is offered for the rows | the buttons and their calls | what is offered is accepted; somebody can go on |
| app: back office | none of its own: what is offered and counted | the desks and their calls | what waits is offered; what is offered is accepted |
| app: query cache, booking screen | cached lists and pages, fetches on their way; the quote | refetch, invalidate, remove a row | a removed row does not come back; the quote is the price |

The others (categories, audit, analytics and request logs, mail, storage, cache,
configuration, guards and health, the rest of the app's screens, seed data and
deployment) keep no state, or none another component decides on; see section 7.

### How they interact

The services call each other inside a request and share the database; there
is no queue between them. The rental row is one meeting point: rentals,
payment, disputes, notifications and finance all write it or decide on it. The
user row is the other: auth, users, admin and reports write its status and its
hashes. The database runs at READ COMMITTED. A typical handler reads rows,
checks, awaits, and then writes in a transaction **without reading again**, so
anything may have happened between. Few devices order the handlers:

- `create` and `approve` lock the asset row (`SELECT ... FOR UPDATE`), the
  chat the rows of both participants, in the order of their ids;
- `settleVerifiedPayment` and `createRefund` lock the payment row,
  `updateRefundStatus` the refund row, `getPaymentIntent` the rental row;
- conditional `updateMany` claims a handover session, a QR session, a mismatched
  payment, an expired intent, a refresh token, a reset and a deletion;
- unique keys admit one active dispute per rental, one review per trip and
  reviewer, one direct thread per pair, one role row per user and role.

The app keeps copies (tokens, cached queries, loaded rows) and decides with them.

### What is hard

Reads that are stale by the time of the write; two parties acting at once (both
signing, both opening a dispute, two chiefs demoting each other); a transfer
announced several times; repeated confirmations; locks taken in different orders
by approval and settlement; side effects that precede the write they belong to
(a QR claim, a moderation action, an upload, a mail) and are undone by a handler
when it fails; recomputations that cross; long sequences through cancellation,
refunds and disputes, each of which blocks and unblocks the payout in its own
way; a client whose conditions repeat the server's in other words.
`PROJECT.json` lists them under `hazards`, each at its line.

## 2. The modules

    RentalLife             what a rental promises, abstractly
    RentalStore            tables of the rental, row locks, requests in flight
      RentalService        rentals.service.ts, the overdue job
      PaymentService       intent, webhook, settlement
      FinanceService       refunds, payout
      DisputeService       disputes
        Marketplace        the four together; specifications and properties; implements RentalLife
          RentalScreens      the app's screens and the staff's desks for a rental
            MCMarketplace    assets and periods for TLC
              MCProgress       with DamageAnalysis: what must come to an end, for TLC
          MarketplaceProofs  theorems: stages and their evidence
            RaceProofs         index and locks
              SerialProofs       one handler at a time (with RentalScreens)

    Api                    requests in flight, for the other services
      UserStore            users, verifications, documents
        AuthService          sessions, passwords
          UsersService         deletion
            KycService           identity
              AdminService         status, cached lists
                Accounts             the four together, and what they promise
                  AccountsProofs       theorems
      Listings             assets, favorites
        RiskService          incidents
        AppCache             the app's copies of them
      Reputation           reviews, trust score
      ReportsService       reports (with Listings, Reputation, UserStore)
      StaffRoles           who may change whom
      StaffDesks           the back office (with ReportsService, Accounts, StaffRoles)
      SupportService   Conversations   ReminderJobs   DamageAnalysis   Pricing
    HandoverQr             QR codes over RentalService
    Search, MobileSession  a query and its pages; a device and its tokens
    ConversationsProofs    theorems: threads and their locks
      ServiceProofs        theorems: staff, desks, support, reports, reviews, risk, reminders
    PhoneProofs            theorems: prices, QR codes, search, session, cache
      MCPlatform           these over one database, for TLC, but for DamageAnalysis

    TokenRotation          what the sessions promise, abstractly
      TokenRotationProofs  theorems

### The rental (`Marketplace`)

**State.** `RentalStore` has one variable per table column the decisions need:
`status`, `elapsed` (the payment window has passed, counted from `updatedAt`,
which every status write resets), `payment`, `paidAt`, `refunds`, `payout`,
`contract`, `signed`, `handovers`, `disputes`. Rows are keyed by rental, since a
rental has one payment (the provider is fixed by configuration), one contract
and one payout. `req[w]` is what worker `w` is executing.

**Steps.** A handler is a `...Read` action and a `...Commit` action. The first
makes the checks and keeps in `req[w]` the part of the rows the transaction
uses later (for `cancel`: the refund, whether there was a payout, whether there
was a contract); the second is the transaction, trailing writes included. A
handler whose reads and writes are one transaction under one lock
(`CreateRental`, `OpenIntent`, `ExpireIntent`, `CreateRefund`) is one action. Signing has four
steps because the code has four statements. With one worker the handlers are
serial; with two they interleave at every await.

**Locks.** A lock is not a variable: `AssetFree`, `RentalFree` and
`PaymentFree` read from `req` which rows an open transaction holds, and a write
waits for them. `approve` holds the asset row and the rentals it expires, the
settlement holds the payment row. A reader waits for nobody.

**Abstractions.** Who may call what (owner, renter, staff) is dropped where the
state decides anyway: every call is possible as soon as some caller may make
it. Values of statuses that no handler distinguishes are merged: a refund that
FAILED with one REJECTED, a dispute RESOLVED or REJECTED with one CLOSED.
Amounts are small integers; `LateRefund` is what a renter gets who cancels
close to the start. Dates, durations, availability, KYC and asset status decide
only whether a booking request is made at all, so the request may always fail
to be made. Text, notifications, audit rows, analytics and chat lines are left
out: they are written after the commit and no handler of a rental reads them. Prices,
QR codes, the image analysis and the chat have modules of their own.

**Failures.** `Abort(w)` ends a request between any two of its statements: the
process restarts, or PostgreSQL rolls the open transaction back. What the
request has committed stays, such as the signature `signContract` stores before
its transaction; the caller may then try again. Transactions that are one
action here are short and hold their locks only while they run; should two of
those wait for each other, PostgreSQL aborts one, which is also `Abort`.

**Screens.** `RentalScreens` has no state: `Calls(r, p)` is what the detail,
payment, contract, handover and dispute screens offer party `p` for the rows as
they are, `FinanceDesk`, `PayoutDesk` and `DisputeDesk` what the staff are offered;
`Admits`, `AdmitsPayout` and `AdmitsVerdict` are what the service asks of the call.
The conditions of a handler that a screen repeats are operators of the handler's module (`Approvable`, `Signable`,
`MayRefund`, `Endable`, `Claims`, ...): the action has them as its guard, and
`Admits` asks the same operator, so the two cannot drift apart. A desk that shows
a button for every row has it for every row here: the refund of each payment,
each status of a payout (`PayoutDesk`) and of a dispute (`VerdictButtons`).

**A rental's life.** `RentalLife` says in five variables what the parties are
promised: the stages of each rental, that the money comes in once and before
anybody signs, that it is confirmed with every signature, handed over once and
returned once, over when it is over but for a dispute. `Marketplace` maps
`stage` to the status, `paid` and `signers` to the rows, `delivered` and
`returned` to the confirmed sessions (`Life`); `LivesByStages` is `LifeSpec`
under that mapping. A step may move several rentals (an approval expires others),
so a step of the abstract module is one of each rental's own.

### The other services (`MCPlatform`)

Here `req[w]` holds the request itself: `Begin`, `Continue` and `Done` (module
`Api`) move a request from statement to statement, and every `await` between a
read and a write is a step boundary. A crash drops the request (`...Abort`)
where the module has one. In each module the table of a service is a function
from ids to rows with the columns the decisions need.

| Module | Correspondence |
|---|---|
| `UserStore`, `AuthService` | hashes are numbers in the order they were made, for argon2 salts them; the token behind a hash is the second it was signed in (`SignedAt`, `Token`), since `createTokens` signs the user's claims and a time in whole seconds and nothing else: two tokens of one second are the same text, and a refresh is admitted with either; `refresh[u] = 0` is a null column; mails are numbered, a mail may fail late, and `forgotPassword` then withdraws what it wrote if it is still there |
| `UsersService`, `KycService` | an upload is a step before the row that names it; what a failed handler removes, and what a deletion removes before its transaction, are steps |
| `AdminService` | `cached` is the list with its TTL; filling it is a read step and a write step, so an invalidation may fall between; a change and its invalidation are two steps, and registration, deletion and the report action invalidate nothing (`Unannounced`) |
| `Listings`, `RiskService` | an edit takes a listing back to review; the assessment that follows reads the text and the rules, looks for an incident, and inserts one |
| `Reputation` | `TrustScore` is the formula of `trust-score.service.ts` with its weights; a recomputation reads in one step and writes in another; the rest of the record (`Records`: identity, rentals, disputes, incidents, age) changes meanwhile, with a recomputation (`RecordRescored`) or without (`RecordChanges`), and a cancellation by the owner takes a penalty off the score (`OwnerPenalised`) |
| `ReportsService` | a verdict is applied (five actions, each with its own checks and failures) and only then written |
| `StaffRoles` | roles are deleted and inserted inside a transaction whose check was made before it; the unique key makes one of two inserts fail; an officer's account also goes by a report (`SuspendReported`, which asks nothing of roles) and by its owner's wish (`DeleteOwnAccount`) |
| `SupportService` | every change is a row update and an event in one transaction, from what a read before it saw |
| `Conversations` | the two participant rows are locked one after the other; a thread is looked for and inserted under them |
| `ReminderJobs` | a clock, and a job for any reference date: the queries find the rental by that date (`DueBy`), and one recipient after the other, a reminder made since 24 hours before that date is looked for, then inserted with the time of the clock; then the chat line |
| `DamageAnalysis` | one dispute among newer ones, of which a pass takes `PassSize` (50 in the code), the newest first; the pass with its `isProcessingAnalyses` flag, three tries per photo, rests between them; the staff's own request; restarts, which clear the flag and lose the pass |
| `HandoverQr` | claim, confirm, release: three statements; the confirmation is that of `RentalService` |
| `Search` | the database's order or the in-memory one over the newest candidates, filter by filter, cut into pages; a listing's place in the answer is the number of those ahead of it |
| `StaffDesks` | what each desk offers for a row, what the dashboard counts; acceptance is the condition of the service's read (`Moderatable`, `Givable`, `Decidable`, ...) |
| `AppCache` | per query: what is cached, the fetch on its way (asked, answered), whether a screen shows it; removal is request, cancel, drop, invalidate, in the order of `utils/assetCache.ts` |
| `MobileSession` | the two interceptors, the queue, the writes to memory and to disk as separate steps, the two tokens on disk each by itself; a restart falls anywhere between; the server is one good refresh token |
| `Pricing` | `Percentage` is the code's rounding; the screen's quote and the service's price are computed from their own reads, and from their own days: a period is a number of whole days and whether it is longer, the screen rounds it down (`DaysShown`), the service up (`DaysBilled`) |

**One part at a time.** `MCPlatform` joins the modules over one set of tables.
Its variable `focus` chooses, at the start, the part a behaviour explores; the
rows of the others keep their initial values. Parts that interact are explored
together: sessions with deletions and status changes, identity with deletion,
reports with the listing, the review and the user they act on, desks with all
of those, the cache with the listing it copies. What is not explored together
are services whose tables the other does not read.

**History variables.** Some losses are known, come from no more than a crash or
a second writer at the wrong moment, and would hide every other violation. A
property excuses exactly those by a variable that no action reads, but for a bound:

| Variable | What it excuses |
|---|---|
| `purged` | documents a deletion asked to remove before its transaction (which may still fail) |
| `unlisted` | a list of users that was being read when an account changed, and changes no service announces |
| `behind` | a recomputation of the score that was cut off, or that read the reviews before another handler wrote one |
| `counted` | not an excuse but the record the score was computed from, 0 once a penalty was taken off it |
| `excused`, `cancelled.lost` | an assessment that was cut off, or is older than the last change of the rule |
| `feud` | two requests that lower a chief at the same time |
| `ousted` | a chief suspended through a report, or who deleted the own account |
| `company` | reminder jobs that were at work at the same time as another |
| `stranded` | a process that stopped between the claim of a QR code and the confirmation |
| `disturbed` | an answer to a refresh that never reached the device, a sign-in that overtook a refresh, and an app that ended while a refresh was out or before the new refresh token was on disk |
| `removed` | (in `MCPlatform`) nothing: the listings that were removed |

## 3. Specifications and runs

`Spec` of `Marketplace` has every action. Three restrictions of its next-state
relation keep larger instances small; each step of theirs is a step of `Next`:

- `BookingSpec`: booking, approval, cancellation, the intent and its expiry;
- `CheckoutSpec`: booking and payment, with fairness;
- `LifecycleSpec`: everything except the requests of the finance desk.

`PlatformSpec` of `MCPlatform` is the composition of the other modules but
`DamageAnalysis`; `ProgressSpec` of `MCProgress` is `CheckoutSpec` or the image
analysis, with the fairness of each.

| Run | Instance | Question | Distinct states |
|---|---|---|---|
| `serial` | `Spec`, 1 rental, 1 worker, 2 refunds, 2 sessions, 2 disputes | what the handlers guarantee one at a time; the refinement of `RentalLife`; what the app offers | 485,054 |
| `races` | `LifecycleSpec`, 1 rental, 2 workers, 2 sessions, 1 dispute | what survives every interleaving | 1,016,488 |
| `bookings` | `BookingSpec`, 3 rentals of one asset, 2 workers | the asset lock | 99,988 |
| `progress` | `ProgressSpec`, 2 workers: 2 rentals of one asset booked and paid; a dispute with 2 photos and a newer dispute | what must end, ends | 54,394 |
| `platform` | `PlatformSpec`, 2 workers, symmetric: the other services and the app, eighteen parts | safety of the other services and the app | NNNN |

**Serial** checks `TypeOK` and
`ActiveDisputeHoldsRental`, `PaidOnlyWhenCompleted`, `CancelledContract`,
`RefundsMatchPayment`, `LivesByStages`, `ClosedStaysClosed`: six
relations between tables that no single handler maintains. They hold only
while handlers do not interleave; the code does not defend them against a
second request. Where documentation promises more, section 4 shows the
interleaving. `CallsAccepted` and `SomebodyCanAct` are about the app: what the screens and
desks show is refused exactly in the cases the property names (an approval or a
payment that comes too late, the refund of an intent nobody paid, a payout that is
not due, a status a dispute already has), and a rental that is not finished has
a button for one of its parties, two ways excepted (`LeftBehind`).

**Races** checks what does survive. The evidence of a stage (money, both
signatures, a confirmed delivery) only ever grows, and each handler writes a
stage only if it saw the evidence; so it does not matter how stale its other
reads are. `OneActiveDispute` rests on the unique index, `SettledOnce` on the
lock of the payment row, `HandedOverOnce` on the conditional claim of the
session. The second `sign`, the second webhook, the second confirmation all
happen with two workers.

**Bookings** has the periods 1-3, 2-4, 3-5 of one asset: the second overlaps
both others, which do not overlap each other. Three requests are what it takes
for an approval to expire one booking, admit a second, and collide with a
third.

**Progress** checks two liveness properties. `RequestsFinish` is under strong fairness of
`Progress(w)` for each worker. The code justifies it: PostgreSQL grants a row to
the requests waiting for it in the order they came, and the process runs the
continuation. Weak fairness is not enough once transactions may be rolled back
and retried: a webhook could wait for ever while another locks the payment, is rolled back,
and locks it again. Nothing is assumed about requests being made or about time.
The property says there is no cycle of waiting between the asset and rental
locks of `approve` and the payment lock of the settlement.

`AnalysisSettles` says that a photo gets a result or three failures, as long as
passes go on reaching its dispute. That condition is part of the property: a pass
takes the newest fifty active damage disputes, those already analysed among
them, so an older one may be passed over for good (section 6). `PassSize = 1`
with one newer dispute that opens and closes is the least that shows the cut.

**Platform** checks twenty properties, each over one or two parts. Of the services:

- `RotatesTokens`: the services implement `TokenRotation` (below).
- `WholeReset`: a live reset always has the token and the code of one mail, for the
  withdrawal after a failed mail is conditional and a deletion clears both.
- `DocumentsKept`: the files a verification names exist; a submission that loses
  removes its own uploads, one that wins those it replaced.
- `ListShowsChanges`: once a request that changed an account has cleared the caches,
  the list an administrator finds was read afterwards.
- `RemovedStaysRemoved`, `RiskNoticed`: an edit, a verdict or an assessment that read a
  listing before its removal does not write over it; the assessment that runs last
  sees what it must. The report action does write over a removal: run
  `removedReturns`, section 4.
- `ScoreFollowsReviews`, `VerdictCarriedOut`, `TicketFollowsHistory`: a derived
  row is what its sources say, with two handlers at work. The score is that of
  the reviews as they are, and of the record as the last recomputation found it:
  many changes of the record recompute nothing.
- `OneThreadPerPair`, `NoLockCycle`: the row locks replace a key, and are taken
  in one order, with two deals in which the parties have opposite roles.
- `RemindedOnce`: wherever an earlier job was cut off and whatever reference dates
  were given, a job beside which no other was at work makes no reminder within the
  time it looks back to.
- `SomebodyInCharge`: no sequence of demotions locks the staff out, but for the
  ways `feud` and `ousted` record.
- `DesksServe`: the back office offers what waits and nothing that is refused.

Of what a phone keeps, shows and scans:

- `SessionKept`: calls that fail together share one refresh, and a device at rest
  presents the good token, three accidents excepted (`disturbed`).
- `RemovedRowGone`: fetches begun before a removal do not restore the row.
- `OnePrice`: from the rental's row on the price is one, whatever changes; it is the
  quote where the listing and the fee were as shown and the days the same; the
  two roundings differ by a day at most, and only for a period longer than whole days.
- `PagesAreTheList`, `FoundIsBookable`: the search against its own definition,
  and against the checks of a booking, which are written separately in another
  service.
- `CodeSpentOnce`: a used QR code stands for one confirmed session.

**Refinement.** `TokenRotation` says, in 64 lines, what a user's sessions are: at
most one hash is good; it may be replaced by one never seen before, or
revoked; an exchange replaces the good hash, which is never good again. The token behind it
is not good again either, nor exchanged again,
unless it was signed twice, within one second (`SignedTwice`); `MCSignedAt` gives
two tokens the same second. `Accounts` maps `current` to the column `refreshTokenHash`, `seen` to the
hashes made except those a request still carries, and `answered` to the
exchanges that returned. `RotatesTokens` is `Rotation` under that mapping. It
would fail if `refresh` wrote its hash unconditionally.

**Fairness.** `AnalysisFairness`: the timer ticks every 20 seconds, rests end by the
clock, a started pass goes on, the provider answers or its call fails. The code
sets no timeout of its own; it relies on that of Node's `fetch`, which ends a
connection without an answer. `CheckoutFairness` is above. No request is ever
assumed to be made, and no crash is assumed not to happen; restarts are
finitely many (`MaxRestarts`).

**Bounds of platform.** Two requests at once are a writer and the
one it races; `platform` counts states that differ by the names of the workers
once, for no action and no property tells them apart. One user, listing, report,
ticket suffice, because no handler
relates two of them; where one does, there are two: photos (a newer one replaces
the older), trips (the score sums them), deals of one pair, officers, recipients,
handover sessions, QR codes of one session. `MaxTokens = 3`: a token, its
successor, and the one of a login that overlaps, two of them signed in one second. `MaxMails = 2`,
`MaxUploads = 2`: one that fails late while the next succeeds.
`MaxIncidents = 2`, `MaxCancelled = 3` with `Threshold = 2`: below, at and above.
`MaxEvents = 4`: two changes of status with an assignment between and one after.
Ratings `{2, 5}` are a low and a high one, so that each review moves the score, and
the two `Records` differ by an open dispute; once `behind` is set the parts `reputation` and
`reports` stop, for the score is excused from then on; a verdict that was cut off before its score is
that of `SanctionFails`. In the part `cache` one answer
at a time is on its way, whatever fetches have been begun; a late one spoils the query that asked for it
and no other. `Window = 2` of `MaxClock = 3` ticks: a
reminder within the window of a job and one before it. Three listings drawn
from four profiles with pages of 2 and 2 candidates: a second page, a cut
candidate list, and every pair of orders. Three calls, one of them the
sign-out, and 2 pairs of tokens: two calls share a refresh while the device
signs out. Prices 7 and 10 with 5 and 10 percent: the rounding goes both ways; 1 to 3 days, each also a little
longer.

**Bounds of the rental.** Two workers are two handlers in flight; a third adds a handler
whose effect is that of one that ran between. Two refund rows suffice for a
partial and a completing refund, two sessions for a delivery and a return (or
a repeated delivery), two disputes for one reopened next to a new one (the `serial`
run; `races` has one, and its index is exercised by two requests opening it).
`Total = 2`, `LateRefund = 1` distinguish full, partial and no refund. In `races`
and `bookings` `PayoutTargets` is irrelevant, because no finance request is made.

`CHECK_DEADLOCK FALSE`: a run really may stop, when every rental is finished
and the bounds are used up.

## 4. Where the code departs from its documentation

Each is a run that checks one property and finds it violated.

| Run | Property | What happens |
|---|---|---|
| `fakeRefund` | `NoRefundWithoutMoney` | the renter opens the payment page, pays nothing and cancels: the row of the intent counts as a payment and a COMPLETED refund is written (one handler at a time) |
| `overRefund` | `RefundsWithinBalance` | finance creates a refund, then the rental is cancelled and refunded in full (one handler at a time) |
| `doubleBooking` | `NoDoubleBooking` | the settlement reads AWAITING_PAYMENT, an approval expires that rental and frees the period, the settlement writes AWAITING_SIGNATURE |
| `cancelRace` | `CancelledContract` | a cancellation that began before the settlement does not see the contract the settlement creates |
| `lostConfirmation` | `ActiveContractConfirms` | both parties sign at once; each counts the signatures before its transaction, the one that counted one writes last: the contract is ACTIVE and the rental back in AWAITING_SIGNATURE |
| `earlyPayout` | `PaidAfterDelivery` | a RETURN_ISSUE dispute opened through `disputes.create` before delivery and accepted completes the rental; the payout becomes payable (one handler at a time) |
| `removedReturns` | `RemovedNeverPublished` | a report hides a listing its owner has removed (`hideReportedAsset` writes SUSPENDED over ARCHIVED), and the moderation of listings then publishes it |

The documents are `src/docs/MANUAL_TEST_SMOKE_VI.md`,
`src/docs/MANUAL_TEST_CHECKLIST_VI.md` and, for the last, the comment at
`assets/assets.service.ts:632` ("archived listings cannot be republished"); the
findings in `PROJECT.json` quote the lines.

## 5. Proofs

`MarketplaceProofs` proves, of `Spec`, for any sets `Rentals` and `Workers`, any
amounts and any bounds:

| Theorem | Statement |
|---|---|
| `Typing` | `Spec => []TypeOK` |
| `Payment` | `Spec => []PaidBeforeSigning` |
| `Signing` | `Spec => []SignedBeforeHandover` |
| `Delivery` | `Spec => []DeliveredBeforeReturn` |
| `Activation` | `Spec => []ActiveContractSigned` |
| `Handing` | `Spec => HandedOverOnce` |
| `Invariance` | `Spec => []Inv`, on which the others rest |

The assumptions are those of `RentalStore`: `PeriodAssumption`,
`AmountAssumption`, `BoundAssumption`, which TLC evaluates in every run of the rental.

**Why a strengthening is needed.** A commit writes a stage from what was read
earlier, so `PaidBeforeSigning` says nothing about a state in which
a request is about to write. `Inv` adds what each request in flight has seen:
`IndexFits` (the row it points to exists and has the type it remembers) and
`Supported` (its rental has the evidence for the stage it will write). `StageOK` has the
four properties as a chain, `Delivered => BothSigned => Paid`.

**Argument.** `Grew` says that a step takes no evidence away. The lemmas show
that every step is a `Grew` step (`ArrivalGrew`, `ProgressGrew`), that growth
keeps what requests rely on (`EvidenceStays`, `SupportStays`), that a request which begins
has read what it needs (`ArrivalSupported`), that one which fails disturbs
nothing (`AbortInv`), and that a commit enters a stage only
with its evidence (`ArrivalStage`, `ProgressStage`). `Handing` needs only typing and
`IndexFits`.

**Races** (`RaceProofs`). For any number of workers:

| Theorem | Statement | Rests on |
|---|---|---|
| `Disputes` | `Spec => []OneActiveDispute` | `DisputeInv`: two active disputes of a rental are the same |
| `Settlement` | `Spec => SettledOnce` | `SettleInv` |
| `Reservation` | `BookingSpec => []NoDoubleBooking` | `BookingInv` |

`SettledOnce` says that no step resets the contract of a rental that is paid. A
settlement writes after it has looked, so `SettleInv` says what the payment lock preserves:
a request that is about to settle finds the money not yet received
(`RequestOK`), and two of them are about different rentals (`Apart`); besides, a
rental that can still be approved has no payment row (`RentalOK`). `BookingInv`
says the same of the asset lock: an approval that has read the reserved rentals of
its asset still sees all of them, except those it is about to expire
(`Checked`). `Reservation` is about `BookingSpec` and cannot be about `Spec`: run
`doubleBooking` shows that a settlement breaks it.

**One handler at a time** (`SerialProofs`). Under the hypothesis `OneWorker` (any
two members of `Workers` are equal; the runs `cancelRace` and `lostConfirmation`
show what two do):

| Theorem | Statement |
|---|---|
| `DisputeHolds` | `Spec => []ActiveDisputeHoldsRental` |
| `PayoutWaits` | `Spec => []PaidOnlyWhenCompleted` |
| `CancellationVoids` | `Spec => []CancelledContract` |
| `Finishing`, `Closing` | `Spec => FinishedStaysFinished`, `Spec => ClosedStaysClosed` |
| `Refunding` | `Spec => []RefundsMatchPayment` |
| `Living` | `Spec => LivesByStages`, that is `Life!LifeSpec` |
| `NextStepShown` | `Spec => []SomebodyCanAct` |
| `Accepting` | `Spec => []CallsAccepted`, an equivalence: accepted but for the cases it names, refused in those |

`SerialInv` adds to the three agreements of a rental (`Agrees`) what the one
request in flight has read: `Fresh` says it is still so. A crash between two
statements is a step, so the theorems are not about uninterrupted handlers.
`NextStepShown` needs more than that: the dispute screen shows the newest
dispute, so every older one must be closed (`OlderClosed`, by induction from
`Closing`'s step and the index); and the contract screen offers a signature only
where there is a contract, which is the `Paid` of `StageOK`.

`Refunding` is about a sum, which the code (and `RefundSum`, by the fold of the
community modules) adds up one by one. An induction over the rows is out of the
provers' reach, so the sum is counted: an amount is a set of units, a sum the
number of units in the union (`Units`), and the library's facts about finite sets
do the rest. `SumCounts` shows the fold equal to that number, by the smallest
set for which it would not be; `RefundedAdded`, `RefundedAtOnce` and
`RefundedAnswered` say what one more row, or one more completed, does to it.
`RefundInv` then says of each paid rental that its payment's status is the one its
refunds call for (`Due`), and that the answer in flight has computed it from rows
that are still so (`RefundFresh`).

`Living` is a refinement proof, rental by rental: `LifeTurns` and the lemmas beside
it map each handler to a step of `RentalLife`. What the mapping needs beyond `Inv`
is which sessions a stage can have (`Sessions`): none confirmed before its time,
so that the one delivery and the one return are the first. Without `OneWorker` it
does not hold, by `doubleBooking` (an expired rental is paid) and
`lostConfirmation` (a confirmed one waits for signatures again).

`Accepting` is the state predicate `QuietInv => CallsAccepted`. Nothing in flight
means no row is locked (`NothingLocked`), and each call's guard follows from what
its screen looks at and, where the screen looks at less than the service, from the
invariants: no screen asks for the payment's row before it opens an intent, nor for
the agreement of a rental's disputes with its stage (`Agrees`). The cases in which the
services refuse are named by `TooLate`, `NothingReceived` and `PayoutDue`; that they do
refuse in each is part of the theorem. For refunds the desk computes
the balance from the completed and pending ones, which is the service's own sum.

**Threads** (`ConversationsProofs`, of `ChatSpec`). `ChatInvariance`, `OneThread`
(`OneThreadPerPair`) and `NoCircle` (`NoLockCycle`). `ChatInv`: the rows two
handlers hold are disjoint, and a handler about to insert holds both rows and the
thread it did not find is still missing (`StillMissing`). The circle is ruled
out because a handler takes the smaller id first: whoever holds the row somebody
waits for, and waits itself, waits for a greater one; a finite set of waiting
handlers has one that waits for the greatest. That needs `WorkersAssumption`
(finitely many requests at once) and `DealAssumption` (ids are ordered; nobody
rents from himself).

**Other services** (`ServiceProofs`). The history variables are part of the
statements, as in the runs.

| Theorem | Statement | The invariant adds |
|---|---|---|
| `InCharge` | `StaffSpec => []SomebodyInCharge` | unless `feud` or `ousted`, some chief is enabled and not the target of a request under way (`Safe`); from `ChiefAssumption`, that the staff begins with one |
| `TicketHistory` | `SupportSpec => []TicketFollowsHistory` | which event of the history gave the status, and which were assignments |
| `Verdict` | `ReportSpec => []VerdictCarriedOut` | what a verdict in flight claims to have done was done |
| `ScoreUpToDate`, `ScoreAfterSanction` | `ReputationSpec => []ScoreFollowsReviews`, the same of `ReportSpec` | a score in flight is that of the reviews as they are and of the record it carries, and where the row differs somebody is on the way to write it |
| `Removal` | `RiskSpec => RemovedStaysRemoved` | the rows are statuses; the conditions repeated in the writes do the rest. `ReportSpec` does not imply it: `removedReturns` |
| `Noticing` | `RiskSpec => []RiskNoticed` | each ground a listing owes has an incident or a request that carries it; a count that reached `Threshold` has a pattern or a handler on the way to it |
| `Desks` | `RiskSpec \/ ReportSpec => []DesksServe` | the rows of listings, and what a request will write to them, are statuses; a desk is then compared with its service for each |
| `Reminders` | `ReminderSpec => RemindedOnce` | a job outside `company` that is about to insert is alone and still finds nothing |

The score is an operator there: the proofs use that it depends on the reviews and
the record it is given alone, not what it computes.

**Phone** (`PhoneProofs`).

| Theorem | Statement | The invariant adds |
|---|---|---|
| `Price` | `PricingSpec => []OnePrice` | each request in flight carries amounts computed from one reading of the price, the percentages and the period, and the days of screen and service differ only where the period is longer than whole days; the rest is arithmetic of `Percentage` for any tariff (`TariffAssumption`: prices are positive, percentages at most 100) |
| `Session` | `DeviceSpec => []SessionKept` | where the good token is while an exchange is under way: granted, in memory, on disk; unless `disturbed`, the refresh token on disk is the good one or a write of it is under way |
| `Dropped` | `CacheSpec => []RemovedRowGone` | no answer on its way shows a listing that was removed, from the cancellation of the fetches on |
| `Bookability` | `SearchSpec => []FoundIsBookable` | nothing: the filter of the search and the check of the booking agree in every state, whatever the windows and rentals |
| `Paging` | `SearchSpec => []PagesAreTheList` | what was shown is the beginning of the answer (`PageInv`) |
| `Scan` | `QrSpec => []CodeSpentOnce` | a code in the hands of a scan is used and the scan is the only one; a used code let go stands for a confirmed session, one code each |

`Paging` needs that sorting neither loses nor repeats a listing. The order is strict
and total because age decides between equals (`Ordered`), so the listings ahead of
a later one are a proper superset of those ahead of an earlier one; the numbers of
listings ahead are therefore different numbers below the size of the answer, and a
count shows that each is taken (`Places`). `Sorted` is what follows for the
sequence. `SearchAssumption` says that the listings are finitely many, by their age,
and that what an order compares is a number.

**Accounts** (`AccountsProofs`, of `AccountsSpec`, the four account services with
any users and workers).

| Theorem | Statement | The invariant adds |
|---|---|---|
| `Rotating` | `AccountsSpec => RotatesTokens`, that is `Tokens!Rotation` | a new hash is carried by one request (`OwnToken`) and is none of those that are good or were |
| `Succession` | `AccountsSpec => []Tokens!OneSuccessor` | nothing: `Rotating` and `SingleSuccessor` |
| `Resets` | `AccountsSpec => []WholeReset` | a mail in flight is a number that was given out |
| `Documents` | `AccountsSpec => []DocumentsKept` | the files of a submission that is not written yet are its own: no row names them and no other request would remove them (`OwnFiles`) |

`Rotating` is a refinement proof: the initial states map to initial states
(`UserInit` to `RotationInit`), and each step of a service, user by user, to a
`Grant`, a `Rotate`, a `Revoke` or a `Keep`; a request that is dropped leaves its
token among those seen, which `Keep` allows.

**The abstract rotation** (`TokenRotationProofs`, for any users).
`RotationInvariance` is `Rotation => []RotationInv`, `SingleSuccessor` is
`Rotation => []OneSuccessor`: no token signed in a second of its own is exchanged
twice. The good hash is among those seen (a new one is never), and an exchanged
one is not good (`CurrentUnspent`); so the next exchange cannot be of an exchanged
token, unless another of its second is good. By `Rotating` this holds of the
services: a repeated refresh token has no second successor, but for that.

**Only model-checked**, and why:

- `RequestsFinish`, `AnalysisSettles`: liveness under fairness,
  which needs `ENABLED`;
- the seven divergences of section 4 are counterexamples, which need none.

Every other property of a passing run is the statement of a theorem: all the
invariants, and the action properties and refinements besides.

The inductive invariants were model-checked on small instances before they were
proved; `races` keeps `Inv` among its invariants. The parts whose specification a
theorem names (`ChatSpec`, `QrSpec`, ...) are those `MCPlatform` composes: a
behaviour of `PlatformSpec` whose `focus` is the part makes that part's steps.

## 6. Observations

Things the models show, or that were read while writing them, and of which no run
of section 4 is made; where a text of the repository says otherwise it is named.

*Rental.*
- A rental stays DISPUTED, its payout BLOCKED, when a manager closes the dispute
  before the return is confirmed: no screen offers a next step (`LeftBehind`).
- Stopped after the second signature's upsert, `signContract` leaves
  AWAITING_SIGNATURE with no button for anybody (`LeftBehind`).
- A payout can be marked PAID with a refund pending or after a dispute blocked
  it (`finance/finance.service.ts:386` writes unconditionally); the finance
  screen hides payments whose payout is PENDING or SCHEDULED, and with them
  their pending refunds; it offers a refund for a payment nobody made, and PAID for
  a payout that is not due, which the API refuses.
- The payment screen opens an intent although the window may have elapsed: the
  API then expires the rental and answers 409.
- A late answer or assignment reopens a closed dispute
  (`disputes/disputes.service.ts:767`, `:954` write a status computed earlier);
  the dispute desk offers a status the dispute already has.
- The detail screen offers a cancellation only in PENDING_OWNER and a return
  only in ONGOING, less than the API accepts.
- The late fee of an overdue rental is not refreshed; two QR codes made at once
  for one session are both live.
- The booking screen quotes 5% and whole days rounded down (`book.tsx:152`); the API
  charges the configured `platform_fee_percent` and rounds up
  (`rentals/rentals.service.ts:113`), so the quote is the price only at the default
  configuration and for whole days. The first period runs from one `new Date()` to
  three days after another (`book.tsx:149-150`): should a millisecond pass between
  them, the screen shows 3 days and the API bills 4. (`PAY-01`,
  `src/docs/MANUAL_TEST_CHECKLIST_VI.md:122`, asks that the booking page, the rental
  and the payment agree: from the rental on they do, by `OnePrice`, and the page
  may differ.) That first duration is 3 days even where the
  listing forbids it. The owner's commission is read at settlement, and so is the
  `pricePerDay` of the contract's snapshot (`rentals/rentals.service.ts:2089`), which
  may differ from the price the total was computed from; `OnePrice` does not
  compare it.
- An image analysis waits as long as fifty newer damage disputes stay active
  (`disputes/disputes.service.ts:670-671` takes those analysed already too), while
  its screen says the report will appear by itself
  (`app/admin/disputes/[id].tsx`: "AI đang phân tích. Báo cáo sẽ tự hiển thị tại đây.").

*Accounts and staff.*
- An account deletion that fails in its transaction has already removed the
  documents; the row still names them.
- A review may verify documents a concurrent submission has just replaced.
- The users desk offers to enable a DELETED account, and the API does; the KYC
  desk offers approval of a request reviewed before it had documents, and the
  API refuses; the report desk offers every action for every target.
- Two chiefs who disable or demote each other at once leave none. A chief is
  suspended by any manager through a report (`reports/reports.service.ts:314-334`),
  although `admin/admin.service.ts:387` keeps it to a SUPER_ADMIN, and the last chief
  may delete the own account.
- Two refresh tokens signed for a user in the same second are one text
  (`auth/auth.service.ts:462-497` adds no nonce): an exchanged one is then good as
  long as its twin is.
- An app that ends after the server has exchanged its refresh token and before
  the new one is on disk starts with the exchanged one and is signed out.
- The list of users shows a registration, a deletion or a report's suspension only
  when its cache entry lapses.

*Listings, risk, reputation.*
- Activating a rule assesses no existing listing; repeated cancellations count
  rentals the owner cancelled.
- The penalty of a cancellation is overwritten by the next recomputation of the
  score. A completed or overdue rental, an incident and time change what the score
  counts without recomputing it.
- Only a category's own id is refused as its parent, so cycles are possible.

*Chat, reminders, app.*
- A pair has one rental thread and one direct thread, two inbox entries.
- A review somebody received within 24 hours has the type of the review
  reminder and suppresses it; a job takes 50 rentals, and the same 50 again.
- Reminder jobs that overlap may both remind; one whose reference date is more than
  24 hours ahead looks back to a time still to come and reminds again at each run.
- The removal in `app/profile/listings.tsx` only invalidates, so a fetch on its
  way may restore the row until it is stale (45 seconds).
- The notifications screen opens only rental references; an optimistic read
  mark may flicker back.

## 7. What is not modelled, and the plan

Not modelled, and why:

- categories, profile and addresses, read markers, marking notifications as
  read, the broadcast: single statements on rows nothing else decides on;
- audit, analytics and request logs: appended after the commit, read by nobody;
- mail, storage and the AI provider as such: their success or failure is an
  outcome in the modules that call them; delivery by socket: the app merges
  events by id and refetches;
- configuration, guards, health, request context: stateless (`RolesGuard` is
  `Admitted` in `StaffRoles`);
- `assessRentalCreation`: one insert per booking with no second reader;
  `uploadEvidence`: its photos are a number in `DamageAnalysis`;
- the remaining screens: forms and lists that send one call or show one answer;
- image processing, statistics, seed data and deployment scripts.

Modelled and not proved, and why:

- liveness: above;
- that each step of `MCPlatform` is a step of one of the parts, which would carry
  the theorems of section 5 over to the composition: `Next` is a
  disjunction over `focus` of the parts' own next-state relations, and the runs
  check the properties on the composition itself;
- the interleaved `Marketplace` against `RentalLife`: it does not hold, by the
  divergences of section 4. What does hold of every interleaving is `Inv` and the
  theorems of `MarketplaceProofs` and `RaceProofs`.
