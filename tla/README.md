# Verification of Pachi

Pachi is a housing marketplace: providers publish listings, seekers inquire
about them, arrange viewings, attend them and review each other.  This
directory holds TLA+ models of its protocols, TLC runs that check them on small
instances, and proofs checked by TLAPS for instances of any size.

Run everything from this directory:

    tlc -workers 2 -config ViewingCommands.cfg MCViewingCommands
    tlapm ViewingEpisodes_proofs.tla

`PROJECT.json` lists components, runs, mutants (a plausible bug per property
that the property's run must find), the map from definitions to source lines,
findings, hazards and theorems.

## 1. Inventory

Most rules live in `packages/database/src` (stores over PostgreSQL) and in the
constraints and triggers of `packages/database/migrations`.  `apps/api` maps
HTTP to the stores, `apps/worker` runs their timers, the web and admin
clients render and forward; three pages and the login routes keep protocol state
of their own.  There is no message broker: components interact through rows, row
locks, unique constraints, triggers, and job rows that a timer polls and leases.

| Component | State | Operations | Interacts with | Hard behaviour | What makes it correct |
|---|---|---|---|---|---|
| Viewing episodes (`viewing.ts`, 0033) | `viewings`, `viewing_events`, `viewing_scheduled_actions` | create, accept, decline, confirm, cancel, `expireOnce` | Interaction row, eligibility of users, blocks, listing, region; trigger of 0034 | deadline against worker, leases, crash between lease and handling | one current appointment; a request ends by its deadline |
| Viewing commands (`ViewingStore.command`) | `viewing_command_receipts` | every command of a participant | clients, which retry | lost answers, duplicates, stale versions, reused keys | applied once; only on the version that was seen |
| Viewing appointments (`viewing-appointments.ts`, 0034) | proposals, schedule history, reminder plans, appointment actions, notices | propose, approve, reject, withdraw, finalize, `appointmentsOnce` | viewing rows and their trigger | approval against expiry and cancellation, takeover of leases, late reminders | the schedule moves by agreement only; reminders belong to the current schedule, once, in their window |
| Viewing attendance (`viewing-attendance.ts`, 0035) | outcomes, claims, cases, reports, no-shows, review boundaries and eligibilities | claim, respond, dispute, `attendanceOnce` | viewings, reviews, adjudication | answer against timeout; eligibility lost meanwhile | an outcome is agreed, or undisputed after its window; what is offered is accepted |
| Attendance adjudication (`attendance-adjudication.ts`, 0038) | cases, decisions, appeals | assign, decide, appeal | attendance, reviews | reversal after effects | effects follow the outcome in force; a used slot is never reopened |
| Reviews, review moderation (`review.ts`, `review-moderation.ts`) | reviews, versions, reveal actions, aggregates, reports | submit, edit, withdraw, report, reveal worker, reconcile, moderate | attendance eligibility, holds | two submissions at once; reveal by deadline | nobody writes having read the other's review; revealed together or late; aggregates count what stands |
| Listing media (`listing-media.ts`, `packages/media`, 0013) | assets, intents, jobs, `listing_media`, the files | authorize, upload, complete, cancel, reorder, remove, retry, claim, markReady, markFailure, markDeleted | listing status, storage, scanner | crash at any point, slow workers, late uploads | a photo that is shown has its files; nothing is left behind |
| Listing submission, photo review, listing moderation | submissions, decisions, checklist | submit, decide, correct | media, listing lifecycle | stale submission decided | only what was opened and submitted is approved |
| Listing lifecycle (`listing-lifecycle.ts`, `listing-visibility.ts`) | status, confirmations, reminders | publish, change market, confirm, `expireOnce`, reminders | verification, region, moderation | expiry against confirmation | visible content is approved content; no stay past expiry |
| Region publication | versioned switch | configure | listings, viewings | stale version | no listing public in a closed region |
| Organization lifecycle, ownership, assignments | members, invitations, transfers, assignments | invite, accept, mutate, transfer, expire, step-up | every provider-side authorization | concurrent removals, transfer against demotion, membership begun again | an active owner; a transfer only between those who may complete it; no grant outlives its membership |
| Authority risk (`authority-risk.ts`) | risk cases, evaluations, a source clock | evaluate, open, review, confirm, resolve | listings, relationships, submission | a decision about rows that moved on | a case ends only on what was read |
| Interactions, conversations, blocks | interactions, messages, receipts, blocks | inquire, send, acknowledge, block, unblock | viewings, listings, the pages | retries of messages, block against send | messages once and in order; nothing passes a block; history without gaps |
| Pages (conversation, viewing, search) | attempts, generations, cursors | send, retry, load, refresh, acknowledge | the stores, through the API | answers late, lost, out of order | a refusal is final; nothing is skipped |
| Provider and phone verification | cases, evidence accesses, claims, challenges | submit, assign, decide, expire, send, confirm | external sender, staff | expiry during renewal and under statements that wait for it, late delivery results | status follows the claim; only the latest code works |
| Sessions, staff | web sessions, token families, staff sessions, login transactions | login, callback, refresh, register, logout | external identity provider | concurrent refresh, requests of one browser that replace its cookie under each other, logout against refresh | what was ended stays ended; the current token is kept |
| Property drafts, public listing | drafts, projections | create, edit, search | listings | pages over changing results | whoever loads all sees all that stayed |
| Analytics | outbox, events, report | record, `processAnalyticsOnce` | contacts and responses | overlapping consumers, failures | counted once, as of its moment |
| Worker process (`apps/worker`) | timers | runs the loops | all `...Once` operations | overlapping runs, death | every loop tolerates both |
| API controllers, contracts, scripts | none of their own | forward | stores | repeated requests | - |

The status of each component and what is left out of it is in `PROJECT.json`;
section 7 collects what is not modelled.

## 2. Plan

The viewing protocol comes first: it is the heart of the product, has three
kinds of actors (two participants, several workers, the clock), and everything
after it (attendance, reviews) builds on its rows.  Media is the only component
whose state is split between the database and another store.  The rest follows
the life of an Interaction, then of a listing, then who may act at all.

| Step | Modules | Promise | Status |
|---|---|---|---|
| 1 | `ViewingGuard`, `ViewingEpisodes` | guard of the database; one current appointment; timers | done; exclusion, timers and types proved |
| 2 | `ViewingCommands` (extends 1) | effects once, on the version seen; implements the guard | done; effects and both refinements proved |
| 3 | `ViewingAppointments` (extends 1) | rescheduling by agreement; reminders of the schedule | done; all three invariants proved |
| 4 | `PhotoLifecycle`, `MediaPipeline` | the pipeline implements the lifecycle | done; refinement proved, files and jobs proved for one worker |
| 5 | `ViewingAttendance` | claims are timed, govern the appointment, and settle | done; timers, governance and offers proved |
| 6 | `AttendanceAdjudication` (extends 5) | slots and absences follow the outcome in force | done; used slots and effects proved |
| 7 | `Reviews`, `ReviewModeration` (extends it) | double blind; together or late; counted exactly | done; all four properties proved |
| 8 | `Listings` | what the public sees was approved as it is | done; all but liveness proved |
| 9 | `Organizations` | an owner remains; transfers and grants stand | done; all three proved |
| 10 | `Conversations`, `ConversationPage` (extends it), `MessageReceipts` | messages once; the block gate; history without gaps; receipts | done; all proved |
| 11 | `ViewingPage`, `ListingSearch` | refusals are final; pages of a search skip nothing that stayed | done; all proved |
| 12 | `PhoneOwnership`, `StaffSessions`, `StaffLogin`, `WebSessions` | codes, token rotation, logins and logouts | done; all proved |
| 13 | `ProviderVerification`, `AuthorityRisk`, `Analytics` | claims, risk decisions, the report | done; all proved |

Every safety and action property of a passing run is now a theorem as well.  What is
left to TLC alone is liveness: `ClaimsSettle`, `DeletionCompletes`, `ExpiryHonoured`.
## 3. Modules

An operation that is one transaction and locks the rows it decides about before it
reads them is one action.  A transaction that reads a row without a lock and waits for
another one afterwards is a step that reads and a step that acts on what was read
(`ProviderVerification`, `Conversations`, `MediaPipeline`).  Operations of several
transactions, or with calls to other systems in between, are one action per
transaction or call; a web route that reads a cookie and answers later with a new one
is two steps at least (`StaffLogin`).  Versions, keys and receipts
follow one protocol in all stores; it is modelled once, in `ViewingCommands`, and
left out elsewhere (a command under an old version or a used key writes nothing).
The header of each module states its abstractions.

### Viewing

`ViewingGuard` is the abstract specification: one row per episode, and the
inserts and updates that constraints and triggers of migrations 0033-0038 let
through, whoever writes them.

`ViewingEpisodes` has a row, an event log and an expiry job per episode, and the
jobs each worker run holds.  `expireOnce` is several actions: `Lease` is its first
transaction; per job, `Handle`, `SkipBusy` (row locked by a command) or `LoseLease`
is its second; `Crash` lies between them.

| Model | Code |
|---|---|
| `viewings[e]` | row of `viewings`; `validated` is `validated_at` set |
| `events[e]` | rows of `viewing_events`; the position is the sequence |
| `actions[e]` | row of `viewing_scheduled_actions` with kind `EXPIRE_REQUEST` |
| `jobs[w]` | the array a run of `expireOnce` walks through |
| `eligible` | the answer of `contextEligible`, free to change at any step |
| `now` | `statement_timestamp()` |

`ViewingCommands` adds the envelope: requests in flight, which stay there and so
are delivered late, again and in any order, and `receipts` under the unique key of
a user.  `Execute` is the whole of `ViewingStore.command`: receipt lookup, version
check, operation, receipt.

`ViewingAppointments` adds `proposals`, `history`, `plans`, `work` (the two
reminders and the proposal expiry, each with a lease) and `notices`, and gives each
inherited operation its additional effect (`Inherited`): a schedule is planned
when a viewing gets `SCHEDULED`, and `CloseAppointment`, a trigger, drops what a
viewing leaves open when it ends.

### Attendance and its adjudication

`ViewingAttendance` follows an appointment from its start: a side claims, the
other one confirms or disputes, and 48 hours of silence are closed by the leased
worker (`Lease`, then per job `HandleJob`, with `Crash` in between).  `outcomes` is
`attendance_effective_state`, `claims` the claims in order, `slots` the two review
eligibilities that the `boundary`, the first completed viewing, opens.  `HandleJob`
takes the lease check, the busy row and the restricted context as in the code.
`CanConfirm` and `CanDispute` are what the read model offers, written apart from the
commands in the code and so here; `OffersKept` compares the two.

`AttendanceAdjudication` extends it with `cases`, `appeals` and the `reviewers` who
may act now.  A decision moves the outcome, the absences and the slots of the whole
Interaction; each side may appeal once and the answer replaces the decision.
`consumed` are the slots a review has used.

### Reviews

`Reviews` begins when the slots open.  `slots` and `reviews` are indexed by
direction, `jobs` are the rows of `review_scheduled_actions` (reveal and reminder), and
`reputation` is what the aggregate counts.  Attendance appears as the dispute,
decision and reversal that change it.  A run of the worker leases a job under its token
(`Lease`) and handles it later (`CloseWindow`, `Remind`, `GoesBack`), if the job still
carries that token (`Holds`).  The lease lasts a minute, nothing next to the days of this
module, so another run may take it over at any time; a run that dies just goes no
further.  `ReviewModeration` adds reports and cases: take up,
suppress, restore, resolve and reopen.

### Media

`PhotoLifecycle` is the abstract specification: the moves of an asset, that a photo
is attached once and never to a listing after it was taken off, that a photo leaves
the listing before it leaves `READY`, and that the cover is a `READY` photo of the
listing.

`MediaPipeline` models the API request (`Authorize` to `CancelUpload`, with
`ApiDies` at any point), the provider's commands, submission, and the worker,
whose pass is split at every point where it leaves the database:
`ClaimProcessing`, `Read`, `WriteVariants`, `MarkReady`, and `ClaimCleanup`,
`RemoveFiles`, `MarkDeleted`, with `Crash` in between.

| Model | Code |
|---|---|
| `asset[a]` | row of `media_assets`; `due` once `cleanup_after` or `upload_expires_at` has passed |
| `job[a]` | row of `media_processing_jobs`; `due` once backoff or lease has passed |
| `photos`, `order`, `cover` | rows of `listing_media` |
| `files[a]` | what the storage holds: the quarantined original, the derivatives |
| `uploads[a]` | how far the request handler of `property.controller.ts` is |
| `worker[w]` | local variables of `processOneMediaJob` |

`ReadyDuringRemove` is the one overlap of two transactions without a serial order:
`markReady` and `remove` lock different rows first and read each other's old values.

### Listings

`Listings` follows one listing from draft to expiry.  Its `content` is four
counters (revision, terms, specs, photos), so that "the same content" is equality.
`seen` is what a moderator has opened, `submissions` what each revision was
submitted with, `reminders` one row per expiry and lead.  `Visible` is the
predicate of `listing-visibility.ts`.  The switch of the region and everything
readiness asks of the provider are one Boolean that comes and goes.

`ListingSearch` is the search page over `public-listing.ts`: a page of results is
gathered in batches, each read in one snapshot and judged visible in a later one;
the next page starts after a cursor.  Approval times have two instants to the
millisecond, of which the cursor keeps the millisecond.  What is found is kept as the
rows that were read: a listing that moves behind the cursor is found again and takes a
second place in the page, as in the code.

### Organizations

`Organizations` has the members with their roles and states, invitations, pending
transfers and assignments of a resource.  Every command locks the organization's
row, so a command is one step.  An "episode" counts the memberships a user has had:
`NoInheritedGrant` is about assignments of an earlier one.  The triggers of 0031
that end a transfer are part of the actions that fire them; the constraint trigger
that would abort a transaction without an owner is left out, so that `OwnerKept` is
a statement about the stores.

### Conversations and the pages

`Conversations` is the server: a send is two steps, its checks and its commit, and
holds the locks that a block waits for.  `ConversationPage` extends it with the
browser: the draft, the pending attempt, the generation that answers must carry, the
cursor of older messages, ten-second time-outs after which a send may still be
executed.  `MessageReceipts` has the receipts of one user, the acknowledgements under
way and the page's visibility; each effect of the page acknowledges what it displays.

`ViewingPage` is the details page: the viewing and the controls of the appointment,
attendance and review, each with its own load, attempt and retry, over one version of
the viewing and one of the review.  A behaviour has the review control, or the two
controls that share the viewing's version; `controls` says which.

### Who may act

| Module | State | Steps |
|---|---|---|
| `PhoneOwnership` | `challenges`, `owner` | request (cooldown, window), result of the sender in a transaction of its own, confirm with attempts, change of owner |
| `StaffSessions` | `session`, `provider`, `page`, `holder` | pages that refresh under a row lock held from read to commit; lost answers and commits; logout at host and provider, which may come again and then gives the same token |
| `StaffLogin` | `begun`, `codes`, `cookie`, `request`, `sessions` | requests of one browser that overlap: login (`AskLogin`, `BeginLogin`, `LoginAnswered`), callback (followed once, twice or late, exchange, wait for the provider's clock, register, revoke the session before), logout (`AskLogout`, `LogOut`, `LogoutAnswered`). Each works on the cookie it has read, and its answer, if it arrives, replaces the cookie as a whole. Host ticks are half seconds, the provider signs whole ones |
| `WebSessions` | `web`, `api`, `accepts`, `work` | three places know a token family: web server (refresh without a lock), API (registers each family it meets, keeps tombstones), provider (rotates) |
| `ProviderVerification` | `cases`, `claim`, `profile`, `asked`, `deciding`, `expiring`, `waiting`, `published` | onboarding, submission and renewal, assignment, reads of evidence, decisions past the guard and later in a transaction, approval and confirmation of a listing, expiry. `expireClaims` locks and then writes (`ExpireClaimsLocks`, `ExpireClaims`); a refusal (`DecideReads`, `Decide`), an edit of the profile (`OnboardReads`, `Onboard`) and an approval (`ApproveReads`, `ApproveListing`) read the claim, which nothing keeps from ending, and wait for it. 12 months are `Validity`, the last 30 days `Renewal` |
| `AuthorityRisk` | `source`, `risk`, `adverse`, `evaluation` | evaluation over rows that triggers count on one clock; cases reviewed, confirmed, resolved; revocation |
| `Analytics` | `sources`, `projected`, `held` | contacts and responses with their outboxes; consumers that look, lock with `SKIP LOCKED`, project or fail; the cohort report |

## 4. Runs

Two TLC workers; sizes are distinct states.

| Run | Instance | States | Shows |
|---|---|---|---|
| `viewing_commands` | 2 episodes, 2 worker runs, 2 keys, 5 requests, clock 0..2 | 872,534 | the slot is exclusive, timers follow requests, effects once and on the version seen; every write passes the guard |
| `viewing_appointments` | 1 episode, 2 worker runs, 1 proposal, starts 1 and 3, clock 0..3 | 851,322 | a proposal against expiry and cancellation; joint approval; reminders of the current schedule, once, in their window, leases taken over included |
| `media_single` | 2 photos, 1 worker, 3 attempts | 111,993 | files, jobs and assets in step; implements the lifecycle |
| `media_liveness` | 2 photos, 1 worker, 1 attempt | 18,600 | deletions complete |
| `media_takeover` | 2 photos, 2 workers, 2 attempts | violation | finding 1 |
| `attendance_timers` | 2 viewings, 2 worker runs, clock 0..4, restrictions | 61,632 | unanswered claims keep their timer and settle; offers are accepted |
| `attendance_disputes` | 2 viewings of one Interaction, 2 schedules each, 1 moderator, 1 appeal per side, clock 0..4 | 1,735,158 | claims govern the appointment; slots and absences follow the outcome |
| `reviews` | both directions, window 2, clock 0..3, 2 staff decisions, 2 worker runs | 1,509,790 | double blind, together or late, counted exactly, never forgotten by runs that take over each other's leases |
| `listings` | 3 revisions, 3 terms, 2 specs, 2 photo sets, fresh for 2, clock 0..3 | 576,560 | visible content was approved; decidable; expiry honoured |
| `organizations` | 3 people, 2 memberships each, 1 unable at a time | 301,346 | an owner remains; transfers and grants stand |
| `conversations` | 3 messages, 2 texts, pages of 1; viewing page: 2 requests, 1 change by the other side; search: 3 listings, batches and pages of 2, 2 changes; receipts: 2 messages, batches of 1 | 2,735,808 | messages once, history whole, block gate, receipts, refusals, search |
| `trust` | 2 users, phones, pages, requests of a browser, families, staff, principals, contacts, consumers; see `Trust.cfg` | 1,608,732 | the seven protocols of "Who may act" |

`MCConversations` and `MCTrust` check components that share no state: a behaviour
picks one part and leaves the others at rest, so states add up instead of
multiplying, and no interleaving is lost.

**Why these bounds are enough.**  Exclusion concerns two episodes.  Two worker runs
are what a takeover needs; a third would take over what the second lost.  Start
times 1 and 3 put the start before and after the end of the response window, so both
arms of `least(now + 48h, start)` occur.  A proposal that replaces a decided one
differs from it in its row alone, so one is explored against everything else.  Two
reminders have different windows, and `Day`, `TwoHours` are chosen so that a schedule
may have both, one or none ahead.  Two photos are one that is the cover and one that
may take its place; three attempts are a first, a middle and a last one;
`media_single` was also run once with three photos and two attempts, without an
error (3,945,445 states; too long for a regular run).  Two viewings of an Interaction
are the first completed one, which owns the boundary, and a later one, whose dispute
holds the same slots.  A window of two has a moment before the reminder, one after,
and one past the end; a run comes to
the reminder of one side (`Reminded`), as those of both are handled alike.  Two schedules of a
viewing are one and the one that replaces it.  Three revisions are a draft, a correction and a change after
publication.  Three people are two parties of a transfer and an owner who interferes;
a second membership is the first that can be confused with an earlier one.  Pages and
batches of one or two rows make every page a full one at times and a last one at
others; a page of the search must hold two for a listing that moves behind the cursor
to be found twice in one page.  The search alone was also run once with four listings
(4,317,804 states) and once with pages of one, without an error.  Two users, phones, families or
consumers are the conflict itself.  A second assignment of a verification case changes only who may decide it.  `Trust.cfg` lets
clocks go far enough for a claim to be renewed, to expire and to be claimed again,
and for a source of risk to change and change back.  Bounds without counterpart in the
code have names that begin with `Max`; `controls` in `ViewingPage` is one too.
Numbers of episodes, assets, cases and the like are bounds on creations, as
identifiers are not used twice.

**Symmetry** is used for workers, episodes, viewings, assets, keys, ratings, people and
staff where only safety is checked (the two ratings are never compared by size).  In `Trust.cfg` a model value stands for members of several sets
(a staff member, a page, a callback) that never meet in one part.

**Deadlock** is checked in `viewing_commands`, `viewing_appointments` and
`organizations`, where eligibility may always change.  The other systems rest once the
bounded inputs are used up.

**Fairness.**  Clients, participants, moderators and staff are never fair.

- Attendance (`Live`): time passes (`WF` on `Tick`); the timer starts runs for ever
  (`WF` on `Lease`) and a run goes on or dies (`WF` on `Handling`).  `HandleJob` of each
  viewing is strongly fair, because a lease that is lost or a row that is locked
  disables it again and again; nobody holds the same lock at every attempt.
  `ClaimsSettle` asks that nothing restricts the Interaction from some time on: the
  worker gives back the jobs of a restricted one (`ReleaseJob`).
- Media (`Spec`): time passes (`CleanupDue`, `JobDue`); a pass goes on or dies
  (`Process`).  Strong fairness for the claims of the worker (oldest first, so none is
  overtaken for ever), `RemoveFiles` and `MarkDeleted`, which a crash disables.
- Listings (`Spec`): `expireOnce` and the planning of reminders run every few seconds
  in the worker (`WF`).

No run assumes that a worker does not crash; each may at any point, any number of
times while its lease still runs out within the clock.

**Reach of some properties.**  `viewing_commands` never has a dispute: that a second
request waits for an unsettled one is in `OneCurrentAppointment` and in the guard, and
proved with them, but no run comes to it.  `OffersKept` compares what is offered in a state
with what is accepted in that state; what changes between the two is in `ClaimTimed`.
`LoginOfItsOwn` leaves out, in its second half, a browser in which the cookie of a new session
crossed another request or never came (finding 9).  `ClaimBacked` allows the profile
that a refusal overtaken by the end of the claim shows (finding 8).

**Reach of the media properties.**  `ImplementsLifecycle` holds for any number of
workers.  `FilesAndJobsFollow` is claimed for one worker process at a time, which may
crash and restart: with two, finding 1 is what happens to it.

## 5. Proofs

Each module of theorems has, per component, one inductive invariant whose parts are
named, a lemma for the initial states, one per action or kind of action, and the
theorem.  The larger ones (`AppointmentInv`, `Follow`, `SearchInv`) were checked by TLC on
the instance of their run before they were proved.  The assumptions are those named in the component's module.

**`ViewingEpisodes_proofs`** (`StartsAssumption`, `TimesAssumption`,
`WorkersAssumption`, for appointments `LeadsAssumption` and `ProposalsAssumption`), for any
episodes, worker runs, start times, keys and clock:

- `TypeCorrect`: `TypeOK` is inductive.
- `OneCurrentCorrect`: `Holds(v)` says which row occupies the slot; only `Create` takes
  it and asks that nobody holds it, and no other step lets a row that was free hold it.
- `TimerCorrect`: `TimerArmed` has two halves, that an open action belongs to exactly
  the requests that wait, and that a processed one belongs to exactly those that
  expired.  Neither is inductive alone; together they are.
- `GuardedCorrect`, `CommandsGuarded`: every step maps to a step or a stutter of
  `ViewingGuard`.  Needed besides types is `Unscheduled`: a request has no
  schedule yet, and no row is between two.
- `CommandsImplement`: the rows of `ViewingCommands` move as `ViewingEpisodes` lets
  them, so what is proved of operations holds of commands, delivered as they may be.
- `EffectsOnceCorrect`: with `CommandInv`.  Receipts and events are counted, so the proof
  carries a bijection between them (`Counted`), and the length of each event log is the
  version of its row (`Numbered`): a stale version is one whose event has been written.
- `ProposalArmedCorrect`, `JointlyReplacedCorrect`, `RemindersCorrect`: with
  `AppointmentInv`, a statement about the rows of one episode.  `Chained` says which
  proposal made each schedule; it survives a finalization because `Proposed` has the base
  of a pending proposal equal to the schedule in force.  `Reminding` says that open
  reminders are of the current schedule, `Reminded` that one is processed exactly when
  its notice was written; and that a job once used belongs to a schedule that was
  planned, so that planning does not reopen it.

**`MediaPipeline_proofs`** (`LimitsAssumption`, `AssetsAssumption`), for any assets,
workers and limits:

- `MediaTypeCorrect`: `MediaTypeOK` is inductive; its cover conjunct is the one that
  needs work, as `Detach`, `MarkReady` and `Reorder` each choose it differently.
- `LifecycleCorrect`: `MediaPipeline` implements `PhotoLifecycle`.  The invariant is
  `MediaInv == MediaTypeOK /\ Shown`; `Shown` says that the cover is `READY` and no
  attached photo is `ABSENT` or `DELETED`.  Without it a step could attach a photo
  twice or show a cover that is not ready.  The lemmas `QuietStep`, `OneMove`,
  `OneOff` say what an action may do to one asset; each action is one of these.
- `FilesAndJobsCorrect`: with at most one worker process, which may die at any point.
  `Matched` relates a row to its job, files and upload, `InHand` to what the worker
  holds of it.  With two workers `InHand` fails: what one holds, another may have
  completed.  That is finding 1, so the hypothesis cannot be dropped.

**`Attendance_proofs`** (`TimesAssumption`, `NoneAssumption`, `StaffAssumption`), for any
viewings, worker runs, staff, start times and windows:

- `ClaimTimedCorrect`, `OffersKeptCorrect` hold of `ViewingAttendance`.
- `ClaimGovernsCorrect`, `ConsumedCorrect`, `EffectsFollowCorrect` hold of
  `AttendanceAdjudication`, decisions and appeals included.

The invariant is a statement about the four rows of one viewing (`Story`): `ClaimTimed`
and `ClaimGoverns`, and that there are claims exactly when there is an outcome and the
first one is pending while it is awaited.  Without the last part a run could close the
timer of a claim it finds contested.  `OneViewing` says that a step may be judged by the
rows it writes; a lease, which writes jobs alone, is `JobsKeep`.  `OffersKept` follows
from `Story`: what is offered is read from the same rows the command reads again.  For
decisions, `StaffInv` adds that a case is about an outcome once disputed, which no step
makes awaited again (`DisputedForGood`), and `SlotsOfBoundary` that there are no slots
before there is a first completed viewing, so that none is opened twice.  `EInv` adds
that an absence is on record until its viewing has a case (`Absences`) and that the slots
follow the outcome of the first completed viewing (`SlotsFollow`), which needs that one
to be no longer awaited (`BoundaryRow`).

**`Organizations_proofs`** (`OrganizationAssumption`), for any people, roles and bounds:

- `OwnerCorrect`: an active owner remains.
- `TransfersCorrect`: an open transfer is from an active owner to an active member who
  is no owner.
- `GrantsCorrect`: whoever joins has no grant of an earlier membership.

The first two follow from the inductive invariant `IInv`, the types together with the two
properties: `OwnerKept` survives the completion of a transfer only because the
recipient is an active member, which is what `TransfersStand` says of it.  The third
is an action property and follows from `IInv` and `GrantsOfMembers`: an assignment
names a membership its user has had, and never one that is still an invitation.  That
is inductive because every step continues a row's membership or begins a new one with
an invitation, and only `Assign` grants, to an active member (`StepContinues`).

**`Listings_proofs`** (`ListingAssumption`): `VisibleAsSeenCorrect`, `DecidableCorrect`,
`PublishedCorrect`, for any market, windows and bounds.  A decision compares revisions, not
contents.  `Seen` says why this is enough: a revision that was looked at has been
submitted and so cannot be edited in place or sent again, hence what is under review
with the revision that was looked at is what was looked at.

**`Reviews_proofs`** (`ReviewAssumption`), of reviews with their moderation:
`WrittenBlindCorrect`, `RevealedTogetherOrLateCorrect`, `HeldReviewTimedCorrect`,
`CountedExactlyCorrect`, for any number of worker runs that take over each other's leases.  `Blind`: one review alone is shown only once the first window is
over.  `Slots`: deadlines only move away, an unused slot has no review, a slot is held
only while the attendance is disputed.  `HeldReviewTimed` needs `RemovedTimed`, of the
reviews that are removed now and may be restored: their job is open, or their window
is over and the restoration shows them itself.

**`Trust_proofs`** (the assumption of each module), one section per component:

| Theorem | Invariant, and what it adds to the property |
|---|---|
| `LatestCodeOnlyCorrect` | `PhoneInv`: a challenge that can be answered has no later one of its user and phone |
| `ClearedAsReadCorrect` | `AuthorityInv`: an evaluation of the current source is its outcome |
| `RotationSurvivesCorrect` | `StaffInv`: while no answer was lost, a request under way carries the token of the provider, and whoever is under way holds the lock |
| `ClaimBackedCorrect` | `VerificationInv`: a claim and its case end together (`Sourced`); a decision under way has found the claim good if it still is, and its new claim outlives the old one (`Deciding`); a provider with a case is past its draft (`Shown`); what `expireClaims` has locked is over (`Held`) |
| `EndedForGoodCorrect` | `WebInv`: what each request under way knows of its family; only one is inserting it, and only a family the API does not know |
| `LoginOfItsOwnCorrect` | `LoginInv`: a transaction is consumed by one callback and sessions have ids and authentications of their own (`Own`); unless the cookie of a new session crossed a request or got lost, a session in force is that of the cookie and the one every request under way has read (`Alone`) |
| `ReportExactCorrect` | `ReportInv`: a contact has one source and at most one response, no earlier; what is projected is of a source.  The counts agree by a bijection between sources and what was projected |

**`Pages_proofs`** (the assumption of each module), one section per page, with the server
it talks to:

- `MessagesOnceCorrect`, `HistoryCompleteCorrect`, `NoContactAfterBlockCorrect`, with
  `PageInv`.  `Keyed`: a key stands for one text and a text for one key, wherever the
  attempt has got to (page, network, transaction, table).  `Complete`: what a load that
  still counts carries reaches from its cursor to the cursor before.
- `ReceiptsFollowSightCorrect`, with `ReceiptInv`: whatever an acknowledgement or a reading
  on its way carries is backed by the server and by what was seen.
- `RefusedIsFinalCorrect`, with `ViewingInv`.  `OneAttempt`: a key is of one click, panel
  and version; `Listening`: a conflict that was answered had read an older version and
  its command took no effect; `TooLate`: whatever copies of a refused command are still
  under way carry a version that is past; `Alternately`: the lock between the panels.
- `FoundAllCorrect`, with `SearchInv`: each listing that stayed is shown, found, or still
  to come past the cursor (`Progress`, `ToCome`), and a batch is all that follows the
  cursor or the first of it (`Batched`).  The section begins with the order of listings
  and of cursors, and first and last members of finite sets.  The first attempt at this
  proof failed on `Progress`: a listing that moves behind the cursor is found and
  counted twice by the code (`public-listing.ts:43`), which the model, keeping ids, did
  not do.  It keeps candidates now, and the run has pages of two.

**Only model-checked**: liveness and everything about `ENABLED`, which the prover cannot
do (`ClaimsSettle`, `DeletionCompletes`, `ExpiryHonoured`).  `ReadyKept` is refuted by
its run.

## 6. Findings

1. `media_takeover`: a worker that outlives its two-minute lease deletes the files of
   the photo another worker made `READY` (`listing-media.ts:141`), although ADR 0005
   calls jobs idempotent and the architecture asks for a heartbeat.
2. A worker that dies in the last attempt leaves the photo `PROCESSING` for ever
   (`listing-media.ts:127`).
3. An upload completed across its expiry is not counted by the next authorization
   (`listing-media.ts:48`), so a listing can exceed its photo limit.
4. The capacity of a provider may change while a renewal is under review, once the
   claim it renews has lapsed (`provider.ts:27`).
5. A viewing command that is sending when the attendance is refreshed leaves the page
   at "Saving…", its answer unheard (`viewing-controls.tsx:273`).
6. The "newest" cursor of the search keeps milliseconds of a time with microseconds and
   may skip a listing approved in the same one (`public-listing.ts:166`).
7. The web server refreshes a session without a lock, so one of two concurrent
   requests revokes it (`server-auth.ts:22`), where ADR 0002 asks for single flight.
8. A refusal, an approval or an edit of the profile that has read a claim and waits while
   `expireClaims` ends it goes by what it has read (`provider-verification.ts:139`,
   `listing-submission.ts:116`, `provider.ts:24`): the profile stays `VERIFIED` without a
   claim, a listing is published after the provider's listings were paused.  What the
   public sees asks for the claim itself.
9. A login or logout that overlaps a callback puts back the old session or clears the
   cookie (`login/route.ts:16`, `logout/route.ts:9`): the new session lives on until it
   expires, although ADR 0002 has a reauthentication revoke the old one.

The first has a run of its own.  The others were met while modelling and are in the
models as the code has them: 2 and 3 in `MediaPipeline`, 4 in `ProviderVerification`
(`Onboard`), 5 in `ViewingPage` (`Deaf`), 6 in `ListingSearch` (`steady` leaves such
listings out of `FoundAll`), 7 in `WebSessions` (`RefreshFails`), 8 in
`ProviderVerification` (`Decide`, `ApproveListing`, `Onboard`), 9 in `StaffLogin` (`mixed`).

## 7. Not modelled

*Viewing.*  The backfills of rows older than 0034 (`prepareRemindersOnce`,
`backfillNoticesOnce`).  The branch of `appointmentsOnce` for `CONTEXT_CHANGED`: an
Interaction never changes its listing.  Batch size and order of a run.  The inbox
and outbox copies of a notice, reading and dismissing it.  What `contextEligible`
reads, one Boolean here.

*Attendance, reviews.*  Who of a side acts; evidence, reasons, reports and the audit
trail; conflicts of interest of staff, one set `reviewers`; texts and criteria of
reviews and the pages of published ones; the queues of staff.

*Media.*  Quotas over all listings of a provider (bytes, assets, per hour).  Image
contents: good or bad by choice.  A commit reported as an error, and files written in
part.  Gaps in `display_order`, which the code may leave when two transactions
overlap; the relative order is the same.  The clock: each deadline passes at a moment
of its own, which allows more orders than the code has.

*Listings.*  Fields that readiness only counts or compares; organization members as
actors; delivery of reminders; detail and media reads of the public listing; filters
of the search that do not order; the history of region configurations.

*Organizations.*  Tokens and delivery of invitations, denials, listing pages.

*Conversations and pages.*  Rate limits, beyond that a send may fail; the inbox; checks
of organization members on a resource; the page that lists viewings.  The mobile
application is a shell without features.

*Accounts.*  Unlinking of identities, the list of sessions, states of an account other
than those that admit or refuse; the limit per request fingerprint; the storage of
verification evidence and its purge; risk sources other than the principal of a listing
and the revocation of a relationship; merged properties.

*External*, modelled from its use: PostgreSQL (transactions, row locks, `SKIP
LOCKED`), object storage, the scanner and the image library, the sender of codes, the
identity provider, the browser, timers of Node.

API controllers (validation and mapping of errors), contracts and scripts have no
state of their own.
