------------------------------- MODULE Reviews -------------------------------
(***************************************************************************)
(* The two reviews that the first completed viewing of an Interaction      *)
(* allows, one in each direction: ReviewStore (review.ts) over the tables  *)
(* of migration 0036, with the effects attendance decisions have on them   *)
(* (attendance-adjudication.ts, viewing-attendance.ts).  Reviews are held  *)
(* until both are in or the window closes, and then revealed; reputation   *)
(* counts the revealed ones.  Module ReviewModeration adds staff.          *)
(*                                                                         *)
(* Abstractions.  Time starts when the slots open.  A lease lasts a minute, *)
(* nothing next to the days of this module, so another run of the worker   *)
(* may take any lease over; a run that died is one that takes no further   *)
(* step.  The due time is always a distance from closes_at.  Versions,     *)
(* keys and receipts are those of the viewing commands; a slot whose       *)
(* version changed is no longer OPEN, or has its jobs rearmed.  Text and   *)
(* criteria are left out.                                                  *)
(***************************************************************************)
EXTENDS Integers

CONSTANTS Ratings,       \* the ratings that are given
          Window,        \* seven days
          Reminders,     \* the kinds of reminder: "REMINDER_3D", "REMINDER_1D"
          Early, Late,   \* three days and one day before the window closes
          Runs,          \* runs of the reveal worker, by the token of their leases
          Reminded,      \* bound: the directions whose reminders a run comes to
          Unsteady,      \* bound: the directions whose author may lapse
          MaxDecisions,  \* bound: staff decisions about the attendance
          MaxTime        \* bound: the clock stops here

ASSUME ReviewAssumption ==
  /\ 0 \notin Ratings /\ {Window, MaxDecisions, MaxTime} \subseteq Nat
  /\ {Early, Late} \subseteq 1..Window /\ Late < Early
  /\ Reminders \subseteq {"REMINDER_3D", "REMINDER_1D"}
  /\ Runs \cap {"PENDING", "PROCESSED", "SKIPPED"} = {}

VARIABLES now,
          trusted,       \* everything reviewContext and safe() read but attendance
          lapsed,        \* the directions whose author lost the account or the phone
          attendance,    \* the effective outcome of the viewing
          decisions,     \* how many decisions staff have taken
          slots,         \* viewing_review_eligibilities
          reviews,       \* reviews, with published_at as a flag
          jobs,          \* review_scheduled_actions; a job that is LEASED by its lease_token
          reputation     \* review_reputation: the rating counted for a direction, or 0

context == <<now, trusted, lapsed, attendance, decisions>>
vars == <<now, trusted, lapsed, attendance, decisions, slots, reviews, jobs, reputation>>

Directions == {"SEEKER_TO_PROVIDER", "PROVIDER_TO_SEEKER"}
Other(d) == CHOOSE o \in Directions : o # d
Kinds == {"REVEAL_DEADLINE"} \cup Reminders

Lead(kind) == CASE kind = "REVEAL_DEADLINE" -> 0
                [] kind = "REMINDER_3D" -> Early
                [] kind = "REMINDER_1D" -> Late

Unwritten == [state |-> "NONE", rating |-> 0, published |-> FALSE]

Init == /\ now = 0 /\ trusted = TRUE /\ lapsed = {}
        /\ attendance = "COMPLETED" /\ decisions = 0
        /\ slots = [d \in Directions |-> [state |-> "OPEN", closes |-> Window, used |-> FALSE]]
        /\ reviews = [d \in Directions |-> Unwritten]
        /\ jobs = [d \in Directions |-> [k \in Kinds |-> "PENDING"]]
        /\ reputation = [d \in Directions |-> 0]

safe(att) == trusted /\ att = "COMPLETED"
Safe == safe(attendance)
-----------------------------------------------------------------------------
(* What the operations share.                                                *)

Eligible(texts, seats, d) ==
  texts[d].state = "SUBMITTED_HELD" /\ seats[d].state = "CONSUMED" /\ d \notin lapsed

\* Mutant of Reciprocal: a withdrawn or hidden review counts as the other one.
ReciprocalSubmitted(texts, seats) == \A d \in Directions : texts[d].state # "NONE"

Reciprocal(texts, seats) == \A d \in Directions : Eligible(texts, seats, d)

\* The reviews that reveal() publishes: both at once, or those whose time has come.
Revealed(texts, seats) ==
  {d \in Directions : /\ Eligible(texts, seats, d)
                      /\ Reciprocal(texts, seats) \/ seats[d].closes <= now}

Reveal(texts, seats) ==
  [d \in Directions |->
     IF d \in Revealed(texts, seats) THEN [texts[d] EXCEPT !.state = "PUBLISHED", !.published = TRUE]
     ELSE texts[d]]

\* The view eligible_published_reviews.
Live(texts, seats, att) ==
  [d \in Directions |->
     IF texts[d].state = "PUBLISHED" /\ seats[d].state = "CONSUMED" /\ d \notin lapsed /\ safe(att)
     THEN texts[d].rating ELSE 0]

\* A step that may reveal: the new reviews, and the sums if any was published.
Reveals(texts, seats) ==
  IF Safe /\ Revealed(texts, seats) # {}
  THEN /\ reviews' = Reveal(texts, seats)
       /\ reputation' = Live(Reveal(texts, seats), seats, attendance)
  ELSE reviews' = texts /\ UNCHANGED reputation
-----------------------------------------------------------------------------
(* The authors' commands.                                                    *)

Submit(d, rating) ==
  /\ slots[d].state = "OPEN" /\ Safe /\ d \notin lapsed /\ now < slots[d].closes
  /\ slots' = [slots EXCEPT ![d].state = "CONSUMED", ![d].used = TRUE]
  /\ Reveals([reviews EXCEPT ![d] = [Unwritten EXCEPT !.state = "SUBMITTED_HELD", !.rating = rating]],
             slots')
  /\ UNCHANGED <<context, jobs>>

\* Mutant of CanEdit: a review may be edited until the window closes.
CanEditWritten(d) == reviews[d].state # "NONE"

CanEdit(d) == reviews[d].state = "SUBMITTED_HELD"

Edit(d, rating) ==
  /\ CanEdit(d) /\ Safe /\ d \notin lapsed /\ now < slots[d].closes
  /\ reviews' = [reviews EXCEPT ![d].rating = rating]
  /\ UNCHANGED <<context, slots, jobs, reputation>>

\* Mutant of Withdrawn: the sums keep the review until the next reconciliation.
WithdrawnCounted(d) == reviews' = [reviews EXCEPT ![d].state = "WITHDRAWN"] /\ UNCHANGED reputation

Withdrawn(d) == /\ reviews' = [reviews EXCEPT ![d].state = "WITHDRAWN"]
                /\ reputation' = Live(reviews', slots, attendance)

Withdraw(d) ==
  /\ reviews[d].state \notin {"NONE", "WITHDRAWN"}
  /\ Withdrawn(d)
  /\ UNCHANGED <<context, slots, jobs>>
-----------------------------------------------------------------------------
(* What attendance does to the slots.                                        *)

\* A late dispute holds the unused slots; published reviews only leave the view.
Dispute ==
  /\ attendance = "COMPLETED" /\ decisions = 0 /\ attendance' = "DISPUTED"
  /\ slots' = [d \in Directions |->
                 IF slots[d].state = "OPEN" THEN [slots[d] EXCEPT !.state = "HELD"] ELSE slots[d]]
  /\ UNCHANGED <<now, trusted, lapsed, decisions, reviews, jobs, reputation>>

Latest == CHOOSE t \in {slots[d].closes : d \in Directions} :
            \A d \in Directions : slots[d].closes <= t

\* A slot that is used keeps its deadline once its review was revealed or withdrawn.
Restored(d) ==
  LET spent == slots[d].used /\ (reviews[d].published \/ reviews[d].state = "WITHDRAWN")
  IN  [state  |-> IF slots[d].used THEN "CONSUMED" ELSE "OPEN",
       closes |-> IF spent THEN slots[d].closes
                  ELSE IF Latest > now + Window THEN Latest ELSE now + Window,
       used   |-> slots[d].used]

\* Mutant of Rearmed: a job that was done or skipped before stays as it is.
RearmedOnce(outcome) ==
  [d \in Directions |-> [k \in Kinds |->
     IF outcome = "COMPLETED" THEN jobs[d][k] ELSE "SKIPPED"]]

Rearmed(outcome) ==
  [d \in Directions |-> [k \in Kinds |-> IF outcome = "COMPLETED" THEN "PENDING" ELSE "SKIPPED"]]

\* A decision, or the answer to an appeal, restores or revokes both slots, then
\* reveals what may be revealed and counts again.
Decide(outcome) ==
  /\ decisions < MaxDecisions /\ now + Window <= MaxTime
  /\ attendance = "DISPUTED" \/ decisions > 0
  /\ decisions' = decisions + 1 /\ attendance' = outcome
  /\ slots' = [d \in Directions |-> IF outcome = "COMPLETED" THEN Restored(d)
                                    ELSE [slots[d] EXCEPT !.state = "REVOKED"]]
  /\ jobs' = Rearmed(outcome)
  /\ reviews' = IF safe(outcome) THEN Reveal(reviews, slots') ELSE reviews
  /\ reputation' = Live(reviews', slots', outcome)
  /\ UNCHANGED <<now, trusted, lapsed>>
-----------------------------------------------------------------------------
(* reviewsOnce and reconcileOnce.                                            *)

Due(d, kind) == slots[d].closes - Lead(kind) <= now

Settle(d, kind, state) == jobs' = [jobs EXCEPT ![d][kind] = state]

Open == {"PENDING"} \cup Runs

\* A run takes a job that is due, or one that another run does not give back.
Lease(w, d, kind) ==
  /\ jobs[d][kind] \in Open \ {w} /\ Due(d, kind)
  /\ kind \in Reminders => d \in Reminded
  /\ Settle(d, kind, w)
  /\ UNCHANGED <<context, slots, reviews, reputation>>

\* Who has lost the lease finds the job busy and does nothing.
Holds(w, d, kind) == jobs[d][kind] = w

\* The window is closed: what is held and may be shown is revealed.  The job stays
\* while this slot's review is still neither shown nor ruled out.
CloseWindow(w, d) ==
  /\ Holds(w, d, "REVEAL_DEADLINE") /\ Due(d, "REVEAL_DEADLINE") /\ Safe
  /\ Reveals(reviews, slots)
  /\ LET waits == /\ slots[d].state = "CONSUMED"
                  /\ reviews'[d].state \in {"SUBMITTED_HELD", "UNDER_REVIEW", "HIDDEN"}
     IN  Settle(d, "REVEAL_DEADLINE", IF waits THEN "PENDING" ELSE "PROCESSED")
  /\ slots' = [slots EXCEPT ![d].state = IF @ = "OPEN" THEN "EXPIRED" ELSE @]
  /\ UNCHANGED context

\* The three-day reminder is sent until the one-day one is due, that until the end.
Remind(w, d, kind) ==
  /\ Holds(w, d, kind)
  /\ LET end == slots[d].closes - (IF kind = "REMINDER_3D" THEN Late ELSE 0)
         timely == slots[d].state = "OPEN" /\ Safe /\ Due(d, kind) /\ now < end
     IN  Settle(d, kind, IF timely THEN "PROCESSED" ELSE "SKIPPED")
  /\ UNCHANGED <<context, slots, reviews, reputation>>

\* A job goes back untouched while its context is not safe or is denied.
GoesBack(w, d, kind) ==
  /\ Holds(w, d, kind) /\ ~Safe
  /\ Settle(d, kind, "PENDING")
  /\ UNCHANGED <<context, slots, reviews, reputation>>

\* reconcileOnce counts every subject again.
Reconcile == /\ reputation' = Live(reviews, slots, attendance)
             /\ UNCHANGED <<context, slots, reviews, jobs>>

-----------------------------------------------------------------------------
TrustChanges == /\ trusted' = ~trusted
                /\ UNCHANGED <<now, lapsed, attendance, decisions, slots, reviews, jobs, reputation>>

AuthorChanges(d) ==
  /\ d \in Unsteady /\ reviews[d].state # "NONE" /\ lapsed' = IF d \in lapsed THEN lapsed \ {d} ELSE lapsed \cup {d}
  /\ UNCHANGED <<now, trusted, attendance, decisions, slots, reviews, jobs, reputation>>

Tick == /\ now < MaxTime /\ now' = now + 1
        /\ UNCHANGED <<trusted, lapsed, attendance, decisions, slots, reviews, jobs, reputation>>

Next ==
  \/ \E d \in Directions : \/ \E r \in Ratings : Submit(d, r) \/ Edit(d, r)
                           \/ Withdraw(d) \/ AuthorChanges(d)
  \/ \E w \in Runs, d \in Directions :
       \/ CloseWindow(w, d) \/ \E k \in Reminders : Remind(w, d, k)
       \/ \E k \in Kinds : Lease(w, d, k) \/ GoesBack(w, d, k)
  \/ Dispute \/ TrustChanges \/ Reconcile \/ Tick
  \/ \E outcome \in {"COMPLETED", "ATTENDANCE_UNCONFIRMED"} : Decide(outcome)

Spec == Init /\ [][Next]_vars
-----------------------------------------------------------------------------
(* Properties.                                                               *)

\* Double blind: nobody writes or changes a review who has been able to read the
\* other one, unless staff gave that side a new deadline after the other review had
\* been revealed (review.ts:122-139, 168-188; attendance-adjudication.ts:198).
WrittenBlind ==
  [][\A d \in Directions : reviews'[d].rating # reviews[d].rating =>
       ~reviews[Other(d)].published \/ slots[d].closes # Window]_vars

\* A review is shown for the first time when its window has closed or together with
\* the other one, never because the other one was withdrawn, hidden or restored, and
\* never while the context is unsafe (review.ts:122-139, review-moderation.ts:167).
RevealedTogetherOrLate ==
  [][\A d \in Directions :
       reviews'[d].state = "PUBLISHED" /\ ~reviews[d].published =>
         /\ trusted /\ attendance' = "COMPLETED"
         /\ \/ slots[d].closes <= now
            \/ ~reviews[Other(d)].published /\ reviews'[Other(d)].state = "PUBLISHED"]_vars

\* A review that was not yet shown nor ruled out keeps a reveal job open, so the
\* worker comes back to it whatever moderation, disputes and decisions did in
\* between; so does a slot that can still be used (review.ts:337-345).
HeldReviewTimed ==
  \A d \in Directions :
    \/ slots[d].state \in {"OPEN", "HELD"}
    \/ /\ slots[d].state = "CONSUMED" /\ ~reviews[d].published
       /\ reviews[d].state \in {"SUBMITTED_HELD", "UNDER_REVIEW", "HIDDEN"}
    => jobs[d]["REVEAL_DEADLINE"] \in Open

\* The sums never hold a review that is withdrawn, taken down or whose slot was
\* revoked: every operation that ends a publication counts again (review.ts:111-121).
CountedExactly ==
  \A d \in Directions : reputation[d] # 0 =>
    reviews[d].state = "PUBLISHED" /\ slots[d].state = "CONSUMED" /\ reputation[d] = reviews[d].rating
=============================================================================
