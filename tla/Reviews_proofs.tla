---------------------------- MODULE Reviews_proofs ----------------------------
(***************************************************************************)
(* Proofs about the reviews of a viewing together with their moderation,   *)
(* for any windows, ratings and bounds: nobody writes a review after       *)
(* reading the other one, a review is first shown in time or together with *)
(* the other one, what is held keeps a job that comes back to it, and the  *)
(* sums hold what is shown.                                                *)
(***************************************************************************)
EXTENDS ReviewModeration, TLAPS

ReviewStates == {"NONE", "SUBMITTED_HELD", "PUBLISHED", "WITHDRAWN", "UNDER_REVIEW", "HIDDEN", "REMOVED"}
SlotStates == {"OPEN", "HELD", "CONSUMED", "EXPIRED", "REVOKED"}
Counts == Ratings \cup {0}
ReviewRows == [state : ReviewStates, rating : Counts, published : BOOLEAN]
SlotRows == [state : SlotStates, closes : Nat, used : BOOLEAN]

JobStates == Open \cup {"PROCESSED", "SKIPPED"}

TypeInv ==
  /\ now \in Nat
  /\ slots \in [Directions -> SlotRows]
  /\ reviews \in [Directions -> ReviewRows]
  /\ jobs \in [Directions -> [Kinds -> JobStates]]

(* What is shown was published, what is held was not.                       *)
Flags(texts) ==
  \A d \in Directions : /\ texts[d].state = "PUBLISHED" => texts[d].published
                        /\ texts[d].state = "SUBMITTED_HELD" => ~texts[d].published

(* One review alone is shown only once the first window is over.            *)
Blind(texts) ==
  \A d, o \in Directions : texts[o].published => texts[d].published \/ Window <= now

(* The slots: deadlines only move away, an unused slot has no review, and   *)
(* slots are held only while the attendance is disputed.                    *)
Slots ==
  \A d \in Directions :
    /\ Window <= slots[d].closes
    /\ ~slots[d].used => reviews[d] = Unwritten
    /\ slots[d].state \in {"OPEN", "HELD"} => ~slots[d].used
    /\ slots[d].state = "HELD" => attendance = "DISPUTED"

(* A removed review that no job comes back to is shown when it is restored. *)
RemovedTimed ==
  \A d \in Directions :
    slots[d].state = "CONSUMED" /\ ~reviews[d].published /\ reviews[d].state = "REMOVED"
      => jobs[d]["REVEAL_DEADLINE"] \in Open \/ slots[d].closes <= now

RInv == /\ TypeInv /\ Flags(reviews) /\ Blind(reviews) /\ Slots
        /\ RemovedTimed /\ HeldReviewTimed /\ CountedExactly
LEMMA OtherIs == \A d \in Directions : /\ Other(d) \in Directions /\ Other(d) # d
                                       /\ \A e \in Directions : e = d \/ e = Other(d)
  BY DEF Other, Directions

LEMMA DeadlineKind == "REVEAL_DEADLINE" \in Kinds /\ "REVEAL_DEADLINE" \notin Reminders
  BY ReviewAssumption DEF Kinds

LEMMA OpenStates == "PENDING" \in Open /\ Open \subseteq JobStates /\ Runs \subseteq Open
                    /\ "PROCESSED" \in JobStates /\ "SKIPPED" \in JobStates
  BY DEF Open, JobStates

LEMMA InitRInv == ModerationInit => RInv
  <1>. SUFFICES ASSUME Init PROVE RInv
    BY DEF ModerationInit
  <1>0. Unwritten \in ReviewRows /\ Window \in Nat
    BY ReviewAssumption DEF Unwritten, ReviewRows, ReviewStates, Counts
  <1>1. TypeInv
    BY <1>0, OpenStates DEF Init, TypeInv, SlotRows, SlotStates
  <1>2. Flags(reviews) /\ Blind(reviews) /\ RemovedTimed /\ HeldReviewTimed /\ CountedExactly
    BY DeadlineKind, OpenStates DEF Init, Flags, Blind, RemovedTimed, HeldReviewTimed, CountedExactly, Unwritten
  <1>3. Slots
    BY <1>0 DEF Init, Slots
  <1>4. QED
    BY <1>1, <1>2, <1>3 DEF RInv
-----------------------------------------------------------------------------
(* What revealing does: a review stays as it is, and then nothing was to be *)
(* shown or its time has not come, or it is shown.                          *)
LEMMA RevealFacts ==
  ASSUME NEW texts \in [Directions -> ReviewRows], NEW seats \in [Directions -> SlotRows]
  PROVE  /\ Reveal(texts, seats) \in [Directions -> ReviewRows]
         /\ \A d \in Directions :
              \/ /\ Reveal(texts, seats)[d] = texts[d]
                 /\ ~(Eligible(texts, seats, d) /\ seats[d].closes <= now)
              \/ /\ Reveal(texts, seats)[d].state = "PUBLISHED"
                 /\ Reveal(texts, seats)[d].published
                 /\ Reveal(texts, seats)[d].rating = texts[d].rating
                 /\ texts[d].state = "SUBMITTED_HELD"
                 /\ \/ seats[d].closes <= now
                    \/ \A o \in Directions : /\ texts[o].state = "SUBMITTED_HELD"
                                             /\ Reveal(texts, seats)[o].state = "PUBLISHED"
                                             /\ Reveal(texts, seats)[o].published
  <1>1. \A d \in Directions :
          \/ d \notin Revealed(texts, seats) /\ Reveal(texts, seats)[d] = texts[d]
          \/ /\ d \in Revealed(texts, seats)
             /\ Reveal(texts, seats)[d] = [texts[d] EXCEPT !.state = "PUBLISHED", !.published = TRUE]
    BY DEF Reveal
  <1>2. \A d \in Directions : Reveal(texts, seats)[d] \in ReviewRows
    BY <1>1 DEF ReviewRows, ReviewStates
  <1>3. \A d \in Revealed(texts, seats) : /\ Reveal(texts, seats)[d].state = "PUBLISHED"
                                          /\ Reveal(texts, seats)[d].published
                                          /\ Reveal(texts, seats)[d].rating = texts[d].rating
                                          /\ texts[d].state = "SUBMITTED_HELD"
    <2>1. ASSUME NEW d \in Revealed(texts, seats)
          PROVE  d \in Directions /\ texts[d] \in ReviewRows /\ texts[d].state = "SUBMITTED_HELD"
      BY <2>1 DEF Revealed, Eligible
    <2>2. ASSUME NEW d \in Revealed(texts, seats)
          PROVE  /\ Reveal(texts, seats)[d].state = "PUBLISHED" /\ Reveal(texts, seats)[d].published
                 /\ Reveal(texts, seats)[d].rating = texts[d].rating
      <3>1. Reveal(texts, seats)[d] = [texts[d] EXCEPT !.state = "PUBLISHED", !.published = TRUE]
        BY <1>1, <2>1, <2>2
      <3>2. QED
        BY <2>1, <2>2, <3>1 DEF ReviewRows
    <2>3. QED
      BY <2>1, <2>2
  <1>4. Reciprocal(texts, seats) => \A o \in Directions : o \in Revealed(texts, seats)
    BY DEF Reciprocal, Revealed
  <1>5. Reveal(texts, seats) \in [Directions -> ReviewRows]
    BY <1>2 DEF Reveal
  <1>6. ASSUME NEW d \in Directions
        PROVE  \/ /\ Reveal(texts, seats)[d] = texts[d]
                  /\ ~(Eligible(texts, seats, d) /\ seats[d].closes <= now)
               \/ /\ Reveal(texts, seats)[d].state = "PUBLISHED"
                  /\ Reveal(texts, seats)[d].published
                  /\ Reveal(texts, seats)[d].rating = texts[d].rating
                  /\ texts[d].state = "SUBMITTED_HELD"
                  /\ \/ seats[d].closes <= now
                     \/ \A o \in Directions : /\ texts[o].state = "SUBMITTED_HELD"
                                              /\ Reveal(texts, seats)[o].state = "PUBLISHED"
                                              /\ Reveal(texts, seats)[o].published
    <2>1. CASE d \in Revealed(texts, seats)
      <3>1. Reciprocal(texts, seats) \/ seats[d].closes <= now
        BY <2>1 DEF Revealed
      <3>2. QED
        BY <2>1, <3>1, <1>3, <1>4
    <2>2. CASE d \notin Revealed(texts, seats)
      BY <1>1, <2>2 DEF Revealed
    <2>3. QED
      BY <2>1, <2>2
  <1>7. QED
    BY <1>5, <1>6

LEMMA RevealKeeps ==
  ASSUME NEW texts \in [Directions -> ReviewRows], NEW seats \in [Directions -> SlotRows],
         Flags(texts), Blind(texts), now \in Nat, \A d \in Directions : Window <= seats[d].closes
  PROVE  Flags(Reveal(texts, seats)) /\ Blind(Reveal(texts, seats))
  <1>1. Flags(Reveal(texts, seats))
    BY RevealFacts DEF Flags
  <1>2. ASSUME NEW d \in Directions, NEW o \in Directions, Reveal(texts, seats)[o].published
        PROVE  Reveal(texts, seats)[d].published \/ Window <= now
    <2>1. Window \in Nat /\ seats[o].closes \in Nat /\ Window <= seats[o].closes
      BY ReviewAssumption DEF SlotRows
    <2>2. texts[d].published => Reveal(texts, seats)[d].published
      BY RevealFacts
    <2>3. CASE texts[o].published
      BY <2>2, <2>3 DEF Blind
    <2>4. CASE ~texts[o].published
      <3>1. \/ seats[o].closes <= now
            \/ \A e \in Directions : Reveal(texts, seats)[e].published
        BY <1>2, <2>4, RevealFacts
      <3>2. QED
        BY <2>1, <3>1
    <2>5. QED
      BY <2>3, <2>4
  <1>3. QED
    BY <1>1, <1>2 DEF Blind

(* The sums are right whenever they are counted.                            *)
LEMMA LiveCounts ==
  ASSUME NEW texts, NEW seats, NEW att
  PROVE  /\ \A d \in Directions : Live(texts, seats, att)[d] # 0 =>
              /\ texts[d].state = "PUBLISHED" /\ seats[d].state = "CONSUMED"
              /\ Live(texts, seats, att)[d] = texts[d].rating
  BY DEF Live
-----------------------------------------------------------------------------
(* A step that may reveal, from the reviews the command left.               *)
LEMMA RevealStep ==
  ASSUME RInv, NEW texts \in [Directions -> ReviewRows], Flags(texts), Blind(texts),
         slots' \in [Directions -> SlotRows], \A d \in Directions : Window <= slots'[d].closes,
         now' = now, reviews' = texts \/ reviews' = Reveal(texts, slots')
  PROVE  /\ reviews' \in [Directions -> ReviewRows] /\ Flags(reviews)' /\ Blind(reviews)'
         /\ \A d \in Directions : \/ reviews'[d] = texts[d]
                                  \/ /\ reviews'[d].published /\ reviews'[d].state = "PUBLISHED"
                                     /\ reviews'[d].rating = texts[d].rating
                                     /\ texts[d].state = "SUBMITTED_HELD"
  <1>0. now \in Nat
    BY DEF RInv, TypeInv
  <1>1. CASE reviews' = texts
    BY <1>1 DEF Flags, Blind
  <1>2. CASE reviews' = Reveal(texts, slots')
    <2>1. Flags(Reveal(texts, slots')) /\ Blind(Reveal(texts, slots'))
      BY <1>0, RevealKeeps
    <2>2. Flags(reviews)' /\ Blind(reviews)'
      BY <1>2, <2>1 DEF Flags, Blind
    <2>3. QED
      BY <1>2, <2>2, RevealFacts
  <1>3. QED
    BY <1>1, <1>2

LEMMA SubmitKeeps == ASSUME RInv, NEW d \in Directions, NEW r \in Ratings, Submit(d, r) PROVE RInv'
  <1>. DEFINE row == [Unwritten EXCEPT !.state = "SUBMITTED_HELD", !.rating = r]
              texts == [reviews EXCEPT ![d] = row]
  <1>1. /\ slots[d].state = "OPEN" /\ UNCHANGED <<context, jobs>>
        /\ slots' = [slots EXCEPT ![d].state = "CONSUMED", ![d].used = TRUE]
        /\ Reveals(texts, slots')
    BY DEF Submit
  <1>2. /\ slots' \in [Directions -> SlotRows] /\ slots'[d].state = "CONSUMED" /\ slots'[d].used
        /\ \A e \in Directions : slots'[e].closes = slots[e].closes /\ (e # d => slots'[e] = slots[e])
    BY <1>1 DEF RInv, TypeInv, SlotRows, SlotStates
  <1>3. /\ row \in ReviewRows /\ row.state = "SUBMITTED_HELD" /\ ~row.published
        /\ texts \in [Directions -> ReviewRows] /\ ~reviews[d].published
    <2>1. r \in Ratings /\ Unwritten \in ReviewRows /\ ~Unwritten.published
      BY ReviewAssumption DEF Unwritten, ReviewRows, ReviewStates, Counts
    <2>2. row \in ReviewRows /\ row.state = "SUBMITTED_HELD" /\ ~row.published
      BY <2>1 DEF ReviewRows, ReviewStates, Counts
    <2>3. QED
      BY <1>1, <2>1, <2>2 DEF RInv, TypeInv, Slots
  <1>4. Flags(texts) /\ Blind(texts)
    BY <1>3 DEF RInv, TypeInv, Flags, Blind
  <1>5. /\ \/ reviews' = texts /\ UNCHANGED reputation
           \/ /\ reviews' = Reveal(texts, slots')
              /\ reputation' = Live(reviews', slots', attendance)
        /\ now' = now /\ jobs' = jobs /\ attendance' = attendance
    BY <1>1 DEF Reveals, context
  <1>6. \A e \in Directions : Window <= slots'[e].closes
    BY <1>2 DEF RInv, Slots
  <1>. HIDE DEF row, texts
  <1>7. /\ reviews' \in [Directions -> ReviewRows] /\ Flags(reviews)' /\ Blind(reviews)'
        /\ \A e \in Directions : \/ reviews'[e] = texts[e]
                                 \/ /\ reviews'[e].published /\ reviews'[e].state = "PUBLISHED"
                                    /\ reviews'[e].rating = texts[e].rating
                                    /\ texts[e].state = "SUBMITTED_HELD"
    BY <1>2, <1>3, <1>4, <1>5, <1>6, RevealStep
  <1>8. texts[d].state = "SUBMITTED_HELD" /\ \A e \in Directions : e # d => texts[e] = reviews[e]
    BY <1>3 DEF texts, row, RInv, TypeInv
  <1>9. TypeInv'
    BY <1>2, <1>5, <1>7 DEF RInv, TypeInv
  <1>10. Slots'
    <2>1. \A e \in Directions : ~slots'[e].used => reviews'[e] = Unwritten
      BY <1>2, <1>7, <1>8 DEF RInv, Slots, Unwritten
    <2>2. QED
      BY <1>2, <1>5, <2>1 DEF RInv, Slots
  <1>11. RemovedTimed' /\ HeldReviewTimed'
    BY <1>1, <1>2, <1>5, <1>7, <1>8 DEF RInv, RemovedTimed, HeldReviewTimed
  <1>12. CountedExactly'
    <2>1. CASE reputation' = Live(reviews', slots', attendance)
      BY <2>1, LiveCounts DEF CountedExactly
    <2>2. CASE reviews' = texts /\ UNCHANGED reputation
      BY <1>1, <1>2, <1>8, <2>2 DEF RInv, CountedExactly
    <2>3. QED
      BY <1>5, <2>1, <2>2
  <1>13. QED
    BY <1>7, <1>9, <1>10, <1>11, <1>12 DEF RInv
LEMMA EditKeeps == ASSUME RInv, NEW d \in Directions, NEW r \in Ratings, Edit(d, r) PROVE RInv'
  <1>1. /\ reviews[d].state = "SUBMITTED_HELD" /\ reviews' = [reviews EXCEPT ![d].rating = r]
        /\ UNCHANGED <<now, attendance, slots, jobs, reputation>>
    BY DEF Edit, CanEdit, context
  <1>2. /\ reviews' \in [Directions -> ReviewRows]
        /\ \A e \in Directions : /\ reviews'[e].state = reviews[e].state
                                 /\ reviews'[e].published = reviews[e].published
                                 /\ e # d => reviews'[e] = reviews[e]
    BY <1>1 DEF RInv, TypeInv, ReviewRows, Counts
  <1>3. TypeInv' /\ Flags(reviews)' /\ Blind(reviews)'
    BY <1>1, <1>2 DEF RInv, TypeInv, Flags, Blind
  <1>4. Slots'
    <2>1. slots[d].used
      BY <1>1 DEF RInv, Slots, Unwritten
    <2>2. QED
      BY <1>1, <1>2, <2>1 DEF RInv, Slots
  <1>5. RemovedTimed' /\ HeldReviewTimed' /\ CountedExactly'
    BY <1>1, <1>2 DEF RInv, RemovedTimed, HeldReviewTimed, CountedExactly
  <1>6. QED
    BY <1>3, <1>4, <1>5 DEF RInv

(* Withdrawing and taking down: the review keeps its mark, the sums follow. *)
LEMMA TakenDownKeeps ==
  ASSUME RInv, NEW d \in Directions, NEW state \in {"WITHDRAWN", "UNDER_REVIEW", "HIDDEN", "REMOVED"},
         reviews[d].state # "NONE", reviews[d].state = "REMOVED" => state = "WITHDRAWN",
         reviews[d].state # "WITHDRAWN",
         reviews' = [reviews EXCEPT ![d].state = state], reputation' = Live(reviews', slots, attendance),
         UNCHANGED <<context, slots, jobs>>
  PROVE  RInv'
  <1>1. UNCHANGED <<now, attendance, slots, jobs>>
    BY DEF context
  <1>2. /\ reviews' \in [Directions -> ReviewRows] /\ reviews'[d].state = state
        /\ \A e \in Directions : /\ reviews'[e].published = reviews[e].published
                                 /\ e # d => reviews'[e] = reviews[e]
    BY DEF RInv, TypeInv, ReviewRows, ReviewStates
  <1>3. TypeInv' /\ Flags(reviews)' /\ Blind(reviews)'
    BY <1>1, <1>2 DEF RInv, TypeInv, Flags, Blind
  <1>4. Slots'
    <2>1. slots[d].used
      BY DEF RInv, Slots, Unwritten
    <2>2. QED
      BY <1>1, <1>2, <2>1 DEF RInv, Slots
  <1>5. CountedExactly'
    <2>1. \A e \in Directions : reputation'[e] # 0 =>
            /\ reviews'[e].state = "PUBLISHED" /\ slots[e].state = "CONSUMED"
            /\ reputation'[e] = reviews'[e].rating
      BY DEF Live
    <2>2. QED
      BY <1>1, <2>1 DEF CountedExactly
  <1>6. reviews[d].published \/ reviews[d].state \in {"SUBMITTED_HELD", "UNDER_REVIEW", "HIDDEN", "REMOVED"}
    BY DEF RInv, TypeInv, ReviewRows, ReviewStates, Flags
  <1>7. RemovedTimed' /\ HeldReviewTimed'
    BY <1>1, <1>2, <1>6 DEF RInv, RemovedTimed, HeldReviewTimed
  <1>8. QED
    BY <1>3, <1>4, <1>5, <1>7 DEF RInv

LEMMA WithdrawKeeps == ASSUME RInv, NEW d \in Directions, Withdraw(d) PROVE RInv'
  BY TakenDownKeeps DEF Withdraw, Withdrawn

LEMMA SuppressKeeps ==
  ASSUME RInv, NEW d \in Directions, NEW state \in {"UNDER_REVIEW", "HIDDEN", "REMOVED"}, Suppress(d, state)
  PROVE  RInv'
  BY TakenDownKeeps DEF Suppress

(* A restored review whose time has come is shown; any other still has a job. *)
LEMMA RestoreKeeps == ASSUME RInv, NEW d \in Directions, Restore(d) PROVE RInv'
  <1>. DEFINE texts == [reviews EXCEPT ![d].state = RestoredState(d)]
  <1>1. /\ reviews[d].state \in {"UNDER_REVIEW", "HIDDEN", "REMOVED"} /\ d \notin lapsed
        /\ slots[d].state = "CONSUMED" /\ reviews' = Reveal(texts, slots')
        /\ reputation' = Live(reviews', slots, attendance)
        /\ UNCHANGED <<now, attendance, slots, jobs>>
    BY DEF Restore, context
  <1>2. RestoredState(d) = IF reviews[d].published THEN "PUBLISHED" ELSE "SUBMITTED_HELD"
    BY DEF RestoredState
  <1>3. /\ texts \in [Directions -> ReviewRows] /\ texts[d].state = RestoredState(d)
        /\ \A e \in Directions : texts[e].published = reviews[e].published /\ (e # d => texts[e] = reviews[e])
    BY <1>2 DEF RInv, TypeInv, ReviewRows, ReviewStates
  <1>. HIDE DEF texts
  <1>4. Flags(texts) /\ Blind(texts)
    BY <1>2, <1>3 DEF RInv, Flags, Blind
  <1>5. slots' \in [Directions -> SlotRows] /\ \A e \in Directions : Window <= slots'[e].closes
    BY <1>1 DEF RInv, TypeInv, Slots
  <1>6. /\ reviews' \in [Directions -> ReviewRows] /\ Flags(reviews)' /\ Blind(reviews)'
        /\ \A e \in Directions : \/ reviews'[e] = texts[e]
                                 \/ /\ reviews'[e].published /\ reviews'[e].state = "PUBLISHED"
                                    /\ reviews'[e].rating = texts[e].rating
                                    /\ texts[e].state = "SUBMITTED_HELD"
    BY <1>1, <1>3, <1>4, <1>5, RevealStep
  <1>7. TypeInv'
    BY <1>1, <1>6 DEF RInv, TypeInv
  <1>8. Slots'
    <2>1. slots[d].used
      BY <1>1 DEF RInv, Slots, Unwritten
    <2>2. QED
      BY <1>1, <1>3, <1>6, <2>1 DEF RInv, Slots, Unwritten
  <1>9. CountedExactly'
    BY <1>1, LiveCounts DEF CountedExactly
  <1>10. reviews'[d].published \/ slots[d].closes > now \/ reviews[d].state # "REMOVED"
    <2>1. \/ reviews'[d].published
          \/ reviews'[d] = texts[d] /\ ~(Eligible(texts, slots', d) /\ slots'[d].closes <= now)
      BY <1>1, <1>3, <1>5, RevealFacts
    <2>2. slots[d].closes \in Int /\ now \in Int
      BY DEF RInv, TypeInv, SlotRows
    <2>3. reviews'[d].published \/ slots[d].closes > now
      BY <1>1, <1>2, <1>3, <2>1, <2>2 DEF Eligible
    <2>4. QED
      BY <2>3
  <1>11. HeldReviewTimed'
    <2>1. jobs[d]["REVEAL_DEADLINE"] \in Open \/ reviews'[d].published
      <3>1. CASE reviews[d].published
        BY <1>3, <1>6, <3>1
      <3>2. CASE ~reviews[d].published /\ reviews[d].state = "REMOVED"
        <4>1. slots[d].closes \in Int /\ now \in Int
          BY DEF RInv, TypeInv, SlotRows
        <4>2. QED
          BY <1>1, <1>10, <3>2, <4>1 DEF RInv, RemovedTimed
      <3>3. CASE ~reviews[d].published /\ reviews[d].state # "REMOVED"
        BY <1>1, <3>3 DEF RInv, HeldReviewTimed
      <3>4. QED
        BY <3>1, <3>2, <3>3
    <2>2. QED
      BY <1>1, <1>3, <1>6, <2>1 DEF RInv, HeldReviewTimed
  <1>12. RemovedTimed'
    BY <1>1, <1>2, <1>3, <1>6 DEF RInv, RemovedTimed
  <1>13. QED
    BY <1>6, <1>7, <1>8, <1>9, <1>11, <1>12 DEF RInv
-----------------------------------------------------------------------------
(* Attendance, the workers and the rest.                                    *)

LEMMA DisputeKeeps == ASSUME RInv, Dispute PROVE RInv'
  <1>1. /\ attendance' = "DISPUTED" /\ UNCHANGED <<now, reviews, jobs, reputation>>
        /\ slots' = [d \in Directions |->
                       IF slots[d].state = "OPEN" THEN [slots[d] EXCEPT !.state = "HELD"] ELSE slots[d]]
    BY DEF Dispute
  <1>2. /\ slots' \in [Directions -> SlotRows]
        /\ \A d \in Directions : /\ slots'[d].closes = slots[d].closes /\ slots'[d].used = slots[d].used
                                 /\ \/ slots'[d].state = slots[d].state
                                    \/ slots[d].state = "OPEN" /\ slots'[d].state = "HELD"
    <2>1. ASSUME NEW d \in Directions
          PROVE  /\ slots'[d] \in SlotRows
                 /\ slots'[d].closes = slots[d].closes /\ slots'[d].used = slots[d].used
                 /\ \/ slots'[d].state = slots[d].state
                    \/ slots[d].state = "OPEN" /\ slots'[d].state = "HELD"
      <3>1. slots[d] \in SlotRows
        BY DEF RInv, TypeInv
      <3>2. slots'[d] = IF slots[d].state = "OPEN" THEN [slots[d] EXCEPT !.state = "HELD"] ELSE slots[d]
        BY <1>1
      <3>3. QED
        BY <3>1, <3>2 DEF SlotRows, SlotStates
    <2>2. QED
      BY <1>1, <2>1
  <1>3. TypeInv' /\ Flags(reviews)' /\ Blind(reviews)'
    BY <1>1, <1>2 DEF RInv, TypeInv, Flags, Blind
  <1>4. Slots'
    BY <1>1, <1>2 DEF RInv, Slots
  <1>5. RemovedTimed' /\ HeldReviewTimed' /\ CountedExactly'
    BY <1>1, <1>2 DEF RInv, RemovedTimed, HeldReviewTimed, CountedExactly
  <1>6. QED
    BY <1>3, <1>4, <1>5 DEF RInv

LEMMA LatestIs == RInv => Latest \in Nat /\ \A d \in Directions : slots[d].closes <= Latest
  <1>. SUFFICES ASSUME RInv PROVE Latest \in Nat /\ \A d \in Directions : slots[d].closes <= Latest
    OBVIOUS
  <1>. DEFINE all == {slots[d].closes : d \in Directions}
              IsLatest(t) == \A d \in Directions : slots[d].closes <= t
  <1>0. \A d \in Directions : slots[d].closes \in Nat
    BY DEF RInv, TypeInv, SlotRows
  <1>1. \E t \in all : IsLatest(t)
    <2>. DEFINE a == slots["SEEKER_TO_PROVIDER"].closes
                b == slots["PROVIDER_TO_SEEKER"].closes
    <2>1. a \in Nat /\ b \in Nat /\ a \in all /\ b \in all
      BY <1>0 DEF Directions
    <2>2. \A t : IsLatest(t) <=> a <= t /\ b <= t
      BY DEF Directions
    <2>3. a <= b \/ b <= a
      BY <2>1
    <2>4. QED
      BY <2>1, <2>2, <2>3
  <1>2. Latest \in all /\ IsLatest(Latest)
    BY <1>1 DEF Latest
  <1>3. QED
    BY <1>0, <1>2

(* A restored slot closes when it did, or a window from now at the earliest. *)
LEMMA RestoredIs ==
  ASSUME RInv, NEW d \in Directions
  PROVE  /\ Restored(d) \in SlotRows /\ Restored(d).used = slots[d].used
         /\ Restored(d).state = IF slots[d].used THEN "CONSUMED" ELSE "OPEN"
         /\ Window <= Restored(d).closes
         /\ reviews[d].state = "SUBMITTED_HELD" => now < Restored(d).closes
  <1>1. /\ slots[d] \in SlotRows /\ now \in Nat /\ Window \in Nat \ {0} /\ Latest \in Nat
        /\ Window <= slots[d].closes
    <2>1. Window \in Nat /\ Early \in 1..Window
      BY ReviewAssumption
    <2>2. QED
      BY <2>1, LatestIs DEF RInv, TypeInv, Slots
  <1>2. slots[d].used \in BOOLEAN /\ slots[d].closes \in Nat
    BY <1>1 DEF SlotRows
  <1>3. PICK c \in Nat : /\ Restored(d) = [state |-> IF slots[d].used THEN "CONSUMED" ELSE "OPEN",
                                           closes |-> c, used |-> slots[d].used]
                         /\ Window <= c
                         /\ \/ now < c
                            \/ slots[d].used /\ (reviews[d].published \/ reviews[d].state = "WITHDRAWN")
    <2>1. CASE slots[d].used /\ (reviews[d].published \/ reviews[d].state = "WITHDRAWN")
      BY <1>1, <1>2, <2>1 DEF Restored
    <2>2. CASE ~(slots[d].used /\ (reviews[d].published \/ reviews[d].state = "WITHDRAWN")) /\ Latest > now + Window
      BY <1>1, <2>2 DEF Restored
    <2>3. CASE ~(slots[d].used /\ (reviews[d].published \/ reviews[d].state = "WITHDRAWN")) /\ ~(Latest > now + Window)
      BY <1>1, <2>3 DEF Restored
    <2>4. QED
      BY <2>1, <2>2, <2>3
  <1>4. reviews[d].state = "SUBMITTED_HELD" => ~reviews[d].published
    BY DEF RInv, Flags
  <1>5. QED
    BY <1>2, <1>3, <1>4 DEF SlotRows, SlotStates

LEMMA DecideKeeps ==
  ASSUME RInv, NEW outcome \in {"COMPLETED", "ATTENDANCE_UNCONFIRMED"}, Decide(outcome) PROVE RInv'
  <1>1. /\ now' = now /\ attendance' = outcome /\ jobs' = Rearmed(outcome)
        /\ slots' = [d \in Directions |-> IF outcome = "COMPLETED" THEN Restored(d)
                                          ELSE [slots[d] EXCEPT !.state = "REVOKED"]]
        /\ reviews' = reviews \/ reviews' = Reveal(reviews, slots')
        /\ reputation' = Live(reviews', slots', outcome)
    BY DEF Decide
  <1>2. ASSUME NEW d \in Directions
        PROVE  /\ slots'[d] \in SlotRows /\ slots'[d].used = slots[d].used
               /\ slots'[d].state = IF outcome # "COMPLETED" THEN "REVOKED"
                                    ELSE IF slots[d].used THEN "CONSUMED" ELSE "OPEN"
               /\ Window <= slots'[d].closes
    <2>1. slots[d] \in SlotRows /\ Window <= slots[d].closes
      BY DEF RInv, TypeInv, Slots
    <2>2. slots'[d] = IF outcome = "COMPLETED" THEN Restored(d) ELSE [slots[d] EXCEPT !.state = "REVOKED"]
      BY <1>1
    <2>3. CASE outcome = "COMPLETED"
      BY <2>2, <2>3, RestoredIs
    <2>4. CASE outcome # "COMPLETED"
      BY <2>1, <2>2, <2>4 DEF SlotRows, SlotStates
    <2>5. QED
      BY <2>3, <2>4
  <1>3. slots' \in [Directions -> SlotRows]
    BY <1>1, <1>2
  <1>4. reviews \in [Directions -> ReviewRows] /\ Flags(reviews) /\ Blind(reviews)
    BY DEF RInv, TypeInv
  <1>5. /\ reviews' \in [Directions -> ReviewRows] /\ Flags(reviews)' /\ Blind(reviews)'
        /\ \A d \in Directions : \/ reviews'[d] = reviews[d]
                                 \/ /\ reviews'[d].published /\ reviews'[d].state = "PUBLISHED"
                                    /\ reviews'[d].rating = reviews[d].rating
                                    /\ reviews[d].state = "SUBMITTED_HELD"
    BY <1>1, <1>2, <1>3, <1>4, RevealStep
  <1>6. \A d \in Directions : /\ jobs'[d] \in [Kinds -> JobStates]
                              /\ outcome = "COMPLETED" => jobs'[d]["REVEAL_DEADLINE"] \in Open
    BY <1>1, DeadlineKind, OpenStates DEF Rearmed
  <1>7. TypeInv'
    <2>1. jobs' \in [Directions -> [Kinds -> JobStates]]
      BY <1>1, OpenStates DEF Rearmed
    <2>2. QED
      BY <1>1, <1>3, <1>5, <2>1 DEF RInv, TypeInv
  <1>8. Slots'
    <2>1. \A d \in Directions : ~slots[d].used => reviews'[d] = Unwritten
      BY <1>5 DEF RInv, Slots, Unwritten
    <2>2. QED
      BY <1>2, <2>1 DEF Slots
  <1>9. RemovedTimed' /\ HeldReviewTimed'
    BY <1>2, <1>6 DEF RemovedTimed, HeldReviewTimed
  <1>10. CountedExactly'
    <2>1. \A d \in Directions : reputation'[d] # 0 =>
            /\ reviews'[d].state = "PUBLISHED" /\ slots'[d].state = "CONSUMED"
            /\ reputation'[d] = reviews'[d].rating
      BY <1>1 DEF Live
    <2>2. QED
      BY <2>1 DEF CountedExactly
  <1>11. QED
    BY <1>5, <1>7, <1>8, <1>9, <1>10 DEF RInv
(* A job is done only when its review was shown, was ruled out, or is a      *)
(* removed one whose time has come.                                         *)
LEMMA CloseWindowKeeps == ASSUME RInv, NEW w \in Runs, NEW d \in Directions, CloseWindow(w, d) PROVE RInv'
  <1>. DEFINE waits == /\ slots[d].state = "CONSUMED"
                       /\ reviews'[d].state \in {"SUBMITTED_HELD", "UNDER_REVIEW", "HIDDEN"}
              done == IF waits THEN "PENDING" ELSE "PROCESSED"
  <1>1. /\ attendance = "COMPLETED" /\ Due(d, "REVEAL_DEADLINE") /\ UNCHANGED context
        /\ Reveals(reviews, slots) /\ jobs' = [jobs EXCEPT ![d]["REVEAL_DEADLINE"] = done]
        /\ slots' = [slots EXCEPT ![d].state = IF slots[d].state = "OPEN" THEN "EXPIRED" ELSE slots[d].state]
    BY DEF CloseWindow, Settle, Safe, safe
  <1>2. slots[d].closes <= now
    <2>1. Lead("REVEAL_DEADLINE") = 0
      BY DEF Lead
    <2>2. slots[d].closes \in Nat /\ now \in Nat
      BY DEF RInv, TypeInv, SlotRows
    <2>3. QED
      BY <1>1, <2>1, <2>2 DEF Due
  <1>3. /\ slots' \in [Directions -> SlotRows]
        /\ \A e \in Directions : /\ slots'[e].closes = slots[e].closes /\ slots'[e].used = slots[e].used
                                 /\ e # d => slots'[e] = slots[e]
        /\ slots'[d].state = IF slots[d].state = "OPEN" THEN "EXPIRED" ELSE slots[d].state
    BY <1>1 DEF RInv, TypeInv, SlotRows, SlotStates
  <1>4. /\ jobs' \in [Directions -> [Kinds -> JobStates]]
        /\ jobs'[d]["REVEAL_DEADLINE"] = done
        /\ \A e \in Directions : e # d => jobs'[e] = jobs[e]
    <2>1. jobs \in [Directions -> [Kinds -> JobStates]]
      BY DEF RInv, TypeInv
    <2>2. done \in JobStates
      BY OpenStates
    <2>. HIDE DEF waits, done
    <2>3. QED
      BY <1>1, <2>1, <2>2, DeadlineKind
  <1>5. now' = now /\ attendance' = attendance
    BY <1>1 DEF context
  <1>6. reviews \in [Directions -> ReviewRows] /\ slots \in [Directions -> SlotRows] /\ Flags(reviews) /\ Blind(reviews)
    BY DEF RInv, TypeInv
  <1>7. \/ reviews' = reviews /\ UNCHANGED reputation
        \/ reviews' = Reveal(reviews, slots) /\ reputation' = Live(reviews', slots, attendance)
    BY <1>1 DEF Reveals
  <1>8. /\ reviews' \in [Directions -> ReviewRows] /\ Flags(reviews)' /\ Blind(reviews)'
        /\ \A e \in Directions : \/ reviews'[e] = reviews[e]
                                 \/ /\ reviews'[e].published /\ reviews'[e].state = "PUBLISHED"
                                    /\ reviews[e].state = "SUBMITTED_HELD"
    <2>1. \A e \in Directions : Window <= slots[e].closes
      BY DEF RInv, Slots
    <2>2. CASE reviews' = reviews
      BY <1>5, <1>6, <2>2 DEF Flags, Blind
    <2>3. CASE reviews' = Reveal(reviews, slots)
      <3>1. now \in Nat
        BY DEF RInv, TypeInv
      <3>2. Flags(Reveal(reviews, slots)) /\ Blind(Reveal(reviews, slots))
        BY <1>6, <2>1, <3>1, RevealKeeps
      <3>3. Flags(reviews)' /\ Blind(reviews)'
        BY <1>5, <2>3, <3>2 DEF Flags, Blind
      <3>4. QED
        BY <1>6, <2>3, <3>3, RevealFacts
    <2>4. QED
      BY <1>7, <2>2, <2>3
  <1>9. TypeInv'
    BY <1>3, <1>4, <1>5, <1>8 DEF RInv, TypeInv
  <1>10. Slots'
    <2>1. \A e \in Directions : ~slots[e].used => reviews'[e] = Unwritten
      BY <1>8 DEF RInv, Slots, Unwritten
    <2>2. QED
      BY <1>3, <1>5, <2>1 DEF RInv, Slots
  <1>11. HeldReviewTimed'
    <2>1. ASSUME NEW e \in Directions, e # d,
                 \/ slots'[e].state \in {"OPEN", "HELD"}
                 \/ /\ slots'[e].state = "CONSUMED" /\ ~reviews'[e].published
                    /\ reviews'[e].state \in {"SUBMITTED_HELD", "UNDER_REVIEW", "HIDDEN"}
          PROVE  jobs'[e]["REVEAL_DEADLINE"] \in Open
      BY <1>3, <1>4, <1>8, <2>1 DEF RInv, HeldReviewTimed
    <2>2. slots'[d].state \notin {"OPEN", "HELD"}
      BY <1>1, <1>3 DEF RInv, Slots
    <2>3. slots'[d].state = "CONSUMED" /\ reviews'[d].state \in {"SUBMITTED_HELD", "UNDER_REVIEW", "HIDDEN"}
            => jobs'[d]["REVEAL_DEADLINE"] \in Open
      BY <1>3, <1>4, OpenStates
    <2>. HIDE DEF done, waits
    <2>4. QED
      BY <2>1, <2>2, <2>3 DEF HeldReviewTimed
  <1>12. RemovedTimed'
    <2>1. \A e \in Directions : e # d => (reviews'[e].state = "REMOVED" => reviews'[e] = reviews[e])
      BY <1>8
    <2>. HIDE DEF done, waits
    <2>2. QED
      BY <1>2, <1>3, <1>4, <1>5, <2>1 DEF RInv, RemovedTimed
  <1>13. CountedExactly'
    <2>1. CASE reputation' = Live(reviews', slots, attendance)
      <3>1. \A e \in Directions : reputation'[e] # 0 =>
              /\ reviews'[e].state = "PUBLISHED" /\ slots[e].state = "CONSUMED"
              /\ reputation'[e] = reviews'[e].rating
        BY <2>1 DEF Live
      <3>2. QED
        BY <1>3, <3>1 DEF CountedExactly
    <2>2. CASE reviews' = reviews /\ UNCHANGED reputation
      BY <1>3, <2>2 DEF RInv, CountedExactly
    <2>3. QED
      BY <1>7, <2>1, <2>2
  <1>. HIDE DEF done, waits
  <1>14. QED
    BY <1>8, <1>9, <1>10, <1>11, <1>12, <1>13 DEF RInv

(* A job that changes its state, and only a reminder is done with.           *)
LEMMA SettleKeeps ==
  ASSUME RInv, NEW d \in Directions, NEW kind \in Kinds, NEW state \in JobStates,
         Settle(d, kind, state), kind = "REVEAL_DEADLINE" => state \in Open,
         UNCHANGED <<context, slots, reviews, reputation>>
  PROVE  RInv'
  <1>1. jobs' = [jobs EXCEPT ![d][kind] = state] /\ UNCHANGED <<now, attendance, slots, reviews, reputation>>
    BY DEF Settle, context
  <1>2. /\ jobs' \in [Directions -> [Kinds -> JobStates]]
        /\ \A e \in Directions : \/ jobs'[e]["REVEAL_DEADLINE"] = jobs[e]["REVEAL_DEADLINE"]
                                 \/ jobs'[e]["REVEAL_DEADLINE"] \in Open
    <2>1. jobs \in [Directions -> [Kinds -> JobStates]]
      BY DEF RInv, TypeInv
    <2>2. QED
      BY <1>1, <2>1, DeadlineKind
  <1>3. TypeInv' /\ Flags(reviews)' /\ Blind(reviews)' /\ Slots'
    BY <1>1, <1>2 DEF RInv, TypeInv, Flags, Blind, Slots
  <1>4. RemovedTimed' /\ HeldReviewTimed' /\ CountedExactly'
    BY <1>1, <1>2 DEF RInv, RemovedTimed, HeldReviewTimed, CountedExactly
  <1>5. QED
    BY <1>3, <1>4 DEF RInv

LEMMA RemindKeeps ==
  ASSUME RInv, NEW w \in Runs, NEW d \in Directions, NEW kind \in Reminders, Remind(w, d, kind)
  PROVE  RInv'
  <1>1. PICK state \in {"PROCESSED", "SKIPPED"} : Settle(d, kind, state)
    BY DEF Remind
  <1>2. UNCHANGED <<context, slots, reviews, reputation>>
    BY DEF Remind
  <1>3. kind \in Kinds /\ kind # "REVEAL_DEADLINE"
    BY DeadlineKind DEF Kinds
  <1>4. QED
    BY <1>1, <1>2, <1>3, OpenStates, SettleKeeps

LEMMA LeaseKeeps ==
  ASSUME RInv, NEW w \in Runs, NEW d \in Directions, NEW kind \in Kinds,
         Lease(w, d, kind) \/ GoesBack(w, d, kind)
  PROVE  RInv'
  <1>1. PICK state \in Open : Settle(d, kind, state)
    BY OpenStates DEF Lease, GoesBack
  <1>2. UNCHANGED <<context, slots, reviews, reputation>>
    BY DEF Lease, GoesBack
  <1>3. QED
    BY <1>1, <1>2, OpenStates, SettleKeeps

LEMMA ReconcileKeeps == ASSUME RInv, Reconcile PROVE RInv'
  <1>1. UNCHANGED <<now, attendance, slots, reviews, jobs>> /\ reputation' = Live(reviews, slots, attendance)
    BY DEF Reconcile, context
  <1>2. CountedExactly'
    BY <1>1 DEF CountedExactly, Live
  <1>3. QED
    BY <1>1, <1>2 DEF RInv, TypeInv, Flags, Blind, Slots, RemovedTimed, HeldReviewTimed

LEMMA QuietKeeps ==
  ASSUME RInv, now' = now \/ now' = now + 1,
         UNCHANGED <<attendance, slots, reviews, jobs, reputation>>
  PROVE  RInv'
  <1>1. now \in Nat /\ Window \in Nat /\ \A d \in Directions : slots[d].closes \in Nat
    BY ReviewAssumption DEF RInv, TypeInv, SlotRows
  <1>2. TypeInv' /\ Flags(reviews)' /\ Blind(reviews)'
    BY <1>1 DEF RInv, TypeInv, Flags, Blind
  <1>3. RemovedTimed'
    BY <1>1 DEF RInv, RemovedTimed
  <1>4. Slots' /\ HeldReviewTimed' /\ CountedExactly'
    BY DEF RInv, Slots, HeldReviewTimed, CountedExactly
  <1>5. QED
    BY <1>2, <1>3, <1>4 DEF RInv

(* A step by what it does to reviews and slots.                             *)
LEMMA StepKinds ==
  ASSUME [ModerationNext]_allVars
  PROVE  \/ \E d \in Directions, r \in Ratings : Submit(d, r) \/ Edit(d, r)
         \/ \E d \in Directions : Withdraw(d) \/ Restore(d)
         \/ \E w \in Runs, d \in Directions : CloseWindow(w, d)
         \/ \E w \in Runs, d \in Directions, k \in Reminders : Remind(w, d, k)
         \/ \E w \in Runs, d \in Directions, k \in Kinds : Lease(w, d, k) \/ GoesBack(w, d, k)
         \/ \E d \in Directions, state \in {"UNDER_REVIEW", "HIDDEN", "REMOVED"} : Suppress(d, state)
         \/ \E outcome \in {"COMPLETED", "ATTENDANCE_UNCONFIRMED"} : Decide(outcome)
         \/ Dispute \/ Reconcile
         \/ /\ now' = now \/ now' = now + 1
            /\ UNCHANGED <<attendance, slots, reviews, jobs, reputation>>
  <1>1. CASE Next
    BY <1>1 DEF Next, TrustChanges, AuthorChanges, Tick
  <1>2. CASE Moderation
    <2>1. PICK d \in Directions : \/ Report(d) \/ Assign(d) \/ BeginInvestigation(d) \/ Resolve(d) \/ Close(d)
                                  \/ \E state \in {"UNDER_REVIEW", "HIDDEN", "REMOVED"} : Suppress(d, state)
                                  \/ Restore(d)
      BY <1>2 DEF Moderation
    <2>2. CASE Report(d) \/ Assign(d) \/ BeginInvestigation(d) \/ Resolve(d) \/ Close(d)
      BY <2>2 DEF Report, Assign, BeginInvestigation, Resolve, Close, vars
    <2>3. QED
      BY <2>1, <2>2
  <1>3. CASE UNCHANGED allVars
    BY <1>3 DEF allVars, vars
  <1>4. QED
    BY <1>1, <1>2, <1>3 DEF ModerationNext

LEMMA StepRInv == RInv /\ [ModerationNext]_allVars => RInv'
  BY StepKinds, SubmitKeeps, EditKeeps, WithdrawKeeps, CloseWindowKeeps, RestoreKeeps, RemindKeeps, LeaseKeeps,
     SuppressKeeps, DecideKeeps, DisputeKeeps, ReconcileKeeps, QuietKeeps
-----------------------------------------------------------------------------
(* What a step may do to the reviews.                                       *)

(* Every step leaves some reviews, and then shows those that may be shown.  *)
LEMMA StepTexts ==
  ASSUME RInv, [ModerationNext]_allVars
  PROVE  \E texts \in [Directions -> ReviewRows], seats \in [Directions -> SlotRows] :
           /\ reviews' = texts \/ (trusted /\ attendance' = "COMPLETED" /\ reviews' = Reveal(texts, seats))
           /\ \A d \in Directions :
                /\ texts[d].state = "PUBLISHED" => reviews[d].published
                /\ texts[d].state = "SUBMITTED_HELD" => ~reviews[d].published
                /\ \/ seats[d].closes = slots[d].closes
                   \/ texts[d].state = "SUBMITTED_HELD" => now < seats[d].closes
                /\ texts[d].rating # reviews[d].rating =>
                     \/ slots[d].state = "OPEN" /\ now < slots[d].closes
                     \/ reviews[d].state = "SUBMITTED_HELD" /\ now < slots[d].closes
  <1>. DEFINE Leaves(texts, seats) ==
           /\ reviews' = texts \/ (trusted /\ attendance' = "COMPLETED" /\ reviews' = Reveal(texts, seats))
           /\ \A d \in Directions :
                /\ texts[d].state = "PUBLISHED" => reviews[d].published
                /\ texts[d].state = "SUBMITTED_HELD" => ~reviews[d].published
                /\ \/ seats[d].closes = slots[d].closes
                   \/ texts[d].state = "SUBMITTED_HELD" => now < seats[d].closes
                /\ texts[d].rating # reviews[d].rating =>
                     \/ slots[d].state = "OPEN" /\ now < slots[d].closes
                     \/ reviews[d].state = "SUBMITTED_HELD" /\ now < slots[d].closes
  <1>. SUFFICES \E texts \in [Directions -> ReviewRows], seats \in [Directions -> SlotRows] : Leaves(texts, seats)
    OBVIOUS
  <1>0. /\ reviews \in [Directions -> ReviewRows] /\ slots \in [Directions -> SlotRows]
        /\ \A d \in Directions : /\ reviews[d].state = "PUBLISHED" => reviews[d].published
                                 /\ reviews[d].state = "SUBMITTED_HELD" => ~reviews[d].published
    BY DEF RInv, TypeInv, Flags
  <1>1. ASSUME NEW d \in Directions, NEW r \in Ratings, Submit(d, r)
        PROVE  \E texts \in [Directions -> ReviewRows], seats \in [Directions -> SlotRows] : Leaves(texts, seats)
    <2>. DEFINE row == [Unwritten EXCEPT !.state = "SUBMITTED_HELD", !.rating = r]
                texts == [reviews EXCEPT ![d] = row]
    <2>1. /\ slots[d].state = "OPEN" /\ now < slots[d].closes /\ Reveals(texts, slots') /\ UNCHANGED context
          /\ slots' = [slots EXCEPT ![d].state = "CONSUMED", ![d].used = TRUE]
      BY <1>1 DEF Submit
    <2>2. /\ row \in ReviewRows /\ row.state = "SUBMITTED_HELD"
      <3>1. r \in Ratings /\ Unwritten \in ReviewRows
        BY ReviewAssumption DEF Unwritten, ReviewRows, ReviewStates, Counts
      <3>2. QED
        BY <3>1 DEF ReviewRows, ReviewStates, Counts
    <2>3. ~reviews[d].published
      BY <2>1 DEF RInv, Slots, Unwritten
    <2>4. slots' \in [Directions -> SlotRows] /\ \A e \in Directions : slots'[e].closes = slots[e].closes
      BY <1>0, <2>1 DEF SlotRows, SlotStates
    <2>. HIDE DEF row
    <2>5. /\ texts \in [Directions -> ReviewRows] /\ texts[d] = row
          /\ \A e \in Directions : e # d => texts[e] = reviews[e]
      BY <1>0, <2>2
    <2>. HIDE DEF texts
    <2>6. reviews' = texts \/ (trusted /\ attendance' = "COMPLETED" /\ reviews' = Reveal(texts, slots'))
      BY <2>1 DEF Reveals, Safe, safe, context
    <2>7. Leaves(texts, slots')
      BY <1>0, <2>1, <2>2, <2>3, <2>4, <2>5, <2>6
    <2>. HIDE DEF Leaves
    <2>8. QED
      BY <2>4, <2>5, <2>7
  <1>2. ASSUME NEW d \in Directions, NEW r \in Ratings, Edit(d, r)
        PROVE  Leaves(reviews', slots) /\ reviews' \in [Directions -> ReviewRows]
    BY <1>0, <1>2 DEF Edit, CanEdit, ReviewRows, Counts
  <1>3. ASSUME NEW d \in Directions, NEW state \in {"WITHDRAWN", "UNDER_REVIEW", "HIDDEN", "REMOVED"},
               reviews' = [reviews EXCEPT ![d].state = state]
        PROVE  Leaves(reviews', slots) /\ reviews' \in [Directions -> ReviewRows]
    BY <1>0, <1>3 DEF ReviewRows, ReviewStates
  <1>4. ASSUME reviews' = reviews PROVE Leaves(reviews', slots) /\ reviews' \in [Directions -> ReviewRows]
    BY <1>0, <1>4
  <1>5. ASSUME NEW w \in Runs, NEW d \in Directions, CloseWindow(w, d) PROVE Leaves(reviews, slots)
    <2>1. reviews' = reviews \/ (trusted /\ attendance' = "COMPLETED" /\ reviews' = Reveal(reviews, slots))
      BY <1>5 DEF CloseWindow, Reveals, Safe, safe, context
    <2>2. QED
      BY <1>0, <2>1
  <1>6. ASSUME NEW d \in Directions, Restore(d)
        PROVE  \E texts \in [Directions -> ReviewRows] : Leaves(texts, slots)
    <2>. DEFINE texts == [reviews EXCEPT ![d].state = RestoredState(d)]
    <2>1. trusted /\ attendance' = "COMPLETED" /\ reviews' = Reveal(texts, slots)
      BY <1>6 DEF Restore, Safe, safe, context
    <2>2. RestoredState(d) = IF reviews[d].published THEN "PUBLISHED" ELSE "SUBMITTED_HELD"
      BY DEF RestoredState
    <2>3. /\ texts \in [Directions -> ReviewRows] /\ texts[d].state = RestoredState(d)
          /\ \A e \in Directions : texts[e].rating = reviews[e].rating /\ (e # d => texts[e] = reviews[e])
      BY <1>0, <2>2 DEF ReviewRows, ReviewStates
    <2>. HIDE DEF texts
    <2>4. Leaves(texts, slots)
      BY <1>0, <2>1, <2>2, <2>3
    <2>. HIDE DEF Leaves
    <2>5. QED
      BY <2>3, <2>4
  <1>7. ASSUME NEW outcome \in {"COMPLETED", "ATTENDANCE_UNCONFIRMED"}, Decide(outcome)
        PROVE  Leaves(reviews, slots') /\ slots' \in [Directions -> SlotRows]
    <2>1. /\ reviews' = reviews \/ (trusted /\ attendance' = "COMPLETED" /\ reviews' = Reveal(reviews, slots'))
          /\ slots' = [d \in Directions |-> IF outcome = "COMPLETED" THEN Restored(d)
                                            ELSE [slots[d] EXCEPT !.state = "REVOKED"]]
      BY <1>7 DEF Decide, safe
    <2>2. ASSUME NEW d \in Directions
          PROVE  /\ slots'[d] \in SlotRows
                 /\ \/ slots'[d].closes = slots[d].closes
                    \/ reviews[d].state = "SUBMITTED_HELD" => now < slots'[d].closes
      <3>1. CASE outcome = "COMPLETED"
        BY <2>1, <3>1, RestoredIs
      <3>2. CASE outcome # "COMPLETED"
        <4>1. slots[d] \in SlotRows /\ slots'[d] = [slots[d] EXCEPT !.state = "REVOKED"]
          BY <1>0, <2>1, <3>2
        <4>2. QED
          BY <4>1 DEF SlotRows, SlotStates
      <3>3. QED
        BY <3>1, <3>2
    <2>3. QED
      BY <1>0, <2>1, <2>2
  <1>. HIDE DEF Leaves
  <1>8. QED
    <2>1. CASE \E d \in Directions : Withdraw(d)
      BY <1>0, <1>3, <2>1 DEF Withdraw, Withdrawn
    <2>2. CASE \E d \in Directions, state \in {"UNDER_REVIEW", "HIDDEN", "REMOVED"} : Suppress(d, state)
      BY <1>0, <1>3, <2>2 DEF Suppress
    <2>3. CASE \/ \E w \in Runs, d \in Directions, k \in Reminders : Remind(w, d, k)
               \/ \E w \in Runs, d \in Directions, k \in Kinds : Lease(w, d, k) \/ GoesBack(w, d, k)
               \/ Dispute \/ Reconcile \/ UNCHANGED reviews
      BY <1>0, <1>4, <2>3 DEF Remind, Lease, GoesBack, Dispute, Reconcile
    <2>4. CASE \E d \in Directions, r \in Ratings : Submit(d, r) \/ Edit(d, r)
      BY <1>0, <1>1, <1>2, <2>4
    <2>5. CASE (\E w \in Runs, d \in Directions : CloseWindow(w, d)) \/ \E d \in Directions : Restore(d)
      BY <1>0, <1>5, <1>6, <2>5
    <2>6. CASE \E outcome \in {"COMPLETED", "ATTENDANCE_UNCONFIRMED"} : Decide(outcome)
      BY <1>0, <1>7, <2>6
    <2>7. QED
      BY <2>1, <2>2, <2>3, <2>4, <2>5, <2>6, StepKinds

(* The sums hold no review that is withdrawn, taken down or whose slot was   *)
(* revoked (review.ts 111-121).                                             *)
THEOREM CountedExactlyCorrect == ModerationSpec => []CountedExactly
  <1>1. RInv => CountedExactly
    BY DEF RInv
  <1>2. QED
    BY InitRInv, StepRInv, <1>1, PTL DEF ModerationSpec

(* A review that is held, and a slot that can be used, keep the job that     *)
(* reveals (review.ts 337-345), whatever disputes, decisions and moderation *)
(* did in between.                                                          *)
THEOREM HeldReviewTimedCorrect == ModerationSpec => []HeldReviewTimed
  <1>1. RInv => HeldReviewTimed
    BY DEF RInv
  <1>2. QED
    BY InitRInv, StepRInv, <1>1, PTL DEF ModerationSpec

(* Double blind: nobody writes or changes a review who could read the other *)
(* one, unless staff gave a new deadline (review.ts 122-139, 168-188).      *)
THEOREM WrittenBlindCorrect == ModerationSpec => WrittenBlind
  <1>. DEFINE Blindly == \A d \in Directions : reviews'[d].rating # reviews[d].rating =>
                            ~reviews[Other(d)].published \/ slots[d].closes # Window
  <1>1. ASSUME RInv, [ModerationNext]_allVars PROVE Blindly
    <2>1. PICK texts \in [Directions -> ReviewRows], seats \in [Directions -> SlotRows] :
            /\ reviews' = texts \/ reviews' = Reveal(texts, seats)
            /\ \A d \in Directions : texts[d].rating # reviews[d].rating =>
                  \/ slots[d].state = "OPEN" /\ now < slots[d].closes
                  \/ reviews[d].state = "SUBMITTED_HELD" /\ now < slots[d].closes
      BY <1>1, StepTexts
    <2>2. \A d \in Directions : reviews'[d].rating = texts[d].rating
      BY <2>1, RevealFacts
    <2>3. ASSUME NEW d \in Directions, reviews'[d].rating # reviews[d].rating, slots[d].closes = Window
          PROVE  ~reviews[Other(d)].published
      <3>1. now < Window /\ (slots[d].state = "OPEN" \/ reviews[d].state = "SUBMITTED_HELD")
        BY <2>1, <2>2, <2>3
      <3>2. ~reviews[d].published
        BY <1>1, <3>1 DEF RInv, Slots, Flags, Unwritten
      <3>3. now \in Nat /\ Window \in Nat
        BY <1>1, ReviewAssumption DEF RInv, TypeInv
      <3>4. QED
        BY <1>1, <3>1, <3>2, <3>3, OtherIs DEF RInv, Blind
    <2>4. QED
      BY <2>3
  <1>2. RInv /\ [ModerationNext]_allVars => [Blindly]_vars
    BY <1>1
  <1>3. QED
    BY InitRInv, StepRInv, <1>2, PTL DEF ModerationSpec, WrittenBlind

(* A review is first shown when its window has closed or together with the   *)
(* other one, in a context that is safe (review.ts 122-139,                 *)
(* review-moderation.ts 167).                                               *)
THEOREM RevealedTogetherOrLateCorrect == ModerationSpec => RevealedTogetherOrLate
  <1>. DEFINE Duly == \A d \in Directions :
                        reviews'[d].state = "PUBLISHED" /\ ~reviews[d].published =>
                          /\ trusted /\ attendance' = "COMPLETED"
                          /\ \/ slots[d].closes <= now
                             \/ ~reviews[Other(d)].published /\ reviews'[Other(d)].state = "PUBLISHED"
  <1>1. ASSUME RInv, [ModerationNext]_allVars PROVE Duly
    <2>1. PICK texts \in [Directions -> ReviewRows], seats \in [Directions -> SlotRows] :
            /\ reviews' = texts \/ (trusted /\ attendance' = "COMPLETED" /\ reviews' = Reveal(texts, seats))
            /\ \A d \in Directions :
                 /\ texts[d].state = "PUBLISHED" => reviews[d].published
                 /\ texts[d].state = "SUBMITTED_HELD" => ~reviews[d].published
                 /\ \/ seats[d].closes = slots[d].closes
                    \/ texts[d].state = "SUBMITTED_HELD" => now < seats[d].closes
      BY <1>1, StepTexts
    <2>2. ASSUME NEW d \in Directions, reviews'[d].state = "PUBLISHED", ~reviews[d].published
          PROVE  /\ trusted /\ attendance' = "COMPLETED"
                 /\ \/ slots[d].closes <= now
                    \/ ~reviews[Other(d)].published /\ reviews'[Other(d)].state = "PUBLISHED"
      <3>1. reviews' = Reveal(texts, seats) /\ trusted /\ attendance' = "COMPLETED"
        BY <2>1, <2>2
      <3>2. texts[d].state = "SUBMITTED_HELD" /\
              (seats[d].closes <= now \/ \A o \in Directions : texts[o].state = "SUBMITTED_HELD"
                                                               /\ reviews'[o].state = "PUBLISHED")
        BY <2>1, <2>2, <3>1, RevealFacts
      <3>3. now \in Nat /\ seats[d].closes \in Nat
        BY <1>1 DEF RInv, TypeInv, SlotRows
      <3>4. CASE seats[d].closes <= now
        BY <2>1, <3>1, <3>2, <3>3, <3>4
      <3>5. CASE \A o \in Directions : texts[o].state = "SUBMITTED_HELD" /\ reviews'[o].state = "PUBLISHED"
        BY <2>1, <3>1, <3>5, OtherIs
      <3>6. QED
        BY <3>2, <3>4, <3>5
    <2>3. QED
      BY <2>2
  <1>2. RInv /\ [ModerationNext]_allVars => [Duly]_vars
    BY <1>1
  <1>3. QED
    BY InitRInv, StepRInv, <1>2, PTL DEF ModerationSpec, RevealedTogetherOrLate
=============================================================================
