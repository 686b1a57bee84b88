------------------------- MODULE ViewingAttendance -------------------------
(***************************************************************************)
(* What became of the appointments of one Interaction:                     *)
(* ViewingAttendanceStore (viewing-attendance.ts) over the tables of       *)
(* migration 0035.  One side claims that the viewing took place or that    *)
(* the other side did not come; the other side confirms or disputes, and   *)
(* silence for 48 hours is confirmed by a leased worker.  A completed      *)
(* viewing opens the review slots of the Interaction, once; a dispute      *)
(* holds them and goes to staff (module AttendanceAdjudication).           *)
(*                                                                         *)
(* Abstractions.  A command is one transaction; keys, receipts and         *)
(* expected versions are those of module ViewingCommands.  One Boolean     *)
(* stands for everything attendanceContextEligible and claimantCurrent     *)
(* read, a side for its users.  Scheduling is reduced to what attendance   *)
(* relies on.  outcomes keeps attendance_effective_state: the state every  *)
(* reader sees, a staff decision included.                                 *)
(***************************************************************************)
EXTENDS Integers, Sequences

CONSTANTS Viewings,         \* viewing identifiers the Interaction may use
          Workers,          \* concurrent runs of attendanceOnce
          Starts,           \* start times that may be agreed
          Duration,         \* from scheduled_start to scheduled_end
          NoShowAfter,      \* 30 minutes
          Response,         \* 48 hours
          LeaseTime,        \* 1 minute
          Restrictions,     \* bound: whether eligibility is lost and regained
          MaxSchedules,     \* bound: times an appointment is set
          Outcomes,         \* bound: the outcomes that are claimed or decided
          MaxTime           \* bound: the clock stops here

None == "none"

ASSUME TimesAssumption == /\ Starts \subseteq Nat /\ {MaxTime, MaxSchedules} \subseteq Nat
                          /\ {Duration, NoShowAfter, Response, LeaseTime} \subseteq Nat \ {0}
                          /\ Restrictions \in BOOLEAN
                          /\ Outcomes \subseteq {"COMPLETED", "SEEKER_NO_SHOW", "PROVIDER_NO_SHOW"}
ASSUME NoneAssumption == None \notin Workers \cup Viewings

VARIABLES now, eligible,
          viewings,         \* state, start and schedule_version of each row
          claims,           \* viewing_attendance_claims, in the order they were made
          outcomes,         \* the effective state of viewing_attendance_outcomes
          noShows,          \* viewing_no_show_events
          jobs,             \* the FINALIZE_ATTENDANCE row of viewing_scheduled_actions
          taken,            \* taken[w]: viewings run w has leased, not yet handled
          boundary,         \* viewing_review_boundaries: at most one per Interaction
          slots             \* viewing_review_eligibilities, by direction

schedule == <<now, eligible>>
records  == <<viewings, claims, outcomes, noShows, boundary, slots>>
vars     == <<now, eligible, viewings, claims, outcomes, noShows, jobs, taken, boundary, slots>>

Sides == {"SEEKER", "PROVIDER"}
Other(side) == CHOOSE s \in Sides : s # side
Validated == {"COMPLETED", "SEEKER_NO_SHOW", "PROVIDER_NO_SHOW"}
Absence(side) == [SEEKER |-> "SEEKER_NO_SHOW", PROVIDER |-> "PROVIDER_NO_SHOW"][side]
RequestBlocking == {"REQUESTED", "SCHEDULED", "DISPUTED"}

Viewing == [state : {"ABSENT", "REQUESTED", "SCHEDULED", "CANCELLED", "DISPUTED",
                     "ATTENDANCE_UNCONFIRMED"} \cup Validated,
            start : Nat, schedule : Nat]
Job == [state : {"NONE", "PENDING", "LEASED", "PROCESSED", "SKIPPED"}, due : Nat,
        token : Workers \cup {None}, until : Nat]
NoJob == [state |-> "NONE", due |-> 0, token |-> None, until |-> 0]

Init == /\ now = 0 /\ eligible = TRUE
        /\ viewings = [v \in Viewings |-> [state |-> "ABSENT", start |-> 0, schedule |-> 0]]
        /\ claims = [v \in Viewings |-> <<>>]
        /\ outcomes = [v \in Viewings |-> "NONE"]
        /\ noShows = [v \in Viewings |-> "NONE"]
        /\ jobs = [v \in Viewings |-> NoJob]
        /\ taken = [w \in Workers |-> {}]
        /\ boundary = [viewing |-> None, state |-> "NONE"]
        /\ slots = [d \in Sides |-> "NONE"]
-----------------------------------------------------------------------------
(* Scheduling, as far as attendance depends on it.                           *)

Moved(v, row) == /\ viewings' = [viewings EXCEPT ![v] = row]
                 /\ UNCHANGED <<now, eligible, claims, outcomes, noShows, jobs, taken, boundary, slots>>

Request(v) ==
  /\ viewings[v].state = "ABSENT"
  /\ \A o \in Viewings : viewings[o].state \notin RequestBlocking
  /\ Moved(v, [state |-> "REQUESTED", start |-> 0, schedule |-> 1])

Agree(v, start) ==
  /\ viewings[v].state = "REQUESTED" /\ start > now
  /\ Moved(v, [viewings[v] EXCEPT !.state = "SCHEDULED", !.start = start])

\* Mutant of Unclaimed: one claim alone does not hold the appointment.
UnclaimedByBoth(v) == Len(claims[v]) < 2

\* ATTENDANCE_PENDING: a claimed appointment is neither moved nor cancelled.
Unclaimed(v) == claims[v] = <<>>

Reschedule(v, start) ==
  /\ viewings[v].state = "SCHEDULED" /\ Unclaimed(v) /\ viewings[v].schedule < MaxSchedules
  /\ viewings[v].start > now /\ start > now /\ start # viewings[v].start
  /\ Moved(v, [viewings[v] EXCEPT !.start = start, !.schedule = @ + 1])

Cancel(v) ==
  /\ viewings[v].state \in {"REQUESTED", "SCHEDULED"} /\ Unclaimed(v)
  /\ Moved(v, [viewings[v] EXCEPT !.state = "CANCELLED"])
-----------------------------------------------------------------------------
(* Effects that several operations share.                                    *)

Settled(j, state) == [j EXCEPT !.state = state, !.token = None, !.until = 0]
Open(j) == j.state \in {"PENDING", "LEASED"}

\* Mutant of Dispute: the review slots stay open and the absence on record.
DisputeKeepingSlots(v, made) ==
  /\ claims' = [claims EXCEPT ![v] = [i \in DOMAIN made |-> [made[i] EXCEPT !.state = "DISPUTED"]]]
  /\ outcomes' = [outcomes EXCEPT ![v] = "DISPUTED"]
  /\ viewings' = [viewings EXCEPT ![v].state = "DISPUTED"]
  /\ jobs' = [jobs EXCEPT ![v] = IF Open(@) THEN Settled(@, "SKIPPED") ELSE @]
  /\ UNCHANGED <<slots, boundary, noShows>>

\* dispute(): every claim, the outcome, the unused review slots of this viewing
\* and its no-show event are taken back, and the timer is closed.
Dispute(v, made) ==
  /\ claims' = [claims EXCEPT ![v] = [i \in DOMAIN made |-> [made[i] EXCEPT !.state = "DISPUTED"]]]
  /\ outcomes' = [outcomes EXCEPT ![v] = "DISPUTED"]
  /\ slots' = [d \in Sides |-> IF boundary.viewing = v /\ slots[d] = "OPEN" THEN "HELD" ELSE slots[d]]
  /\ noShows' = [noShows EXCEPT ![v] = IF @ = "VALID" THEN "INVALIDATED" ELSE @]
  /\ viewings' = [viewings EXCEPT ![v].state = "DISPUTED"]
  /\ jobs' = [jobs EXCEPT ![v] = IF Open(@) THEN Settled(@, "SKIPPED") ELSE @]
  /\ UNCHANGED boundary

\* reviewBoundary(): the first completion of the Interaction, and no other, opens
\* the review slots; own says that the seeker belongs to the organization.
ReviewBoundary(v, own) ==
  IF boundary.viewing # None
  THEN UNCHANGED <<boundary, slots>>
  ELSE /\ boundary' = [viewing |-> v, state |-> IF own THEN "HELD" ELSE "OPEN"]
       /\ slots' = IF own THEN slots ELSE [d \in Sides |-> "OPEN"]

\* finalize(): the claim, the outcome and the viewing change together, and the
\* completion or the absence leaves its consequence.
Finalize(v, method, own) ==
  LET claimed == claims[v][1].outcome
  IN  /\ claims' = [claims EXCEPT ![v][1].state = method]
      /\ outcomes' = [outcomes EXCEPT ![v] = claimed]
      /\ viewings' = [viewings EXCEPT ![v].state = claimed]
      /\ IF claimed = "COMPLETED"
         THEN ReviewBoundary(v, own) /\ UNCHANGED noShows
         ELSE noShows' = [noShows EXCEPT ![v] = "VALID"] /\ UNCHANGED <<boundary, slots>>
      /\ jobs' = [jobs EXCEPT ![v] = Settled(@, "PROCESSED")]
-----------------------------------------------------------------------------
(* The participants' commands.                                               *)

\* A second claim has to differ from the first, and disputes it.
MayClaim(v, side, outcome) ==
  /\ viewings[v].state = "SCHEDULED" /\ eligible
  /\ outcome # Absence(side)
  /\ now >= viewings[v].start + (IF outcome = "COMPLETED" THEN Duration ELSE NoShowAfter)
  /\ outcomes[v] \in {"NONE", "AWAITING_VALIDATION"}
  /\ \A i \in DOMAIN claims[v] : claims[v][i].outcome # outcome

ClaimAttendance(v, side, outcome) ==
  LET claim == [side |-> side, outcome |-> outcome, deadline |-> now + Response,
                schedule |-> viewings[v].schedule, state |-> "PENDING"]
  IN  /\ MayClaim(v, side, outcome)
      /\ IF outcomes[v] = "NONE"
         THEN /\ claims' = [claims EXCEPT ![v] = <<claim>>]
              /\ outcomes' = [outcomes EXCEPT ![v] = "AWAITING_VALIDATION"]
              /\ jobs' = [jobs EXCEPT ![v] = [NoJob EXCEPT !.state = "PENDING", !.due = claim.deadline]]
              /\ UNCHANGED <<viewings, noShows, boundary, slots>>
         ELSE Dispute(v, Append(claims[v], claim))
      /\ UNCHANGED <<schedule, taken>>

\* A claim is answered by the other side, about the schedule it was made for.
MayRespond(v, side, i) ==
  /\ claims[v][i].side # side /\ claims[v][i].schedule = viewings[v].schedule
  /\ outcomes[v] # "DISPUTED" /\ claims[v][i].state # "DISPUTED"

MayConfirm(v, side, i) ==
  /\ MayRespond(v, side, i) /\ claims[v][i].state = "PENDING"
  /\ outcomes[v] = "AWAITING_VALIDATION" /\ viewings[v].state = "SCHEDULED" /\ eligible

\* A dispute has no deadline of its own, and does not ask for eligibility.
MayDispute(v, side, i) ==
  MayRespond(v, side, i) /\ viewings[v].state \in {"SCHEDULED"} \cup Validated

ConfirmAttendance(v, side, own) == \E i \in DOMAIN claims[v] :
  MayConfirm(v, side, i) /\ Finalize(v, "CONFIRMED", own) /\ UNCHANGED <<schedule, taken>>

DisputeAttendance(v, side) == \E i \in DOMAIN claims[v] :
  MayDispute(v, side, i) /\ Dispute(v, claims[v]) /\ UNCHANGED <<schedule, taken>>
-----------------------------------------------------------------------------
(* What the read model offers to a side (attendanceProjection).              *)

OfferedResponse(v, side, i) ==
  /\ claims[v][i].side # side /\ claims[v][i].schedule = viewings[v].schedule
  /\ outcomes[v] \notin {"NONE", "DISPUTED"}

\* Mutant of CanConfirm: a claim that is no longer pending is still offered.
CanConfirmAlways(v, side, i) == OfferedResponse(v, side, i) /\ eligible

CanConfirm(v, side, i) == /\ OfferedResponse(v, side, i) /\ eligible /\ claims[v][i].state = "PENDING"
                          /\ viewings[v].state = "SCHEDULED" /\ outcomes[v] = "AWAITING_VALIDATION"
CanDispute(v, side, i) == /\ OfferedResponse(v, side, i) /\ claims[v][i].state # "DISPUTED"
                          /\ viewings[v].state \in {"SCHEDULED"} \cup Validated

\* A side is offered the claim of a completion, or of the other side's absence.
CanClaim(v, side, outcome) ==
  /\ viewings[v].state = "SCHEDULED" /\ eligible
  /\ outcomes[v] \in {"NONE", "AWAITING_VALIDATION"}
  /\ outcome \in {"COMPLETED", Absence(Other(side))}
  /\ now >= viewings[v].start + (IF outcome = "COMPLETED" THEN Duration ELSE NoShowAfter)
  /\ claims[v] # <<>> => claims[v][1].outcome # outcome
  /\ \A i \in DOMAIN claims[v] :
       claims[v][i].side = side /\ claims[v][i].schedule = viewings[v].schedule
         => claims[v][i].outcome # outcome
-----------------------------------------------------------------------------
(* attendanceOnce: one transaction leases, one per viewing handles.          *)

\* Mutant of Due: a lease that has run out is not taken over.
DueOnce(v) == jobs[v].due <= now /\ jobs[v].state = "PENDING"

Due(v) == /\ jobs[v].due <= now
          /\ jobs[v].state = "PENDING" \/ (jobs[v].state = "LEASED" /\ jobs[v].until <= now)

Lease(w) ==
  /\ taken[w] = {} /\ \E v \in Viewings : Due(v)
  /\ taken' = [taken EXCEPT ![w] = {v \in Viewings : Due(v)}]
  /\ jobs' = [v \in Viewings |-> IF Due(v) THEN [jobs[v] EXCEPT !.state = "LEASED", !.token = w,
                                                   !.until = now + LeaseTime] ELSE jobs[v]]
  /\ UNCHANGED <<schedule, records>>

\* Mutant of Owns: the row is found by its id alone.
OwnsById(w, v) == TRUE

Owns(w, v) == jobs[v].state = "LEASED" /\ jobs[v].token = w
Handled(w, v) == taken' = [taken EXCEPT ![w] = @ \ {v}]

\* OBSOLETE_OR_FINALIZED and CONTESTED_OR_FINALIZED.
Contested(v) == \/ viewings[v].state # "SCHEDULED" \/ claims[v][1].schedule # viewings[v].schedule
                \/ outcomes[v] # "AWAITING_VALIDATION" \/ claims[v][1].state # "PENDING"

\* The row is busy, the restriction freezes the window, or the safety context is
\* lost on the way and everything but the release is rolled back.
ReleaseJob(w, v) ==
  /\ v \in taken[w]
  /\ jobs' = [jobs EXCEPT ![v] = IF Owns(w, v) THEN Settled(@, "PENDING") ELSE @]
  /\ Handled(w, v)
  /\ UNCHANGED <<schedule, records>>

HandleJob(w, v, own) ==
  /\ v \in taken[w] /\ Owns(w, v)
  /\ IF Contested(v)
     THEN jobs' = [jobs EXCEPT ![v] = Settled(@, "SKIPPED")] /\ UNCHANGED records
     ELSE /\ eligible
          /\ IF claims[v][1].deadline > now
             THEN /\ jobs' = [jobs EXCEPT ![v] = [Settled(@, "PENDING") EXCEPT !.due = claims[v][1].deadline]]
                  /\ UNCHANGED records
             ELSE Finalize(v, "FINALIZED", own)
  /\ Handled(w, v)
  /\ UNCHANGED schedule

\* The process dies with leases in hand.  Bound: only when they run out in time.
Crash(w) ==
  /\ taken[w] # {} /\ \A v \in taken[w] : jobs[v].until <= MaxTime
  /\ taken' = [taken EXCEPT ![w] = {}]
  /\ UNCHANGED <<schedule, records, jobs>>
-----------------------------------------------------------------------------
Tick == now < MaxTime /\ now' = now + 1 /\ UNCHANGED <<eligible, records, jobs, taken>>

EligibilityChanges == Restrictions /\ eligible' = ~eligible /\ UNCHANGED <<now, records, jobs, taken>>

\* What the review store does with a slot: a submission consumes it, the end of
\* its window closes it.  Both ask that no outcome of the Interaction is disputed.
SlotUsed(d) ==
  /\ slots[d] = "OPEN" /\ eligible
  /\ \A v \in Viewings : outcomes[v] # "DISPUTED"
  /\ \E state \in {"CONSUMED", "EXPIRED"} : slots' = [slots EXCEPT ![d] = state]
  /\ UNCHANGED <<schedule, viewings, claims, outcomes, noShows, jobs, taken, boundary>>

Scheduling == \E v \in Viewings : \/ Request(v) \/ Cancel(v)
                                  \/ \E start \in Starts : Agree(v, start) \/ Reschedule(v, start)

Participants == \E v \in Viewings, side \in Sides :
                  \/ \E outcome \in Outcomes : ClaimAttendance(v, side, outcome)
                  \/ \E own \in BOOLEAN : ConfirmAttendance(v, side, own)
                  \/ DisputeAttendance(v, side)

Handling(w) == \E v \in Viewings : ReleaseJob(w, v) \/ \E own \in BOOLEAN : HandleJob(w, v, own)

Worker == \E w \in Workers : Lease(w) \/ Handling(w) \/ Crash(w)

Next == Scheduling \/ Participants \/ Worker \/ Tick \/ EligibilityChanges
          \/ \E d \in Sides : SlotUsed(d)

\* The worker's runs are scheduled for ever, and a row that is locked now is free
\* again and again: a due claim that may be closed is not passed over every time.
WorkerFair == \A w \in Workers :
  /\ WF_vars(Lease(w)) /\ WF_vars(Handling(w))
  /\ \A v \in Viewings : SF_vars(\E own \in BOOLEAN : HandleJob(w, v, own))

Spec == Init /\ [][Next]_vars
Live == Spec /\ WorkerFair /\ WF_vars(Tick)
-----------------------------------------------------------------------------
(* Properties.                                                               *)

\* Exactly the claims that wait for an answer have an open timer, due when their
\* 48 hours are over: no crash, stolen lease, dispute or confirmation loses it or
\* leaves it behind (viewing-attendance.ts:183, :314).
ClaimTimed ==
  \A v \in Viewings :
    IF outcomes[v] = "AWAITING_VALIDATION"
    THEN Open(jobs[v]) /\ jobs[v].due = claims[v][1].deadline
    ELSE ~Open(jobs[v])

\* The viewing, its outcome and the claims tell one story, whoever wrote last:
\* an appointment with a claim is never moved or cancelled, and leaves SCHEDULED
\* only for the outcome that was validated, disputed or decided.
ClaimGoverns ==
  \A v \in Viewings : claims[v] # <<>> =>
    /\ outcomes[v] # "NONE"
    /\ viewings[v].state = IF outcomes[v] = "AWAITING_VALIDATION" THEN "SCHEDULED" ELSE outcomes[v]
    /\ \A i \in DOMAIN claims[v] : claims[v][i].schedule = viewings[v].schedule

\* Whatever the read model offers a side, the command accepts at that moment:
\* the two are written apart, over claims, outcome, viewing and schedule
\* (viewing-attendance.ts:95-123 against :159-216).
OffersKept ==
  \A v \in Viewings, side \in Sides :
    /\ \A outcome \in Validated : CanClaim(v, side, outcome) => MayClaim(v, side, outcome)
    /\ \A i \in DOMAIN claims[v] :
         /\ CanConfirm(v, side, i) => MayConfirm(v, side, i)
         /\ CanDispute(v, side, i) => MayDispute(v, side, i)

\* While nothing restricts the Interaction, a claim nobody answers is settled.
ClaimsSettle == <>[]eligible => \A v \in Viewings :
  (outcomes[v] = "AWAITING_VALIDATION" /\ claims[v][1].deadline < MaxTime)
    ~> outcomes[v] # "AWAITING_VALIDATION"
=============================================================================
