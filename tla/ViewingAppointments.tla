------------------------ MODULE ViewingAppointments ------------------------
(***************************************************************************)
(* Rescheduling and reminders: ViewingAppointmentStore, a subclass of      *)
(* ViewingStore (viewing-appointments.ts), over the tables and triggers of *)
(* migration 0034.                                                         *)
(*                                                                         *)
(* The module extends ViewingEpisodes the way the class extends its base:  *)
(* inherited operations are the base actions conjoined with what the       *)
(* overridden record() and closeAction() and the trigger                   *)
(* viewing_appointment_work_invalidation add to them.                      *)
(*                                                                         *)
(* Abstractions.  A slot is its start; a proposal may keep the start (and  *)
(* move only the end).  A side stands for its users, so a withdrawal is    *)
(* open to the proposing side.  A transaction happens at one instant, so   *)
(* the failures REMINDER_ELIGIBILITY_LOST and REMINDER_WINDOW_ELAPSED,     *)
(* which end like the skipped branches of the same job, do not occur, and  *)
(* nor does the backfill of plans and notices for rows older than 0034.    *)
(***************************************************************************)
EXTENDS ViewingEpisodes

CONSTANTS Day, TwoHours,    \* lead times of the two reminders
          MaxProposals      \* bound: proposals ever made for one episode

ASSUME LeadsAssumption == Day \in Nat /\ TwoHours \in 1 .. Day
ASSUME ProposalsAssumption == MaxProposals \in Nat

VARIABLES proposals,        \* viewing_reschedule_proposals of each episode, oldest first
          history,          \* viewing_schedule_history: replaced starts by schedule version
          plans,            \* schedule versions with a row in viewing_reminder_plans
          work,             \* the other viewing_scheduled_actions
          notices,          \* reminder notices (each written for both sides)
          taken             \* taken[w]: actions run w has leased, not yet handled

newVars == <<proposals, history, plans, work, notices, taken>>
appointmentVars == <<now, eligible, viewings, events, actions, jobs,
                     proposals, history, plans, work, notices, taken>>
-----------------------------------------------------------------------------
Reminders == {"REMINDER_24H", "REMINDER_2H"}

\* The unique keys of viewing_scheduled_actions: an expiry by its proposal, a
\* reminder by kind and schedule version.
Numbers == 1 .. MaxProposals + 1
Jobs    == Episodes \X (Reminders \cup {"EXPIRE_RESCHEDULE"}) \X Numbers

Job(e, type, n) == <<e, type, n>>
JobsOf(e) == {j \in Jobs : j[1] = e}

AppointmentInit ==
  /\ Init
  /\ proposals = [e \in Episodes |-> <<>>]
  /\ history = [e \in Episodes |-> <<>>]
  /\ plans = [e \in Episodes |-> {}]
  /\ work = [j \in Jobs |-> NoAction]
  /\ notices = [e \in Episodes |-> <<>>]
  /\ taken = [w \in Workers |-> {}]

Pending(e) == {i \in DOMAIN proposals[e] : proposals[e][i].state = "PENDING"}

\* expected_schedule_version of an action.
Expected(j) == IF j[2] = "EXPIRE_RESCHEDULE" THEN proposals[j[1]][j[3]].base ELSE j[3]
-----------------------------------------------------------------------------
(* What the subclass and the trigger add to the inherited operations.        *)

Lead(kind)   == IF kind = "REMINDER_24H" THEN Day ELSE TwoHours
Opens(kind, start)  == start - Lead(kind)
Closes(kind, start) == IF kind = "REMINDER_24H" THEN start - TwoHours ELSE start

\* Mutant of Missed: off by one at the end of the window.
MissedAfter(kind, start) == Closes(kind, start) < now

Ahead(kind, start)  == Opens(kind, start) > now
Missed(kind, start) == Closes(kind, start) <= now

\* A table of actions with some of its open ones skipped.
Skipping(J, table) == [j \in Jobs |-> IF j \in J /\ Open(table[j]) THEN Settled(table[j], "SKIPPED") ELSE table[j]]

\* planReminders(row, true) on a table of actions: once per schedule version,
\* and only the reminders whose lead time is still ahead.
Planning(e, row, table) ==
  [j \in Jobs |->
     IF /\ row.schedule_version \notin plans[e]
        /\ \E kind \in Reminders : /\ j = Job(e, kind, row.schedule_version)
                                   /\ Ahead(kind, row.scheduled)
     THEN [NoAction EXCEPT !.state = "PENDING", !.due = Opens(j[2], row.scheduled)]
     ELSE table[j]]

\* A pending proposal among them is no longer one to answer.
Invalidated(made) ==
  [i \in DOMAIN made |->
     IF made[i].state = "PENDING" THEN [made[i] EXCEPT !.state = "INVALIDATED", !.version = @ + 1] ELSE made[i]]

\* Mutant of WorkInvalidation: the pending proposal is forgotten.
ActionInvalidation(e) ==
  /\ work' = IF viewings'[e].state \in {"SCHEDULED", "RESCHEDULED"} THEN work ELSE Skipping(JobsOf(e), work)
  /\ UNCHANGED proposals

\* The trigger, and closeAction(): an episode that leaves SCHEDULED takes its
\* open actions and its pending proposal with it.
WorkInvalidation(e) ==
  IF viewings'[e].state \in {"SCHEDULED", "RESCHEDULED"}
  THEN UNCHANGED <<proposals, work>>
  ELSE /\ work' = Skipping(JobsOf(e), work)
       /\ proposals' = [proposals EXCEPT ![e] = Invalidated(@)]

CloseAppointment(e) == WorkInvalidation(e) /\ UNCHANGED <<history, plans, notices, taken>>

\* record(): the event viewing_scheduled plans the reminders.
PlanAppointment(e) ==
  /\ IF viewings'[e].state = "SCHEDULED"
     THEN /\ work' = Planning(e, viewings'[e], work)
          /\ plans' = [plans EXCEPT ![e] = @ \cup {viewings'[e].schedule_version}]
     ELSE UNCHANGED <<plans, work>>
  /\ UNCHANGED <<proposals, history, notices, taken>>
-----------------------------------------------------------------------------
(* proposeReschedule and respondReschedule: the callbacks of                 *)
(* rescheduleCommand.                                                        *)

Propose(e, side, start) ==
  LET row     == viewings[e]
      expires == Earliest(Earliest(now + ResponseWindow, row.scheduled), start)
      number  == Len(proposals[e]) + 1
  IN  /\ number <= MaxProposals
      /\ row.state = "SCHEDULED"
      /\ eligible
      /\ Pending(e) = {}
      /\ row.scheduled > now /\ start > now
      /\ proposals' = [proposals EXCEPT ![e] = Append(@,
            [base |-> row.schedule_version, base_start |-> row.scheduled, start |-> start, side |-> side,
             version |-> 1, state |-> "PENDING", approved |-> {}, expires |-> expires])]
      /\ work' = [work EXCEPT ![Job(e, "EXPIRE_RESCHEDULE", number)] =
                    [NoAction EXCEPT !.state = "PENDING", !.due = expires]]
      /\ Record(e, [row EXCEPT !.version = @ + 1], "viewing_reschedule_proposed", side)
      /\ UNCHANGED <<now, eligible, actions, jobs, history, plans, notices, taken>>

\* The conditions and the UPDATE that every answer shares.
Answerable(e, i) ==
  LET p == proposals[e][i]
  IN  /\ p.base = viewings[e].schedule_version
      /\ p.state = "PENDING" /\ viewings[e].state = "SCHEDULED"
      /\ p.expires > now /\ p.base_start > now /\ p.start > now

Answered(p, state, approved) == [p EXCEPT !.state = state, !.approved = approved, !.version = @ + 1]

Answer(e, i, state, approved) == proposals' = [proposals EXCEPT ![e][i] = Answered(@, state, approved)]

\* Mutant of Agreed: the side that proposed counts as approving.
AgreedByOther(e, i, side) == side # proposals[e][i].side

Agreed(e, i, side) == proposals[e][i].approved \cup {side} = Sides

ApproveReschedule(e, i, side) ==
  LET p == proposals[e][i]
  IN  /\ Answerable(e, i)
      /\ eligible
      /\ side \notin p.approved
      /\ ~Agreed(e, i, side)
      /\ Answer(e, i, "PENDING", p.approved \cup {side})
      /\ Record(e, [viewings[e] EXCEPT !.version = @ + 1], "viewing_reschedule_accepted", side)
      /\ UNCHANGED <<now, eligible, actions, jobs, history, plans, work, notices, taken>>

\* Three UPDATEs: the approval, SCHEDULED -> RESCHEDULED and back to SCHEDULED.
Replaced(row, start) == [row EXCEPT !.version = @ + 3, !.schedule_version = @ + 1, !.scheduled = start]

\* The second approval replaces the schedule: three versions and three events
\* in one transaction, the old schedule's work skipped and the new one planned.
FinalizeReschedule(e, i, side) ==
  LET row == viewings[e]
      p   == proposals[e][i]
      new == Replaced(row, p.start)
      obsolete == {j \in JobsOf(e) : Open(work[j]) /\ Expected(j) = row.schedule_version}
      Entry(type, prior, next) == [type |-> type, prior |-> prior, next |-> next, side |-> side]
  IN  /\ Answerable(e, i)
      /\ eligible
      /\ side \notin p.approved
      /\ Agreed(e, i, side)
      /\ Answer(e, i, "FINALIZED", p.approved \cup {side})
      /\ history' = [history EXCEPT ![e] = Append(@, row.scheduled)]
      /\ viewings' = [viewings EXCEPT ![e] = new]
      /\ events' = [events EXCEPT ![e] = @ \o
                      <<Entry("viewing_reschedule_accepted", "SCHEDULED", "SCHEDULED"),
                        Entry("viewing_rescheduled", "SCHEDULED", "RESCHEDULED"),
                        Entry("viewing_reschedule_finalized", "RESCHEDULED", "SCHEDULED")>>]
      /\ work' = Planning(e, new, Skipping(obsolete, work))
      /\ plans' = [plans EXCEPT ![e] = @ \cup {new.schedule_version}]
      /\ UNCHANGED <<now, eligible, actions, jobs, notices, taken>>

\* Refused without asking whether the participants are still eligible.
Refuse(e, i, side, state, type) ==
  /\ Answerable(e, i)
  /\ Answer(e, i, state, proposals[e][i].approved)
  /\ Record(e, [viewings[e] EXCEPT !.version = @ + 1], type, side)
  /\ work' = Skipping({Job(e, "EXPIRE_RESCHEDULE", i)}, work)
  /\ UNCHANGED <<now, eligible, actions, jobs, history, plans, notices, taken>>

RejectReschedule(e, i, side) ==
  side # proposals[e][i].side /\ Refuse(e, i, side, "REJECTED", "viewing_reschedule_rejected")

WithdrawReschedule(e, i, side) ==
  side = proposals[e][i].side /\ Refuse(e, i, side, "WITHDRAWN", "viewing_reschedule_withdrawn")
-----------------------------------------------------------------------------
(* appointmentsOnce, which a run of the worker calls after expireOnce.       *)

\* Future work is leased too, to be revalidated: there is no due condition.
Leasable(j) == work[j].state = "PENDING" \/ (work[j].state = "LEASED" /\ work[j].until <= now)

LeaseAppointments(w) ==
  LET leasable == {j \in Jobs : Leasable(j)}
  IN  /\ jobs[w] = {} /\ taken[w] = {}
      /\ leasable # {}
      /\ taken' = [taken EXCEPT ![w] = leasable]
      /\ work' = [j \in Jobs |->
           IF j \in leasable
           THEN [work[j] EXCEPT !.state = "LEASED", !.token = w, !.until = now + LeaseTime]
           ELSE work[j]]
      /\ UNCHANGED <<now, eligible, viewings, events, actions, jobs, proposals, history, plans, notices>>

OwnsWork(w, j) == work[j].state = "LEASED" /\ work[j].token = w

HandledWork(w, j, action) ==
  /\ work' = [work EXCEPT ![j] = action]
  /\ taken' = [taken EXCEPT ![w] = @ \ {j}]

\* The viewing row is locked by a command or by another run.
SkipBusyWork(w, j) ==
  /\ j \in taken[w]
  /\ OwnsWork(w, j)
  /\ HandledWork(w, j, Released(work[j]))
  /\ UNCHANGED <<now, eligible, viewings, events, actions, jobs, proposals, history, plans, notices>>

LoseWork(w, j) ==
  /\ j \in taken[w]
  /\ ~OwnsWork(w, j)
  /\ taken' = [taken EXCEPT ![w] = @ \ {j}]
  /\ UNCHANGED <<now, eligible, viewings, events, actions, jobs, proposals, history, plans, work, notices>>

\* EXPIRE_RESCHEDULE: a proposal ends when its time is over or when it may no
\* longer be agreed on, and a loss of eligibility is not undone by its return.
HandleProposal(w, j) ==
  LET e   == j[1]
      row == viewings[e]
      p   == proposals[e][j[3]]
      due == p.expires <= now
  IN  /\ j \in taken[w] /\ OwnsWork(w, j)
      /\ j[2] = "EXPIRE_RESCHEDULE"
      /\ IF p.state # "PENDING"
         THEN /\ HandledWork(w, j, Settled(work[j], "SKIPPED"))
              /\ UNCHANGED <<viewings, events, proposals>>
         ELSE IF row.state # "SCHEDULED" \/ row.schedule_version # p.base \/ ~eligible \/ due
         THEN /\ Answer(e, j[3], IF due THEN "EXPIRED" ELSE "INVALIDATED", p.approved)
              /\ IF row.state = "SCHEDULED"
                 THEN Record(e, [row EXCEPT !.version = @ + 1],
                        IF due THEN "viewing_reschedule_expired" ELSE "viewing_reschedule_invalidated", "SYSTEM")
                 ELSE UNCHANGED <<viewings, events>>
              /\ HandledWork(w, j, Settled(work[j], "PROCESSED"))
         ELSE /\ HandledWork(w, j, [Released(work[j]) EXCEPT !.due = p.expires])
              /\ UNCHANGED <<viewings, events, proposals>>
      /\ UNCHANGED <<now, eligible, actions, jobs, history, plans, notices>>

\* REMINDER_24H and REMINDER_2H.
HandleReminder(w, j) ==
  LET e    == j[1]
      kind == j[2]
      row  == viewings[e]
      sent == \E i \in DOMAIN notices[e] : notices[e][i].kind = kind /\ notices[e][i].schedule = j[3]
  IN  /\ j \in taken[w] /\ OwnsWork(w, j)
      /\ kind \in Reminders
      /\ IF \/ row.state # "SCHEDULED" \/ row.schedule_version # j[3]
            \/ ~eligible
            \/ Missed(kind, row.scheduled)
         THEN HandledWork(w, j, Settled(work[j], "SKIPPED")) /\ UNCHANGED notices
         ELSE IF Ahead(kind, row.scheduled)
         THEN /\ HandledWork(w, j, [Released(work[j]) EXCEPT !.due = Opens(kind, row.scheduled)])
              /\ UNCHANGED notices
         ELSE /\ HandledWork(w, j, Settled(work[j], "PROCESSED"))
              /\ notices' = [notices EXCEPT ![e] = IF sent THEN @ ELSE Append(@,
                   [kind |-> kind, schedule |-> j[3], start |-> row.scheduled, at |-> now])]
      /\ UNCHANGED <<now, eligible, viewings, events, actions, jobs, proposals, history, plans>>

\* The run dies with what it leased for either job queue.  Bound as in Crash.
CrashRun(w) ==
  /\ jobs[w] \cup taken[w] # {}
  /\ \A e \in jobs[w] : actions[e].until <= MaxTime
  /\ \A j \in taken[w] : work[j].until <= MaxTime
  /\ jobs' = [jobs EXCEPT ![w] = {}]
  /\ taken' = [taken EXCEPT ![w] = {}]
  /\ UNCHANGED <<now, eligible, viewings, events, actions, proposals, history, plans, work, notices>>
-----------------------------------------------------------------------------
Inherited ==
  \E e \in Episodes :
    \/ (\E start \in Starts : Create(e, start)) /\ UNCHANGED newVars
    \/ Accept(e) /\ CloseAppointment(e)
    \/ Decline(e) /\ CloseAppointment(e)
    \/ \E side \in Sides : Cancel(e, side) /\ CloseAppointment(e)
    \/ \E side \in Sides : Confirm(e, side) /\ PlanAppointment(e)

Rescheduling ==
  \E e \in Episodes, side \in Sides :
    \/ \E start \in Starts : Propose(e, side, start)
    \/ \E i \in DOMAIN proposals[e] : \/ ApproveReschedule(e, i, side)
                                      \/ FinalizeReschedule(e, i, side)
                                      \/ RejectReschedule(e, i, side)
                                      \/ WithdrawReschedule(e, i, side)

\* One call of expireOnce comes before appointmentsOnce in every run.
Expiry(w) ==
  \/ Lease(w) /\ taken[w] = {} /\ UNCHANGED newVars
  \/ \E e \in Episodes : (SkipBusy(w, e) \/ LoseLease(w, e)) /\ UNCHANGED newVars
  \/ \E e \in Episodes : Handle(w, e) /\ CloseAppointment(e)

Appointments(w) ==
  \/ LeaseAppointments(w)
  \/ \E j \in Jobs : SkipBusyWork(w, j) \/ LoseWork(w, j) \/ HandleProposal(w, j) \/ HandleReminder(w, j)

AppointmentNext ==
  \/ Inherited
  \/ Rescheduling
  \/ \E w \in Workers : Expiry(w) \/ Appointments(w) \/ CrashRun(w)
  \/ (Tick \/ EligibilityChanges) /\ UNCHANGED newVars

AppointmentSafety == AppointmentInit /\ [][AppointmentNext]_appointmentVars

-----------------------------------------------------------------------------
(* Properties.                                                               *)

\* A pending proposal is always one that could still be agreed on: it is the
\* last one of its episode, for the current schedule of a SCHEDULED row, and
\* its expiry is open at the time it expires.  Nothing else is left in the queue.
ProposalArmed ==
  \A e \in Episodes, i \in Numbers :
    LET expiry == work[Job(e, "EXPIRE_RESCHEDULE", i)]
    IN  IF i \in Pending(e)
        THEN /\ i = Len(proposals[e])
             /\ viewings[e].state = "SCHEDULED"
             /\ proposals[e][i].base = viewings[e].schedule_version
             /\ proposals[e][i].base_start = viewings[e].scheduled
             /\ Open(expiry) /\ expiry.due = proposals[e][i].expires
        ELSE ~Open(expiry)

\* The history is the complete chain of schedules: the first one is what the
\* seeker asked for, each later one what both sides approved in a proposal
\* made against the schedule it replaces.
JointlyReplaced ==
  \A e \in Episodes : viewings[e].scheduled # 0 =>
    LET starts == Append(history[e], viewings[e].scheduled)
    IN  /\ Len(starts) = viewings[e].schedule_version
        /\ starts[1] = viewings[e].proposed
        /\ \A n \in 2 .. Len(starts) : \E p \in {proposals[e][i] : i \in DOMAIN proposals[e]} :
             /\ p.state = "FINALIZED" /\ p.approved = Sides
             /\ p.base = n - 1 /\ p.base_start = starts[n - 1] /\ p.start = starts[n]

\* No open reminder outlives its schedule, whoever holds the lease on it when the
\* appointment is moved or cancelled; and a reminder reaches the sides at most once
\* per kind and schedule, inside its window, for the start they agreed on, and
\* exactly when its action says so.
RemindersOfTheSchedule ==
  /\ \A j \in Jobs : j[2] \in Reminders /\ Open(work[j]) =>
       /\ viewings[j[1]].state = "SCHEDULED" /\ viewings[j[1]].schedule_version = j[3]
       /\ work[j].due = Opens(j[2], viewings[j[1]].scheduled)
  /\ \A e \in Episodes :
    LET sent == notices[e]
    IN  /\ \A i \in DOMAIN sent :
             /\ Opens(sent[i].kind, sent[i].start) <= sent[i].at
             /\ sent[i].at < Closes(sent[i].kind, sent[i].start)
             /\ sent[i].start = Append(history[e], viewings[e].scheduled)[sent[i].schedule]
             /\ \A k \in DOMAIN sent :
                  sent[k].kind = sent[i].kind /\ sent[k].schedule = sent[i].schedule => k = i
        /\ \A kind \in Reminders, n \in Numbers :
             work[Job(e, kind, n)].state = "PROCESSED" <=>
               \E i \in DOMAIN sent : sent[i].kind = kind /\ sent[i].schedule = n

=============================================================================
