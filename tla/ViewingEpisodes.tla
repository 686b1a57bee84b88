-------------------------- MODULE ViewingEpisodes --------------------------
(***************************************************************************)
(* The viewing episodes of one Interaction: ViewingStore (viewing.ts) over *)
(* the tables of migration 0033, and the trigger 0034 adds to them.        *)
(*                                                                         *)
(* A command is one database transaction that holds the Interaction and    *)
(* the viewing row, so each operation is one atomic step; the body of an   *)
(* operation (the callback "work" of ViewingStore.command) is an operator  *)
(* here, and module ViewingCommands wraps it in versions and receipts.     *)
(* The expiry worker is not atomic: it leases the due jobs in one          *)
(* transaction and handles each of them in a later one, and it may die, or *)
(* lose its lease to another run, in between.                              *)
(*                                                                         *)
(* Abstractions.  Time is a counter; 48 hours and the one-minute lease are *)
(* the constants ResponseWindow and LeaseTime.  Everything contextEligible *)
(* reads about participants, blocks, listing and region is one Boolean     *)
(* that may change at any time.  A side stands for its authorized users.   *)
(* An episode that is SCHEDULED is left alone here: rescheduling and       *)
(* attendance are modules of their own.                                    *)
(***************************************************************************)
EXTENDS Integers, Sequences

CONSTANTS Episodes,         \* viewing identifiers the Interaction may use
          Workers,          \* concurrent runs of expireOnce
          Starts,           \* start times a seeker may propose
          ResponseWindow,   \* 48 hours
          LeaseTime,        \* 1 minute
          MaxTime           \* bound: the clock stops here

None == "none"              \* NULL in a lease column

ASSUME StartsAssumption == Starts \subseteq Nat \ {0}
ASSUME TimesAssumption  == /\ ResponseWindow \in Nat \ {0} /\ LeaseTime \in Nat \ {0}
                           /\ MaxTime \in Nat
ASSUME WorkersAssumption == None \notin Workers

VARIABLES now,              \* statement_timestamp()
          eligible,         \* what contextEligible would answer
          viewings,         \* the rows of the table viewings
          events,           \* viewing_events: per episode, by sequence
          actions,          \* the EXPIRE_REQUEST row of viewing_scheduled_actions
          jobs              \* jobs[w]: episodes run w has leased, not yet handled

vars == <<now, eligible, viewings, events, actions, jobs>>

Guard == INSTANCE ViewingGuard WITH rows <- 
           [e \in Episodes |-> [state |-> viewings[e].state, version |-> viewings[e].version,
              schedule_version |-> viewings[e].schedule_version,
              scheduled |-> viewings[e].scheduled, confirmed |-> viewings[e].confirmed,
              validated |-> viewings[e].validated]]

Sides     == Guard!Sides
Cancelled == Guard!Cancelled
-----------------------------------------------------------------------------
(* The rows.                                                                 *)

States == Guard!ViewingStates \cup {"ABSENT"}

Viewing == [state : States, proposed : Nat, deadline : Nat,
            scheduled : Nat, version : Nat, schedule_version : Nat,
            confirmed : SUBSET Sides, validated : BOOLEAN]

NoViewing == [state |-> "ABSENT", proposed |-> 0, deadline |-> 0, scheduled |-> 0, version |-> 0,
              schedule_version |-> 0, confirmed |-> {}, validated |-> FALSE]

EventTypes == {"viewing_requested", "viewing_accepted", "viewing_declined", "viewing_confirmed",
               "viewing_scheduled", "viewing_cancelled", "viewing_expired"}

\* One row of viewing_events; its sequence number is its position in the log.
Event == [type : EventTypes, prior : States, next : States, side : Sides \cup {"SYSTEM"}]

Action == [state : {"NONE", "PENDING", "LEASED", "PROCESSED", "SKIPPED"}, due : Nat,
           token : Workers \cup {None}, until : Nat]

NoAction == [state |-> "NONE", due |-> 0, token |-> None, until |-> 0]

(* Rows, events, actions and runs keep the types of the tables they model, and *)
(* nothing is created or held outside them.                                    *)
TypeOK == /\ now \in Nat
          /\ eligible \in BOOLEAN
          /\ viewings \in [Episodes -> Viewing]
          /\ events \in [Episodes -> Seq(Event)]
          /\ actions \in [Episodes -> Action]
          /\ jobs \in [Workers -> SUBSET Episodes]

Init == /\ now = 0
        /\ eligible = TRUE
        /\ viewings = [e \in Episodes |-> NoViewing]
        /\ events = [e \in Episodes |-> <<>>]
        /\ actions = [e \in Episodes |-> NoAction]
        /\ jobs = [w \in Workers |-> {}]
-----------------------------------------------------------------------------
(* What every operation shares.                                              *)

\* Mutant of RequestBlocking: a request still unanswered does not block the next.
AnsweredBlocking == {"ACCEPTED", "SCHEDULED", "RESCHEDULED", "DISPUTED"}

\* requestBlockingStates: a new request has to wait for these, historical
\* disputes included.
RequestBlocking == {"REQUESTED", "ACCEPTED", "SCHEDULED", "RESCHEDULED", "DISPUTED"}
Cancellable == {"REQUESTED", "ACCEPTED", "SCHEDULED", "RESCHEDULED"}

Earliest(a, b) == IF a <= b THEN a ELSE b

Open(a) == a.state \in {"PENDING", "LEASED"}
Settled(a, outcome) == [a EXCEPT !.state = outcome, !.token = None, !.until = 0]

Released(a) == Settled(a, "PENDING")

\* An UPDATE or INSERT of the row and record(): one event per version, written
\* in the same transaction.
Record(e, row, type, side) ==
  /\ viewings' = [viewings EXCEPT ![e] = row]
  /\ events' = [events EXCEPT ![e] = Append(@,
                  [type |-> type, prior |-> viewings[e].state, next |-> row.state, side |-> side])]

\* Mutant of CloseAction: the action is closed only when no run has leased it.
ClosePendingAction(e) ==
  actions' = [actions EXCEPT ![e] = IF @.state = "PENDING" THEN Settled(@, "SKIPPED") ELSE @]

\* closeAction() of the base class; the trigger 0034 makes the same change on
\* its own for every update that leaves the row outside SCHEDULED/RESCHEDULED.
CloseAction(e) ==
  actions' = [actions EXCEPT ![e] = IF Open(@) THEN Settled(@, "SKIPPED") ELSE @]
-----------------------------------------------------------------------------
(* The operations: the callbacks of ViewingStore.command.                    *)

Create(e, start) ==
  /\ viewings[e] = NoViewing
  /\ eligible
  /\ \A o \in Episodes : viewings[o].state \notin RequestBlocking
  /\ start > now
  /\ LET deadline == Earliest(now + ResponseWindow, start)
     IN  /\ Record(e, [NoViewing EXCEPT !.state = "REQUESTED", !.proposed = start,
                         !.deadline = deadline, !.version = 1, !.schedule_version = 1],
                   "viewing_requested", "SEEKER")
         /\ actions' = [actions EXCEPT ![e] = [NoAction EXCEPT !.state = "PENDING", !.due = deadline]]
  /\ UNCHANGED <<now, eligible, jobs>>

Accept(e) ==
  LET row == viewings[e]
  IN  /\ row.state = "REQUESTED"
      /\ eligible
      /\ row.deadline > now /\ row.proposed > now
      /\ Record(e, [row EXCEPT !.state = "ACCEPTED", !.version = @ + 1, !.scheduled = row.proposed],
                "viewing_accepted", "PROVIDER")
      /\ CloseAction(e)
      /\ UNCHANGED <<now, eligible, jobs>>

Decline(e) ==
  LET row == viewings[e]
  IN  /\ row.state = "REQUESTED"
      /\ row.deadline > now
      /\ Record(e, [row EXCEPT !.state = "DECLINED", !.version = @ + 1], "viewing_declined", "PROVIDER")
      /\ CloseAction(e)
      /\ UNCHANGED <<now, eligible, jobs>>

Confirm(e, side) ==
  LET row  == viewings[e]
      both == row.confirmed \cup {side} = Sides
  IN  /\ row.state = "ACCEPTED"
      /\ eligible
      /\ side \notin row.confirmed
      /\ row.scheduled > now
      /\ Record(e, [row EXCEPT !.confirmed = @ \cup {side}, !.version = @ + 1,
                      !.state = IF both THEN "SCHEDULED" ELSE "ACCEPTED"],
                IF both THEN "viewing_scheduled" ELSE "viewing_confirmed", side)
      /\ UNCHANGED <<now, eligible, actions, jobs>>

\* Mutant of Cancel: the state is not looked at.
CancelAnyState(e, side) ==
  LET row == viewings[e]
  IN  /\ row # NoViewing
      /\ row.state \notin Cancelled
      /\ Record(e, [row EXCEPT !.version = @ + 1,
                      !.state = IF side = "SEEKER" THEN "CANCELLED_BY_SEEKER" ELSE "CANCELLED_BY_PROVIDER"],
                "viewing_cancelled", side)
      /\ CloseAction(e)
      /\ UNCHANGED <<now, eligible, jobs>>

\* No eligibility and no deadline: cancellation stays open to both sides.  The
\* refusal while an attendance claim is pending belongs to ViewingAttendance.
Cancel(e, side) ==
  LET row == viewings[e]
  IN  /\ row.state \in Cancellable
      /\ Record(e, [row EXCEPT !.version = @ + 1,
                      !.state = IF side = "SEEKER" THEN "CANCELLED_BY_SEEKER" ELSE "CANCELLED_BY_PROVIDER"],
                "viewing_cancelled", side)
      /\ CloseAction(e)
      /\ UNCHANGED <<now, eligible, jobs>>
-----------------------------------------------------------------------------
(* expireOnce.                                                               *)

Due(e) == /\ actions[e].due <= now
          /\ \/ actions[e].state = "PENDING"
             \/ actions[e].state = "LEASED" /\ actions[e].until <= now

\* First transaction: lease the due actions, expired leases included.
Lease(w) ==
  /\ jobs[w] = {}
  /\ \E e \in Episodes : Due(e)
  /\ jobs' = [jobs EXCEPT ![w] = {e \in Episodes : Due(e)}]
  /\ actions' = [e \in Episodes |->
       IF Due(e) THEN [actions[e] EXCEPT !.state = "LEASED", !.token = w, !.until = now + LeaseTime]
                 ELSE actions[e]]
  /\ UNCHANGED <<now, eligible, viewings, events>>

Owns(w, e) == actions[e].state = "LEASED" /\ actions[e].token = w

Handled(w, e) == jobs' = [jobs EXCEPT ![w] = @ \ {e}]

\* Second transaction, the viewing row locked by somebody else (SKIP LOCKED):
\* the job goes back if this run still owns it.
SkipBusy(w, e) ==
  /\ e \in jobs[w]
  /\ actions' = [actions EXCEPT ![e] = IF Owns(w, e) THEN Released(@) ELSE @]
  /\ Handled(w, e)
  /\ UNCHANGED <<now, eligible, viewings, events>>

\* Second transaction, the lease taken over or the action closed meanwhile.
LoseLease(w, e) ==
  /\ e \in jobs[w]
  /\ ~Owns(w, e)
  /\ Handled(w, e)
  /\ UNCHANGED <<now, eligible, viewings, events, actions>>

\* Second transaction, lease still held.  A row that is no longer REQUESTED, or
\* whose deadline has not come, is handled too; TimerArmed says there is none.
Handle(w, e) ==
  LET row == viewings[e]
  IN  /\ e \in jobs[w]
      /\ Owns(w, e)
      /\ IF row.state # "REQUESTED"
         THEN /\ actions' = [actions EXCEPT ![e] = Settled(@, "SKIPPED")]
              /\ UNCHANGED <<viewings, events>>
         ELSE IF row.deadline > now
         THEN /\ actions' = [actions EXCEPT ![e] = [Released(@) EXCEPT !.due = row.deadline]]
              /\ UNCHANGED <<viewings, events>>
         ELSE /\ actions' = [actions EXCEPT ![e] = Settled(@, "PROCESSED")]
              /\ Record(e, [row EXCEPT !.state = "EXPIRED", !.version = @ + 1],
                        "viewing_expired", "SYSTEM")
      /\ Handled(w, e)
      /\ UNCHANGED <<now, eligible>>

\* The process dies, or a job throws, between the two transactions: its leases
\* stay and run out.  Bound: only when they run out before the clock stops.
Crash(w) ==
  /\ jobs[w] # {}
  /\ \A e \in jobs[w] : actions[e].until <= MaxTime
  /\ jobs' = [jobs EXCEPT ![w] = {}]
  /\ UNCHANGED <<now, eligible, viewings, events, actions>>
-----------------------------------------------------------------------------
Tick == /\ now < MaxTime
        /\ now' = now + 1
        /\ UNCHANGED <<eligible, viewings, events, actions, jobs>>

\* A participant, block, listing or region change committed by another part of
\* the system: an inquiry closed or restricted, a phone replaced, a listing paused.
EligibilityChanges ==
  /\ eligible' = ~eligible
  /\ UNCHANGED <<now, viewings, events, actions, jobs>>

Command == \E e \in Episodes :
             \/ \E start \in Starts : Create(e, start)
             \/ Accept(e)
             \/ Decline(e)
             \/ \E side \in Sides : Confirm(e, side)
             \/ \E side \in Sides : Cancel(e, side)

Worker == \E w \in Workers :
            \/ Lease(w)
            \/ \E e \in Episodes : SkipBusy(w, e)
            \/ \E e \in Episodes : LoseLease(w, e)
            \/ \E e \in Episodes : Handle(w, e)
            \/ Crash(w)

Next == Command \/ Worker \/ Tick \/ EligibilityChanges

Safety == Init /\ [][Next]_vars
-----------------------------------------------------------------------------
(* Properties.                                                               *)

\* However commands, expiry runs and new requests interleave, an Interaction has
\* at most one current appointment (interaction-and-moderation-rules.md:28): the
\* check in create() and the index viewings_one_active_interaction agree.
OneCurrentAppointment == Guard!OneCurrent

\* An episode waits for an answer exactly while its expiry action is open, due
\* at its deadline, and the action is PROCESSED for the episodes that expired and
\* for no other: no crash, lost lease, busy row or command loses the timer of a
\* request, leaves one behind for an episode that was answered, or lets a slow
\* run expire what another one settled.
TimerArmed ==
  \A e \in Episodes :
    /\ IF viewings[e].state = "REQUESTED"
       THEN Open(actions[e]) /\ actions[e].due = viewings[e].deadline
       ELSE ~Open(actions[e])
    /\ actions[e].state = "PROCESSED" <=> viewings[e].state = "EXPIRED"

\* No write of the store is one the database guard refuses.
ImplementsGuard == Guard!Spec

=============================================================================
