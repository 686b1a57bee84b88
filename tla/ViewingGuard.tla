---------------------------- MODULE ViewingGuard ----------------------------
(***************************************************************************)
(* What the database itself promises about the viewing episodes of one     *)
(* Interaction, whoever writes them: the trigger viewing_episode_guard in  *)
(* its final form (migration 0038), together with the unique index         *)
(* viewings_one_active_interaction.  It is the abstract specification      *)
(* that the TypeScript stores are shown to implement: a command or worker  *)
(* whose write the guard would refuse would fail after its own checks had  *)
(* accepted it.                                                            *)
(*                                                                         *)
(* A row keeps the columns that guard reads.  Time is not part of the      *)
(* abstract state: the deadline conditions belong to the stores.           *)
(***************************************************************************)
EXTENDS Integers

CONSTANT Episodes           \* the viewing identifiers of one Interaction

VARIABLE rows               \* rows[e]: the columns of viewing e the guard reads

Sides == {"SEEKER", "PROVIDER"}

Cancelled == {"CANCELLED_BY_SEEKER", "CANCELLED_BY_PROVIDER"}

\* The outcomes a validated attendance ends in.
Validated == {"COMPLETED", "SEEKER_NO_SHOW", "PROVIDER_NO_SHOW"}

Scheduling == {"REQUESTED", "ACCEPTED", "SCHEDULED", "RESCHEDULED"}

\* CHECK on viewings.state; ABSENT is the row that has not been inserted yet.
ViewingStates == Scheduling \cup Cancelled \cup Validated
                   \cup {"DECLINED", "EXPIRED", "DISPUTED", "ATTENDANCE_UNCONFIRMED"}

Absent == [state |-> "ABSENT", version |-> 0, schedule_version |-> 0,
           scheduled |-> 0, confirmed |-> {}, validated |-> FALSE]

\* The predicate of the partial unique index: a dispute of attendance that was
\* never validated still holds the slot, a historical dispute does not.
Occupies(r) == r.state \in Scheduling \/ (r.state = "DISPUTED" /\ ~r.validated)

\* From REQUESTED, ACCEPTED, SCHEDULED and RESCHEDULED the scheduling commands
\* may go here, from SCHEDULED and the validated outcomes attendance goes on.
Successors(s) ==
  CASE s = "REQUESTED"   -> {"ACCEPTED", "DECLINED", "EXPIRED"} \cup Cancelled
    [] s = "ACCEPTED"    -> {"ACCEPTED", "SCHEDULED"} \cup Cancelled
    [] s = "SCHEDULED"   -> {"SCHEDULED", "RESCHEDULED", "DISPUTED"} \cup Cancelled \cup Validated
    [] s = "RESCHEDULED" -> {"SCHEDULED"}
    [] s \in Validated   -> {"DISPUTED"}
    [] OTHER             -> {}

\* The INSERT branch of the guard, with the index on the row it adds.
Inserts(r, others) ==
  /\ r.state = "REQUESTED" /\ r.version = 1 /\ r.schedule_version = 1
  /\ r.confirmed = {} /\ ~r.validated /\ r.scheduled = 0
  /\ \A o \in others : o.state # "DISPUTED" /\ ~Occupies(o)

\* The UPDATE branch: one version at a time along Successors, the schedule
\* replaced only by SCHEDULED -> RESCHEDULED, confirmations and the accepted
\* times retained, validation recorded when attendance leaves SCHEDULED.
Updates(old, new) ==
  /\ new.state \in Successors(old.state)
  /\ new.version = old.version + 1
  /\ \/ /\ new.schedule_version = old.schedule_version
        /\ old.scheduled # 0 => new.scheduled = old.scheduled
        /\ new.state # "RESCHEDULED"
     \/ /\ new.schedule_version = old.schedule_version + 1
        /\ new.state = "RESCHEDULED"
  /\ old.confirmed \subseteq new.confirmed
  /\ new.validated = (old.validated \/ (old.state = "SCHEDULED" /\ new.state \in Validated))

\* The branch for a staff decision on a disputed or already decided episode:
\* only the state and the version move, and provenance is filled at most once.
Adjudicates(old, new) ==
  /\ old.state \in {"DISPUTED", "ATTENDANCE_UNCONFIRMED"} \cup Validated
  /\ new.state \in {"ATTENDANCE_UNCONFIRMED"} \cup Validated
  /\ new = [old EXCEPT !.state = new.state, !.version = @ + 1,
               !.validated = @ \/ new.state \in Validated]

\* A transaction may update one row several times: rescheduling answers the
\* proposal, replaces the schedule and schedules again, each under the guard.
Replaces(old, new) ==
  LET answered == [old EXCEPT !.version = @ + 1]
      replaced == [answered EXCEPT !.state = "RESCHEDULED", !.version = @ + 1,
                     !.schedule_version = @ + 1, !.scheduled = new.scheduled]
  IN  Updates(old, answered) /\ Updates(answered, replaced) /\ Updates(replaced, new)

Init == rows = [e \in Episodes |-> Absent]

Insert(e) ==
  /\ rows[e] = Absent
  /\ rows' = [rows EXCEPT ![e] = rows'[e]]
  /\ Inserts(rows'[e], {rows[o] : o \in Episodes \ {e}})

Update(e) ==
  /\ rows[e] # Absent
  /\ rows' = [rows EXCEPT ![e] = rows'[e]]
  /\ \/ Updates(rows[e], rows'[e])
     \/ Replaces(rows[e], rows'[e])
     \/ Adjudicates(rows[e], rows'[e])

Next == \E e \in Episodes : Insert(e) \/ Update(e)

Spec == Init /\ [][Next]_rows

-----------------------------------------------------------------------------
(* At most one row of an Interaction satisfies the index predicate, and no   *)
(* row is ever deleted or stepped back: what a reader of the tables may      *)
(* assume (domain-model.md: "one current appointment per interaction").      *)
OneCurrent == \A e, f \in Episodes : Occupies(rows[e]) /\ Occupies(rows[f]) => e = f
=============================================================================
