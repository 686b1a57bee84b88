----------------------- MODULE AttendanceAdjudication -----------------------
(***************************************************************************)
(* Staff decide the disputed attendance of ViewingAttendance:              *)
(* AttendanceAdjudicationStore (attendance-adjudication.ts) over migration *)
(* 0038.  The dispute opens a case; a moderator who holds a grant for the  *)
(* case is assigned, investigates and decides; each side may appeal once,  *)
(* within 30 days; the answer to an appeal replaces the decision.  Every   *)
(* decision also moves the review slots of the whole Interaction.          *)
(*                                                                         *)
(* Abstractions.  Evidence, reasons and conflicts of interest are left out *)
(* but for the set `reviewers` of staff who now hold the permissions for   *)
(* the cases of this Interaction and have no conflict.  CLAIM_INVALIDATED  *)
(* and INSUFFICIENT_EVIDENCE have the one effect ATTENDANCE_UNCONFIRMED.   *)
(***************************************************************************)
EXTENDS ViewingAttendance, FiniteSets

CONSTANTS Staff,            \* the moderators
          AppealTime,       \* 30 days
          MaxAppeals        \* bound: appeals in all

NoStaff == "nobody"
ASSUME StaffAssumption == NoStaff \notin Staff /\ AppealTime \in Nat \ {0} /\ MaxAppeals \in Nat

VARIABLES reviewers,        \* staff whose grants allow them to act now
          cases,            \* viewing_attendance_cases with their workflow
          appeals,          \* appeals[v][side]: attendance_appeals and their outcome
          consumed          \* slots with a consumed_at: it is never taken back

workflow  == <<reviewers, cases, appeals, consumed>>
allVars   == <<vars, workflow>>

NoCase == [state |-> "NONE", assignee |-> NoStaff, original |-> "NONE",
           author |-> NoStaff, decided |-> 0, appealed |-> FALSE]

AdjudicationInit ==
  /\ Init
  /\ reviewers = Staff /\ cases = [v \in Viewings |-> NoCase] /\ consumed = {}
  /\ appeals = [v \in Viewings |-> [s \in Sides |-> "NONE"]]

\* A dispute opens the case of its outcome; a submitted review consumes its slot.
Attendance ==
  /\ Next
  /\ cases' = [v \in Viewings |-> IF outcomes'[v] = "DISPUTED" /\ cases[v] = NoCase
                                  THEN [NoCase EXCEPT !.state = "OPEN"] ELSE cases[v]]
  /\ consumed' = consumed \cup {d \in Sides : slots'[d] = "CONSUMED"}
  /\ UNCHANGED <<reviewers, appeals>>
-----------------------------------------------------------------------------
OnlyCase(v, row) == /\ cases' = [cases EXCEPT ![v] = row]
                    /\ UNCHANGED <<vars, reviewers, appeals, consumed>>

\* ASSIGN is lawful in every state of a case, a resolved one included.
Assign(v, actor, assignee) ==
  /\ {actor, assignee} \subseteq reviewers /\ cases[v].state # "NONE"
  /\ OnlyCase(v, [cases[v] EXCEPT !.assignee = assignee,
                                  !.state = IF @ = "OPEN" THEN "TRIAGED" ELSE @])

Allowed(v, actor) == actor \in reviewers /\ cases[v].assignee = actor

BeginInvestigation(v, actor) ==
  /\ Allowed(v, actor) /\ cases[v].state = "TRIAGED"
  /\ OnlyCase(v, [cases[v] EXCEPT !.state = "UNDER_REVIEW"])

\* Mutant of SlotsDecided: every slot returns unused.
SlotsDecidedAnew(v, outcome, opened, open) ==
  [d \in Sides |-> IF open[d] = "NONE" THEN "NONE" ELSE IF outcome = "COMPLETED" THEN "OPEN" ELSE "REVOKED"]

\* The slots after a decision on v: the boundary's own invalidation revokes them;
\* they return when the boundary is completed and nothing else is in dispute.
SlotsDecided(v, outcome, opened, open) ==
  LET effective(u) == IF u = v THEN outcome ELSE outcomes[u]
      unresolved   == \E u \in Viewings : effective(u) = "DISPUTED"
  IN  [d \in Sides |->
         CASE open[d] = "NONE" -> "NONE"
           [] effective(opened) # "COMPLETED" /\ opened = v -> "REVOKED"
           [] effective(opened) = "COMPLETED" /\ ~unresolved
                -> IF d \in consumed THEN "CONSUMED" ELSE "OPEN"
           [] OTHER -> open[d]]

\* command(): the viewing, the effective outcome, the boundary and the slots.
Effect(v, outcome, own) ==
  LET opens == outcome = "COMPLETED" /\ boundary.viewing = None
      held  == opens /\ own
      after == IF opens THEN [viewing |-> v, state |-> IF own THEN "HELD" ELSE "OPEN"] ELSE boundary
      open  == [d \in Sides |-> IF opens /\ ~held THEN "OPEN" ELSE slots[d]]
  IN  /\ outcomes' = [outcomes EXCEPT ![v] = outcome]
      /\ viewings' = [viewings EXCEPT ![v].state = outcome]
      /\ boundary' = after
      /\ slots' = IF after.viewing = None THEN slots
                  ELSE SlotsDecided(v, outcome, after.viewing, open)
      /\ UNCHANGED <<now, eligible, claims, noShows, jobs, taken, reviewers, consumed>>

Decide(v, actor, outcome, own) ==
  /\ Allowed(v, actor) /\ cases[v].state = "UNDER_REVIEW"
  /\ cases' = [cases EXCEPT ![v].state = "RESOLVED", ![v].original = outcome,
                             ![v].author = actor, ![v].decided = now]
  /\ Effect(v, outcome, own)
  /\ UNCHANGED appeals

\* Only the decision in force may be appealed, once by each side, before its deadline.
SubmitAppeal(v, side) ==
  /\ cases[v].state = "RESOLVED" /\ ~cases[v].appealed /\ appeals[v][side] = "NONE"
  /\ now < cases[v].decided + AppealTime
  /\ Cardinality({a \in Viewings \X Sides : appeals[a[1]][a[2]] # "NONE"}) < MaxAppeals
  /\ appeals' = [appeals EXCEPT ![v][side] = "SUBMITTED"]
  /\ UNCHANGED <<vars, reviewers, cases, consumed>>

\* UPHELD repeats the original outcome.  Another reviewer answers, or the author
\* alone when there is no other.
ResolveAppeal(v, side, actor, outcome, own) ==
  /\ Allowed(v, actor) /\ appeals[v][side] = "SUBMITTED"
  /\ actor = cases[v].author => reviewers \subseteq {actor}
  /\ appeals' = [appeals EXCEPT ![v][side] =
                   IF outcome = cases[v].original THEN "UPHELD" ELSE "OVERTURNED"]
  /\ cases' = [cases EXCEPT ![v].appealed = TRUE]
  /\ Effect(v, outcome, own)

GrantsChange == \E s \in Staff :
  /\ reviewers' = IF s \in reviewers THEN reviewers \ {s} ELSE reviewers \cup {s}
  /\ UNCHANGED <<vars, cases, appeals, consumed>>

Adjudication == \E v \in Viewings, actor \in Staff :
  \/ \E assignee \in Staff : Assign(v, actor, assignee)
  \/ BeginInvestigation(v, actor)
  \/ \E outcome \in Outcomes \cup {"ATTENDANCE_UNCONFIRMED"}, own \in BOOLEAN :
       Decide(v, actor, outcome, own) \/ \E side \in Sides : ResolveAppeal(v, side, actor, outcome, own)

AdjudicationNext == Attendance \/ Adjudication \/ GrantsChange
                      \/ \E v \in Viewings, side \in Sides : SubmitAppeal(v, side)

AdjudicationSpec == AdjudicationInit /\ [][AdjudicationNext]_allVars
-----------------------------------------------------------------------------
(* Properties.                                                               *)

\* What hangs on an outcome follows it, whatever the order of disputes, decisions
\* and appeals about any viewing of the Interaction.  The review slots say what the
\* attendance of the first completed viewing says: usable or used while it counts
\* as completed and nothing is in dispute, revoked once it is decided not to be,
\* and never open while it is itself in dispute (attendance-adjudication.ts:190-207,
\* viewing-attendance.ts:228).  An absence is on record only while it is what the
\* participants validated: nothing leaves or revives one (viewing-attendance.ts:229).
EffectsFollowOutcome ==
  /\ boundary.state = "OPEN" =>
       LET effective == outcomes[boundary.viewing]
       IN  /\ effective = "DISPUTED" => \A d \in Sides : slots[d] # "OPEN"
           /\ effective \notin {"COMPLETED", "DISPUTED"} => \A d \in Sides : slots[d] = "REVOKED"
           /\ effective = "COMPLETED" /\ (\A v \in Viewings : outcomes[v] # "DISPUTED") =>
                \A d \in Sides : slots[d] \in {"OPEN", "CONSUMED", "EXPIRED"}
  /\ \A v \in Viewings : noShows[v] = "VALID" <=>
       cases[v] = NoCase /\ outcomes[v] \in {"SEEKER_NO_SHOW", "PROVIDER_NO_SHOW"}

\* A review slot is used once: a decision or an appeal never reopens a consumed one
\* (attendance-adjudication.ts:200).
ConsumedForGood == [][\A d \in consumed : slots'[d] # "OPEN"]_allVars
=============================================================================
