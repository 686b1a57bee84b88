--------------------------- MODULE ReviewModeration ---------------------------
(***************************************************************************)
(* Reports about reviews and what staff do about them: the report command  *)
(* of ReviewStore and ReviewModerationStore (review-moderation.ts), over   *)
(* the reviews of module Reviews.  A case belongs to one review and is     *)
(* reopened by a new report.  Who may act, conflicts of interest, reasons  *)
(* and the audit trail are left out: some assigned moderator acts.         *)
(***************************************************************************)
EXTENDS Reviews

CONSTANT Reported   \* bound: the directions whose reviews are reported

VARIABLES cases,      \* review_moderation_cases.state, by the review's direction
          fresh       \* whether a report came after the last change of the case

moderationVars == <<cases, fresh>>
allVars == <<vars, cases, fresh>>

Ended == {"RESOLVED", "CLOSED"}

ModerationInit == Init /\ cases = [d \in Directions |-> "NONE"] /\ fresh = {}

\* Anybody who may see a review reports it, its author at any time.
Report(d) ==
  /\ d \in Reported /\ reviews[d].state # "NONE"
  /\ cases' = [cases EXCEPT ![d] = IF @ = "NONE" THEN "OPEN" ELSE @]
  /\ fresh' = IF cases[d] \in Ended THEN fresh \cup {d} ELSE fresh
  /\ UNCHANGED vars

Becomes(d, state) == cases' = [cases EXCEPT ![d] = state] /\ fresh' = fresh \ {d}

Assign(d) ==
  /\ cases[d] \in {"OPEN"} \/ (cases[d] \in Ended /\ d \in fresh)
  /\ Becomes(d, "TRIAGED") /\ UNCHANGED vars

BeginInvestigation(d) ==
  /\ cases[d] \in {"TRIAGED", "ACTION_REQUIRED"} \/ (cases[d] \in Ended /\ d \in fresh)
  /\ Becomes(d, "UNDER_REVIEW") /\ UNCHANGED vars

Resolve(d) == /\ cases[d] \in {"UNDER_REVIEW", "ACTION_REQUIRED"}
              /\ Becomes(d, "RESOLVED") /\ UNCHANGED vars

Close(d) == cases[d] = "RESOLVED" /\ Becomes(d, "CLOSED") /\ UNCHANGED vars

Actionable(d) == cases[d] \in {"UNDER_REVIEW", "ACTION_REQUIRED"}

\* HOLD, HIDE and REMOVE; a removed review can only be restored.
Suppress(d, state) ==
  /\ Actionable(d) /\ reviews[d].state \notin {"NONE", "WITHDRAWN", "REMOVED", state}
  /\ Becomes(d, "ACTION_REQUIRED")
  /\ reviews' = [reviews EXCEPT ![d].state = state]
  /\ reputation' = Live(reviews', slots, attendance)
  /\ UNCHANGED <<context, slots, jobs>>

RestoredState(d) == IF reviews[d].published THEN "PUBLISHED" ELSE "SUBMITTED_HELD"

\* The suppression in force is reversed, the review goes back to what it was, and
\* is revealed if its time has come.
Restore(d) ==
  /\ Actionable(d) /\ reviews[d].state \in {"UNDER_REVIEW", "HIDDEN", "REMOVED"}
  /\ Safe /\ d \notin lapsed /\ slots[d].state = "CONSUMED"
  /\ Becomes(d, "ACTION_REQUIRED")
  /\ reviews' = Reveal([reviews EXCEPT ![d].state = RestoredState(d)], slots)
  /\ reputation' = Live(reviews', slots, attendance)
  /\ UNCHANGED <<context, slots, jobs>>

Moderation == \E d \in Directions :
  \/ Report(d) \/ Assign(d) \/ BeginInvestigation(d) \/ Resolve(d) \/ Close(d)
  \/ \E state \in {"UNDER_REVIEW", "HIDDEN", "REMOVED"} : Suppress(d, state)
  \/ Restore(d)

ModerationNext == (Next /\ UNCHANGED moderationVars) \/ Moderation

ModerationSpec == ModerationInit /\ [][ModerationNext]_allVars
=============================================================================
