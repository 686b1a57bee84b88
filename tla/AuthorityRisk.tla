----------------------------- MODULE AuthorityRisk -----------------------------
(***************************************************************************)
(* Whether a provider may act for a property: the risk of one relationship *)
(* between them (authority-risk.ts, migrations 0021 and 0022).             *)
(*                                                                         *)
(* Cases say what speaks against the relationship.  An evaluation reads    *)
(* them and is kept; a listing may be sent while the one kept last is      *)
(* clear and nothing it read has changed since, which triggers count on    *)
(* one clock.  Two kinds of cases: that a listing names another principal  *)
(* than its relationship does, which staff settle on the records, and that *)
(* the relationship was revoked, which a trigger opens and nothing         *)
(* resolves.  Merged properties, the other kinds and the grants of staff   *)
(* (as in ProviderVerification) are left out.  Every transaction holds the *)
(* rows it reads, so each is one step.                                     *)
(***************************************************************************)
EXTENDS Naturals, FiniteSets

CONSTANTS Principals, \* provider accounts
          Cases,      \* ids for the cases staff open
          MaxClock    \* bound: changes of the sources

ASSUME AuthorityAssumption == Principals # {} /\ MaxClock \in Nat

VARIABLES source,      \* authority_risk_source_clock
          relationship,\* [principal, status, version]
          listing,     \* [principal, version]
          risk,        \* per case staff opened: [state, established, review]
          adverse,     \* the cases of a revocation: "NONE", "OPEN" or "CLAIMED"
          evaluation   \* the last evaluation: [outcome, source]

authorityVars == <<source, relationship, listing, risk, adverse, evaluation>>

NoReview == [finding |-> "NONE", relationship |-> 0, listing |-> 0]
NoEvaluation == [outcome |-> "NONE", source |-> 0]

AuthorityInit ==
  /\ source = 1
  /\ relationship = [principal |-> CHOOSE p \in Principals : TRUE,
                     status |-> "DECLARED", version |-> 1]
  /\ listing = [principal |-> relationship.principal, version |-> 1]
  /\ risk = [c \in Cases |-> [state |-> "NONE", established |-> FALSE, review |-> NoReview]]
  /\ adverse = "NONE" /\ evaluation = NoEvaluation

Bump == source < MaxClock /\ source' = source + 1

(* What the records say, and what a review noted of them.                  *)
Finding == IF listing.principal = relationship.principal THEN "ABSENT" ELSE "PRESENT"
Usable == relationship.status \in {"DECLARED", "VERIFIED"}
Snapshot == [finding |-> Finding, relationship |-> relationship.version, listing |-> listing.version]

(* The outcome of an evaluation.                                           *)
HasOpen(risks) == \E c \in Cases : risks[c].state = "OPEN"
Outcome(risks, status, against) ==
  IF HasOpen(risks) \/ against # "NONE" THEN "HOLD"
  ELSE IF status = "REVOKED" THEN "INCOMPLETE" ELSE "CLEAR"

Evaluate ==
  /\ evaluation' = [outcome |-> Outcome(risk, relationship.status, adverse), source |-> source]
  /\ UNCHANGED <<source, relationship, listing, risk, adverse>>

(* The sources change: the relationship's principal or status, with the    *)
(* case a revocation opens, and the listing's principal.                   *)
RelationshipChanges ==
  /\ Bump
  /\ \E p \in Principals, status \in {"DECLARED", "VERIFIED", "REVOKED"} :
       /\ relationship' = [principal |-> p, status |-> status, version |-> relationship.version + 1]
       /\ adverse' = IF status = "REVOKED" /\ relationship.status # "REVOKED"
                     THEN "OPEN" ELSE adverse
  /\ UNCHANGED <<listing, risk, evaluation>>

ListingChanges ==
  /\ Bump
  /\ \E p \in Principals : listing' = [principal |-> p, version |-> listing.version + 1]
  /\ UNCHANGED <<relationship, risk, adverse, evaluation>>

(* Staff.                                                                  *)
OpenCase(c) ==
  /\ Bump /\ risk[c].state = "NONE"
  /\ risk' = [risk EXCEPT ![c].state = "OPEN"]
  /\ UNCHANGED <<relationship, listing, adverse, evaluation>>

ClaimLegacyCase ==
  /\ Bump /\ adverse = "OPEN" /\ adverse' = "CLAIMED"
  /\ UNCHANGED <<relationship, listing, risk, evaluation>>

(* A decision is followed by an evaluation in its transaction.             *)
Decided(c, row) ==
  /\ Bump
  /\ risk' = [risk EXCEPT ![c] = row]
  /\ evaluation' = [outcome |-> Outcome([risk EXCEPT ![c] = row], relationship.status, adverse),
                    source |-> source + 1]
  /\ UNCHANGED <<relationship, listing, adverse>>

ReviewSource(c) ==
  /\ risk[c].state = "OPEN" /\ Usable
  /\ Decided(c, [risk[c] EXCEPT !.review = Snapshot])

\* Mutant of SameSource: only the finding is compared, not the rows it was read from.
SameFinding(c) == risk[c].review.finding = Finding
SameRows(c) == risk[c].review = Snapshot
SameSource(c) == SameRows(c)

Confirm(c) ==
  /\ risk[c].state = "OPEN" /\ Usable /\ SameSource(c)
  /\ Finding = "PRESENT" /\ ~risk[c].established
  /\ Decided(c, [risk[c] EXCEPT !.established = TRUE])

Resolve(c) ==
  /\ risk[c].state = "OPEN" /\ Usable /\ SameSource(c)
  /\ Finding = "ABSENT"
  /\ Decided(c, [risk[c] EXCEPT !.state = "RESOLVED"])

(* What a listing's submission reads of the relationship.                  *)
ReadCurrent == IF evaluation.source # source THEN "STALE" ELSE evaluation.outcome
Status ==
  IF evaluation = NoEvaluation THEN "UNEVALUATED"
  ELSE IF listing.principal # relationship.principal THEN "INCOMPLETE"
  ELSE ReadCurrent

AuthorityNext ==
  \/ Evaluate \/ RelationshipChanges \/ ListingChanges \/ ClaimLegacyCase
  \/ \E c \in Cases : OpenCase(c) \/ ReviewSource(c) \/ Confirm(c) \/ Resolve(c)

AuthoritySpec == AuthorityInit /\ [][AuthorityNext]_authorityVars

(***************************************************************************)
(* Properties.                                                             *)
(***************************************************************************)

(* A case is resolved on records that staff have read as they are: changed *)
(* since, even changed and changed back, they are reviewed again (authority*)
(* -risk.ts 111-117, 315-327); and a relationship reads as clear only      *)
(* while nothing speaks against it now, however its cases and records have *)
(* changed since it was evaluated (62-81, 138-168).                        *)
ClearIsCurrent ==
  Status = "CLEAR" => /\ ~HasOpen(risk) /\ adverse = "NONE"
                      /\ relationship.status # "REVOKED"

ClearedAsRead == [][
  /\ ClearIsCurrent'
  /\ \A c \in Cases :
       risk[c].state = "OPEN" /\ risk'[c].state = "RESOLVED" =>
         /\ listing.principal = relationship.principal
         /\ risk[c].review.relationship = relationship.version
         /\ risk[c].review.listing = listing.version]_authorityVars
=============================================================================
