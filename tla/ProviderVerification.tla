------------------------- MODULE ProviderVerification -------------------------
(***************************************************************************)
(* The verification of one provider's identity (provider-verification.ts,  *)
(* provider.ts, staff-policy.ts, migrations 0016 and 0017): the profile    *)
(* and its capacity, the cases the provider submits, the staff who are     *)
(* assigned, read the evidence and decide, and the claim a verified case   *)
(* gives until it expires.                                                 *)
(*                                                                         *)
(* A staff command passes the guard of the API with the grants its user    *)
(* has, and runs in a transaction later: a grant may lapse in between, a   *)
(* case may change.  Three statements read the claim without a lock and    *)
(* wait for the profile after that, which the worker that ends claims may  *)
(* hold: the refusal of a case, the edit of a profile, the approval of a   *)
(* listing.  Each is a step that reads and a step that acts on what was    *)
(* read.                                                                   *)
(*                                                                         *)
(* Of the 12 months of a claim the model keeps Validity, of the 30 days    *)
(* before its end Renewal.  Synthetic eligibility is on, as in the         *)
(* environments that grant claims at all.  Retries under a key return the  *)
(* first result and are left out; so is the purge of the evidence of       *)
(* decided cases, which nothing reads.                                     *)
(***************************************************************************)
EXTENDS Naturals, Sequences

CONSTANTS Staff,
          Capacities, \* what a provider may be: OWNER, INDEPENDENT_AGENT, PROPERTY_MANAGER
          Validity, \* the 12 months of a claim
          Renewal,  \* the 30 days before its end
          MaxCases, \* bound: cases
          MaxAssignments, \* bound: assignments of a case
          MaxMonths \* bound: time

ASSUME VerificationAssumption ==
  /\ "OWNER" \in Capacities
  /\ {Validity, Renewal, MaxCases, MaxAssignments, MaxMonths} \subseteq Nat

VARIABLES today,
          cases,     \* verification_cases of the provider, the last one newest
          read,      \* (staff, case, kind): accesses recorded in audit_events
          grants,    \* staff with a live grant to verify and read the newest case
          asked,     \* (staff, case, version, at): decisions past the guard
          deciding,  \* the decision that holds the newest case, with what it has read
          claim,     \* verification_claims: [status, source, until]
          profile,   \* provider_profiles: [state, status, capacity]
          expiring,  \* expireClaims holds the claim and the profile
          waiting,   \* statements that wait for the profile: an edit that has read no good
                     \* claim, an approval that has read one
          published  \* a listing is PUBLISHED: by whose command

verificationVars ==
  <<today, cases, read, grants, asked, deciding, claim, profile, expiring, waiting, published>>
waitingVars == <<deciding, expiring, waiting>>

Kinds == {"GOVERNMENT_ID", "LIVE_SELFIE"}
Outcomes == {"VERIFIED", "REJECTED", "NEEDS_RESUBMISSION"}
Statements == {"ONBOARD", "APPROVE"}
Newest == Len(cases)

VerificationInit ==
  /\ today = 0 /\ cases = <<>> /\ read = {} /\ grants = {} /\ asked = {} /\ deciding = {}
  /\ claim = [status |-> "NONE", source |-> 0, until |-> 0]
  /\ profile = [state |-> "DRAFT", status |-> "NOT_VERIFIED", capacity |-> "OWNER"]
  /\ expiring = FALSE /\ waiting = {} /\ published = "NO"

ClaimGoodAt(moment) == claim.status = "VERIFIED" /\ claim.until > moment
ClaimGood == ClaimGoodAt(today)

(* The provider edits the profile; its capacity only while the profile is  *)
(* not awaiting a review and had no claim when the statement that waits   *)
(* for the profile looked.                                                 *)
OnboardReads ==
  /\ ~ClaimGood /\ waiting' = waiting \cup {"ONBOARD"}
  /\ UNCHANGED <<today, cases, read, grants, asked, deciding, claim, profile, expiring, published>>

Onboard ==
  /\ "ONBOARD" \in waiting /\ ~expiring
  /\ profile.state # "PENDING_VERIFICATION"
  /\ \E capacity \in Capacities : profile' = [profile EXCEPT !.capacity = capacity]
  /\ waiting' = waiting \ {"ONBOARD"}
  /\ UNCHANGED <<today, cases, read, grants, asked, deciding, claim, expiring, published>>

Submit ==
  /\ Newest < MaxCases /\ ~expiring
  /\ Newest > 0 => /\ cases[Newest].state # "PENDING"
                   /\ cases[Newest].state = "VERIFIED" => cases[Newest].until <= today + Renewal
  /\ cases' = Append(cases, [state |-> "PENDING", version |-> 1, assigned |-> "NONE",
                             reviewer |-> "NONE", until |-> 0])
  /\ profile' = IF profile.state = "DRAFT"
                THEN [profile EXCEPT !.state = "PENDING_VERIFICATION", !.status = "PENDING"]
                ELSE profile
  /\ grants' = {}
  /\ UNCHANGED <<today, read, asked, claim, waitingVars, published>>

(* Grants are given for one case, and expire or are revoked.               *)
GrantChanges(s) ==
  /\ Newest > 0
  /\ grants' = IF s \in grants THEN grants \ {s} ELSE grants \cup {s}
  /\ UNCHANGED <<today, cases, read, asked, claim, profile, waitingVars, published>>

Assign(s) ==
  /\ Newest > 0 /\ cases[Newest].state = "PENDING" /\ s \in grants /\ deciding = {}
  /\ cases[Newest].version <= MaxAssignments
  /\ cases' = [cases EXCEPT ![Newest].assigned = s, ![Newest].version = @ + 1]
  /\ UNCHANGED <<today, read, grants, asked, claim, profile, waitingVars, published>>

(* A command of assigned staff: the guard, then the transaction, which     *)
(* reads the grants again.                                                 *)
Ask(s) ==
  /\ Newest > 0 /\ s \in grants
  /\ \A a \in asked : a.staff # s
  /\ asked' = asked \cup {[staff |-> s, case |-> Newest, version |-> cases[Newest].version, at |-> today]}
  /\ UNCHANGED <<today, cases, read, grants, claim, profile, waitingVars, published>>

CurrentGrantOfRow(s, c) == c = Newest /\ s \in grants
CurrentGrant(s, c) == CurrentGrantOfRow(s, c)

ReadEvidence(s, kind) ==
  /\ Newest > 0 /\ cases[Newest].assigned = s /\ CurrentGrant(s, Newest)
  /\ read' = read \cup {[staff |-> s, case |-> Newest, kind |-> kind]}
  /\ UNCHANGED <<today, cases, grants, asked, claim, profile, waitingVars, published>>

ReadBySelf(s, c) == {kind \in Kinds : [staff |-> s, case |-> c, kind |-> kind] \in read}
Reviewed(s, c) == ReadBySelf(s, c)

Refuse(a) ==
  /\ asked' = asked \ {a}
  /\ UNCHANGED <<today, cases, read, grants, claim, profile, waitingVars, published>>

(* The decision locks the case and checks it, and reads the clock and the  *)
(* claim: the clock for a new claim, the old claim by now(), the moment    *)
(* its transaction began.                                                  *)
DecideReads(a, outcome) ==
  LET row == cases[a.case] IN
  /\ deciding = {} /\ row.assigned = a.staff /\ CurrentGrant(a.staff, a.case)
  /\ row.state = "PENDING" /\ row.version = a.version
  /\ Reviewed(a.staff, a.case) = Kinds
  /\ \E begun \in a.at..today :
       deciding' = {[staff |-> a.staff, case |-> a.case, outcome |-> outcome,
                     until |-> today + Validity, good |-> ClaimGoodAt(begun)]}
  /\ asked' = asked \ {a}
  /\ UNCHANGED <<today, cases, read, grants, claim, profile, expiring, waiting, published>>

DecideFails ==
  /\ deciding # {} /\ deciding' = {}
  /\ UNCHANGED <<today, cases, read, grants, asked, claim, profile, expiring, waiting, published>>

\* Mutant of StatusAfter: a refused renewal takes the claim that is still good.
StatusOfOutcome(d) == d.outcome

(* A verified case gives the claim; one that is not leaves the status of a *)
(* claim that was still good when it was read.                             *)
StatusOfClaim(d) == IF d.good THEN "VERIFIED" ELSE d.outcome
StatusAfter(d) == StatusOfClaim(d)

(* It has waited for the profile, and for the claim when it writes one.    *)
Decide(d) ==
  LET verified == d.outcome = "VERIFIED" IN
  /\ ~expiring
  /\ cases' = [cases EXCEPT ![d.case].state = d.outcome, ![d.case].version = @ + 1,
       ![d.case].reviewer = d.staff, ![d.case].until = IF verified THEN d.until ELSE 0]
  /\ claim' = IF verified THEN [status |-> "VERIFIED", source |-> d.case, until |-> d.until] ELSE claim
  /\ profile' = [profile EXCEPT
       !.state = IF @ # "PENDING_VERIFICATION" THEN @ ELSE IF verified THEN "ACTIVE" ELSE "DRAFT",
       !.status = IF verified THEN "VERIFIED" ELSE StatusAfter(d)]
  /\ deciding' = {}
  /\ UNCHANGED <<today, read, grants, asked, expiring, waiting, published>>

(* The worker ends the claims that are over, with the case of each, and    *)
(* pauses the provider's listings; it passes a claim that is locked.       *)
ExpireClaimsLocks ==
  /\ ~expiring /\ claim.status = "VERIFIED" /\ claim.until <= today
  /\ expiring' = TRUE
  /\ UNCHANGED <<today, cases, read, grants, asked, deciding, claim, profile, waiting, published>>

ExpireClaims ==
  /\ expiring /\ expiring' = FALSE
  /\ claim' = [claim EXCEPT !.status = "EXPIRED"]
  /\ cases' = IF cases[claim.source].state = "VERIFIED"
              THEN [cases EXCEPT ![claim.source].state = "EXPIRED",
                                 ![claim.source].version = @ + 1]
              ELSE cases
  /\ profile' = [profile EXCEPT !.status = "NOT_VERIFIED"]
  /\ published' = "NO"
  /\ UNCHANGED <<today, read, grants, asked, deciding, waiting>>

ExpireClaimsFails ==
  /\ expiring /\ expiring' = FALSE
  /\ UNCHANGED <<today, cases, read, grants, asked, deciding, claim, profile, waiting, published>>

(* A listing is published by staff, for a provider who had a claim when    *)
(* the approval looked, or confirmed by the provider, which locks the      *)
(* claim before it looks.                                                  *)
ApproveReads ==
  /\ ClaimGood /\ waiting' = waiting \cup {"APPROVE"}
  /\ UNCHANGED <<today, cases, read, grants, asked, deciding, claim, profile, expiring, published>>

ApproveListing ==
  /\ "APPROVE" \in waiting /\ ~expiring
  /\ published = "NO" /\ profile.state = "ACTIVE"
  /\ published' = "APPROVED" /\ waiting' = waiting \ {"APPROVE"}
  /\ UNCHANGED <<today, cases, read, grants, asked, deciding, claim, profile, expiring>>

StatementFails(s) ==
  /\ s \in waiting /\ waiting' = waiting \ {s}
  /\ UNCHANGED <<today, cases, read, grants, asked, deciding, claim, profile, expiring, published>>

ConfirmListing ==
  /\ ~expiring /\ profile.state = "ACTIVE" /\ ClaimGood
  /\ published' = "CONFIRMED"
  /\ UNCHANGED <<today, cases, read, grants, asked, claim, profile, waitingVars>>

VerificationTick ==
  /\ today < MaxMonths /\ today' = today + 1
  /\ UNCHANGED <<cases, read, grants, asked, claim, profile, waitingVars, published>>

VerificationNext ==
  \/ OnboardReads \/ Onboard \/ ApproveReads \/ ApproveListing \/ ConfirmListing \/ Submit
  \/ ExpireClaimsLocks \/ ExpireClaims \/ ExpireClaimsFails \/ DecideFails \/ VerificationTick
  \/ \E s \in Statements : StatementFails(s)
  \/ \E s \in Staff : \/ GrantChanges(s) \/ Assign(s)
                      \/ Ask(s) \/ \E kind \in Kinds : ReadEvidence(s, kind)
  \/ \E a \in asked : Refuse(a) \/ \E outcome \in Outcomes : DecideReads(a, outcome)
  \/ \E d \in deciding : Decide(d)

VerificationSpec == VerificationInit /\ [][VerificationNext]_verificationVars

(***************************************************************************)
(* Properties.                                                             *)
(***************************************************************************)

(* What the provider is allowed follows the claim through renewals and     *)
(* expiries that overtake each other.  A claim that is good is that of a   *)
(* verified case, and the profile shows it and is active; a case that is   *)
(* verified and not over has a good claim.  A profile shows verified after *)
(* its claim has ended only by a case refused since, whose decision had    *)
(* read the claim before it ended; a listing the provider has confirmed    *)
(* stays published no longer than the claim                                *)
(* (provider-verification.ts 131-139, 173-187; listing-lifecycle.ts 226).  *)
ClaimBacked ==
  /\ ClaimGood => /\ cases[claim.source].state = "VERIFIED"
                  /\ profile.status = "VERIFIED" /\ profile.state = "ACTIVE"
  /\ \A c \in 1..Newest : cases[c].state = "VERIFIED" /\ cases[c].until > today => ClaimGood
  /\ profile.status = "VERIFIED" /\ claim.status # "VERIFIED"
       => \E c \in claim.source + 1..Newest : cases[c].state \in {"REJECTED", "NEEDS_RESUBMISSION"}
  /\ published = "CONFIRMED" => claim.status = "VERIFIED"

=============================================================================
