----------------------------- MODULE Trust_proofs -----------------------------
(***************************************************************************)
(* Proofs about the small parts that accounts and trust are made of:       *)
(* PhoneOwnership, AuthorityRisk, ProviderVerification, StaffSessions,     *)
(* WebSessions, StaffLogin and Analytics, for any users, phones, staff and *)
(* requests.                                                               *)
(* They share no state; each has its section, with its inductive invariant.*)
(***************************************************************************)
EXTENDS PhoneOwnership, StaffSessions, StaffLogin, WebSessions, ProviderVerification, AuthorityRisk, Analytics,
        FiniteSetTheorems, TLAPS
-----------------------------------------------------------------------------
(* PhoneOwnership: a challenge that can still be answered has no later one  *)
(* of its user and phone.                                                   *)

PhoneStatuses == {"PENDING_DELIVERY", "SENT", "DELIVERY_FAILED", "SUPERSEDED", "EXPIRED", "LOCKED", "CONSUMED"}
Challenges == [user : Users, phone : Phones, status : PhoneStatuses, attempts : Nat, sent : Nat]
Answerable(status) == status \in {"PENDING_DELIVERY", "SENT"}

PhoneInv ==
  /\ clock \in Nat /\ challenges \in Seq(Challenges)
  /\ \A i, j \in DOMAIN challenges :
       /\ i < j /\ Answerable(challenges[i].status)
       => challenges[i].user # challenges[j].user \/ challenges[i].phone # challenges[j].phone

LEMMA PhoneInitInv == PhoneInit => PhoneInv
  BY DEF PhoneInit, PhoneInv

(* A step on one challenge keeps whose it is.                               *)
LEMMA PhoneOneChallenge ==
  ASSUME PhoneInv, UNCHANGED clock, NEW i \in DOMAIN challenges, NEW row \in Challenges,
         row.user = challenges[i].user, row.phone = challenges[i].phone,
         Answerable(row.status) => Answerable(challenges[i].status),
         challenges' = [challenges EXCEPT ![i] = row]
  PROVE  PhoneInv'
  <1>1. /\ challenges' \in Seq(Challenges) /\ DOMAIN challenges' = DOMAIN challenges
        /\ challenges'[i] = row /\ \A j \in DOMAIN challenges : j # i => challenges'[j] = challenges[j]
    BY DEF PhoneInv
  <1>2. QED
    BY <1>1 DEF PhoneInv

LEMMA PhoneCreate == ASSUME PhoneInv, NEW u \in Users, NEW p \in Phones, CreateChallenge(u, p) PROVE PhoneInv'
  <1>. DEFINE unused == {i \in Of(u, p) : challenges[i].status \in {"PENDING_DELIVERY", "SENT"}}
              superseded == [i \in DOMAIN challenges |->
                 IF i \in unused THEN [challenges[i] EXCEPT !.status = "SUPERSEDED"] ELSE challenges[i]]
              new == [user |-> u, phone |-> p, status |-> "PENDING_DELIVERY", attempts |-> 0, sent |-> clock]
              n == Len(challenges)
  <1>1. challenges' = Append(superseded, new) /\ UNCHANGED clock
    BY DEF CreateChallenge
  <1>2. n \in Nat /\ DOMAIN challenges = 1..n /\ \A i \in 1..n : challenges[i] \in Challenges
    BY DEF PhoneInv
  <1>3. \A i \in 1..n :
          /\ superseded[i] \in Challenges /\ superseded[i].user = challenges[i].user
          /\ superseded[i].phone = challenges[i].phone
          /\ Answerable(superseded[i].status) => /\ Answerable(challenges[i].status)
                                                 /\ challenges[i].user # u \/ challenges[i].phone # p
    <2>1. ASSUME NEW i \in 1..n
          PROVE  /\ superseded[i] \in Challenges /\ superseded[i].user = challenges[i].user
                 /\ superseded[i].phone = challenges[i].phone
                 /\ Answerable(superseded[i].status) => /\ Answerable(challenges[i].status)
                                                        /\ challenges[i].user # u \/ challenges[i].phone # p
      <3>1. challenges[i] \in Challenges /\ i \in DOMAIN challenges
        BY <1>2
      <3>2. CASE i \in unused
        <4>1. superseded[i] = [challenges[i] EXCEPT !.status = "SUPERSEDED"]
          BY <3>1, <3>2
        <4>2. QED
          BY <3>1, <4>1 DEF Challenges, PhoneStatuses, Answerable
      <3>3. CASE i \notin unused
        <4>1. superseded[i] = challenges[i]
          BY <3>1, <3>3
        <4>2. QED
          BY <3>1, <3>3, <4>1 DEF Of, Answerable
      <3>4. QED
        BY <3>2, <3>3
    <2>2. QED
      BY <2>1
  <1>4. new \in Challenges
    BY DEF Challenges, PhoneStatuses, PhoneInv
  <1>5. superseded \in Seq(Challenges) /\ Len(superseded) = n
    BY <1>2, <1>3
  <1>. HIDE DEF superseded, new, n
  <1>6. /\ challenges' \in Seq(Challenges) /\ DOMAIN challenges' = 1..(n + 1)
        /\ challenges'[n + 1] = new /\ \A i \in 1..n : challenges'[i] = superseded[i]
    BY <1>1, <1>2, <1>4, <1>5
  <1>7. new.user = u /\ new.phone = p
    BY DEF new
  <1>8. ASSUME NEW i \in 1..(n + 1), NEW j \in 1..(n + 1), i < j, Answerable(challenges'[i].status)
        PROVE  challenges'[i].user # challenges'[j].user \/ challenges'[i].phone # challenges'[j].phone
    <2>1. i \in 1..n /\ challenges'[i] = superseded[i]
      BY <1>2, <1>6, <1>8
    <2>2. CASE j = n + 1
      BY <1>3, <1>6, <1>7, <1>8, <2>1, <2>2
    <2>3. CASE j # n + 1
      <3>1. j \in 1..n
        BY <1>2, <2>3
      <3>2. Answerable(challenges[i].status) /\ challenges'[j] = superseded[j]
        <4>1. Answerable(superseded[i].status)
          BY <1>8, <2>1
        <4>2. Answerable(challenges[i].status)
          BY <1>3, <2>1, <4>1
        <4>3. challenges'[j] = superseded[j]
          BY <1>6, <3>1
        <4>4. QED
          BY <4>2, <4>3
      <3>3. challenges[i].user # challenges[j].user \/ challenges[i].phone # challenges[j].phone
        BY <1>2, <1>8, <2>1, <3>1, <3>2 DEF PhoneInv
      <3>4. QED
        BY <1>3, <2>1, <3>1, <3>2, <3>3
    <2>4. QED
      BY <2>2, <2>3
  <1>9. clock' \in Nat
    BY <1>1 DEF PhoneInv
  <1>10. QED
    BY <1>6, <1>8, <1>9 DEF PhoneInv
LEMMA PhoneStep == PhoneInv /\ [PhoneNext]_phoneVars => PhoneInv'
  <1>. SUFFICES ASSUME PhoneInv, [PhoneNext]_phoneVars PROVE PhoneInv'
    OBVIOUS
  <1>0. \A i \in DOMAIN challenges : challenges[i] \in Challenges
    BY DEF PhoneInv
  <1>1. ASSUME NEW i \in DOMAIN challenges, MarkDelivery(i) PROVE PhoneInv'
    <2>1. PICK result \in {"SENT", "DELIVERY_FAILED"} : challenges' = Result(i, result)
      BY <1>1 DEF MarkDelivery
    <2>2. UNCHANGED clock
      BY <1>1 DEF MarkDelivery
    <2>3. CASE challenges[i].status = "PENDING_DELIVERY"
      <3>. DEFINE row == [challenges[i] EXCEPT !.status = result]
      <3>1. /\ row \in Challenges /\ row.user = challenges[i].user /\ row.phone = challenges[i].phone
            /\ Answerable(challenges[i].status)
        BY <1>0, <2>3 DEF Challenges, PhoneStatuses, Answerable
      <3>2. challenges' = [challenges EXCEPT ![i] = row]
        BY <2>1, <2>3 DEF Result, ResultOfAwaited
      <3>. HIDE DEF row
      <3>3. QED
        BY <2>2, <3>1, <3>2, PhoneOneChallenge
    <2>4. CASE challenges[i].status # "PENDING_DELIVERY"
      BY <2>1, <2>2, <2>4 DEF Result, ResultOfAwaited, PhoneInv
    <2>5. QED
      BY <2>3, <2>4
  <1>2. ASSUME NEW i \in DOMAIN challenges, ConfirmExpired(i) \/ ConfirmRight(i) PROVE PhoneInv'
    <2>1. PICK status \in {"EXPIRED", "CONSUMED"} :
            challenges' = [challenges EXCEPT ![i].status = status] /\ UNCHANGED clock
      BY <1>2 DEF ConfirmExpired, ConfirmRight
    <2>. DEFINE row == [challenges[i] EXCEPT !.status = status]
    <2>2. /\ row \in Challenges /\ row.user = challenges[i].user /\ row.phone = challenges[i].phone
          /\ ~Answerable(row.status)
      BY <1>0 DEF Challenges, PhoneStatuses, Answerable
    <2>3. challenges' = [challenges EXCEPT ![i] = row]
      BY <2>1
    <2>. HIDE DEF row
    <2>4. QED
      BY <2>1, <2>2, <2>3, PhoneOneChallenge
  <1>3. ASSUME NEW i \in DOMAIN challenges, ConfirmWrong(i) PROVE PhoneInv'
    <2>. DEFINE tried == challenges[i].attempts + 1
                status == IF tried >= MaxAttempts THEN "LOCKED" ELSE "SENT"
                row == [challenges[i] EXCEPT !.attempts = tried, !.status = status]
    <2>1. /\ UNCHANGED clock /\ challenges[i].status = "SENT"
          /\ challenges' = [challenges EXCEPT ![i].attempts = tried, ![i].status = status]
      BY <1>3 DEF ConfirmWrong
    <2>2. tried \in Nat /\ status \in PhoneStatuses
      BY <1>0 DEF Challenges, PhoneStatuses
    <2>. HIDE DEF tried, status
    <2>3. row \in Challenges /\ row.user = challenges[i].user /\ row.phone = challenges[i].phone
      BY <1>0, <2>2 DEF Challenges
    <2>4. challenges' = [challenges EXCEPT ![i] = row]
      BY <1>0, <2>1 DEF Challenges
    <2>5. Answerable(challenges[i].status)
      BY <2>1 DEF Answerable
    <2>. HIDE DEF row
    <2>6. QED
      BY <2>1, <2>3, <2>4, <2>5, PhoneOneChallenge
  <1>4. CASE PhoneTick \/ (\E u \in Users : AccountSuspended(u)) \/ UNCHANGED phoneVars
    BY <1>4 DEF PhoneTick, AccountSuspended, phoneVars, PhoneInv
  <1>5. QED
    BY <1>1, <1>2, <1>3, <1>4, PhoneCreate DEF PhoneNext

(* A code stops working once the user has asked for another one for the      *)
(* phone, however late the sender reports that the first one has arrived    *)
(* (phone-verification.ts 44-48, 62-68).                                    *)
THEOREM LatestCodeOnlyCorrect == PhoneSpec => LatestCodeOnly
  <1>. DEFINE Last == \A i \in DOMAIN challenges :
                        challenges[i].status # "CONSUMED" /\ challenges'[i].status = "CONSUMED" =>
                          \A j \in Of(challenges[i].user, challenges[i].phone) : j <= i
  <1>1. ASSUME PhoneInv, [PhoneNext]_phoneVars PROVE Last
    <2>. SUFFICES ASSUME NEW i \in DOMAIN challenges, challenges[i].status # "CONSUMED",
                         challenges'[i].status = "CONSUMED"
                  PROVE  \A j \in Of(challenges[i].user, challenges[i].phone) : j <= i
      OBVIOUS
    <2>0. challenges \in Seq(Challenges)
      BY <1>1 DEF PhoneInv
    <2>1. challenges[i].status = "SENT"
      <3>0. \A j \in DOMAIN challenges : challenges[j] \in Challenges
        BY <2>0
      <3>1. CASE UNCHANGED challenges
        BY <3>1
      <3>2. ASSUME NEW u \in Users, NEW p \in Phones, CreateChallenge(u, p) PROVE FALSE
        <4>. DEFINE unused == {j \in Of(u, p) : challenges[j].status \in {"PENDING_DELIVERY", "SENT"}}
                    superseded == [j \in DOMAIN challenges |->
                       IF j \in unused THEN [challenges[j] EXCEPT !.status = "SUPERSEDED"] ELSE challenges[j]]
                    new == [user |-> u, phone |-> p, status |-> "PENDING_DELIVERY", attempts |-> 0, sent |-> clock]
        <4>1. challenges' = Append(superseded, new)
          BY <3>2 DEF CreateChallenge
        <4>2. superseded[i].status # "CONSUMED"
          <5>1. challenges[i] \in Challenges
            BY <3>0
          <5>2. superseded[i] = [challenges[i] EXCEPT !.status = "SUPERSEDED"] \/ superseded[i] = challenges[i]
            OBVIOUS
          <5>. HIDE DEF superseded
          <5>3. QED
            BY <5>1, <5>2 DEF Challenges
        <4>3. DOMAIN superseded = 1..Len(challenges) /\ Len(challenges) \in Nat
          BY <2>0
        <4>4. superseded \in Seq({superseded[j] : j \in 1..Len(challenges)}) /\ Len(superseded) = Len(challenges)
          BY <2>0, <4>3
        <4>. HIDE DEF superseded, new
        <4>5. challenges'[i] = superseded[i]
          BY <2>0, <4>1, <4>3, <4>4
        <4>6. QED
          BY <4>2, <4>5
      <3>3. ASSUME NEW j \in DOMAIN challenges, MarkDelivery(j) PROVE FALSE
        BY <2>0, <3>0, <3>3 DEF MarkDelivery, Result, ResultOfAwaited, Challenges
      <3>4. ASSUME NEW j \in DOMAIN challenges, ConfirmExpired(j) PROVE FALSE
        BY <2>0, <3>0, <3>4 DEF ConfirmExpired, Challenges
      <3>5. ASSUME NEW j \in DOMAIN challenges, ConfirmWrong(j) PROVE FALSE
        BY <2>0, <3>0, <3>5 DEF ConfirmWrong, Challenges
      <3>6. ASSUME NEW j \in DOMAIN challenges, ConfirmRight(j) PROVE challenges[i].status = "SENT"
        BY <2>0, <3>0, <3>6 DEF ConfirmRight, Challenges
      <3>7. QED
        BY <1>1, <3>1, <3>2, <3>3, <3>4, <3>5, <3>6 DEF PhoneNext, PhoneTick, AccountSuspended, phoneVars
    <2>2. ASSUME NEW j \in Of(challenges[i].user, challenges[i].phone) PROVE j <= i
      <3>1. j \in DOMAIN challenges /\ challenges[j].user = challenges[i].user /\ challenges[j].phone = challenges[i].phone
        BY DEF Of
      <3>2. ~(i < j)
        BY <1>1, <2>1, <3>1 DEF PhoneInv, Answerable
      <3>3. i \in Nat /\ j \in Nat
        BY <2>0, <3>1
      <3>4. QED
        BY <3>2, <3>3
    <2>3. QED
      BY <2>2
  <1>2. PhoneInv /\ [PhoneNext]_phoneVars => [Last]_phoneVars
    BY <1>1
  <1>3. QED
    BY PhoneInitInv, PhoneStep, <1>2, PTL DEF PhoneSpec, LatestCodeOnly
-----------------------------------------------------------------------------
(* AuthorityRisk: an evaluation kept on the clock of now says what its       *)
(* sources say now, for each change of a source moves the clock.            *)

RiskStates == {"NONE", "OPEN", "RESOLVED"}

AuthorityInv ==
  /\ source \in Nat \ {0} /\ evaluation.source \in Nat /\ evaluation.source <= source
  /\ DOMAIN risk = Cases /\ \A c \in Cases : "state" \in DOMAIN risk[c] /\ "review" \in DOMAIN risk[c]
  /\ evaluation.source = source => evaluation.outcome = Outcome(risk, relationship.status, adverse)

LEMMA AuthorityInitInv == AuthorityInit => AuthorityInv
  BY DEF AuthorityInit, AuthorityInv, NoEvaluation

LEMMA AuthorityStep == AuthorityInv /\ [AuthorityNext]_authorityVars => AuthorityInv'
  <1>. SUFFICES ASSUME AuthorityInv, [AuthorityNext]_authorityVars PROVE AuthorityInv'
    OBVIOUS
  <1>1. CASE Evaluate
    BY <1>1 DEF Evaluate, AuthorityInv
  <1>2. CASE RelationshipChanges \/ ListingChanges \/ ClaimLegacyCase
    <2>1. source' = source + 1 /\ UNCHANGED <<risk, evaluation>>
      BY <1>2 DEF RelationshipChanges, ListingChanges, ClaimLegacyCase, Bump
    <2>2. QED
      BY <2>1 DEF AuthorityInv
  <1>3. ASSUME NEW c \in Cases, OpenCase(c) PROVE AuthorityInv'
    <2>1. source' = source + 1 /\ UNCHANGED evaluation /\ risk' = [risk EXCEPT ![c].state = "OPEN"]
      BY <1>3 DEF OpenCase, Bump
    <2>2. QED
      BY <2>1 DEF AuthorityInv
  <1>4. ASSUME NEW c \in Cases, ReviewSource(c) \/ Confirm(c) \/ Resolve(c) PROVE AuthorityInv'
    <2>1. PICK row : /\ row \in {[risk[c] EXCEPT !.review = Snapshot], [risk[c] EXCEPT !.established = TRUE],
                                 [risk[c] EXCEPT !.state = "RESOLVED"]}
                     /\ Decided(c, row)
      BY <1>4 DEF ReviewSource, Confirm, Resolve
    <2>2. "state" \in DOMAIN row /\ "review" \in DOMAIN row
      BY <2>1 DEF AuthorityInv
    <2>3. source' = source + 1 /\ risk' = [risk EXCEPT ![c] = row] /\ UNCHANGED <<relationship, adverse>>
          /\ evaluation' = [outcome |-> Outcome([risk EXCEPT ![c] = row], relationship.status, adverse),
                            source |-> source + 1]
      BY <2>1 DEF Decided, Bump
    <2>4. evaluation'.outcome = Outcome(risk', relationship'.status, adverse')
      BY <2>3
    <2>5. DOMAIN risk' = Cases /\ \A d \in Cases : "state" \in DOMAIN risk'[d] /\ "review" \in DOMAIN risk'[d]
      BY <2>2, <2>3 DEF AuthorityInv
    <2>6. evaluation'.source = source + 1
      BY <2>3
    <2>7. QED
      BY <2>3, <2>4, <2>5, <2>6 DEF AuthorityInv
  <1>5. CASE UNCHANGED authorityVars
    BY <1>5 DEF authorityVars, AuthorityInv
  <1>6. QED
    BY <1>1, <1>2, <1>3, <1>4, <1>5 DEF AuthorityNext

LEMMA ClearIsNow == AuthorityInv => ClearIsCurrent
  BY DEF AuthorityInv, ClearIsCurrent, Status, ReadCurrent, Outcome

(* A case is resolved on the records as staff have read them, and a          *)
(* relationship reads as clear only while nothing speaks against it         *)
(* (authority-risk.ts 62-81, 111-117, 138-168, 315-327).                    *)
THEOREM ClearedAsReadCorrect == AuthoritySpec => ClearedAsRead
  <1>. DEFINE AsRead == \A c \in Cases :
                          risk[c].state = "OPEN" /\ risk'[c].state = "RESOLVED" =>
                            /\ listing.principal = relationship.principal
                            /\ risk[c].review.relationship = relationship.version
                            /\ risk[c].review.listing = listing.version
  <1>1. ASSUME AuthorityInv, [AuthorityNext]_authorityVars, NEW c \in Cases,
               risk[c].state = "OPEN", risk'[c].state = "RESOLVED"
        PROVE  Resolve(c)
    <2>1. risk' # risk
      BY <1>1
    <2>2. PICK d \in Cases : OpenCase(d) \/ ReviewSource(d) \/ Confirm(d) \/ Resolve(d)
      BY <1>1, <2>1 DEF AuthorityNext, Evaluate, RelationshipChanges, ListingChanges, ClaimLegacyCase, authorityVars
    <2>3. CASE OpenCase(d)
      BY <1>1, <2>3 DEF OpenCase, AuthorityInv
    <2>4. CASE ReviewSource(d) \/ Confirm(d)
      BY <1>1, <2>4 DEF ReviewSource, Confirm, Decided, AuthorityInv
    <2>5. CASE Resolve(d)
      BY <1>1, <2>5 DEF Resolve, Decided, AuthorityInv
    <2>6. QED
      BY <2>2, <2>3, <2>4, <2>5
  <1>2. ASSUME AuthorityInv, [AuthorityNext]_authorityVars PROVE AsRead
    <2>1. ASSUME NEW c \in Cases, risk[c].state = "OPEN", risk'[c].state = "RESOLVED"
          PROVE  /\ listing.principal = relationship.principal
                 /\ risk[c].review.relationship = relationship.version
                 /\ risk[c].review.listing = listing.version
      <3>1. Resolve(c)
        BY <1>1, <1>2, <2>1
      <3>2. risk[c].review = Snapshot /\ Finding = "ABSENT"
        BY <3>1 DEF Resolve, SameSource, SameRows
      <3>3. QED
        BY <3>2 DEF Snapshot, Finding
    <2>2. QED
      BY <2>1
  <1>3. AuthorityInv /\ [AuthorityNext]_authorityVars => [ClearIsCurrent' /\ AsRead]_authorityVars
    <2>1. AuthorityInv' => ClearIsCurrent'
      BY ClearIsNow, PTL
    <2>2. QED
      BY <1>2, <2>1, AuthorityStep
  <1>4. QED
    BY AuthorityInitInv, AuthorityStep, <1>3, PTL DEF AuthoritySpec, ClearedAsRead
-----------------------------------------------------------------------------
(* StaffSessions: the row that is held is not revoked, its holder has the   *)
(* token in force, and only a lost answer can leave another one; a logout    *)
(* ends at the provider the token of the row.                               *)

PageStates == {"IDLE", "ASKING", "ANSWERED", "REFUSED"}

Rotation ==
  /\ holder = "NONE" => session.refresh = provider \/ (session.revoked /\ provider = 0)
  /\ \A r \in Requests : /\ page[r].at # "REFUSED"
                         /\ page[r].at = "ASKING" => page[r].refresh = provider /\ session.refresh = provider
                         /\ page[r].at = "ANSWERED" => page[r].refresh = provider
  /\ logout # 0 => logout = session.refresh

StaffInv ==
  /\ session \in [revoked : BOOLEAN, refresh : Nat, fresh : BOOLEAN] /\ provider \in Nat /\ lost \in BOOLEAN
  /\ page \in [Requests -> [at : PageStates, refresh : Nat]] /\ holder \in Requests \cup {"NONE"}
  /\ \A r \in Requests : page[r].at # "IDLE" <=> holder = r
  /\ holder # "NONE" => ~session.revoked
  /\ logout # 0 => session.revoked
  /\ ~lost => Rotation

LEMMA StaffInitInv == StaffInit => StaffInv
  <1>. SUFFICES ASSUME StaffInit PROVE StaffInv
    OBVIOUS
  <1>1. /\ session = [revoked |-> FALSE, refresh |-> 1, fresh |-> TRUE] /\ provider = 1
        /\ page = [r \in Requests |-> [at |-> "IDLE", refresh |-> 0]]
        /\ holder = "NONE" /\ lost = FALSE /\ logout = 0
    BY DEF StaffInit
  <1>2. page \in [Requests -> [at : PageStates, refresh : Nat]] /\ \A r \in Requests : page[r].at = "IDLE"
    BY <1>1 DEF PageStates
  <1>3. Rotation
    BY <1>1, <1>2 DEF Rotation
  <1>4. QED
    BY <1>1, <1>2, <1>3, StaffSessionAssumption DEF StaffInv

LEMMA StaffStep == StaffInv /\ [StaffNext]_staffVars => StaffInv'
  <1>. SUFFICES ASSUME StaffInv, [StaffNext]_staffVars PROVE StaffInv'
    OBVIOUS
  <1>. USE StaffSessionAssumption DEF PageStates
  <1>1. ASSUME NEW r \in Requests, Tokens(r) PROVE StaffInv'
    BY <1>1 DEF Tokens, Free, FreeFor, At, StaffInv, Rotation
  <1>2. ASSUME NEW r \in Requests, ProviderRotates(r) PROVE StaffInv'
    BY <1>2 DEF ProviderRotates, At, StaffInv, Rotation
  <1>3. ASSUME NEW r \in Requests, ProviderRefuses(r) PROVE StaffInv'
    BY <1>3 DEF ProviderRefuses, At, StaffInv, Rotation
  <1>4. ASSUME NEW r \in Requests, AnswerLost(r) PROVE StaffInv'
    BY <1>4 DEF AnswerLost, At, StaffInv, Rotation
  <1>5. ASSUME NEW r \in Requests, Store(r) PROVE StaffInv'
    <2>1. /\ page[r].at = "ANSWERED" /\ holder = r /\ ~session.revoked /\ logout = 0
          /\ session' = [session EXCEPT !.refresh = page[r].refresh, !.fresh = TRUE]
          /\ page' = [page EXCEPT ![r] = [at |-> "IDLE", refresh |-> 0]] /\ holder' = "NONE"
          /\ UNCHANGED <<provider, lost, logout>>
      BY <1>5 DEF Store, Release, At, StaffInv
    <2>2. page[r] \in [at : PageStates, refresh : Nat] /\ \A q \in Requests : page[q].at # "IDLE" => q = r
      BY <2>1 DEF StaffInv
    <2>3. /\ session' \in [revoked : BOOLEAN, refresh : Nat, fresh : BOOLEAN]
          /\ ~session'.revoked /\ session'.refresh = page[r].refresh
      BY <2>1, <2>2 DEF StaffInv
    <2>4. /\ page' \in [Requests -> [at : PageStates, refresh : Nat]]
          /\ \A q \in Requests : page'[q].at = "IDLE"
      BY <2>1, <2>2 DEF StaffInv
    <2>5. ~lost => Rotation'
      BY <2>1, <2>3, <2>4 DEF StaffInv, Rotation
    <2>6. QED
      BY <2>1, <2>3, <2>4, <2>5 DEF StaffInv
  <1>6. ASSUME NEW r \in Requests, RevokeFailed(r) PROVE StaffInv'
    BY <1>6 DEF RevokeFailed, Release, At, StaffInv, Rotation
  <1>7. ASSUME NEW r \in Requests, Crash(r) PROVE StaffInv'
    BY <1>7 DEF Crash, Release, At, StaffInv, Rotation
  <1>8. CASE Logout \/ Provision
    <2>1. /\ holder = "NONE" /\ session' = [session EXCEPT !.revoked = TRUE]
          /\ logout' \in {logout, session.refresh} /\ UNCHANGED <<provider, page, holder, lost>>
      BY <1>8 DEF Logout, Provision
    <2>2. session' \in [revoked : BOOLEAN, refresh : Nat, fresh : BOOLEAN] /\ session'.revoked
      BY <2>1 DEF StaffInv
    <2>3. \A r \in Requests : page[r].at = "IDLE"
      BY <2>1 DEF StaffInv
    <2>4. ~lost => Rotation'
      BY <2>1, <2>2, <2>3 DEF StaffInv, Rotation
    <2>5. QED
      BY <2>1, <2>2, <2>4 DEF StaffInv
  <1>9. CASE RevokeAtProvider
    BY <1>9 DEF RevokeAtProvider, StaffInv, Rotation
  <1>10. CASE Ends \/ TokenExpires \/ UNCHANGED staffVars
    BY <1>10 DEF Ends, TokenExpires, staffVars, StaffInv, Rotation
  <1>11. QED
    BY <1>1, <1>2, <1>3, <1>4, <1>5, <1>6, <1>7, <1>8, <1>9, <1>10 DEF StaffNext

(* Staff are not logged out by their own pages, however many refresh at      *)
(* once, and a logout has the token that ends the session at the provider   *)
(* unless it has been ended there (staff.ts 179), unless an answer was      *)
(* lost.                                                                    *)
THEOREM RotationSurvivesCorrect == StaffSpec => []RotationSurvives
  <1>1. StaffInv => RotationSurvives
    BY DEF StaffInv, Rotation, RotationSurvives
  <1>2. QED
    BY StaffInitInv, StaffStep, <1>1, PTL DEF StaffSpec
-----------------------------------------------------------------------------
(* ProviderVerification: the claim keeps a case that is verified, or ended   *)
(* with it, and no verified case outlives it; a provider whose claim is good *)
(* is active, so that sending another case does not take the status away;   *)
(* and a decision under way has the newest case and has read a claim that   *)
(* is good.                                                                 *)

CaseStates == {"PENDING", "VERIFIED", "REJECTED", "NEEDS_RESUBMISSION", "EXPIRED"}
CaseRows == [state : CaseStates, version : Nat, assigned : Staff \cup {"NONE"},
             reviewer : Staff \cup {"NONE"}, until : Nat]
Claims == [status : {"NONE", "VERIFIED", "EXPIRED"}, source : Nat, until : Nat]
Profiles == [state : {"DRAFT", "PENDING_VERIFICATION", "ACTIVE"},
             status : CaseStates \cup {"NOT_VERIFIED"}, capacity : Capacities]
Asks == [staff : Staff, case : Nat, version : Nat, at : Nat]
Decisions == [staff : Staff, case : Nat, outcome : Outcomes, until : Nat, good : BOOLEAN]

VerificationTypes ==
  /\ today \in Nat /\ cases \in Seq(CaseRows) /\ claim \in Claims /\ profile \in Profiles
  /\ asked \subseteq Asks /\ deciding \subseteq Decisions /\ \A a \in asked : a.case \in 1..Newest

Refused == {"REJECTED", "NEEDS_RESUBMISSION"}

Sourced ==
  /\ claim.status = "VERIFIED" => claim.source \in 1..Newest /\ cases[claim.source].state = "VERIFIED"
  /\ claim.status = "EXPIRED" => claim.source \in 1..Newest /\ cases[claim.source].state = "EXPIRED"
  /\ claim.status # "VERIFIED" => claim.until <= today
  /\ claim.until <= today + Validity
  /\ \A c \in 1..Newest : cases[c].state = "VERIFIED" => cases[c].until <= claim.until

Deciding ==
  \A d \in deciding :
    /\ d.case = Newest /\ Newest > 0 /\ cases[Newest].state = "PENDING"
    /\ ClaimGood => d.good
    /\ d.good => claim.status # "NONE"
    /\ claim.until <= d.until /\ d.until <= today + Validity

Shown ==
  /\ Newest > 0 /\ cases[Newest].state = "PENDING" => profile.state # "DRAFT"
  /\ ClaimGood => profile.state = "ACTIVE" /\ profile.status = "VERIFIED"
  /\ profile.status = "VERIFIED" /\ claim.status # "VERIFIED"
       => \E c \in claim.source + 1..Newest : cases[c].state \in Refused

Held ==
  /\ expiring => claim.status = "VERIFIED" /\ claim.until <= today
  /\ published = "CONFIRMED" => claim.status = "VERIFIED"

VerificationInv == VerificationTypes /\ Sourced /\ Deciding /\ Shown /\ Held

LEMMA VerificationInitInv == VerificationInit => VerificationInv
  <1>. SUFFICES ASSUME VerificationInit PROVE VerificationInv
    OBVIOUS
  <1>1. claim \in Claims /\ profile \in Profiles
    BY VerificationAssumption DEF VerificationInit, Claims, Profiles, CaseStates
  <1>2. /\ today = 0 /\ cases = <<>> /\ asked = {} /\ deciding = {} /\ expiring = FALSE /\ published = "NO"
        /\ claim.status = "NONE" /\ claim.until = 0 /\ profile.status = "NOT_VERIFIED" /\ Newest = 0
    BY DEF VerificationInit, Newest
  <1>3. VerificationTypes
    BY <1>1, <1>2 DEF VerificationTypes
  <1>4. Sourced /\ Deciding /\ Shown /\ Held
    BY <1>2, VerificationAssumption DEF Sourced, Deciding, Shown, Held, ClaimGood, ClaimGoodAt
  <1>5. QED
    BY <1>3, <1>4 DEF VerificationInv

LEMMA SubmitsBacked == ASSUME VerificationInv, Submit PROVE VerificationInv'
  <1>. DEFINE new == [state |-> "PENDING", version |-> 1, assigned |-> "NONE", reviewer |-> "NONE", until |-> 0]
  <1>. USE DEF VerificationInv
  <1>1. /\ cases' = Append(cases, new) /\ UNCHANGED <<today, asked, claim, deciding, expiring, published>>
        /\ profile' = IF profile.state = "DRAFT"
                      THEN [profile EXCEPT !.state = "PENDING_VERIFICATION", !.status = "PENDING"]
                      ELSE profile
        /\ Newest > 0 => cases[Newest].state # "PENDING"
    BY DEF Submit, waitingVars
  <1>2. new \in CaseRows /\ new.state = "PENDING"
    BY DEF CaseRows, CaseStates
  <1>. HIDE DEF new
  <1>3. /\ cases' \in Seq(CaseRows) /\ Newest' = Newest + 1 /\ Newest \in Nat /\ cases'[Newest + 1] = new
        /\ \A i \in 1..Newest : cases'[i] = cases[i]
    BY <1>1, <1>2 DEF VerificationTypes, Newest
  <1>4. profile \in Profiles /\ claim \in Claims /\ claim.source \in Nat
    BY DEF VerificationTypes, Claims
  <1>5. /\ profile' \in Profiles /\ profile'.state # "DRAFT"
        /\ profile.state # "DRAFT" => profile' = profile
        /\ profile'.status = "VERIFIED" => profile.status = "VERIFIED"
    <2>1. CASE profile.state = "DRAFT"
      BY <1>1, <1>4, <2>1 DEF Profiles, CaseStates
    <2>2. CASE profile.state # "DRAFT"
      BY <1>1, <1>4, <2>2
    <2>3. QED
      BY <2>1, <2>2
  <1>6. VerificationTypes'
    BY <1>1, <1>3, <1>5 DEF VerificationTypes
  <1>7. ClaimGood' = ClaimGood
    BY <1>1 DEF ClaimGood, ClaimGoodAt
  <1>8. Sourced'
    <2>1. \A i \in 1..(Newest + 1) : i \in 1..Newest \/ i = Newest + 1
      BY <1>3
    <2>2. \A i \in 1..(Newest + 1) : cases'[i].state = "VERIFIED" => cases'[i].until <= claim.until
      BY <1>2, <1>3, <2>1 DEF Sourced
    <2>3. 1..Newest \subseteq 1..(Newest + 1)
      BY <1>3
    <2>4. QED
      BY <1>1, <1>3, <2>2, <2>3 DEF Sourced
  <1>9. Deciding'
    BY <1>1 DEF Deciding
  <1>10. Shown'
    <2>1. (profile.status = "VERIFIED" /\ claim.status # "VERIFIED")
            => \E c \in claim.source + 1..Newest + 1 : cases'[c].state \in Refused
      BY <1>3, <1>4 DEF Shown
    <2>2. QED
      BY <1>1, <1>3, <1>5, <1>7, <2>1 DEF Shown
  <1>11. Held'
    BY <1>1 DEF Held
  <1>12. QED
    BY <1>6, <1>8, <1>9, <1>10, <1>11

(* A decision that has begun holds the newest case, and has read the claim   *)
(* no later than now.                                                       *)
LEMMA DecisionsBegin ==
  ASSUME VerificationInv, NEW a \in asked, NEW outcome \in Outcomes, DecideReads(a, outcome)
  PROVE  VerificationInv'
  <1>. USE DEF VerificationInv
  <1>1. PICK begun_at \in a.at..today :
          deciding' = {[staff |-> a.staff, case |-> a.case, outcome |-> outcome,
                        until |-> today + Validity, good |-> ClaimGoodAt(begun_at)]}
    BY DEF DecideReads
  <1>. DEFINE d == [staff |-> a.staff, case |-> a.case, outcome |-> outcome,
                    until |-> today + Validity, good |-> ClaimGoodAt(begun_at)]
  <1>2. /\ asked' = asked \ {a} /\ UNCHANGED <<today, cases, claim, profile, expiring, published>>
        /\ cases[a.case].state = "PENDING" /\ a.case = Newest
    BY DEF DecideReads, CurrentGrant, CurrentGrantOfRow
  <1>3. /\ a.staff \in Staff /\ a.case \in Nat /\ a.case > 0 /\ today + Validity \in Nat /\ today \in Nat
        /\ a.at \in Nat /\ claim.until \in Nat
    BY VerificationAssumption DEF VerificationTypes, Asks, Claims
  <1>4. /\ d \in Decisions /\ d.case = Newest /\ d.until = today + Validity /\ d.good = ClaimGoodAt(begun_at)
    BY <1>2, <1>3 DEF Decisions, ClaimGoodAt
  <1>5. deciding' = {d}
    BY <1>1
  <1>. HIDE DEF d
  <1>6. ClaimGood => ClaimGoodAt(begun_at)
    BY <1>3 DEF ClaimGood, ClaimGoodAt
  <1>7. ClaimGoodAt(begun_at) => claim.status # "NONE"
    BY DEF ClaimGoodAt
  <1>8. ClaimGood' = ClaimGood /\ Newest' = Newest
    BY <1>2 DEF ClaimGood, ClaimGoodAt, Newest
  <1>9. VerificationTypes'
    BY <1>2, <1>4, <1>5, <1>8 DEF VerificationTypes
  <1>10. Deciding'
    BY <1>2, <1>3, <1>4, <1>5, <1>6, <1>7, <1>8 DEF Deciding, Sourced
  <1>11. Sourced' /\ Shown' /\ Held'
    BY <1>2, <1>8 DEF Sourced, Shown, Held
  <1>12. QED
    BY <1>9, <1>10, <1>11

(* A verdict gives the claim to a case that was pending, or leaves it and    *)
(* the status of a claim that it had read.                                  *)
LEMMA DecidesBacked ==
  ASSUME VerificationInv, NEW d \in deciding, Decide(d)
  PROVE  VerificationInv'
  <1>. DEFINE c == d.case
              new == [cases[c] EXCEPT !.state = d.outcome, !.version = cases[c].version + 1, !.reviewer = d.staff,
                                      !.until = IF d.outcome = "VERIFIED" THEN d.until ELSE 0]
  <1>. USE DEF VerificationInv
  <1>1. /\ cases \in Seq(CaseRows) /\ claim \in Claims /\ profile \in Profiles /\ d \in Decisions
        /\ today \in Nat /\ Newest \in Nat
    BY DEF VerificationTypes, Newest
  <1>2. /\ c = Newest /\ Newest > 0 /\ c \in 1..Newest /\ cases[c].state = "PENDING" /\ cases[c] \in CaseRows
        /\ ClaimGood => d.good
        /\ d.good => claim.status # "NONE"
        /\ claim.until <= d.until /\ d.until <= today + Validity
    BY <1>1 DEF Deciding, Newest
  <1>3. /\ ~expiring /\ deciding' = {} /\ UNCHANGED <<today, asked, expiring, published>>
        /\ claim' = IF d.outcome = "VERIFIED"
                    THEN [status |-> "VERIFIED", source |-> c, until |-> d.until] ELSE claim
        /\ profile' = [profile EXCEPT
             !.state = IF profile.state # "PENDING_VERIFICATION" THEN profile.state
                       ELSE IF d.outcome = "VERIFIED" THEN "ACTIVE" ELSE "DRAFT",
             !.status = IF d.outcome = "VERIFIED" THEN "VERIFIED" ELSE StatusAfter(d)]
    BY DEF Decide
  <1>4. cases' = [cases EXCEPT ![c] = new]
    BY <1>2 DEF Decide, CaseRows
  <1>5. /\ d.outcome \in Outcomes /\ d.staff \in Staff /\ d.until \in Nat /\ d.case \in Nat
        /\ claim.until \in Nat /\ claim.source \in Nat
    BY <1>1 DEF Decisions, Claims
  <1>6. /\ new \in CaseRows /\ new.state = d.outcome
        /\ d.outcome = "VERIFIED" => new.until = d.until
    <2>1. cases[c].version + 1 \in Nat
      BY <1>2 DEF CaseRows
    <2>2. QED
      BY <1>2, <1>5, <2>1 DEF CaseRows, CaseStates, Outcomes
  <1>. HIDE DEF new, c
  <1>7. /\ cases' \in Seq(CaseRows) /\ Newest' = Newest /\ cases'[c] = new
        /\ \A i \in 1..Newest : i # c => cases'[i] = cases[i]
    BY <1>1, <1>2, <1>4, <1>6 DEF Newest
  <1>8. profile.state \in {"PENDING_VERIFICATION", "ACTIVE"}
    BY <1>1, <1>2 DEF Shown, Profiles
  <1>9. Deciding'
    BY <1>3 DEF Deciding
  <1>10. CASE d.outcome = "VERIFIED"
    <2>1. claim' \in Claims /\ claim'.status = "VERIFIED" /\ claim'.source = c /\ claim'.until = d.until
      BY <1>2, <1>3, <1>5, <1>10 DEF Claims, c
    <2>2. profile' \in Profiles /\ profile'.status = "VERIFIED" /\ profile'.state = "ACTIVE"
      BY <1>1, <1>3, <1>8, <1>10 DEF Profiles, CaseStates
    <2>3. VerificationTypes'
      BY <1>3, <1>7, <2>1, <2>2 DEF VerificationTypes
    <2>4. Sourced'
      <3>1. \A i \in 1..Newest : cases'[i].state = "VERIFIED" => cases'[i].until <= d.until
        <4>1. ASSUME NEW i \in 1..Newest, i # c, cases'[i].state = "VERIFIED" PROVE cases'[i].until <= d.until
          <5>1. cases[i] \in CaseRows /\ cases'[i] = cases[i]
            BY <1>1, <1>7, <4>1 DEF Newest
          <5>2. cases[i].until \in Nat /\ cases[i].until <= claim.until
            BY <4>1, <5>1 DEF Sourced, CaseRows
          <5>3. QED
            BY <1>2, <1>5, <5>1, <5>2
        <4>2. QED
          BY <1>5, <1>6, <1>7, <1>10, <4>1
      <3>2. QED
        BY <1>2, <1>3, <1>6, <1>7, <1>10, <2>1, <3>1 DEF Sourced
    <2>5. Shown' /\ Held'
      BY <1>2, <1>3, <1>6, <1>7, <1>10, <2>1, <2>2 DEF Shown, Held
    <2>6. QED
      BY <1>9, <2>3, <2>4, <2>5
  <1>11. CASE d.outcome # "VERIFIED"
    <2>1. /\ d.outcome \in Refused /\ StatusAfter(d) \in CaseStates
          /\ StatusAfter(d) = "VERIFIED" <=> d.good
      BY <1>5, <1>11 DEF StatusAfter, StatusOfClaim, Outcomes, CaseStates, Refused
    <2>2. /\ profile' \in Profiles /\ profile'.status = StatusAfter(d)
          /\ profile.state = "ACTIVE" => profile'.state = "ACTIVE"
      BY <1>1, <1>3, <1>11, <2>1 DEF Profiles
    <2>3. claim' = claim /\ ClaimGood' = ClaimGood
      BY <1>3, <1>11 DEF ClaimGood, ClaimGoodAt
    <2>4. VerificationTypes'
      BY <1>3, <1>7, <2>2, <2>3 DEF VerificationTypes
    <2>5. /\ claim.status = "VERIFIED" => claim.source # c /\ cases[claim.source].state = "VERIFIED"
          /\ claim.status = "EXPIRED" => claim.source # c /\ cases[claim.source].state = "EXPIRED"
      BY <1>2 DEF Sourced
    <2>6. Sourced'
      BY <1>3, <1>6, <1>7, <1>11, <2>3, <2>5 DEF Sourced
    <2>7. new.state # "PENDING"
      BY <1>6, <2>1 DEF Refused
    <2>8. d.good /\ claim.status # "VERIFIED" => \E i \in claim.source + 1..Newest : cases'[i].state \in Refused
      <3>1. SUFFICES ASSUME d.good, claim.status = "EXPIRED" PROVE c \in claim.source + 1..Newest
        BY <1>1, <1>2, <1>6, <1>7, <2>1 DEF Claims
      <3>2. claim.source \in 1..Newest /\ claim.source # c
        BY <2>5, <3>1 DEF Sourced
      <3>3. QED
        BY <1>1, <1>2, <3>2
    <2>9. Shown'
      BY <1>2, <1>7, <2>1, <2>2, <2>3, <2>7, <2>8 DEF Shown
    <2>10. Held'
      BY <1>3, <2>3 DEF Held
    <2>11. QED
      BY <1>9, <2>4, <2>6, <2>9, <2>10
  <1>12. QED
    BY <1>10, <1>11

LEMMA ExpiresBacked == ASSUME VerificationInv, ExpireClaims PROVE VerificationInv'
  <1>. DEFINE c == claim.source
  <1>. USE DEF VerificationInv
  <1>1. /\ expiring /\ ~expiring' /\ claim' = [claim EXCEPT !.status = "EXPIRED"]
        /\ profile' = [profile EXCEPT !.status = "NOT_VERIFIED"] /\ published' = "NO"
        /\ UNCHANGED <<today, asked, deciding>>
        /\ cases' = IF cases[c].state = "VERIFIED"
                    THEN [cases EXCEPT ![c].state = "EXPIRED", ![c].version = cases[c].version + 1] ELSE cases
    BY DEF ExpireClaims
  <1>2. /\ cases \in Seq(CaseRows) /\ claim \in Claims /\ profile \in Profiles /\ c \in 1..Newest
        /\ cases[c] \in CaseRows /\ cases[c].state = "VERIFIED" /\ Newest \in Nat /\ claim.until <= today
    BY <1>1 DEF VerificationTypes, Sourced, Held, Newest
  <1>. DEFINE new == [cases[c] EXCEPT !.state = "EXPIRED", !.version = cases[c].version + 1]
  <1>3. new \in CaseRows /\ new.state = "EXPIRED"
    <2>1. cases[c].version + 1 \in Nat /\ "EXPIRED" \in CaseStates
      BY <1>2 DEF CaseRows, CaseStates
    <2>2. QED
      BY <1>2, <2>1 DEF CaseRows
  <1>4. cases' = [cases EXCEPT ![c] = new]
    BY <1>1, <1>2 DEF CaseRows
  <1>. HIDE DEF new, c
  <1>5. /\ cases' \in Seq(CaseRows) /\ Newest' = Newest /\ cases'[c] = new
        /\ \A i \in 1..Newest : i # c => cases'[i] = cases[i]
    BY <1>2, <1>3, <1>4 DEF Newest
  <1>6. claim' \in Claims /\ claim'.status = "EXPIRED" /\ claim'.source = c /\ claim'.until = claim.until
    BY <1>1, <1>2 DEF Claims, c
  <1>7. profile' \in Profiles /\ profile'.status = "NOT_VERIFIED" /\ profile'.state = profile.state
    BY <1>1, <1>2 DEF Profiles, CaseStates
  <1>8. VerificationTypes'
    BY <1>1, <1>5, <1>6, <1>7 DEF VerificationTypes
  <1>9. ~ClaimGood'
    BY <1>6 DEF ClaimGood, ClaimGoodAt
  <1>10. Sourced'
    BY <1>1, <1>2, <1>3, <1>5, <1>6 DEF Sourced
  <1>11. Deciding'
    <2>1. ASSUME NEW d \in deciding PROVE cases'[Newest] = cases[Newest]
      BY <1>2, <1>5 DEF Deciding
    <2>2. deciding' = deciding /\ today' = today
      BY <1>1
    <2>3. QED
      BY <1>5, <1>6, <1>9, <2>1, <2>2 DEF Deciding
  <1>12. Shown'
    <2>1. Newest > 0 /\ cases'[Newest].state = "PENDING" => cases[Newest].state = "PENDING"
      BY <1>2, <1>3, <1>5
    <2>2. QED
      BY <1>5, <1>7, <1>9, <2>1 DEF Shown
  <1>13. Held'
    BY <1>1 DEF Held
  <1>14. QED
    BY <1>8, <1>10, <1>11, <1>12, <1>13

(* Steps that leave the cases, the claim and what the profile shows.         *)
LEMMA VerificationAsides ==
  ASSUME VerificationInv, UNCHANGED <<today, cases, claim, profile>>,
         asked' \subseteq asked, deciding' \subseteq deciding,
         expiring' => expiring \/ (claim.status = "VERIFIED" /\ claim.until <= today),
         published' = "CONFIRMED" => published = "CONFIRMED" \/ ClaimGood
  PROVE  VerificationInv'
  <1>. USE DEF VerificationInv
  <1>1. ClaimGood' = ClaimGood /\ Newest' = Newest
    BY DEF ClaimGood, ClaimGoodAt, Newest
  <1>2. VerificationTypes' /\ Sourced' /\ Deciding' /\ Shown'
    BY <1>1 DEF VerificationTypes, Sourced, Deciding, Shown
  <1>3. Held'
    BY DEF Held, ClaimGood, ClaimGoodAt
  <1>4. QED
    BY <1>2, <1>3

LEMMA VerificationStep == VerificationInv /\ [VerificationNext]_verificationVars => VerificationInv'
  <1>. SUFFICES ASSUME VerificationInv, [VerificationNext]_verificationVars PROVE VerificationInv'
    OBVIOUS
  <1>1. CASE Onboard
    <2>1. PICK capacity \in Capacities : profile' = [profile EXCEPT !.capacity = capacity]
      BY <1>1 DEF Onboard
    <2>2. profile' \in Profiles /\ profile'.state = profile.state /\ profile'.status = profile.status
      BY <2>1 DEF VerificationInv, VerificationTypes, Profiles
    <2>3. UNCHANGED <<today, cases, asked, claim, deciding, expiring, published>>
      BY <1>1 DEF Onboard
    <2>4. QED
      BY <2>2, <2>3 DEF VerificationInv, VerificationTypes, Sourced, Deciding, Shown, Held, ClaimGood, ClaimGoodAt, Newest
  <1>2. ASSUME NEW s \in Staff, Assign(s) PROVE VerificationInv'
    <2>. DEFINE new == [cases[Newest] EXCEPT !.assigned = s, !.version = cases[Newest].version + 1]
    <2>1. /\ Newest > 0 /\ deciding = {} /\ UNCHANGED <<today, asked, claim, profile, deciding, expiring, published>>
          /\ cases' = [cases EXCEPT ![Newest].assigned = s, ![Newest].version = cases[Newest].version + 1]
      BY <1>2 DEF Assign, waitingVars
    <2>2. cases \in Seq(CaseRows) /\ Newest \in 1..Newest /\ cases[Newest] \in CaseRows
      BY <2>1 DEF VerificationInv, VerificationTypes, Newest
    <2>3. new \in CaseRows /\ new.state = cases[Newest].state /\ new.until = cases[Newest].until
      <3>1. cases[Newest].version + 1 \in Nat
        BY <2>2 DEF CaseRows
      <3>2. QED
        BY <2>2, <3>1 DEF CaseRows
    <2>4. cases' = [cases EXCEPT ![Newest] = new]
      BY <2>1, <2>2 DEF CaseRows
    <2>. HIDE DEF new
    <2>5. /\ cases' \in Seq(CaseRows) /\ Newest' = Newest
          /\ \A i \in 1..Newest : cases'[i].state = cases[i].state /\ cases'[i].until = cases[i].until
      BY <2>2, <2>3, <2>4 DEF Newest
    <2>6. ClaimGood' = ClaimGood
      BY <2>1 DEF ClaimGood, ClaimGoodAt
    <2>7. VerificationTypes' /\ Sourced' /\ Deciding' /\ Held'
      BY <2>1, <2>5 DEF VerificationInv, VerificationTypes, Sourced, Deciding, Held
    <2>8. Shown'
      <3>1. claim.source \in Nat
        BY DEF VerificationInv, VerificationTypes, Claims
      <3>2. claim.source + 1..Newest \subseteq 1..Newest
        BY <2>2, <3>1 DEF Newest
      <3>3. QED
        BY <2>1, <2>2, <2>5, <2>6, <3>2 DEF VerificationInv, Shown
    <2>9. QED
      BY <2>7, <2>8 DEF VerificationInv
  <1>3. ASSUME NEW s \in Staff, Ask(s) PROVE VerificationInv'
    <2>. DEFINE a == [staff |-> s, case |-> Newest, version |-> cases[Newest].version, at |-> today]
    <2>1. /\ asked' = asked \cup {a} /\ Newest > 0
          /\ UNCHANGED <<today, cases, claim, profile, deciding, expiring, published>>
      BY <1>3 DEF Ask, waitingVars
    <2>2. a \in Asks /\ a.case = Newest /\ Newest \in 1..Newest
      <3>1. Newest \in 1..Newest /\ Newest \in Nat /\ cases[Newest] \in CaseRows /\ today \in Nat
        BY <2>1 DEF VerificationInv, VerificationTypes, Newest
      <3>2. cases[Newest].version \in Nat
        BY <3>1 DEF CaseRows
      <3>3. QED
        BY <3>1, <3>2 DEF Asks
    <2>. HIDE DEF a
    <2>3. VerificationTypes'
      BY <2>1, <2>2 DEF VerificationInv, VerificationTypes, Newest
    <2>4. Sourced' /\ Deciding' /\ Shown' /\ Held'
      BY <2>1 DEF VerificationInv, Sourced, Deciding, Shown, Held, ClaimGood, ClaimGoodAt, Newest
    <2>5. QED
      BY <2>3, <2>4 DEF VerificationInv
  <1>4. ASSUME NEW s \in Staff, GrantChanges(s) \/ \E kind \in Kinds : ReadEvidence(s, kind) PROVE VerificationInv'
    BY <1>4, VerificationAsides DEF GrantChanges, ReadEvidence, waitingVars
  <1>5. ASSUME NEW a \in asked, Refuse(a) PROVE VerificationInv'
    BY <1>5, VerificationAsides DEF Refuse, waitingVars
  <1>6. CASE OnboardReads \/ ApproveReads \/ ApproveListing \/ ConfirmListing
    BY <1>6, VerificationAsides DEF OnboardReads, ApproveReads, ApproveListing, ConfirmListing, waitingVars
  <1>7. ASSUME NEW s \in Statements, StatementFails(s) PROVE VerificationInv'
    BY <1>7, VerificationAsides DEF StatementFails
  <1>8. CASE DecideFails \/ ExpireClaimsLocks \/ ExpireClaimsFails
    BY <1>8, VerificationAsides DEF DecideFails, ExpireClaimsLocks, ExpireClaimsFails
  <1>9. CASE VerificationTick
    <2>1. /\ today \in Nat /\ today' = today + 1 /\ claim.until \in Nat
          /\ UNCHANGED <<cases, asked, claim, profile, deciding, expiring, published>>
      BY <1>9 DEF VerificationTick, waitingVars, VerificationInv, VerificationTypes, Claims
    <2>2. ClaimGood' => ClaimGood
      BY <2>1 DEF ClaimGood, ClaimGoodAt
    <2>3. VerificationTypes' /\ Sourced'
      BY <2>1, VerificationAssumption DEF VerificationInv, VerificationTypes, Sourced, Newest
    <2>4. Deciding'
      BY <2>1, <2>2, VerificationAssumption DEF VerificationInv, VerificationTypes, Deciding, Decisions, Newest
    <2>5. Shown' /\ Held'
      BY <2>1, <2>2 DEF VerificationInv, Shown, Held, Newest
    <2>6. QED
      BY <2>3, <2>4, <2>5 DEF VerificationInv
  <1>10. CASE UNCHANGED verificationVars
    BY <1>10, VerificationAsides DEF verificationVars
  <1>11. QED
    BY <1>1, <1>2, <1>3, <1>4, <1>5, <1>6, <1>7, <1>8, <1>9, <1>10,
       SubmitsBacked, DecisionsBegin, DecidesBacked, ExpiresBacked
    DEF VerificationNext

(* A claim that is good is that of a verified case and shows on an active    *)
(* profile, and a verified case that is not over has one.  A profile that   *)
(* still shows verified after its claim ended does so by a case refused     *)
(* since, and what the provider has confirmed stays published no longer     *)
(* than the claim (provider-verification.ts 131-139, 173-187;               *)
(* listing-lifecycle.ts 226).                                               *)
THEOREM ClaimBackedCorrect == VerificationSpec => []ClaimBacked
  <1>1. VerificationInv => ClaimBacked
    <2>1. SUFFICES ASSUME VerificationInv PROVE ClaimBacked
      OBVIOUS
    <2>2. claim.until \in Nat /\ today \in Nat /\ cases \in Seq(CaseRows)
      BY <2>1 DEF VerificationInv, VerificationTypes, Claims
    <2>3. ASSUME NEW c \in 1..Newest, cases[c].state = "VERIFIED", cases[c].until > today PROVE ClaimGood
      <3>1. cases[c] \in CaseRows
        BY <2>2, <2>3 DEF Newest
      <3>2. QED
        BY <2>1, <2>2, <2>3, <3>1 DEF VerificationInv, Sourced, CaseRows, ClaimGood, ClaimGoodAt
    <2>4. QED
      BY <2>1, <2>3 DEF VerificationInv, Sourced, Shown, Held, Refused, ClaimBacked, ClaimGood, ClaimGoodAt
  <1>2. QED
    BY VerificationInitInv, VerificationStep, <1>1, PTL DEF VerificationSpec

-----------------------------------------------------------------------------
(* WebSessions: who is under way with what.  A family is registered once, a *)
(* login is the only one of its family and has no web session yet, and a    *)
(* logout of the browser has one.                                           *)

Places == {"REST", "ASKING", "ANSWERED", "CALLING", "INSERTED", "CREATING", "ENDING", "REVOKING", "CLEARING"}
Works == [at : Places, purpose : Purposes \cup {"LOGIN"}, family : Families \cup {"NONE"},
          refresh : Nat, browser : BOOLEAN]

WebTypes ==
  /\ web \in [Families -> [known : BOOLEAN, revoked : BOOLEAN, fresh : BOOLEAN, refresh : Nat]]
  /\ api \in [Families -> {"UNKNOWN", "OPEN", "REVOKED"}]
  /\ accepts \in [Families -> Nat] /\ work \in [WebRequests -> Works]
  /\ cookie_of \in Families \cup {"NONE"}

Sound(w, rows, registered, queued) ==
  /\ w.at = "REST" => w.purpose = "USE"
  /\ w.at # "REST" => /\ w.family \in Families
                      /\ w.purpose = "LOGIN" => ~rows[w.family].known
                      /\ w.browser /\ w.purpose # "LOGIN" => rows[w.family].known
  /\ w.at \in {"ENDING", "REVOKING", "CLEARING"} => w.purpose \in {"LOGOUT", "LOGOUT_ALL"}
  /\ w.at \in {"REVOKING", "CLEARING"} => w.browser
  /\ w.at = "CREATING" => w.purpose = "LOGIN"
  /\ w.at = "ENDING" => registered[w.family] # "UNKNOWN"
  /\ w.at = "INSERTED" => w.family \in queued

Apart(v, w) ==
  v.family = w.family => /\ ~(v.at = "INSERTED" /\ w.at = "INSERTED")
                         /\ ~(v.purpose = "LOGIN" /\ w.purpose = "LOGIN")

UnderWay ==
  /\ \A r \in WebRequests : Sound(work[r], web, api, inserting)
  /\ \A r, q \in WebRequests : r # q => Apart(work[r], work[q])

Standing ==
  /\ cookie_of # "NONE" => web[cookie_of].known
  /\ inserting \subseteq {f \in Families : api[f] = "UNKNOWN"}
  /\ ended \subseteq {f \in Families : api[f] = "REVOKED"} /\ late = {}
  /\ loggedOut \subseteq {f \in Families : web[f].known /\ web[f].revoked}

WebInv == WebTypes /\ UnderWay /\ Standing
LEMMA WebInitInv == WebInit => WebInv
  <1>. SUFFICES ASSUME WebInit PROVE WebInv
    OBVIOUS
  <1>1. AtRest \in Works /\ AtRest.at = "REST" /\ AtRest.purpose = "USE"
    BY DEF AtRest, Works, Places, Purposes
  <1>2. \A r \in WebRequests : work[r] = AtRest
    BY DEF WebInit
  <1>3. WebTypes
    BY <1>1 DEF WebInit, WebTypes
  <1>4. UnderWay
    BY <1>1, <1>2 DEF UnderWay, Sound, Apart
  <1>5. Standing
    BY DEF WebInit, Standing
  <1>6. QED
    BY <1>3, <1>4, <1>5 DEF WebInv

(* A request goes on: no other one is touched, whatever it did to the rows. *)
LEMMA RequestGoesOn ==
  ASSUME WebInv, NEW r \in WebRequests, NEW row, work' = [work EXCEPT ![r] = row],
         \A f \in Families :
           /\ web'[f].known = web[f].known \/ (work[r].purpose = "LOGIN" /\ f = work[r].family /\ web'[f].known)
           /\ api'[f] = "UNKNOWN" => api[f] = "UNKNOWN",
         \A f \in inserting : f \in inserting' \/ (work[r].at = "INSERTED" /\ f = work[r].family),
         Sound(row, web', api', inserting'),
         row.purpose = "LOGIN" => \/ work[r].purpose = "LOGIN" /\ row.family = work[r].family
                                  \/ \A q \in WebRequests : work[q].family # row.family,
         row.at = "INSERTED" => row.family \notin inserting
  PROVE  UnderWay'
  <1>1. work'[r] = row /\ \A q \in WebRequests : q # r => work'[q] = work[q]
    BY DEF WebInv, WebTypes
  <1>2. ASSUME NEW q \in WebRequests, q # r PROVE Sound(work[q], web', api', inserting')
    <2>1. Sound(work[q], web, api, inserting) /\ Apart(work[r], work[q])
      BY <1>2 DEF WebInv, UnderWay
    <2>2. CASE work[q].at = "REST"
      BY <2>1, <2>2 DEF Sound
    <2>3. CASE work[q].at # "REST"
      <3>1. work[q].family \in Families
        BY <2>1, <2>3 DEF Sound
      <3>2. \/ web'[work[q].family].known = web[work[q].family].known
            \/ web'[work[q].family].known /\ work[q].purpose # "LOGIN"
        BY <2>1, <3>1 DEF Apart
      <3>3. work[q].at = "INSERTED" => work[q].family \in inserting'
        BY <2>1 DEF Apart, Sound
      <3>4. api'[work[q].family] = "UNKNOWN" => api[work[q].family] = "UNKNOWN"
        BY <3>1
      <3>5. QED
        BY <2>1, <2>3, <3>1, <3>2, <3>3, <3>4 DEF Sound
    <2>4. QED
      BY <2>2, <2>3
  <1>3. ASSUME NEW q \in WebRequests, q # r PROVE Apart(row, work[q]) /\ Apart(work[q], row)
    <2>1. Sound(work[q], web, api, inserting) /\ Apart(work[r], work[q])
      BY <1>3 DEF WebInv, UnderWay
    <2>2. QED
      BY <2>1 DEF Apart, Sound
  <1>4. \A q, s \in WebRequests : q # s /\ q # r /\ s # r => Apart(work[q], work[s])
    BY DEF WebInv, UnderWay
  <1>5. \A q \in WebRequests : Sound(work'[q], web', api', inserting')
    BY <1>1, <1>2
  <1>6. \A q, s \in WebRequests : q # s => Apart(work'[q], work'[s])
    BY <1>1, <1>3, <1>4
  <1>7. QED
    BY <1>5, <1>6 DEF UnderWay

(* What is known of a request under way.                                    *)
LEMMA RequestIs ==
  ASSUME WebInv, NEW r \in WebRequests
  PROVE  /\ work[r] \in Works /\ Sound(work[r], web, api, inserting)
         /\ \A where \in Places : [work[r] EXCEPT !.at = where] \in Works
         /\ work[r].at # "REST" => work[r].family \in Families
  BY DEF WebInv, WebTypes, UnderWay, Works, Sound

LEMMA WebTypesOfWork ==
  ASSUME WebInv, NEW r \in WebRequests, NEW row \in Works, work' = [work EXCEPT ![r] = row]
  PROVE  work' \in [WebRequests -> Works]
  BY DEF WebInv, WebTypes

LEMMA RestIs == AtRest \in Works /\ AtRest.at = "REST" /\ AtRest.purpose = "USE"
                /\ \A rows, registered, queued : Sound(AtRest, rows, registered, queued)
  BY DEF AtRest, Works, Places, Purposes, Sound
LEMMA ExchangeCodeKeeps == ASSUME WebInv, NEW r \in WebRequests, NEW f \in Families, ExchangeCode(r, f) PROVE WebInv'
  <1>. DEFINE row == [at |-> "CALLING", purpose |-> "LOGIN", family |-> f, refresh |-> 1, browser |-> TRUE]
  <1>1. /\ ~web[f].known /\ \A q \in WebRequests : work[q].family # f
        /\ accepts' = [accepts EXCEPT ![f] = 1] /\ work' = [work EXCEPT ![r] = row]
        /\ UNCHANGED <<web, cookie_of, loggedOut, api, inserting, ended, late>>
    BY DEF ExchangeCode, webServer, apiServer
  <1>2. /\ row \in Works /\ row.family = f /\ row.at = "CALLING" /\ row.purpose = "LOGIN"
        /\ Sound(row, web', api', inserting')
    BY <1>1 DEF Works, Places, Purposes, Sound
  <1>. HIDE DEF row
  <1>3. WebTypes'
    BY <1>1, <1>2, WebTypesOfWork DEF WebInv, WebTypes
  <1>4. UnderWay'
    BY <1>1, <1>2, RequestGoesOn
  <1>5. Standing'
    BY <1>1 DEF WebInv, Standing
  <1>6. QED
    BY <1>3, <1>4, <1>5 DEF WebInv

(* Steps that leave the rows of the web server and of the API alone.        *)
LEMMA WorkAlone ==
  ASSUME WebInv, NEW r \in WebRequests, NEW row \in Works, work' = [work EXCEPT ![r] = row],
         UNCHANGED <<web, loggedOut, api, inserting, ended, late>>,
         accepts' \in [Families -> Nat], cookie_of' \in {cookie_of, "NONE"},
         Sound(row, web, api, inserting), row.at # "INSERTED",
         row.purpose = "LOGIN" => work[r].purpose = "LOGIN" /\ row.family = work[r].family
  PROVE  WebInv'
  <1>1. WebTypes'
    BY WebTypesOfWork DEF WebInv, WebTypes
  <1>2. Sound(row, web', api', inserting')
    OBVIOUS
  <1>3. UnderWay'
    BY <1>2, RequestGoesOn
  <1>4. Standing'
    BY DEF WebInv, Standing
  <1>5. QED
    BY <1>1, <1>3, <1>4 DEF WebInv

(* Steps of the web server that keep what is known of a family.             *)
LEMMA WebAlone ==
  ASSUME WebInv, NEW f \in Families,
         web' \in [Families -> [known : BOOLEAN, revoked : BOOLEAN, fresh : BOOLEAN, refresh : Nat]],
         \A g \in Families : web'[g].known = web[g].known /\ (web[g].revoked => web'[g].revoked),
         UNCHANGED <<api, inserting, ended, late, loggedOut>>,
         accepts' \in [Families -> Nat], cookie_of' \in {cookie_of, "NONE"}
  PROVE  /\ work' \in [WebRequests -> Works] => WebTypes' /\ Standing'
         /\ UNCHANGED work => WebInv'
         /\ \A w : Sound(w, web, api, inserting) => Sound(w, web', api', inserting')
  <1>1. work' \in [WebRequests -> Works] => WebTypes'
    BY DEF WebInv, WebTypes
  <1>2. Standing'
    BY DEF WebInv, WebTypes, Standing
  <1>3. \A w : Sound(w, web, api, inserting) => Sound(w, web', api', inserting')
    BY DEF Sound
  <1>4. UNCHANGED work => UnderWay'
    BY <1>3 DEF WebInv, UnderWay
  <1>5. UNCHANGED work => work' \in [WebRequests -> Works]
    BY DEF WebInv, WebTypes
  <1>6. QED
    BY <1>1, <1>2, <1>3, <1>4, <1>5 DEF WebInv

LEMMA ReadSessionKeeps ==
  ASSUME WebInv, NEW r \in WebRequests, NEW purpose \in Purposes, ReadSession(r, purpose) PROVE WebInv'
  <1>. DEFINE f == cookie_of
              row == [at |-> IF web[f].fresh THEN "CALLING" ELSE "ASKING", purpose |-> purpose,
                      family |-> f, refresh |-> web[f].refresh, browser |-> TRUE]
  <1>1. /\ f # "NONE" /\ UNCHANGED <<api, inserting, ended, late, accepts, loggedOut>>
        /\ \/ cookie_of' = "NONE" /\ UNCHANGED <<web, work>>
           \/ UNCHANGED <<web, cookie_of>> /\ work' = [work EXCEPT ![r] = row]
           \/ web' = [web EXCEPT ![f].revoked = TRUE] /\ cookie_of' = "NONE" /\ UNCHANGED work
    BY DEF ReadSession, apiServer
  <1>2. f \in Families /\ web[f] \in [known : BOOLEAN, revoked : BOOLEAN, fresh : BOOLEAN, refresh : Nat]
        /\ web[f].known /\ accepts \in [Families -> Nat]
    BY <1>1 DEF WebInv, WebTypes, Standing
  <1>3. CASE cookie_of' = "NONE" /\ UNCHANGED <<web, work>>
    <2>1. web \in [Families -> [known : BOOLEAN, revoked : BOOLEAN, fresh : BOOLEAN, refresh : Nat]]
      BY DEF WebInv, WebTypes
    <2>. HIDE DEF f, row
    <2>2. QED
      BY <1>1, <1>2, <1>3, <2>1, WebAlone
  <1>4. CASE UNCHANGED <<web, cookie_of>> /\ work' = [work EXCEPT ![r] = row]
    <2>1. row \in Works /\ row.at # "INSERTED" /\ row.purpose # "LOGIN" /\ Sound(row, web, api, inserting)
      BY <1>2 DEF Works, Places, Purposes, Sound
    <2>. HIDE DEF row
    <2>2. QED
      BY <1>1, <1>2, <1>4, <2>1, WorkAlone
  <1>5. CASE web' = [web EXCEPT ![f].revoked = TRUE] /\ cookie_of' = "NONE" /\ UNCHANGED work
    <2>1. /\ web' \in [Families -> [known : BOOLEAN, revoked : BOOLEAN, fresh : BOOLEAN, refresh : Nat]]
          /\ \A g \in Families : web'[g].known = web[g].known /\ (web[g].revoked => web'[g].revoked)
      BY <1>2, <1>5 DEF WebInv, WebTypes
    <2>. HIDE DEF f, row
    <2>2. QED
      BY <1>1, <1>2, <1>5, <2>1, WebAlone
  <1>6. QED
    BY <1>1, <1>3, <1>4, <1>5

LEMMA ProviderRefreshesKeeps == ASSUME WebInv, NEW r \in WebRequests, ProviderRefreshes(r) PROVE WebInv'
  <1>. DEFINE f == work[r].family
              row == [work[r] EXCEPT !.at = "ANSWERED", !.refresh = accepts[f] + 1]
  <1>1. /\ work[r].at = "ASKING" /\ accepts' = [accepts EXCEPT ![f] = accepts[f] + 1]
        /\ work' = [work EXCEPT ![r].at = "ANSWERED", ![r].refresh = accepts[f] + 1]
        /\ UNCHANGED <<web, cookie_of, loggedOut, api, inserting, ended, late>>
    BY DEF ProviderRefreshes, webServer, apiServer
  <1>2. work[r] \in Works /\ Sound(work[r], web, api, inserting) /\ f \in Families /\ accepts[f] + 1 \in Nat
    BY <1>1, RequestIs DEF WebInv, WebTypes
  <1>3. work' = [work EXCEPT ![r] = row]
    BY <1>1, <1>2 DEF Works
  <1>4. row \in Works /\ row.at = "ANSWERED" /\ row.purpose = work[r].purpose /\ row.family = f /\ row.browser = work[r].browser
    BY <1>2 DEF Works, Places
  <1>5. Sound(row, web, api, inserting)
    BY <1>1, <1>2, <1>4 DEF Sound
  <1>6. accepts' \in [Families -> Nat]
    BY <1>1, <1>2 DEF WebInv, WebTypes
  <1>. HIDE DEF row, f
  <1>7. row.family = work[r].family
    BY <1>4 DEF f
  <1>8. QED
    BY <1>1, <1>3, <1>4, <1>5, <1>6, <1>7, WorkAlone

LEMMA RefreshFailsKeeps == ASSUME WebInv, NEW r \in WebRequests, RefreshFails(r) PROVE WebInv'
  <1>. DEFINE f == work[r].family
  <1>1. /\ work[r].at \in {"ASKING", "ANSWERED"} /\ web' = [web EXCEPT ![f].revoked = TRUE]
        /\ cookie_of' = "NONE" /\ work' = [work EXCEPT ![r] = AtRest]
        /\ UNCHANGED <<loggedOut, api, inserting, ended, late, accepts>>
    BY DEF RefreshFails, Rests, apiServer
  <1>2. f \in Families /\ accepts \in [Families -> Nat]
    BY <1>1, RequestIs DEF WebInv, WebTypes
  <1>3. /\ web' \in [Families -> [known : BOOLEAN, revoked : BOOLEAN, fresh : BOOLEAN, refresh : Nat]]
        /\ \A g \in Families : web'[g].known = web[g].known /\ (web[g].revoked => web'[g].revoked)
    BY <1>1, <1>2 DEF WebInv, WebTypes
  <1>4. WebTypes' /\ Standing'
    BY <1>1, <1>2, <1>3, RestIs, WebTypesOfWork, WebAlone
  <1>5. UnderWay'
    BY <1>1, <1>3, RestIs, RequestGoesOn
  <1>6. QED
    BY <1>4, <1>5 DEF WebInv

LEMMA UpdateTokensKeeps == ASSUME WebInv, NEW r \in WebRequests, UpdateTokens(r) PROVE WebInv'
  <1>. DEFINE f == work[r].family
              row == [work[r] EXCEPT !.at = "CALLING"]
  <1>0. work[r].at = "ANSWERED" /\ UNCHANGED <<loggedOut, api, inserting, ended, late, accepts>>
    BY DEF UpdateTokens, apiServer
  <1>1. /\ f \in Families /\ accepts \in [Families -> Nat] /\ row \in Works /\ work[r] \in Works
        /\ Sound(work[r], web, api, inserting)
    BY <1>0, RequestIs DEF WebInv, WebTypes, Places
  <1>2. CASE UNCHANGED web /\ Rests(r) /\ cookie_of' \in {cookie_of, "NONE"}
    BY <1>0, <1>1, <1>2, RestIs, WorkAlone DEF Rests
  <1>3. CASE /\ Goes(r, "CALLING") /\ UNCHANGED cookie_of
             /\ web' = [web EXCEPT ![f].refresh = work[r].refresh, ![f].fresh = TRUE]
    <2>1. work' = [work EXCEPT ![r] = row]
      BY <1>3 DEF Goes
    <2>2. row.at = "CALLING" /\ row.purpose = work[r].purpose /\ row.family = f /\ row.browser = work[r].browser
      BY <1>1 DEF Works
    <2>3. Sound(row, web, api, inserting)
      BY <1>0, <1>1, <2>2 DEF Sound
    <2>4. /\ web' \in [Families -> [known : BOOLEAN, revoked : BOOLEAN, fresh : BOOLEAN, refresh : Nat]]
          /\ \A g \in Families : web'[g].known = web[g].known /\ (web[g].revoked => web'[g].revoked)
      <3>1. work[r].refresh \in Nat
        BY <1>1 DEF Works
      <3>2. web[f] \in [known : BOOLEAN, revoked : BOOLEAN, fresh : BOOLEAN, refresh : Nat]
        BY <1>1 DEF WebInv, WebTypes
      <3>. DEFINE new == [web[f] EXCEPT !.refresh = work[r].refresh, !.fresh = TRUE]
      <3>3. /\ new \in [known : BOOLEAN, revoked : BOOLEAN, fresh : BOOLEAN, refresh : Nat]
            /\ new.known = web[f].known /\ new.revoked = web[f].revoked
        BY <3>1, <3>2
      <3>4. web' = [web EXCEPT ![f] = new]
        BY <1>3, <3>2
      <3>. HIDE DEF new
      <3>5. QED
        BY <1>1, <3>3, <3>4 DEF WebInv, WebTypes
    <2>. HIDE DEF row
    <2>5. Sound(row, web', api', inserting')
      BY <1>0, <1>1, <1>3, <2>3, <2>4, WebAlone
    <2>6. WebTypes' /\ Standing'
      BY <1>0, <1>1, <1>3, <2>1, <2>4, WebTypesOfWork, WebAlone
    <2>7. UnderWay'
      BY <1>0, <2>1, <2>2, <2>4, <2>5, RequestGoesOn
    <2>8. QED
      BY <2>6, <2>7 DEF WebInv
  <1>4. QED
    BY <1>2, <1>3 DEF UpdateTokens

LEMMA CallDirectlyKeeps ==
  ASSUME WebInv, NEW r \in WebRequests, NEW f \in Families, NEW purpose \in Purposes, CallDirectly(r, f, purpose)
  PROVE  WebInv'
  <1>. DEFINE row == [at |-> "CALLING", purpose |-> purpose, family |-> f, refresh |-> 0, browser |-> FALSE]
  <1>1. work' = [work EXCEPT ![r] = row]
        /\ UNCHANGED <<web, cookie_of, loggedOut, api, inserting, ended, late, accepts>>
    BY DEF CallDirectly, webServer, apiServer
  <1>2. row \in Works /\ row.at # "INSERTED" /\ row.purpose # "LOGIN" /\ Sound(row, web, api, inserting)
    BY DEF Works, Places, Purposes, Sound
  <1>3. accepts \in [Families -> Nat]
    BY DEF WebInv, WebTypes
  <1>. HIDE DEF row
  <1>4. QED
    BY <1>1, <1>2, <1>3, WorkAlone
(* What authentication makes of a request: a login creates its session, a   *)
(* logout goes on to end, and any other request is done.                    *)
GoesOnAs(row, w) ==
  /\ row \in Works /\ row.at \in {"REST", "CREATING", "ENDING"}
  /\ row.at = "REST" => row.purpose = "USE"
  /\ row.at # "REST" => row.purpose = w.purpose /\ row.family = w.family /\ row.browser = w.browser
  /\ row.at = "CREATING" => w.purpose = "LOGIN"
  /\ row.at = "ENDING" => w.purpose \in {"LOGOUT", "LOGOUT_ALL"}

LEMMA Authenticated ==
  ASSUME WebInv, NEW r \in WebRequests, AfterAuthentication(r)
  PROVE  \E row \in Works : work' = [work EXCEPT ![r] = row] /\ GoesOnAs(row, work[r])
  <1>1. work[r] \in Works /\ work[r].purpose \in {"USE", "LOGOUT", "LOGOUT_ALL", "LOGIN"}
    BY RequestIs DEF Works, Purposes
  <1>2. ASSUME NEW where \in {"CREATING", "ENDING"}, Goes(r, where),
               where = "CREATING" => work[r].purpose = "LOGIN",
               where = "ENDING" => work[r].purpose \in {"LOGOUT", "LOGOUT_ALL"}
        PROVE  \E row \in Works : work' = [work EXCEPT ![r] = row] /\ GoesOnAs(row, work[r])
    <2>. DEFINE row == [work[r] EXCEPT !.at = where]
    <2>1. /\ row \in Works /\ row.at = where /\ row.purpose = work[r].purpose /\ row.family = work[r].family
          /\ row.browser = work[r].browser
      BY <1>1 DEF Works, Places
    <2>2. work' = [work EXCEPT ![r] = row]
      BY <1>2 DEF Goes
    <2>. HIDE DEF row
    <2>3. GoesOnAs(row, work[r])
      BY <1>2, <2>1 DEF GoesOnAs
    <2>4. QED
      BY <2>1, <2>2, <2>3
  <1>3. CASE work[r].purpose = "LOGIN"
    BY <1>2, <1>3 DEF AfterAuthentication
  <1>4. CASE work[r].purpose = "USE"
    BY <1>4, RestIs DEF AfterAuthentication, Rests, GoesOnAs
  <1>5. CASE work[r].purpose \in {"LOGOUT", "LOGOUT_ALL"}
    BY <1>2, <1>5 DEF AfterAuthentication
  <1>6. QED
    BY <1>1, <1>3, <1>4, <1>5

(* A family that is authenticated on is open, and was not ended.            *)
LEMMA Registered ==
  ASSUME WebInv, NEW r \in WebRequests, work[r].at \in {"CALLING", "INSERTED"}, AfterAuthentication(r),
         api[work[r].family] # "REVOKED", api' = [api EXCEPT ![work[r].family] = "OPEN"],
         UNCHANGED <<web, cookie_of, loggedOut, ended, late, accepts>>,
         inserting' = IF work[r].at = "INSERTED" THEN inserting \ {work[r].family} ELSE inserting,
         work[r].at = "CALLING" => api[work[r].family] # "UNKNOWN"
  PROVE  WebInv'
  <1>. DEFINE f == work[r].family
  <1>1. f \in Families /\ Sound(work[r], web, api, inserting)
    BY RequestIs
  <1>2. PICK row \in Works : work' = [work EXCEPT ![r] = row] /\ GoesOnAs(row, work[r])
    BY Authenticated
  <1>3. api' \in [Families -> {"UNKNOWN", "OPEN", "REVOKED"}] /\ api'[f] = "OPEN"
        /\ \A g \in Families : g # f => api'[g] = api[g]
    BY <1>1 DEF WebInv, WebTypes
  <1>4. Sound(row, web', api', inserting')
    BY <1>1, <1>2, <1>3 DEF Sound, GoesOnAs
  <1>5. WebTypes'
    BY <1>2, <1>3, WebTypesOfWork DEF WebInv, WebTypes
  <1>6. UnderWay'
    <2>1. \A g \in Families : web'[g].known = web[g].known /\ (api'[g] = "UNKNOWN" => api[g] = "UNKNOWN")
      BY <1>3
    <2>2. \A g \in inserting : g \in inserting' \/ (work[r].at = "INSERTED" /\ g = work[r].family)
      OBVIOUS
    <2>3. row.at # "INSERTED" /\ (row.purpose = "LOGIN" => work[r].purpose = "LOGIN" /\ row.family = work[r].family)
      BY <1>2 DEF GoesOnAs
    <2>4. QED
      BY <1>2, <1>4, <2>1, <2>2, <2>3, RequestGoesOn
  <1>7. Standing'
    <2>1. inserting' \subseteq inserting \ {f}
      BY DEF WebInv, Standing
    <2>2. f \notin ended
      BY DEF WebInv, Standing
    <2>3. QED
      BY <1>3, <2>1, <2>2 DEF WebInv, Standing
  <1>8. QED
    BY <1>5, <1>6, <1>7 DEF WebInv

LEMMA AuthenticateKeeps == ASSUME WebInv, NEW r \in WebRequests, Authenticate(r) PROVE WebInv'
  <1>1. /\ work[r].at = "CALLING" /\ api[work[r].family] # "UNKNOWN" /\ api[work[r].family] # "REVOKED"
        /\ api' = [api EXCEPT ![work[r].family] = "OPEN"] /\ AfterAuthentication(r)
        /\ late' = late \cup (ended \cap {work[r].family})
        /\ UNCHANGED <<web, cookie_of, loggedOut, inserting, ended, accepts>>
    BY DEF Authenticate, Tombstone, webServer
  <1>2. late' = late
    BY <1>1 DEF WebInv, Standing
  <1>3. QED
    BY <1>1, <1>2, Registered

LEMMA CommitFamilyKeeps == ASSUME WebInv, NEW r \in WebRequests, CommitFamily(r) PROVE WebInv'
  <1>1. /\ work[r].at = "INSERTED" /\ AfterAuthentication(r)
        /\ api' = [api EXCEPT ![work[r].family] = "OPEN"] /\ inserting' = inserting \ {work[r].family}
        /\ UNCHANGED <<web, cookie_of, loggedOut, ended, late, accepts>>
    BY DEF CommitFamily, webServer
  <1>2. api[work[r].family] = "UNKNOWN"
    BY <1>1, RequestIs DEF Sound, WebInv, Standing
  <1>3. QED
    BY <1>1, <1>2, Registered

LEMMA InsertFamilyKeeps == ASSUME WebInv, NEW r \in WebRequests, InsertFamily(r) PROVE WebInv'
  <1>. DEFINE f == work[r].family
              row == [work[r] EXCEPT !.at = "INSERTED"]
  <1>1. /\ work[r].at = "CALLING" /\ api[f] = "UNKNOWN" /\ f \notin inserting /\ inserting' = inserting \cup {f}
        /\ work' = [work EXCEPT ![r] = row]
        /\ UNCHANGED <<web, cookie_of, loggedOut, api, ended, late, accepts>>
    BY DEF InsertFamily, Goes, webServer
  <1>2. f \in Families /\ row \in Works /\ work[r] \in Works /\ Sound(work[r], web, api, inserting)
    BY <1>1, RequestIs DEF Places
  <1>3. row.at = "INSERTED" /\ row.purpose = work[r].purpose /\ row.family = f /\ row.browser = work[r].browser
    BY <1>2 DEF Works
  <1>4. Sound(row, web', api', inserting')
    BY <1>1, <1>2, <1>3 DEF Sound
  <1>. HIDE DEF row
  <1>5. WebTypes'
    BY <1>1, <1>2, WebTypesOfWork DEF WebInv, WebTypes
  <1>6. UnderWay'
    BY <1>1, <1>3, <1>4, RequestGoesOn
  <1>7. Standing'
    BY <1>1, <1>2 DEF WebInv, Standing
  <1>8. QED
    BY <1>5, <1>6, <1>7 DEF WebInv

(* A request that fails, is cut off or has nothing left to ask of the API.  *)
LEMMA RequestLeaves ==
  ASSUME WebInv, NEW r \in WebRequests, NEW row \in Works, work' = [work EXCEPT ![r] = row],
         inserting' = IF work[r].at = "INSERTED" THEN inserting \ {work[r].family} ELSE inserting,
         UNCHANGED <<web, loggedOut, api, ended, late, accepts>>, cookie_of' \in {cookie_of, "NONE"},
         \/ row = AtRest
         \/ /\ row.at = "REVOKING" /\ row.purpose = work[r].purpose /\ row.family = work[r].family
            /\ row.browser = work[r].browser /\ row.browser /\ work[r].at # "REST"
            /\ row.purpose \in {"LOGOUT", "LOGOUT_ALL"}
  PROVE  WebInv'
  <1>1. Sound(row, web', api', inserting')
    BY RestIs, RequestIs DEF Sound
  <1>2. WebTypes'
    BY WebTypesOfWork DEF WebInv, WebTypes
  <1>3. UnderWay'
    <2>1. row.at # "INSERTED" /\ row.purpose # "LOGIN"
      BY RestIs
    <2>2. \A g \in inserting : g \in inserting' \/ (work[r].at = "INSERTED" /\ g = work[r].family)
      OBVIOUS
    <2>3. QED
      BY <1>1, <2>1, <2>2, RequestGoesOn
  <1>4. Standing'
    BY DEF WebInv, Standing
  <1>5. QED
    BY <1>2, <1>3, <1>4 DEF WebInv

LEMMA CallFailsKeeps == ASSUME WebInv, NEW r \in WebRequests, CallFails(r) \/ CutOff(r) PROVE WebInv'
  <1>1. /\ work[r].at # "REST"
        /\ inserting' = IF work[r].at = "INSERTED" THEN inserting \ {work[r].family} ELSE inserting
        /\ UNCHANGED <<web, loggedOut, api, ended, late, accepts>> /\ cookie_of' \in {cookie_of, "NONE"}
        /\ \/ work' = [work EXCEPT ![r] = AtRest]
           \/ /\ work[r].purpose \in {"LOGOUT", "LOGOUT_ALL"} /\ work[r].browser
              /\ work' = [work EXCEPT ![r].at = "REVOKING"]
    BY DEF CallFails, CutOff, Goes, Rests, webServer
  <1>2. CASE work' = [work EXCEPT ![r] = AtRest]
    BY <1>1, <1>2, RestIs, RequestLeaves
  <1>3. CASE /\ work[r].purpose \in {"LOGOUT", "LOGOUT_ALL"} /\ work[r].browser
             /\ work' = [work EXCEPT ![r].at = "REVOKING"]
    <2>. DEFINE row == [work[r] EXCEPT !.at = "REVOKING"]
    <2>1. row \in Works /\ work[r] \in Works
      BY RequestIs DEF Places
    <2>2. row.at = "REVOKING" /\ row.purpose = work[r].purpose /\ row.family = work[r].family /\ row.browser = work[r].browser
      BY <2>1 DEF Works
    <2>3. work' = [work EXCEPT ![r] = row]
      BY <1>3
    <2>. HIDE DEF row
    <2>4. QED
      BY <1>1, <1>3, <2>1, <2>2, <2>3, RequestLeaves
  <1>4. QED
    BY <1>1, <1>2, <1>3

LEMMA CreateSessionKeeps == ASSUME WebInv, NEW r \in WebRequests, CreateSession(r) PROVE WebInv'
  <1>. DEFINE f == work[r].family
              new == [known |-> TRUE, revoked |-> FALSE, fresh |-> TRUE, refresh |-> work[r].refresh]
  <1>1. /\ work[r].at = "CREATING" /\ web' = [web EXCEPT ![f] = new] /\ cookie_of' = f
        /\ work' = [work EXCEPT ![r] = AtRest] /\ UNCHANGED <<api, inserting, ended, late, accepts, loggedOut>>
    BY DEF CreateSession, Rests, apiServer
  <1>2. f \in Families /\ work[r].refresh \in Nat /\ work[r].purpose = "LOGIN" /\ ~web[f].known
    BY <1>1, RequestIs DEF Sound, Works
  <1>3. /\ web' \in [Families -> [known : BOOLEAN, revoked : BOOLEAN, fresh : BOOLEAN, refresh : Nat]]
        /\ web'[f].known /\ \A g \in Families : g # f => web'[g] = web[g]
    BY <1>1, <1>2 DEF WebInv, WebTypes
  <1>. HIDE DEF new
  <1>4. WebTypes'
    BY <1>1, <1>2, <1>3, RestIs, WebTypesOfWork DEF WebInv, WebTypes
  <1>5. UnderWay'
    <2>1. \A g \in Families : web'[g].known = web[g].known
                              \/ (work[r].purpose = "LOGIN" /\ g = work[r].family /\ web'[g].known)
      BY <1>2, <1>3
    <2>2. QED
      BY <1>1, <2>1, RestIs, RequestGoesOn
  <1>6. Standing'
    BY <1>1, <1>2, <1>3 DEF WebInv, Standing
  <1>7. QED
    BY <1>4, <1>5, <1>6 DEF WebInv

LEMMA EndSessionsKeeps == ASSUME WebInv, NEW r \in WebRequests, EndSessions(r) PROVE WebInv'
  <1>. DEFINE found == IF work[r].purpose = "LOGOUT" THEN {work[r].family} ELSE {f \in Families : api[f] # "UNKNOWN"}
              row == IF work[r].browser THEN [work[r] EXCEPT !.at = "REVOKING"] ELSE AtRest
  <1>1. /\ work[r].at = "ENDING" /\ api' = [f \in Families |-> IF f \in found THEN "REVOKED" ELSE api[f]]
        /\ ended' = ended \cup found /\ work' = [work EXCEPT ![r] = row]
        /\ UNCHANGED <<web, cookie_of, loggedOut, inserting, late, accepts>>
    BY DEF EndSessions, Goes, Rests, webServer
  <1>2. /\ work[r] \in Works /\ Sound(work[r], web, api, inserting) /\ work[r].family \in Families
        /\ work[r].purpose \in {"LOGOUT", "LOGOUT_ALL"} /\ api[work[r].family] # "UNKNOWN"
    BY <1>1, RequestIs DEF Sound
  <1>3. found \subseteq {f \in Families : api[f] # "UNKNOWN"}
    BY <1>2
  <1>4. /\ row \in Works /\ row.at # "INSERTED" /\ row.purpose # "LOGIN"
        /\ row = AtRest \/ (row.at = "REVOKING" /\ row.purpose = work[r].purpose /\ row.family = work[r].family /\ row.browser)
    <2>1. CASE work[r].browser
      BY <1>2, <2>1 DEF Works, Places
    <2>2. CASE ~work[r].browser
      BY <2>2, RestIs
    <2>3. QED
      BY <2>1, <2>2
  <1>. HIDE DEF found, row
  <1>5. /\ api' \in [Families -> {"UNKNOWN", "OPEN", "REVOKED"}] /\ \A f \in found : api'[f] = "REVOKED"
        /\ \A f \in Families : f \notin found => api'[f] = api[f]
    BY <1>1, <1>3 DEF WebInv, WebTypes
  <1>6. Sound(row, web', api', inserting')
    <2>1. CASE row = AtRest
      BY <2>1, RestIs
    <2>2. CASE row.at = "REVOKING" /\ row.purpose = work[r].purpose /\ row.family = work[r].family /\ row.browser
      <3>1. work[r].browser
        BY <1>4, <2>2, RestIs DEF row
      <3>2. web[work[r].family].known
        BY <1>1, <1>2, <3>1 DEF Sound
      <3>3. web' = web
        BY <1>1
      <3>4. QED
        BY <1>2, <2>2, <3>2, <3>3 DEF Sound
    <2>3. QED
      BY <1>4, <2>1, <2>2
  <1>7. WebTypes'
    BY <1>1, <1>4, <1>5, WebTypesOfWork DEF WebInv, WebTypes
  <1>8. UnderWay'
    <2>1. \A f \in Families : web'[f].known = web[f].known /\ (api'[f] = "UNKNOWN" => api[f] = "UNKNOWN")
      BY <1>1, <1>5
    <2>2. QED
      BY <1>1, <1>4, <1>6, <2>1, RequestGoesOn
  <1>9. Standing'
    BY <1>1, <1>3, <1>5 DEF WebInv, Standing
  <1>10. QED
    BY <1>7, <1>8, <1>9 DEF WebInv

LEMMA RevokeRefreshTokenKeeps == ASSUME WebInv, NEW r \in WebRequests, RevokeRefreshToken(r) PROVE WebInv'
  <1>. DEFINE row == [work[r] EXCEPT !.at = "CLEARING"]
  <1>1. /\ work[r].at = "REVOKING" /\ work' = [work EXCEPT ![r] = row]
        /\ accepts' \in {accepts, [accepts EXCEPT ![work[r].family] = 0]}
        /\ UNCHANGED <<web, cookie_of, loggedOut, api, inserting, ended, late>>
    BY DEF RevokeRefreshToken, Goes, webServer, apiServer
  <1>2. /\ work[r] \in Works /\ row \in Works /\ Sound(work[r], web, api, inserting)
        /\ accepts' \in [Families -> Nat]
    <2>1. accepts \in [Families -> Nat]
      BY DEF WebInv, WebTypes
    <2>. HIDE DEF row
    <2>2. accepts' \in [Families -> Nat]
      BY <1>1, <2>1
    <2>3. QED
      BY <2>2, RequestIs DEF row, Places
  <1>3. row.at = "CLEARING" /\ row.purpose = work[r].purpose /\ row.family = work[r].family /\ row.browser = work[r].browser
    BY <1>2 DEF Works
  <1>4. Sound(row, web, api, inserting)
    BY <1>1, <1>2, <1>3 DEF Sound
  <1>. HIDE DEF row
  <1>5. QED
    BY <1>1, <1>2, <1>3, <1>4, WorkAlone

LEMMA RevokeWebSessionKeeps == ASSUME WebInv, NEW r \in WebRequests, RevokeWebSession(r) PROVE WebInv'
  <1>. DEFINE f == work[r].family
  <1>1. /\ work[r].at = "CLEARING" /\ web' = [web EXCEPT ![f].revoked = TRUE] /\ cookie_of' = "NONE"
        /\ work' = [work EXCEPT ![r] = AtRest] /\ loggedOut' = loggedOut \cup {f}
        /\ UNCHANGED <<api, inserting, ended, late, accepts>>
    BY DEF RevokeWebSession, Rests, apiServer
  <1>2. f \in Families /\ web[f].known
    BY <1>1, RequestIs DEF Sound
  <1>3. /\ web' \in [Families -> [known : BOOLEAN, revoked : BOOLEAN, fresh : BOOLEAN, refresh : Nat]]
        /\ web'[f].revoked
        /\ \A g \in Families : web'[g].known = web[g].known /\ (web[g].revoked => web'[g].revoked)
    BY <1>1, <1>2 DEF WebInv, WebTypes
  <1>4. WebTypes'
    BY <1>1, <1>3, RestIs, WebTypesOfWork DEF WebInv, WebTypes
  <1>5. UnderWay'
    BY <1>1, <1>3, RestIs, RequestGoesOn
  <1>6. Standing'
    BY <1>1, <1>2, <1>3 DEF WebInv, Standing
  <1>7. QED
    BY <1>4, <1>5, <1>6 DEF WebInv

LEMMA AccessExpiresKeeps == ASSUME WebInv, NEW f \in Families, AccessExpires(f) PROVE WebInv'
  <1>1. /\ web' = [web EXCEPT ![f].fresh = FALSE]
        /\ UNCHANGED <<cookie_of, loggedOut, api, inserting, ended, late, accepts, work>>
    BY DEF AccessExpires, apiServer
  <1>2. /\ web' \in [Families -> [known : BOOLEAN, revoked : BOOLEAN, fresh : BOOLEAN, refresh : Nat]]
        /\ \A g \in Families : web'[g].known = web[g].known /\ (web[g].revoked => web'[g].revoked)
        /\ accepts \in [Families -> Nat]
    BY <1>1 DEF WebInv, WebTypes
  <1>3. QED
    BY <1>1, <1>2, WebAlone

LEMMA WebStep == WebInv /\ [WebNext]_webVars => WebInv'
  <1>. SUFFICES ASSUME WebInv, [WebNext]_webVars PROVE WebInv'
    OBVIOUS
  <1>1. CASE UNCHANGED webVars
    BY <1>1 DEF webVars, WebInv, WebTypes, UnderWay, Standing, Sound
  <1>2. CASE WebNext
    BY <1>2, AccessExpiresKeeps, ExchangeCodeKeeps, CallDirectlyKeeps, ReadSessionKeeps, ProviderRefreshesKeeps,
       RefreshFailsKeeps, UpdateTokensKeeps, AuthenticateKeeps, InsertFamilyKeeps, CommitFamilyKeeps,
       CallFailsKeeps, CreateSessionKeeps, EndSessionsKeeps, RevokeRefreshTokenKeeps, RevokeWebSessionKeeps
    DEF WebNext
  <1>3. QED
    BY <1>1, <1>2

(* What a logout ended stays ended: no request is authenticated on the       *)
(* family, and no refresh under way brings the session of a browser back    *)
(* (ADR 0002; identity.ts; web-session.ts).                                 *)
THEOREM EndedForGoodCorrect == WebSpec => []EndedForGood
  <1>1. WebInv => EndedForGood
    BY DEF WebInv, Standing, EndedForGood
  <1>2. QED
    BY WebInitInv, WebStep, <1>1, PTL DEF WebSpec
-----------------------------------------------------------------------------
(* StaffLogin: a transaction is consumed by one callback and gives one       *)
(* session; and while no new session's cookie has crossed another request,  *)
(* a session in force and not on its way into the cookie is the one of the  *)
(* cookie and the one every request under way has read.                     *)

LoginPlaces == CallPlaces \cup {"REST", "REVOKED", "LOGIN", "BEGUN", "LOGOUT", "ENDED"}
Calls == [at : LoginPlaces, transaction : Nat, previous : Nat, for : Nat, auth : Nat, origin : Nat]
Sessions == [id : Nat, auth : Nat, origin : Nat, registered : Nat]

LoginTypes ==
  /\ hostClock \in Nat /\ ahead \in Nat /\ previously \in Nat /\ mixed \in BOOLEAN
  /\ \E k \in Nat : begun \in [1..k -> Nat]
  /\ codes \subseteq [transaction : Nat, auth : Nat, origin : Nat]
  /\ cookie \in [transaction : Nat, id : Nat] /\ cookie.transaction \in Transactions \cup {0}
  /\ request \in [BrowserRequests -> Calls] /\ sessions \subseteq Sessions
  /\ \A r \in BrowserRequests : request[r].transaction \in Transactions \cup {0}

Spent(row) == row.at \in {"CONSUMED", "EXCHANGED", "WAITING", "FRESH", "ATTESTED", "REGISTERED", "REVOKED"}
Unregistered(row) == row.at \in {"CONSUMED", "EXCHANGED", "WAITING", "FRESH", "ATTESTED"}
Proved(row) == row.at \in {"FRESH", "ATTESTED"}
Ended(row) == row.at \in {"REVOKED", "ENDED"}
OnItsWay(row) == row.at \in {"REGISTERED", "REVOKED"}

Own ==
  /\ consumed \subseteq Transactions
  /\ \A r \in BrowserRequests :
       /\ Spent(request[r]) => request[r].transaction \in consumed
       /\ Unregistered(request[r]) => \A s \in sessions : s.id # request[r].transaction
       /\ Proved(request[r]) => request[r].auth >= Second(begun[request[r].transaction])
       /\ Ended(request[r]) => request[r].previous \in revoked \cup {0}
  /\ \A r, q \in BrowserRequests : r # q /\ Spent(request[r]) /\ Spent(request[q])
                                   => request[r].transaction # request[q].transaction
  /\ \A s \in sessions :
       /\ s.id \in consumed /\ s.auth >= Second(begun[s.id])
       /\ 2 * s.auth <= s.registered /\ s.registered <= 2 * s.auth + MaxAge
       /\ \A other \in sessions \ {s} : other.id # s.id /\ other.origin # s.origin

InForce(s) ==
  s.id \notin revoked /\ \A r \in BrowserRequests : OnItsWay(request[r]) => request[r].transaction # s.id

Alone ==
  \A s \in sessions : InForce(s) =>
    /\ s.id = cookie.id
    /\ \A r \in BrowserRequests : request[r].at # "REST" => request[r].previous = s.id

LoginInv == LoginTypes /\ Own /\ (~mixed => Alone)

LEMMA RestingCall == Resting \in Calls /\ Resting.at = "REST" /\ Resting.transaction = 0
  BY DEF Resting, Calls, LoginPlaces

LEMMA TransactionsAreNumbers == LoginTypes => Transactions \subseteq Nat \ {0}
  BY DEF LoginTypes, Transactions

LEMMA SessionsAreOfTransactions == LoginInv => \A s \in sessions : s.id # 0
  BY TransactionsAreNumbers DEF LoginInv, Own

LEMMA LoginInitInv == LoginInit => LoginInv
  <1> SUFFICES ASSUME LoginInit PROVE LoginInv
    OBVIOUS
  <1>1. begun \in [1..0 -> Nat]
    BY DEF LoginInit
  <1>2. Transactions = {}
    BY DEF LoginInit, Transactions
  <1>3. ahead \in Nat
    BY StaffLoginAssumption DEF LoginInit
  <1>4. previously \in Nat
    BY <1>3 DEF LoginInit, Second
  <1>5. request \in [BrowserRequests -> Calls] /\ \A r \in BrowserRequests : request[r] = Resting
    BY RestingCall DEF LoginInit
  <1>6. LoginTypes
    BY <1>1, <1>3, <1>4, <1>5 DEF LoginInit, LoginTypes, Resting
  <1>7. Own /\ Alone
    BY <1>5, RestingCall DEF LoginInit, Own, Alone, Spent, Unregistered, Proved, Ended
  <1>8. QED
    BY <1>6, <1>7 DEF LoginInv

(* A request that moves on or comes to rest, with no new transaction and no  *)
(* new session: it keeps what it had read, and a cookie it sets is its own  *)
(* copy, unless it has ended the session of that.                           *)
LEMMA MovesKeep ==
  ASSUME LoginInv, NEW c \in BrowserRequests, NEW row \in Calls, request' = [request EXCEPT ![c] = row],
         UNCHANGED <<hostClock, ahead, previously, begun, consumed, sessions>>,
         codes' \subseteq codes, revoked \subseteq revoked', mixed' \in BOOLEAN,
         cookie' \in [transaction : Nat, id : Nat], cookie'.transaction \in Transactions \cup {0},
         row.transaction \in Transactions \cup {0},
         Spent(row) => Spent(request[c]) /\ row.transaction = request[c].transaction,
         Unregistered(row) => Unregistered(request[c]),
         Proved(row) => row.auth >= Second(begun[row.transaction]),
         Ended(row) => row.previous \in revoked' \cup {0},
         ~mixed' =>
           /\ ~mixed
           /\ OnItsWay(request[c]) => OnItsWay(row) /\ row.transaction = request[c].transaction
           /\ \/ cookie'.id = cookie.id
              \/ request[c].at # "REST" /\ (cookie'.id = request[c].previous \/ Ended(request[c]))
           /\ \/ row.at = "REST"
              \/ row.previous = cookie.id /\ cookie' = cookie
              \/ row.previous = request[c].previous /\ request[c].at # "REST"
  PROVE  LoginInv'
  <1> USE DEF LoginInv
  <1>1. /\ request' \in [BrowserRequests -> Calls] /\ request'[c] = row
        /\ \A d \in BrowserRequests : d # c => request'[d] = request[d]
    BY DEF LoginTypes
  <1>2. Transactions' = Transactions
    BY DEF Transactions
  <1>3. LoginTypes'
    BY <1>1, <1>2 DEF LoginTypes
  <1>4. Own'
    <2>1. \A r \in BrowserRequests :
            /\ Spent(request'[r]) => request'[r].transaction \in consumed'
            /\ Unregistered(request'[r]) => \A s \in sessions' : s.id # request'[r].transaction
            /\ Proved(request'[r]) => request'[r].auth >= Second(begun'[request'[r].transaction])
            /\ Ended(request'[r]) => request'[r].previous \in revoked' \cup {0}
      <3>1. ASSUME NEW r \in BrowserRequests, r # c
            PROVE  /\ Spent(request[r]) => request[r].transaction \in consumed'
                   /\ Unregistered(request[r]) => \A s \in sessions' : s.id # request[r].transaction
                   /\ Proved(request[r]) => request[r].auth >= Second(begun'[request[r].transaction])
                   /\ Ended(request[r]) => request[r].previous \in revoked' \cup {0}
        BY DEF Own
      <3>2. /\ Spent(row) => row.transaction \in consumed'
            /\ Unregistered(row) => \A s \in sessions' : s.id # row.transaction
            /\ Proved(row) => row.auth >= Second(begun'[row.transaction])
        BY DEF Own, Spent, Unregistered
      <3>3. QED
        BY <1>1, <3>1, <3>2
    <2>2. \A r, q \in BrowserRequests : r # q /\ Spent(request'[r]) /\ Spent(request'[q])
                                   => request'[r].transaction # request'[q].transaction
      BY <1>1 DEF Own
    <2>3. QED
      BY <1>2, <2>1, <2>2 DEF Own
  <1>5. ASSUME ~mixed' PROVE Alone'
    <2>1. SUFFICES ASSUME NEW s \in sessions, InForce(s)'
                   PROVE  /\ s.id = cookie'.id
                          /\ \A r \in BrowserRequests : request'[r].at # "REST" => request'[r].previous = s.id
      BY DEF Alone
    <2>2. InForce(s)
      <3>1. s.id \notin revoked
        BY <2>1 DEF InForce
      <3>2. ASSUME NEW r \in BrowserRequests, OnItsWay(request[r]) PROVE request[r].transaction # s.id
        BY <1>1, <1>5, <2>1, <3>2 DEF InForce
      <3>3. QED
        BY <3>1, <3>2 DEF InForce
    <2>3. /\ s.id = cookie.id /\ s.id # 0 /\ s.id \notin revoked
          /\ \A r \in BrowserRequests : request[r].at # "REST" => request[r].previous = s.id
      BY <1>5, <2>2, SessionsAreOfTransactions DEF Alone, InForce
    <2>4. ~Ended(request[c])
      BY <2>3 DEF Own, Ended
    <2>5. s.id = cookie'.id
      BY <1>5, <2>3, <2>4
    <2>6. row.at # "REST" => row.previous = s.id
      BY <1>5, <2>3
    <2>7. QED
      BY <1>1, <2>3, <2>5, <2>6
  <1>6. QED
    BY <1>3, <1>4, <1>5

(* What a request keeps that moves to a place.                               *)
LEMMA StepRow ==
  ASSUME LoginTypes, NEW c \in BrowserRequests, NEW where \in LoginPlaces, Step(c, where)
  PROVE  \E row \in Calls :
           /\ request' = [request EXCEPT ![c] = row] /\ row.at = where
           /\ row.transaction = request[c].transaction /\ row.previous = request[c].previous
           /\ row.auth = request[c].auth /\ row.origin = request[c].origin
           /\ row.transaction \in Transactions \cup {0}
  <1> DEFINE row == [request[c] EXCEPT !.at = where]
  <1>1. request[c] \in Calls /\ request[c].transaction \in Transactions \cup {0}
    BY DEF LoginTypes
  <1>2. /\ row \in Calls /\ row.at = where /\ row.transaction = request[c].transaction
        /\ row.previous = request[c].previous /\ row.auth = request[c].auth /\ row.origin = request[c].origin
    BY <1>1 DEF Calls
  <1>3. request' = [request EXCEPT ![c] = row]
    BY DEF Step, LoginTypes
  <1> HIDE DEF row
  <1>4. QED
    BY <1>1, <1>2, <1>3

(* A request arrives: it has read the cookie as it is.                       *)
LEMMA ArrivesKeeps ==
  ASSUME LoginInv, NEW r \in BrowserRequests, NEW where \in {"LOGIN", "LOGOUT"}, Arrives(r, where)
  PROVE  LoginInv'
  <1> DEFINE row == [Resting EXCEPT !.at = where, !.previous = cookie.id]
  <1>1. cookie.id \in Nat /\ mixed \in BOOLEAN /\ cookie \in [transaction : Nat, id : Nat]
        /\ cookie.transaction \in Transactions \cup {0}
    BY DEF LoginInv, LoginTypes
  <1>2. row \in Calls /\ row.at = where /\ row.previous = cookie.id /\ row.transaction = 0
    BY <1>1 DEF Resting, Calls, LoginPlaces
  <1>3. /\ request' = [request EXCEPT ![r] = row] /\ request[r].at = "REST"
        /\ UNCHANGED <<hostClock, ahead, previously, begun, consumed, sessions, codes, revoked, mixed, cookie>>
    BY DEF Arrives, loginRows
  <1> HIDE DEF row
  <1>4. QED
    BY <1>1, <1>2, <1>3, MovesKeep DEF Spent, Unregistered, Proved, Ended, OnItsWay

LEMMA CallBackKeeps ==
  ASSUME LoginInv, NEW t \in Transactions, NEW c \in BrowserRequests, CallBack(c, t)
  PROVE  LoginInv'
  <1> DEFINE row == [Resting EXCEPT !.at = "CALLED", !.transaction = cookie.transaction,
                                    !.previous = cookie.id, !.for = t]
  <1>1. /\ cookie.transaction \in Nat /\ cookie.id \in Nat /\ t \in Nat /\ mixed \in BOOLEAN
        /\ cookie \in [transaction : Nat, id : Nat] /\ cookie.transaction \in Transactions \cup {0}
    BY TransactionsAreNumbers DEF LoginInv, LoginTypes
  <1>2. /\ row \in Calls /\ row.at = "CALLED" /\ row.transaction = cookie.transaction
        /\ row.previous = cookie.id
    BY <1>1 DEF Resting, Calls, LoginPlaces, CallPlaces
  <1>3. /\ request' = [request EXCEPT ![c] = row] /\ request[c].at = "REST"
        /\ UNCHANGED <<hostClock, ahead, previously, begun, consumed, sessions, codes, revoked, mixed, cookie>>
    BY DEF CallBack, loginRows
  <1> HIDE DEF row
  <1>4. QED
    BY <1>1, <1>2, <1>3, MovesKeep DEF Spent, Unregistered, Proved, Ended, OnItsWay

(* A login begun: a transaction more, of which nothing speaks yet.           *)
LEMMA BeginLoginKeeps == ASSUME LoginInv, NEW r \in BrowserRequests, BeginLogin(r) PROVE LoginInv'
  <1> USE DEF LoginInv
  <1>1. PICK k \in Nat : begun \in [1..k -> Nat]
    BY DEF LoginTypes
  <1>2. Transactions = 1..k /\ Cardinality(Transactions) = k
    BY <1>1, FS_Interval DEF Transactions
  <1>3. /\ begun' = [t \in 1..(k + 1) |-> IF t = k + 1 THEN hostClock ELSE begun[t]]
        /\ request' = [request EXCEPT ![r].at = "BEGUN", ![r].transaction = k + 1] /\ request[r].at = "LOGIN"
        /\ UNCHANGED <<hostClock, ahead, previously, consumed, sessions, codes, revoked, mixed, cookie>>
    BY <1>2 DEF BeginLogin
  <1>4. begun' \in [1..(k + 1) -> Nat] /\ \A t \in Transactions : begun'[t] = begun[t]
    BY <1>1, <1>2, <1>3 DEF LoginTypes
  <1>5. Transactions' = 1..(k + 1) /\ Transactions \subseteq Transactions'
    BY <1>2, <1>4 DEF Transactions
  <1> DEFINE row == [request[r] EXCEPT !.at = "BEGUN", !.transaction = k + 1]
  <1>6. request[r] \in Calls /\ request' = [request EXCEPT ![r] = row]
    BY <1>3 DEF LoginTypes
  <1>7. row \in Calls /\ row.at = "BEGUN" /\ row.transaction = k + 1 /\ row.previous = request[r].previous
    <2>1. k + 1 \in Nat
      BY <1>1
    <2>2. QED
      BY <1>6, <2>1 DEF Calls, LoginPlaces
  <1> HIDE DEF row
  <1>8. /\ request' \in [BrowserRequests -> Calls] /\ request'[r] = row
        /\ \A d \in BrowserRequests : d # r => request'[d] = request[d]
    BY <1>6, <1>7 DEF LoginTypes
  <1>9. LoginTypes'
    <2>1. \E n \in Nat : begun' \in [1..n -> Nat]
      BY <1>4
    <2>2. \A d \in BrowserRequests : request'[d].transaction \in Transactions' \cup {0}
      <3>1. k + 1 \in Transactions'
        BY <1>5
      <3>2. QED
        BY <1>5, <1>7, <1>8, <3>1 DEF LoginTypes
    <2>3. cookie'.transaction \in Transactions' \cup {0} /\ mixed' \in BOOLEAN
      BY <1>3, <1>5 DEF LoginTypes
    <2>4. QED
      BY <1>3, <1>8, <2>1, <2>2, <2>3 DEF LoginTypes
  <1>10. ~Spent(row) /\ ~Unregistered(row) /\ ~Proved(row) /\ ~Ended(row) /\ ~OnItsWay(row) /\ ~OnItsWay(request[r])
    BY <1>3, <1>7 DEF Spent, Unregistered, Proved, Ended, OnItsWay
  <1>11. Own'
    <2>1. \A d \in BrowserRequests :
            /\ Spent(request'[d]) => request'[d].transaction \in consumed'
            /\ Unregistered(request'[d]) => \A s \in sessions' : s.id # request'[d].transaction
            /\ Ended(request'[d]) => request'[d].previous \in revoked' \cup {0}
      BY <1>3, <1>8, <1>10 DEF Own
    <2>2. ASSUME NEW d \in BrowserRequests, Proved(request'[d])
          PROVE  request'[d].auth >= Second(begun'[request'[d].transaction])
      <3>1. d # r /\ request'[d] = request[d]
        BY <1>8, <1>10, <2>2
      <3>2. request[d].transaction \in Transactions
        BY <2>2, <3>1 DEF Own, Proved, Spent
      <3>3. QED
        BY <1>4, <2>2, <3>1, <3>2 DEF Own
    <2>3. \A d, q \in BrowserRequests : d # q /\ Spent(request'[d]) /\ Spent(request'[q])
                                   => request'[d].transaction # request'[q].transaction
      BY <1>8, <1>10 DEF Own
    <2>4. \A s \in sessions : s.id \in Transactions
      BY DEF Own
    <2>5. QED
      BY <1>3, <1>4, <1>5, <2>1, <2>2, <2>3, <2>4 DEF Own
  <1>12. ASSUME ~mixed' PROVE Alone'
    <2>1. \A s \in sessions : InForce(s)' => InForce(s)
      BY <1>3, <1>8, <1>10 DEF InForce
    <2>2. ~mixed /\ request[r].at # "REST" /\ row.previous = request[r].previous
      BY <1>3, <1>7, <1>12
    <2>3. QED
      BY <1>3, <1>8, <2>1, <2>2 DEF Alone
  <1>13. QED
    BY <1>9, <1>11, <1>12

LEMMA ProviderAnswersKeeps == ASSUME LoginInv, NEW t \in Transactions, ProviderAnswers(t) PROVE LoginInv'
  <1> USE DEF LoginInv
  <1>1. t \in Nat /\ Second(hostClock + ahead) \in Nat /\ previously \in Nat
    BY TransactionsAreNumbers DEF LoginTypes, Second
  <1>2. codes' \subseteq [transaction : Nat, auth : Nat, origin : Nat]
    BY <1>1 DEF LoginTypes, ProviderAnswers
  <1>3. mixed' \in BOOLEAN
    BY DEF LoginTypes, ProviderAnswers
  <1>4. LoginTypes'
    BY <1>2, <1>3 DEF LoginTypes, ProviderAnswers, loginRows, Transactions
  <1>5. Own' /\ (~mixed' => Alone')
    BY DEF Own, Alone, InForce, ProviderAnswers, loginRows, Transactions
  <1>6. QED
    BY <1>4, <1>5

(* One callback consumes a transaction: no other has, and no session rests  *)
(* on it.                                                                   *)
LEMMA ConsumeLoginKeeps == ASSUME LoginInv, NEW c \in BrowserRequests, ConsumeLogin(c) PROVE LoginInv'
  <1> USE DEF LoginInv
  <1>1. PICK row \in Calls :
          /\ request' = [request EXCEPT ![c] = row] /\ row.at = "CONSUMED"
          /\ row.transaction = request[c].transaction /\ row.previous = request[c].previous
          /\ row.transaction \in Transactions \cup {0}
    BY StepRow DEF ConsumeLogin, LoginPlaces, CallPlaces
  <1>2. /\ request[c].at = "CALLED" /\ row.transaction \in Transactions
        /\ row.transaction \notin consumed /\ consumed' = consumed \cup {row.transaction}
        /\ UNCHANGED <<hostClock, ahead, previously, begun, sessions, codes, revoked, mixed, cookie>>
    BY <1>1 DEF ConsumeLogin
  <1>3. /\ request' \in [BrowserRequests -> Calls] /\ request'[c] = row
        /\ \A d \in BrowserRequests : d # c => request'[d] = request[d]
    BY <1>1 DEF LoginTypes
  <1>4. mixed' \in BOOLEAN /\ Transactions' = Transactions
    BY <1>2 DEF LoginTypes, Transactions
  <1>5. LoginTypes'
    BY <1>2, <1>3, <1>4 DEF LoginTypes
  <1>6. ~Proved(row) /\ ~Ended(row) /\ ~OnItsWay(row) /\ ~OnItsWay(request[c])
    BY <1>1, <1>2 DEF Proved, Ended, OnItsWay
  <1>7. Own'
    <2>1. \A s \in sessions : s.id # row.transaction
      BY <1>2 DEF Own
    <2>2. \A d, q \in BrowserRequests : d # q /\ Spent(request'[d]) /\ Spent(request'[q])
                                   => request'[d].transaction # request'[q].transaction
      BY <1>2, <1>3 DEF Own
    <2>3. \A d \in BrowserRequests :
            /\ Spent(request'[d]) => request'[d].transaction \in consumed'
            /\ Unregistered(request'[d]) => \A s \in sessions' : s.id # request'[d].transaction
            /\ Proved(request'[d]) => request'[d].auth >= Second(begun'[request'[d].transaction])
            /\ Ended(request'[d]) => request'[d].previous \in revoked' \cup {0}
      BY <1>2, <1>3, <1>6, <2>1 DEF Own
    <2>4. QED
      BY <1>2, <1>4, <2>2, <2>3 DEF Own
  <1>8. ASSUME ~mixed' PROVE Alone'
    <2>1. \A s \in sessions : InForce(s)' => InForce(s)
      BY <1>2, <1>3, <1>6 DEF InForce
    <2>2. ~mixed /\ request[c].at # "REST" /\ row.previous = request[c].previous
      BY <1>1, <1>2, <1>8
    <2>3. QED
      BY <1>2, <1>3, <2>1, <2>2 DEF Alone
  <1>9. QED
    BY <1>5, <1>7, <1>8

LEMMA ExchangeKeeps == ASSUME LoginInv, NEW c \in BrowserRequests, Exchange(c) PROVE LoginInv'
  <1>1. PICK code \in codes :
          /\ codes' = codes \ {code}
          /\ request' = [request EXCEPT ![c].at = "EXCHANGED", ![c].auth = code.auth, ![c].origin = code.origin]
    BY DEF Exchange
  <1> DEFINE row == [request[c] EXCEPT !.at = "EXCHANGED", !.auth = code.auth, !.origin = code.origin]
  <1>2. /\ request[c] \in Calls /\ code.auth \in Nat /\ code.origin \in Nat /\ mixed \in BOOLEAN
        /\ request[c].transaction \in Transactions \cup {0}
        /\ cookie \in [transaction : Nat, id : Nat] /\ cookie.transaction \in Transactions \cup {0}
    BY DEF LoginInv, LoginTypes
  <1>3. /\ row \in Calls /\ row.at = "EXCHANGED" /\ row.transaction = request[c].transaction
        /\ row.previous = request[c].previous
    BY <1>2 DEF Calls, LoginPlaces, CallPlaces
  <1>4. request' = [request EXCEPT ![c] = row]
    BY <1>1 DEF LoginInv, LoginTypes
  <1> HIDE DEF row
  <1>5. /\ request[c].at = "CONSUMED" /\ codes' \subseteq codes
        /\ UNCHANGED <<hostClock, ahead, previously, begun, consumed, sessions, revoked, mixed, cookie>>
    BY <1>1 DEF Exchange, loginRows
  <1>6. QED
    BY <1>2, <1>3, <1>4, <1>5, MovesKeep DEF Spent, Unregistered, Proved, Ended, OnItsWay

(* A step that moves one callback on, short of a session, and nothing else.  *)
LEMMA StepKeeps ==
  ASSUME LoginInv, NEW c \in BrowserRequests, NEW where \in {"WAITING", "FRESH", "ATTESTED"}, Step(c, where),
         request[c].at \in {"EXCHANGED", "WAITING", "FRESH"},
         where # "WAITING" => request[c].auth >= Second(begun[request[c].transaction]),
         UNCHANGED <<hostClock, ahead, loginRows, codes, previously, cookie, mixed>>
  PROVE  LoginInv'
  <1>1. LoginTypes /\ where \in LoginPlaces
    BY DEF LoginInv, LoginPlaces, CallPlaces
  <1>2. PICK row \in Calls :
          /\ request' = [request EXCEPT ![c] = row] /\ row.at = where
          /\ row.transaction = request[c].transaction /\ row.previous = request[c].previous
          /\ row.auth = request[c].auth /\ row.transaction \in Transactions \cup {0}
    BY <1>1, StepRow
  <1>3. /\ mixed \in BOOLEAN /\ cookie \in [transaction : Nat, id : Nat] /\ cookie.transaction \in Transactions \cup {0}
    BY <1>1 DEF LoginTypes
  <1>4. UNCHANGED <<hostClock, ahead, previously, begun, consumed, sessions, revoked, codes, mixed, cookie>>
    BY DEF loginRows
  <1>5. /\ Spent(row) /\ Spent(request[c]) /\ Unregistered(request[c])
        /\ ~Ended(row) /\ ~OnItsWay(request[c]) /\ request[c].at # "REST"
        /\ Proved(row) => where # "WAITING"
    BY <1>2 DEF Spent, Unregistered, Proved, Ended, OnItsWay
  <1>6. Proved(row) => row.auth >= Second(begun[row.transaction])
    BY <1>2, <1>5
  <1>7. /\ codes' \subseteq codes /\ revoked \subseteq revoked' /\ mixed' \in BOOLEAN /\ (~mixed' => ~mixed)
        /\ cookie' = cookie /\ cookie' \in [transaction : Nat, id : Nat] /\ cookie'.transaction \in Transactions \cup {0}
    BY <1>3, <1>4
  <1>8. QED
    BY <1>2, <1>4, <1>5, <1>6, <1>7, MovesKeep DEF Spent, Unregistered, Proved, Ended, OnItsWay

LEMMA SettleKeeps == ASSUME LoginInv, NEW c \in BrowserRequests, Settle(c) PROVE LoginInv'
  BY StepKeeps DEF Settle

LEMMA ProveFreshKeeps == ASSUME LoginInv, NEW c \in BrowserRequests, ProveFresh(c) PROVE LoginInv'
  <1>1. /\ Step(c, "FRESH") /\ request[c].at \in {"EXCHANGED", "WAITING"}
        /\ request[c].auth >= Second(begun[request[c].transaction])
    BY DEF ProveFresh, Judged, Fresh
  <1>2. UNCHANGED <<hostClock, ahead, loginRows, codes, previously, cookie, mixed>>
    BY DEF ProveFresh
  <1>3. QED
    BY <1>1, <1>2, StepKeeps

LEMMA AttestKeeps == ASSUME LoginInv, NEW c \in BrowserRequests, Attest(c) PROVE LoginInv'
  <1>1. /\ Step(c, "ATTESTED") /\ request[c].at = "FRESH"
        /\ request[c].auth >= Second(begun[request[c].transaction])
    BY DEF Attest, LoginInv, Own, Proved
  <1>2. UNCHANGED <<hostClock, ahead, loginRows, codes, previously, cookie, mixed>>
    BY DEF Attest
  <1>3. QED
    BY <1>1, <1>2, StepKeeps

(* The session registered: of a transaction no other session is of, with an *)
(* authentication of its own that is of its age, and on its way into the    *)
(* cookie.                                                                  *)
LEMMA RegisterKeeps == ASSUME LoginInv, NEW c \in BrowserRequests, Register(c) PROVE LoginInv'
  <1> USE DEF LoginInv
  <1> DEFINE new == [id |-> request[c].transaction, auth |-> request[c].auth,
                     origin |-> request[c].origin, registered |-> hostClock]
  <1>1. PICK row \in Calls :
          /\ request' = [request EXCEPT ![c] = row] /\ row.at = "REGISTERED"
          /\ row.transaction = request[c].transaction /\ row.previous = request[c].previous
          /\ row.transaction \in Transactions \cup {0}
    BY StepRow DEF Register, LoginPlaces, CallPlaces
  <1>2. /\ request[c].at = "ATTESTED" /\ sessions' = sessions \cup {new}
        /\ 2 * new.auth <= new.registered /\ new.registered <= 2 * new.auth + MaxAge
        /\ \A s \in sessions : s.origin # new.origin
        /\ UNCHANGED <<hostClock, ahead, previously, begun, consumed, codes, revoked, mixed, cookie>>
    BY DEF Register
  <1>3. new \in Sessions /\ new.id = row.transaction /\ new.auth = request[c].auth /\ new.id = request[c].transaction
    BY <1>1 DEF LoginTypes, Calls, Sessions
  <1> HIDE DEF new
  <1>4. /\ request' \in [BrowserRequests -> Calls] /\ request'[c] = row
        /\ \A d \in BrowserRequests : d # c => request'[d] = request[d]
    BY <1>1 DEF LoginTypes
  <1>5. mixed' \in BOOLEAN /\ Transactions' = Transactions
    BY <1>2 DEF LoginTypes, Transactions
  <1>6. LoginTypes'
    BY <1>1, <1>2, <1>3, <1>4, <1>5 DEF LoginTypes
  <1>7. /\ new.id \in consumed /\ new.auth >= Second(begun[new.id])
        /\ \A s \in sessions : s.id # new.id
    BY <1>2, <1>3 DEF Own, Spent, Unregistered, Proved
  <1>8. /\ Spent(row) /\ Spent(request[c]) /\ OnItsWay(row)
        /\ ~Unregistered(row) /\ ~Proved(row) /\ ~Ended(row) /\ ~OnItsWay(request[c])
    BY <1>1, <1>2 DEF Spent, Unregistered, Proved, Ended, OnItsWay
  <1>9. Own'
    <2>1. \A s \in sessions' :
            /\ s.id \in consumed' /\ s.auth >= Second(begun'[s.id])
            /\ 2 * s.auth <= s.registered /\ s.registered <= 2 * s.auth + MaxAge
            /\ \A other \in sessions' \ {s} : other.id # s.id /\ other.origin # s.origin
      BY <1>2, <1>7 DEF Own
    <2>2. ASSUME NEW d \in BrowserRequests, Unregistered(request'[d]), NEW s \in sessions'
          PROVE  s.id # request'[d].transaction
      <3>1. d # c /\ request'[d] = request[d] /\ Spent(request[d])
        BY <1>4, <1>8, <2>2 DEF Unregistered, Spent
      <3>2. request[d].transaction # request[c].transaction
        BY <1>8, <3>1 DEF Own
      <3>3. QED
        BY <1>2, <1>3, <2>2, <3>1, <3>2 DEF Own
    <2>3. \A d, q \in BrowserRequests : d # q /\ Spent(request'[d]) /\ Spent(request'[q])
                                   => request'[d].transaction # request'[q].transaction
      BY <1>1, <1>4, <1>8 DEF Own
    <2>4. \A d \in BrowserRequests :
            /\ Spent(request'[d]) => request'[d].transaction \in consumed'
            /\ Proved(request'[d]) => request'[d].auth >= Second(begun'[request'[d].transaction])
            /\ Ended(request'[d]) => request'[d].previous \in revoked' \cup {0}
      BY <1>1, <1>2, <1>4, <1>8 DEF Own
    <2>5. QED
      BY <1>2, <1>5, <2>1, <2>2, <2>3, <2>4 DEF Own
  <1>10. ASSUME ~mixed' PROVE Alone'
    <2>1. \A s \in sessions' : InForce(s)' => s.id # row.transaction
      BY <1>4, <1>8 DEF InForce
    <2>2. \A s \in sessions : InForce(s)' => InForce(s)
      BY <1>2, <1>4, <1>8 DEF InForce
    <2>3. ~mixed /\ request[c].at # "REST" /\ row.previous = request[c].previous
      BY <1>1, <1>2, <1>10
    <2>4. QED
      BY <1>2, <1>3, <1>4, <2>1, <2>2, <2>3 DEF Alone
  <1>11. QED
    BY <1>6, <1>9, <1>10

LEMMA RevokePreviousKeeps == ASSUME LoginInv, NEW c \in BrowserRequests, RevokePrevious(c) PROVE LoginInv'
  <1>1. LoginTypes /\ "REVOKED" \in LoginPlaces
    BY DEF LoginInv, LoginPlaces
  <1>2. PICK row \in Calls :
          /\ request' = [request EXCEPT ![c] = row] /\ row.at = "REVOKED"
          /\ row.transaction = request[c].transaction /\ row.previous = request[c].previous
          /\ row.transaction \in Transactions \cup {0}
    BY <1>1, StepRow DEF RevokePrevious
  <1>3. /\ mixed \in BOOLEAN /\ cookie \in [transaction : Nat, id : Nat] /\ cookie.transaction \in Transactions \cup {0}
    BY <1>1 DEF LoginTypes
  <1>4. /\ request[c].at = "REGISTERED" /\ revoked' = revoked \cup ({request[c].previous} \ {0})
        /\ UNCHANGED <<hostClock, ahead, previously, begun, consumed, sessions, codes, mixed, cookie>>
    BY DEF RevokePrevious
  <1>5. QED
    BY <1>2, <1>3, <1>4, MovesKeep DEF Spent, Unregistered, Proved, Ended, OnItsWay

LEMMA LogOutKeeps == ASSUME LoginInv, NEW r \in BrowserRequests, LogOut(r) PROVE LoginInv'
  <1>1. LoginTypes /\ "ENDED" \in LoginPlaces
    BY DEF LoginInv, LoginPlaces
  <1>2. PICK row \in Calls :
          /\ request' = [request EXCEPT ![r] = row] /\ row.at = "ENDED"
          /\ row.transaction = request[r].transaction /\ row.previous = request[r].previous
          /\ row.transaction \in Transactions \cup {0}
    BY <1>1, StepRow DEF LogOut
  <1>3. /\ mixed \in BOOLEAN /\ cookie \in [transaction : Nat, id : Nat] /\ cookie.transaction \in Transactions \cup {0}
    BY <1>1 DEF LoginTypes
  <1>4. /\ request[r].at = "LOGOUT" /\ revoked' = revoked \cup {request[r].previous}
        /\ UNCHANGED <<hostClock, ahead, previously, begun, consumed, sessions, codes, mixed, cookie>>
    BY DEF LogOut
  <1>5. QED
    BY <1>2, <1>3, <1>4, MovesKeep DEF Spent, Unregistered, Proved, Ended, OnItsWay

(* The new session's cookie arrives with no other request under way: every   *)
(* session before has been ended.                                           *)
LEMMA FinishKeeps == ASSUME LoginInv, NEW c \in BrowserRequests, Finish(c) PROVE LoginInv'
  <1> USE DEF LoginInv
  <1>1. /\ request' = [request EXCEPT ![c] = Resting] /\ request[c].at = "REVOKED"
        /\ mixed' = (mixed \/ \E r \in BrowserRequests \ {c} : request[r].at # "REST")
        /\ UNCHANGED <<hostClock, ahead, previously, begun, consumed, sessions, codes, revoked>>
    BY DEF Finish, ComesToRest, loginRows
  <1>2. /\ request' \in [BrowserRequests -> Calls] /\ request'[c] = Resting
        /\ \A d \in BrowserRequests : d # c => request'[d] = request[d]
    BY <1>1, RestingCall DEF LoginTypes
  <1>3. request[c].transaction \in Nat
    BY DEF LoginTypes, Calls
  <1>4. cookie' \in [transaction : Nat, id : Nat] /\ cookie'.transaction = 0 /\ cookie'.id = request[c].transaction
    BY <1>3 DEF Finish
  <1>5. Transactions' = Transactions /\ mixed' \in BOOLEAN
    BY <1>1 DEF Transactions, LoginTypes
  <1>6. LoginTypes'
    BY <1>1, <1>2, <1>4, <1>5, RestingCall DEF LoginTypes
  <1>7. ~Spent(Resting) /\ ~Unregistered(Resting) /\ ~Proved(Resting) /\ ~Ended(Resting) /\ ~OnItsWay(Resting)
    BY RestingCall DEF Spent, Unregistered, Proved, Ended, OnItsWay
  <1>8. Own'
    <2>1. \A r \in BrowserRequests :
            /\ Spent(request'[r]) => request'[r].transaction \in consumed'
            /\ Unregistered(request'[r]) => \A s \in sessions' : s.id # request'[r].transaction
            /\ Proved(request'[r]) => request'[r].auth >= Second(begun'[request'[r].transaction])
            /\ Ended(request'[r]) => request'[r].previous \in revoked' \cup {0}
      BY <1>1, <1>2, <1>7 DEF Own
    <2>2. \A r, q \in BrowserRequests : r # q /\ Spent(request'[r]) /\ Spent(request'[q])
                                   => request'[r].transaction # request'[q].transaction
      BY <1>2, <1>7 DEF Own
    <2>3. QED
      BY <1>1, <1>5, <2>1, <2>2 DEF Own
  <1>9. ASSUME ~mixed' PROVE Alone'
    <2>1. ~mixed /\ \A r \in BrowserRequests : r # c => request[r].at = "REST"
      BY <1>1, <1>9
    <2>2. \A r \in BrowserRequests : request'[r].at = "REST"
      BY <1>2, <2>1, RestingCall
    <2>3. ASSUME NEW s \in sessions, InForce(s)', s.id # request[c].transaction PROVE FALSE
      <3>1. \A r \in BrowserRequests : OnItsWay(request[r]) => r = c
        BY <2>1 DEF OnItsWay
      <3>2. InForce(s)
        BY <1>1, <2>3, <3>1 DEF InForce
      <3>3. request[c].previous = s.id /\ s.id \notin revoked /\ s.id # 0
        BY <1>1, <2>1, <3>2, SessionsAreOfTransactions DEF Alone, InForce
      <3>4. QED
        BY <1>1, <3>3 DEF Own, Ended
    <2>4. QED
      BY <1>1, <1>4, <2>2, <2>3 DEF Alone
  <1>10. QED
    BY <1>6, <1>8, <1>9

(* The other answers set the cookie to what their request had read, or clear *)
(* it after a logout; a lost one sets none.                                 *)
LEMMA AnswersKeep ==
  ASSUME LoginInv, NEW r \in BrowserRequests, LoginAnswered(r) \/ LogoutAnswered(r) \/ Reject(r) \/ NoAnswer(r)
  PROVE  LoginInv'
  <1>1. /\ request[r] \in Calls /\ request[r].transaction \in Transactions \cup {0} /\ mixed \in BOOLEAN
        /\ cookie \in [transaction : Nat, id : Nat] /\ cookie.transaction \in Transactions \cup {0}
        /\ Transactions \subseteq Nat
    BY TransactionsAreNumbers DEF LoginInv, LoginTypes
  <1>2. /\ request' = [request EXCEPT ![r] = Resting] /\ request[r].at # "REST"
        /\ UNCHANGED <<hostClock, ahead, previously, begun, consumed, sessions, codes, revoked>>
    BY DEF LoginAnswered, LogoutAnswered, Reject, NoAnswer, ComesToRest, loginRows, CallPlaces
  <1>3. mixed' \in BOOLEAN /\ (~mixed' => ~mixed /\ ~OnItsWay(request[r]))
    BY <1>1 DEF LoginAnswered, LogoutAnswered, Reject, NoAnswer, Between, OnItsWay
  <1>4. request[r].previous \in Nat /\ request[r].transaction \in Nat
    BY <1>1 DEF Calls
  <1>5. /\ cookie' \in [transaction : Nat, id : Nat] /\ cookie'.transaction \in Transactions \cup {0}
        /\ cookie'.id \in {cookie.id, request[r].previous} \/ Ended(request[r])
    BY <1>1, <1>4 DEF LoginAnswered, LogoutAnswered, Reject, NoAnswer, Ended
  <1>6. QED
    BY <1>1, <1>2, <1>3, <1>5, RestingCall, MovesKeep DEF Spent, Unregistered, Proved, Ended

(* The clock, the grants, and steps of the other parts.                      *)
LEMMA LoginAsides ==
  ASSUME LoginInv, GrantLapses \/ HostTick \/ UNCHANGED loginVars
  PROVE  LoginInv'
  <1> USE DEF LoginInv
  <1>1. /\ begun' = begun /\ sessions' = sessions /\ consumed' = consumed /\ revoked' = revoked
        /\ cookie' = cookie /\ mixed' = mixed /\ request' = request /\ Transactions' = Transactions
        /\ codes' = codes /\ previously' = previously /\ ahead' = ahead
    BY DEF GrantLapses, HostTick, loginVars, loginRows, Transactions
  <1>2. hostClock' \in Nat
    BY DEF GrantLapses, HostTick, loginVars, LoginTypes
  <1>3. mixed' \in BOOLEAN
    BY <1>1 DEF LoginTypes
  <1>4. LoginTypes'
    BY <1>1, <1>2, <1>3 DEF LoginTypes
  <1>5. Own' /\ (~mixed' => Alone')
    BY <1>1 DEF Own, Alone, InForce
  <1>6. QED
    BY <1>4, <1>5

LEMMA LoginStep == LoginInv /\ [LoginNext]_loginVars => LoginInv'
  <1> SUFFICES ASSUME LoginInv, [LoginNext]_loginVars PROVE LoginInv'
    OBVIOUS
  <1>1. CASE UNCHANGED loginVars
    BY <1>1, LoginAsides
  <1>2. ASSUME NEW r \in BrowserRequests, AskLogin(r) \/ AskLogout(r) PROVE LoginInv'
    BY <1>2, ArrivesKeeps DEF AskLogin, AskLogout
  <1>3. CASE LoginNext
    BY <1>2, <1>3, LoginAsides, BeginLoginKeeps, ProviderAnswersKeeps, CallBackKeeps, ConsumeLoginKeeps,
       ExchangeKeeps, SettleKeeps, ProveFreshKeeps, AttestKeeps, RegisterKeeps, RevokePreviousKeeps, FinishKeeps,
       LogOutKeeps, AnswersKeep
    DEF LoginNext
  <1>4. QED
    BY <1>1, <1>3

(* A staff session rests on a login of its own, made after its transaction   *)
(* began and judged of age as the session began; and however the requests   *)
(* of a browser overlap, the sessions in force are the one in its cookie    *)
(* and those on their way into it, until a new one's cookie meets another   *)
(* request or is lost (callback/route.ts 34-79; login/route.ts 11-28;       *)
(* logout/route.ts 5-9; StaffStore.register).                               *)
THEOREM LoginOfItsOwnCorrect == LoginSpec => []LoginOfItsOwn
  <1>1. LoginInv => LoginOfItsOwn
    BY DEF LoginInv, Own, Alone, InForce, OnItsWay, Between, LoginOfItsOwn
  <1>2. QED
    BY LoginInitInv, LoginStep, <1>1, PTL DEF LoginSpec

-----------------------------------------------------------------------------
(* Analytics.  A contact has one source and at most one response, which is  *)
(* no earlier; what is projected is of a source, and a contact as written.  *)

Source == [kind : {"CONTACT", "RESPONSE"}, contact : Contacts, at : Nat, verified : BOOLEAN]

ReportTypes ==
  /\ now \in 1..MaxDays /\ verified \in BOOLEAN
  /\ sources \subseteq Source /\ IsFiniteSet(sources) /\ \A s \in sources : s.at \in 1..now
  /\ seen \in [Consumers -> SUBSET sources] /\ held \in [Consumers -> SUBSET sources]

SourcesOnce ==
  /\ \A s, t \in sources : s.kind = t.kind /\ s.contact = t.contact => s = t
  /\ \A s \in sources : s.kind = "RESPONSE" => \E t \in Created(s.contact) : t.at <= s.at

TakenFrom(e, s) == e.kind = s.kind /\ e.contact = s.contact /\ e.at = s.at /\ (s.kind = "CONTACT" => e = s)
ProjectedOf == \A e \in projected : \E s \in sources : TakenFrom(e, s)

ReportInv == ReportTypes /\ SourcesOnce /\ ProjectedOf

LEMMA ReportStarts == ASSUME ReportInit PROVE ReportInv
  BY AnalyticsAssumption, FS_EmptySet DEF ReportInit, ReportInv, ReportTypes, SourcesOnce, ProjectedOf

(* A source is added, for a contact that had none of its kind.              *)
LEMMA SourceAdded ==
  ASSUME ReportInv, NEW s \in Source, s.at = now, sources' = sources \cup {s},
         \A t \in sources : ~(t.kind = s.kind /\ t.contact = s.contact),
         s.kind = "RESPONSE" => Created(s.contact) # {},
         UNCHANGED <<now, verified, projected, seen, held>>
  PROVE  ReportInv'
  <1>1. ReportTypes'
    <2>1. IsFiniteSet(sources')
      BY FS_AddElement DEF ReportInv, ReportTypes
    <2>2. s.at \in 1..now
      BY DEF ReportInv, ReportTypes
    <2>3. /\ seen' \in [Consumers -> SUBSET sources'] /\ held' \in [Consumers -> SUBSET sources']
      BY DEF ReportInv, ReportTypes
    <2>4. QED
      BY <2>1, <2>2, <2>3 DEF ReportInv, ReportTypes
  <1>2. SourcesOnce'
    <2>1. \A t, u \in sources' : t.kind = u.kind /\ t.contact = u.contact => t = u
      BY DEF ReportInv, SourcesOnce
    <2>2. \A c : Created(c) \subseteq Created(c)'
      BY DEF Created
    <2>3. s.kind = "RESPONSE" => \E t \in Created(s.contact) : t.at <= s.at
      <3>1. \A t \in Created(s.contact) : t.at \in 1..now
        BY DEF ReportInv, ReportTypes, Created
      <3>2. now \in Nat
        BY DEF ReportInv, ReportTypes
      <3>3. QED
        BY <3>1, <3>2
    <2>4. \A t \in sources' : t.kind = "RESPONSE" => \E u \in Created(t.contact) : u.at <= t.at
      BY <2>3 DEF ReportInv, SourcesOnce
    <2>5. QED
      BY <2>1, <2>2, <2>4 DEF SourcesOnce
  <1>3. ProjectedOf'
    BY DEF ReportInv, ProjectedOf
  <1>4. QED
    BY <1>1, <1>2, <1>3 DEF ReportInv

LEMMA ProjectionOf == ASSUME ReportInv, NEW s \in sources PROVE TakenFrom(Projection(s), s)
  <1>1. s \in Source
    BY DEF ReportInv, ReportTypes
  <1>2. QED
    BY <1>1 DEF Projection, ProjectedAsWritten, TakenFrom, Source

LEMMA CommitKeeps == ASSUME ReportInv, NEW x \in Consumers, Commit(x) PROVE ReportInv'
  <1>1. /\ projected' = projected \cup {Projection(s) : s \in {t \in held[x] : ~IsProjected(t)}}
        /\ held' = [held EXCEPT ![x] = {}]
        /\ UNCHANGED <<now, verified, sources, seen>>
    BY DEF Commit
  <1>2. held[x] \subseteq sources
    BY DEF ReportInv, ReportTypes
  <1>3. \A e \in projected' : \E s \in sources : TakenFrom(e, s)
    BY <1>1, <1>2, ProjectionOf DEF ReportInv, ProjectedOf
  <1>4. QED
    BY <1>1, <1>3 DEF ReportInv, ReportTypes, SourcesOnce, Created, ProjectedOf

LEMMA LooksKeep ==
  ASSUME ReportInv, NEW x \in Consumers, Look(x) \/ Lock(x) \/ Fail(x)
  PROVE  ReportInv'
  <1>1. UNCHANGED <<now, verified, sources, projected>>
    BY DEF Look, Lock, Fail
  <1>2. seen \in [Consumers -> SUBSET sources] /\ held \in [Consumers -> SUBSET sources]
    BY DEF ReportInv, ReportTypes
  <1>3. seen' \in [Consumers -> SUBSET sources] /\ held' \in [Consumers -> SUBSET sources]
    <2>1. CASE Look(x)
      <3>1. Pending \subseteq sources
        BY DEF Pending
      <3>2. QED
        BY <1>2, <2>1, <3>1 DEF Look
    <2>2. CASE Lock(x)
      <3>1. PICK kind \in {"CONTACT", "RESPONSE"} : \E taken \in SUBSET {s \in Unlocked(x) : s.kind = kind} : held' = [held EXCEPT ![x] = taken]
        BY <2>2 DEF Lock
      <3>2. Unlocked(x) \subseteq sources
        BY <1>2 DEF Unlocked
      <3>3. seen' = [seen EXCEPT ![x] = {}]
        BY <2>2 DEF Lock
      <3>4. QED
        BY <1>2, <3>1, <3>2, <3>3
    <2>3. CASE Fail(x)
      BY <1>2, <2>3 DEF Fail
    <2>4. QED
      BY <2>1, <2>2, <2>3
  <1>4. QED
    BY <1>1, <1>3 DEF ReportInv, ReportTypes, SourcesOnce, Created, ProjectedOf

LEMMA ReportStep == ASSUME ReportInv, [ReportNext]_reportVars PROVE ReportInv'
  <1>1. ASSUME NEW c \in Contacts, Inquire(c) PROVE ReportInv'
    <2> DEFINE s == [kind |-> "CONTACT", contact |-> c, at |-> now, verified |-> verified]
    <2>1. s \in Source
      BY DEF ReportInv, ReportTypes, Source
    <2>2. \A t \in sources : ~(t.kind = s.kind /\ t.contact = s.contact)
      BY <1>1 DEF Inquire, Created
    <2>3. QED
      BY <1>1, <2>1, <2>2, SourceAdded DEF Inquire
  <1>2. ASSUME NEW c \in Contacts, Respond(c) PROVE ReportInv'
    <2> DEFINE s == [kind |-> "RESPONSE", contact |-> c, at |-> now, verified |-> FALSE]
    <2>1. s \in Source
      BY DEF ReportInv, ReportTypes, Source
    <2>2. \A t \in sources : ~(t.kind = s.kind /\ t.contact = s.contact)
      BY <1>2 DEF Respond, Responded
    <2>3. QED
      BY <1>2, <2>1, <2>2, SourceAdded DEF Respond
  <1>3. CASE VerificationChanges
    BY <1>3 DEF VerificationChanges, ReportInv, ReportTypes, SourcesOnce, Created, ProjectedOf
  <1>4. CASE ReportTick
    <2>1. now' = now + 1 /\ now < MaxDays /\ UNCHANGED <<verified, sources, projected, seen, held>>
      BY <1>4 DEF ReportTick
    <2>2. now \in 1..MaxDays /\ MaxDays \in Nat /\ \A s \in sources : s.at \in 1..now
      BY AnalyticsAssumption DEF ReportInv, ReportTypes
    <2>3. now' \in 1..MaxDays /\ \A s \in sources : s.at \in 1..now'
      BY <2>1, <2>2
    <2>4. QED
      BY <2>1, <2>3 DEF ReportInv, ReportTypes, SourcesOnce, Created, ProjectedOf
  <1>5. CASE UNCHANGED reportVars
    BY <1>5 DEF reportVars, ReportInv, ReportTypes, SourcesOnce, Created, ProjectedOf
  <1>6. QED
    BY <1>1, <1>2, <1>3, <1>4, <1>5, CommitKeeps, LooksKeep DEF ReportNext

(* As many contacts as sources of contacts.                                  *)
LEMMA ContactsCounted ==
  ASSUME ReportInv, NEW es \in SUBSET {s \in sources : s.kind = "CONTACT"}, NEW cs, cs = {e.contact : e \in es}
  PROVE  IsFiniteSet(es) /\ IsFiniteSet(cs) /\ Cardinality(es) = Cardinality(cs)
  <1> DEFINE f == [e \in es |-> e.contact]
  <1>1. IsFiniteSet(es)
    BY FS_Subset DEF ReportInv, ReportTypes
  <1>2. f \in Bijection(es, cs)
    <2>1. f \in [es -> cs] /\ \A c \in cs : \E e \in es : f[e] = c
      OBVIOUS
    <2>2. \A d, e \in es : f[d] = f[e] => d = e
      BY DEF ReportInv, SourcesOnce
    <2>3. QED
      BY <2>1, <2>2 DEF Bijection, Injection, IsInjective, Surjection
  <1>3. ExistsBijection(es, cs)
    BY <1>2 DEF ExistsBijection
  <1>4. QED
    BY <1>1, <1>3, FS_Bijection

(* Once all is projected, the contacts of the report are those there were.  *)
LEMMA AllProjected ==
  ASSUME ReportInv, \A s \in sources : IsProjected(s)
  PROVE  /\ {e \in projected : e.kind = "CONTACT"} = {s \in sources : s.kind = "CONTACT"}
         /\ \A c, at : (\E r \in projected : r.kind = "RESPONSE" /\ r.contact = c /\ r.at = at)
                       <=> (\E s \in Responded(c) : s.at = at)
  <1>1. \A e \in projected : \E s \in sources : TakenFrom(e, s)
    BY DEF ReportInv, ProjectedOf
  <1>2. \A s \in sources : \E e \in projected : TakenFrom(e, s)
    <2>1. TAKE s \in sources
    <2>2. PICK e \in projected : e.kind = s.kind /\ e.contact = s.contact
      BY DEF IsProjected
    <2>3. PICK t \in sources : TakenFrom(e, t)
      BY <1>1
    <2>4. t = s
      BY <2>2, <2>3 DEF TakenFrom, ReportInv, SourcesOnce
    <2>5. QED
      BY <2>3, <2>4
  <1>3. QED
    BY <1>1, <1>2 DEF TakenFrom, Responded

(* What the report says of one contact is what happened to it.              *)
LEMMA ContactReported ==
  ASSUME ReportInv, \A s \in sources : IsProjected(s), NEW e \in sources, e.kind = "CONTACT",
         NEW asOf \in 1..now
  PROVE  /\ OpenedAt(e.contact) = e.at /\ e.at \in Nat /\ Created(e.contact) = {e}
         /\ (\E r \in Answers(e, asOf) : r.at <= e.at + Day) <=> Waited(e.contact, asOf, Day)
         /\ (\E r \in Answers(e, asOf) : r.at > e.at + Day)
              <=> (Waited(e.contact, asOf, MaxDays) /\ ~Waited(e.contact, asOf, Day))
  <1> DEFINE c == e.contact
  <1>1. Day \in Nat /\ MaxDays \in Nat /\ now \in 1..MaxDays /\ asOf \in Nat
    BY AnalyticsAssumption DEF ReportInv, ReportTypes
  <1>2. Created(c) = {e}
    BY DEF Created, ReportInv, SourcesOnce
  <1>3. OpenedAt(c) = e.at
    BY <1>2 DEF OpenedAt
  <1>4. e.at \in 1..now
    BY DEF ReportInv, ReportTypes
  <1>5. \A s \in Responded(c) : s.at \in 1..now
    BY DEF ReportInv, ReportTypes, Responded
  <1>6. \A s, t \in Responded(c) : s = t
    BY DEF ReportInv, SourcesOnce, Responded
  <1>7. \A at : (\E r \in Answers(e, asOf) : r.at = at) <=> (\E s \in Responded(c) : s.at = at /\ at <= asOf)
    BY AllProjected DEF Answers
  <1>8. (\E r \in Answers(e, asOf) : r.at <= e.at + Day) <=> Waited(c, asOf, Day)
    <2>1. (\E r \in Answers(e, asOf) : r.at <= e.at + Day) <=> \E s \in Responded(c) : s.at <= asOf /\ s.at <= e.at + Day
      BY <1>7
    <2>2. \A s \in Responded(c) : s.at <= e.at + Day <=> s.at - e.at <= Day
      BY <1>1, <1>4, <1>5
    <2>3. QED
      BY <1>3, <2>1, <2>2 DEF Waited
  <1>9. (\E r \in Answers(e, asOf) : r.at > e.at + Day) <=> (Waited(c, asOf, MaxDays) /\ ~Waited(c, asOf, Day))
    <2>1. (\E r \in Answers(e, asOf) : r.at > e.at + Day) <=> \E s \in Responded(c) : s.at <= asOf /\ s.at > e.at + Day
      BY <1>7
    <2>2. \A s \in Responded(c) : (s.at > e.at + Day <=> ~(s.at - e.at <= Day)) /\ s.at - e.at <= MaxDays
      BY <1>1, <1>4, <1>5
    <2>3. QED
      BY <1>3, <1>6, <2>1, <2>2 DEF Waited
  <1>10. QED
    BY <1>2, <1>3, <1>4, <1>8, <1>9

LEMMA Reported ==
  ASSUME ReportInv, \A s \in sources : IsProjected(s),
         NEW from \in 1..now, NEW to \in 1..now, NEW asOf \in 1..now, NEW v \in BOOLEAN
  PROVE  Report(from, to, asOf, v) = Truth(from, to, asOf, v)
  <1> DEFINE cohort == Cohort(from, to, v)
             mature == {e \in cohort : e.at + Day <= asOf}
             answered == {e \in mature : \E r \in Answers(e, asOf) : r.at <= e.at + Day}
             answeredLate == {e \in mature : \E r \in Answers(e, asOf) : r.at > e.at + Day}
             those == ContactsIn(from, to, v)
             old == {c \in those : asOf - OpenedAt(c) >= Day}
             intime == {c \in old : Waited(c, asOf, Day)}
             after == {c \in old : Waited(c, asOf, MaxDays) /\ ~Waited(c, asOf, Day)}
  <1>1. Day \in Nat /\ now \in Nat /\ asOf \in Nat /\ from \in Nat /\ to \in Nat
    BY AnalyticsAssumption DEF ReportInv, ReportTypes
  <1>2. cohort = {e \in {s \in sources : s.kind = "CONTACT"} : e.at >= from /\ e.at < to /\ e.verified = v}
    BY AllProjected DEF Cohort
  <1>3. \A e \in cohort :
          /\ e \in sources /\ e.kind = "CONTACT" /\ e.contact \in Contacts
          /\ OpenedAt(e.contact) = e.at /\ e.at \in Nat /\ Created(e.contact) = {e}
          /\ (\E r \in Answers(e, asOf) : r.at <= e.at + Day) <=> Waited(e.contact, asOf, Day)
          /\ (\E r \in Answers(e, asOf) : r.at > e.at + Day) <=> (Waited(e.contact, asOf, MaxDays) /\ ~Waited(e.contact, asOf, Day))
    BY <1>2, ContactReported DEF ReportInv, ReportTypes, Source
  <1>4. those = {e.contact : e \in cohort}
    <2>1. \A c \in those : \E e \in cohort : e.contact = c
      <3>1. TAKE c \in those
      <3>2. PICK s \in Created(c) : s.at \in from..(to - 1) /\ s.verified = v
        BY DEF ContactsIn
      <3>3. s \in cohort /\ s.contact = c
        BY <1>1, <1>2, <3>2 DEF Created
      <3>4. QED
        BY <3>3
    <2>2. ASSUME NEW e \in cohort PROVE e.contact \in those
      <3>1. e \in Created(e.contact) /\ e.at \in from..(to - 1) /\ e.verified = v
        BY <1>1, <1>2, <1>3
      <3>2. QED
        BY <1>3, <3>1 DEF ContactsIn
    <2>3. QED
      BY <2>1, <2>2
  <1>5. old = {e.contact : e \in mature}
    <2>1. \A e \in cohort : e.at + Day <= asOf <=> asOf - OpenedAt(e.contact) >= Day
      BY <1>1, <1>3
    <2>2. QED
      BY <1>4, <2>1
  <1>6. intime = {e.contact : e \in answered}
    BY <1>3, <1>5
  <1>7. after = {e.contact : e \in answeredLate}
    BY <1>3, <1>5
  <1>8. /\ cohort \subseteq {s \in sources : s.kind = "CONTACT"} /\ mature \subseteq cohort
        /\ answered \subseteq cohort /\ answeredLate \subseteq cohort
    BY <1>2
  <1>9. Report(from, to, asOf, v) =
          [denominator |-> Cardinality(mature), numerator |-> Cardinality(answered),
           late |-> Cardinality(answeredLate), immature |-> Cardinality(cohort \ mature)]
    BY DEF Report
  <1>10. Truth(from, to, asOf, v) =
          [denominator |-> Cardinality(old), numerator |-> Cardinality(intime),
           late |-> Cardinality(after), immature |-> Cardinality(those) - Cardinality(old)]
    BY DEF Truth
  <1> HIDE DEF cohort, mature, answered, answeredLate, those, old, intime, after
  <1>11. /\ Cardinality(mature) = Cardinality(old) /\ Cardinality(cohort) = Cardinality(those)
         /\ Cardinality(answered) = Cardinality(intime) /\ Cardinality(answeredLate) = Cardinality(after)
         /\ IsFiniteSet(cohort)
    BY <1>4, <1>5, <1>6, <1>7, <1>8, ContactsCounted
  <1>12. Cardinality(cohort \ mature) = Cardinality(cohort) - Cardinality(cohort \cap mature) /\ cohort \cap mature = mature
    BY <1>8, <1>11, FS_Difference
  <1>13. QED
    BY <1>9, <1>10, <1>11, <1>12

(* Once nothing is left to project, every report is what happened, for any  *)
(* number of contacts and consumers, whatever failed and in any order.      *)
THEOREM ReportExactCorrect == ReportSpec => []ReportExact
  <1>1. ReportInit => ReportInv
    BY ReportStarts
  <1>2. ReportInv /\ [ReportNext]_reportVars => ReportInv'
    BY ReportStep
  <1>3. ReportInv => ReportExact
    BY Reported DEF ReportExact
  <1>4. QED
    BY <1>1, <1>2, <1>3, PTL DEF ReportSpec
=============================================================================
