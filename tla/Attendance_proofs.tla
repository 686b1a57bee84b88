--------------------------- MODULE Attendance_proofs ---------------------------
(***************************************************************************)
(* Proofs about ViewingAttendance and AttendanceAdjudication, for any      *)
(* viewings, worker runs, moderators, start times and windows: claims keep *)
(* their timer, govern the appointment whatever staff decide, and a used   *)
(* review slot is never reopened.                                          *)
(*                                                                         *)
(* A step of attendance writes the rows of one viewing, but for a lease,   *)
(* which writes jobs alone.  So the invariant is a statement about the     *)
(* rows of one viewing, Row, and each action shows it of what it writes.   *)
(***************************************************************************)
EXTENDS AttendanceAdjudication, SequenceTheorems, TLAPS

AnyOutcome == {"NONE", "AWAITING_VALIDATION", "DISPUTED", "ATTENDANCE_UNCONFIRMED"} \cup Validated
Claim == [side : Sides, outcome : Validated, deadline : Nat, schedule : Nat,
          state : {"PENDING", "CONFIRMED", "FINALIZED", "DISPUTED"}]

(* The four rows of a viewing tell one story: ClaimTimed and ClaimGoverns,  *)
(* and what makes them inductive, that there are claims exactly when there  *)
(* is an outcome, and that one alone, pending, is there while it is awaited.*)
Story(viewing, made, outcome, job) ==
  /\ made = <<>> <=> outcome = "NONE"
  /\ made # <<>> =>
       /\ viewing.state = IF outcome = "AWAITING_VALIDATION" THEN "SCHEDULED" ELSE outcome
       /\ \A i \in DOMAIN made : made[i].schedule = viewing.schedule
  /\ IF outcome = "AWAITING_VALIDATION"
     THEN /\ Open(job) /\ job.due = made[1].deadline
          /\ Len(made) = 1 /\ made[1].state = "PENDING"
     ELSE ~Open(job)

Row(viewing, made, outcome, job) ==
  /\ viewing \in Viewing /\ made \in Seq(Claim) /\ outcome \in AnyOutcome /\ job \in Job
  /\ Story(viewing, made, outcome, job)

Rows == \A v \in Viewings : Row(viewings[v], claims[v], outcomes[v], jobs[v])

Functions == /\ viewings = [v \in Viewings |-> viewings[v]]
             /\ claims = [v \in Viewings |-> claims[v]]
             /\ outcomes = [v \in Viewings |-> outcomes[v]]
             /\ jobs = [v \in Viewings |-> jobs[v]]

AInv == now \in Nat /\ Functions /\ Rows

(* A step that writes the rows of one viewing.                              *)
LEMMA OneViewing ==
  ASSUME AInv, now' \in Nat,
         NEW v \in Viewings, NEW viewing, NEW made, NEW outcome, NEW job,
         Row(viewing, made, outcome, job),
         viewings' = [viewings EXCEPT ![v] = viewing], claims' = [claims EXCEPT ![v] = made],
         outcomes' = [outcomes EXCEPT ![v] = outcome], jobs' = [jobs EXCEPT ![v] = job]
  PROVE  AInv'
  <1>1. Functions'
    BY DEF AInv, Functions
  <1>2. ASSUME NEW u \in Viewings
        PROVE  Row(viewings'[u], claims'[u], outcomes'[u], jobs'[u])
    <2>1. CASE u = v
      <3>1. viewings'[u] = viewing /\ claims'[u] = made /\ outcomes'[u] = outcome /\ jobs'[u] = job
        BY <2>1 DEF AInv, Functions
      <3>2. QED
        BY <3>1
    <2>2. CASE u # v
      <3>1. /\ viewings'[u] = viewings[u] /\ claims'[u] = claims[u]
            /\ outcomes'[u] = outcomes[u] /\ jobs'[u] = jobs[u]
        BY <2>2 DEF AInv, Functions
      <3>2. QED
        BY <3>1 DEF AInv, Rows
    <2>3. QED
      BY <2>1, <2>2
  <1>3. QED
    BY <1>1, <1>2 DEF AInv, Rows

(* Where a row is left alone, it is written with what it was.               *)
LEMMA LeftAlone ==
  ASSUME AInv, NEW v \in Viewings
  PROVE  /\ viewings = [viewings EXCEPT ![v] = viewings[v]] /\ claims = [claims EXCEPT ![v] = claims[v]]
         /\ outcomes = [outcomes EXCEPT ![v] = outcomes[v]] /\ jobs = [jobs EXCEPT ![v] = jobs[v]]
         /\ Row(viewings[v], claims[v], outcomes[v], jobs[v])
  BY DEF AInv, Functions, Rows

LEMMA InitAInv == Init => AInv
  <1>. SUFFICES ASSUME Init PROVE AInv
    OBVIOUS
  <1>1. Functions
    BY DEF Init, Functions
  <1>2. ASSUME NEW v \in Viewings
        PROVE  Row(viewings[v], claims[v], outcomes[v], jobs[v])
    <2>1. /\ viewings[v] = [state |-> "ABSENT", start |-> 0, schedule |-> 0]
          /\ claims[v] = <<>> /\ outcomes[v] = "NONE" /\ jobs[v] = NoJob
      BY DEF Init
    <2>2. claims[v] \in Seq(Claim)
      BY <2>1
    <2>3. QED
      BY <2>1, <2>2 DEF Row, Story, Viewing, AnyOutcome, Job, NoJob, Open
  <1>3. QED
    BY <1>1, <1>2 DEF Init, AInv, Rows

(* Scheduling writes appointments without claims.                           *)
LEMMA MovedKeeps ==
  ASSUME AInv, NEW v \in Viewings, NEW viewing \in Viewing, Moved(v, viewing), claims[v] = <<>>
  PROVE  AInv'
  <1>1. Row(viewings[v], claims[v], outcomes[v], jobs[v])
    BY LeftAlone
  <1>2. Row(viewing, claims[v], outcomes[v], jobs[v])
    BY <1>1 DEF Row, Story
  <1>3. now' \in Nat
    BY DEF Moved, AInv
  <1>4. /\ viewings' = [viewings EXCEPT ![v] = viewing] /\ claims' = [claims EXCEPT ![v] = claims[v]]
        /\ outcomes' = [outcomes EXCEPT ![v] = outcomes[v]] /\ jobs' = [jobs EXCEPT ![v] = jobs[v]]
    BY LeftAlone DEF Moved
  <1>5. QED
    BY <1>2, <1>3, <1>4, OneViewing

(* An appointment that is not SCHEDULED and may still be has no claims.     *)
LEMMA Unclaimable ==
  ASSUME AInv, NEW v \in Viewings, viewings[v].state \in {"ABSENT", "REQUESTED"}
  PROVE  claims[v] = <<>>
  <1>1. Row(viewings[v], claims[v], outcomes[v], jobs[v])
    BY LeftAlone
  <1>2. QED
    BY <1>1 DEF Row, Story, AnyOutcome, Validated

LEMMA SchedulingKeeps ==
  ASSUME AInv, Scheduling
  PROVE  AInv'
  <1>1. PICK v \in Viewings : \/ Request(v) \/ Cancel(v)
                              \/ \E start \in Starts : Agree(v, start) \/ Reschedule(v, start)
    BY DEF Scheduling
  <1>2. viewings[v] \in Viewing
    BY LeftAlone DEF Row
  <1>3. CASE Request(v)
    <2>1. [state |-> "REQUESTED", start |-> 0, schedule |-> 1] \in Viewing
      BY DEF Viewing
    <2>2. QED
      BY <1>3, <2>1, MovedKeeps, Unclaimable DEF Request
  <1>4. CASE Cancel(v)
    <2>1. [viewings[v] EXCEPT !.state = "CANCELLED"] \in Viewing
      BY <1>2 DEF Viewing
    <2>2. QED
      BY <1>4, <2>1, MovedKeeps DEF Cancel, Unclaimed
  <1>5. ASSUME NEW start \in Starts, Agree(v, start) PROVE AInv'
    <2>1. [viewings[v] EXCEPT !.state = "SCHEDULED", !.start = start] \in Viewing
      BY <1>2, TimesAssumption DEF Viewing
    <2>2. QED
      BY <1>5, <2>1, MovedKeeps, Unclaimable DEF Agree
  <1>6. ASSUME NEW start \in Starts, Reschedule(v, start) PROVE AInv'
    <2>1. start \in Nat /\ viewings[v].schedule + 1 \in Nat
      BY <1>2, TimesAssumption DEF Viewing
    <2>2. [viewings[v] EXCEPT !.start = start, !.schedule = viewings[v].schedule + 1] \in Viewing
      BY <1>2, <2>1 DEF Viewing
    <2>3. QED
      BY <1>6, <2>2, MovedKeeps DEF Reschedule, Unclaimed
  <1>7. QED
    BY <1>1, <1>3, <1>4, <1>5, <1>6

-----------------------------------------------------------------------------
(* A claim is made against the schedule, and every claim of a disputed      *)
(* viewing is disputed.                                                     *)
LEMMA DisputedClaims ==
  ASSUME NEW made \in Seq(Claim)
  PROVE  LET now_disputed == [i \in DOMAIN made |-> [made[i] EXCEPT !.state = "DISPUTED"]]
         IN  /\ now_disputed \in Seq(Claim) /\ DOMAIN now_disputed = DOMAIN made
             /\ \A i \in DOMAIN made : now_disputed[i].schedule = made[i].schedule
  <1>. DEFINE disputed == [i \in DOMAIN made |-> [made[i] EXCEPT !.state = "DISPUTED"]]
  <1>1. PICK n \in Nat : made \in [1..n -> Claim]
    BY SeqDef
  <1>2. ASSUME NEW i \in 1..n
        PROVE  /\ [made[i] EXCEPT !.state = "DISPUTED"] \in Claim
               /\ [made[i] EXCEPT !.state = "DISPUTED"].schedule = made[i].schedule
    <2>1. made[i] \in Claim
      BY <1>1
    <2>2. QED
      BY <2>1 DEF Claim
  <1>3. disputed \in [1..n -> Claim] /\ DOMAIN disputed = DOMAIN made
    BY <1>1, <1>2
  <1>4. disputed \in Seq(Claim)
    BY <1>3, SeqDef
  <1>5. \A i \in DOMAIN made : disputed[i].schedule = made[i].schedule
    BY <1>1, <1>2
  <1>6. QED
    BY <1>3, <1>4, <1>5

LEMMA SettledJob ==
  ASSUME NEW job \in Job, NEW state \in {"PENDING", "PROCESSED", "SKIPPED"}
  PROVE  /\ Settled(job, state) \in Job /\ Settled(job, state).due = job.due
         /\ Open(Settled(job, state)) <=> state = "PENDING"
  BY DEF Settled, Job, Open

(* dispute() leaves the viewing, its outcome and its claims disputed, and   *)
(* no timer.                                                                *)
LEMMA DisputeKeeps ==
  ASSUME AInv, NEW v \in Viewings, NEW made \in Seq(Claim), made # <<>>,
         \A i \in DOMAIN made : made[i].schedule = viewings[v].schedule,
         Dispute(v, made), UNCHANGED now
  PROVE  AInv'
  <1>. DEFINE viewing == [viewings[v] EXCEPT !.state = "DISPUTED"]
              disputed == [i \in DOMAIN made |-> [made[i] EXCEPT !.state = "DISPUTED"]]
              job == IF Open(jobs[v]) THEN Settled(jobs[v], "SKIPPED") ELSE jobs[v]
  <1>1. viewings[v] \in Viewing /\ jobs[v] \in Job
    BY LeftAlone DEF Row
  <1>2. viewing \in Viewing /\ viewing.state = "DISPUTED" /\ viewing.schedule = viewings[v].schedule
    BY <1>1 DEF Viewing
  <1>3. job \in Job /\ ~Open(job)
    BY <1>1, SettledJob
  <1>4. /\ disputed \in Seq(Claim) /\ DOMAIN disputed = DOMAIN made
        /\ \A i \in DOMAIN made : disputed[i].schedule = made[i].schedule
    BY DisputedClaims
  <1>5. disputed # <<>>
    BY <1>4
  <1>6. /\ viewings' = [viewings EXCEPT ![v] = viewing] /\ claims' = [claims EXCEPT ![v] = disputed]
        /\ outcomes' = [outcomes EXCEPT ![v] = "DISPUTED"] /\ jobs' = [jobs EXCEPT ![v] = job]
    BY DEF Dispute
  <1>. HIDE DEF viewing, disputed, job
  <1>7. Row(viewing, disputed, "DISPUTED", job)
    BY <1>2, <1>3, <1>4, <1>5 DEF Row, Story, AnyOutcome
  <1>8. now' \in Nat
    BY DEF AInv
  <1>9. QED
    BY <1>6, <1>7, <1>8, OneViewing

(* finalize() leaves the outcome the first claim says, and no timer.        *)
LEMMA FinalizeKeeps ==
  ASSUME AInv, NEW v \in Viewings, NEW method \in {"CONFIRMED", "FINALIZED"}, NEW own \in BOOLEAN,
         outcomes[v] = "AWAITING_VALIDATION", Finalize(v, method, own), UNCHANGED now
  PROVE  AInv'
  <1>. DEFINE claimed == claims[v][1].outcome
              viewing == [viewings[v] EXCEPT !.state = claimed]
              first == [claims[v][1] EXCEPT !.state = method]
              made == [claims[v] EXCEPT ![1] = first]
              job == Settled(jobs[v], "PROCESSED")
  <1>1. /\ viewings[v] \in Viewing /\ jobs[v] \in Job /\ claims[v] \in Seq(Claim) /\ claims[v] # <<>>
        /\ \A i \in DOMAIN claims[v] : claims[v][i].schedule = viewings[v].schedule
    BY LeftAlone DEF Row, Story
  <1>2. 1 \in 1..Len(claims[v]) /\ claims[v][1] \in Claim /\ DOMAIN claims[v] = 1..Len(claims[v])
    BY <1>1
  <1>3. claimed \in Validated /\ first \in Claim /\ first.schedule = claims[v][1].schedule
    BY <1>2 DEF Claim
  <1>4. viewing \in Viewing /\ viewing.state = claimed /\ viewing.schedule = viewings[v].schedule
    BY <1>1, <1>3 DEF Viewing
  <1>5. job \in Job /\ ~Open(job)
    BY <1>1, SettledJob
  <1>6. /\ made \in Seq(Claim) /\ Len(made) = Len(claims[v])
        /\ \A i \in 1..Len(claims[v]) : made[i] = IF i = 1 THEN first ELSE claims[v][i]
    BY <1>1, <1>2, <1>3, ExceptSeq
  <1>7. /\ viewings' = [viewings EXCEPT ![v] = viewing] /\ claims' = [claims EXCEPT ![v] = made]
        /\ outcomes' = [outcomes EXCEPT ![v] = claimed] /\ jobs' = [jobs EXCEPT ![v] = job]
    BY DEF Finalize
  <1>. HIDE DEF claimed, viewing, first, made, job
  <1>8. made # <<>> /\ \A i \in DOMAIN made : made[i].schedule = viewing.schedule
    BY <1>1, <1>2, <1>3, <1>4, <1>6
  <1>9. Row(viewing, made, claimed, job)
    BY <1>3, <1>4, <1>5, <1>6, <1>8 DEF Row, Story, AnyOutcome, Validated
  <1>10. now' \in Nat
    BY DEF AInv
  <1>11. QED
    BY <1>7, <1>9, <1>10, OneViewing

(* A first claim starts the timer, a second one is a dispute.               *)
LEMMA ClaimKeeps ==
  ASSUME AInv, NEW v \in Viewings, NEW side \in Sides, NEW outcome \in Outcomes,
         ClaimAttendance(v, side, outcome)
  PROVE  AInv'
  <1>. DEFINE claim == [side |-> side, outcome |-> outcome, deadline |-> now + Response,
                        schedule |-> viewings[v].schedule, state |-> "PENDING"]
              job == [NoJob EXCEPT !.state = "PENDING", !.due = claim.deadline]
  <1>1. /\ viewings[v] \in Viewing /\ claims[v] \in Seq(Claim) /\ outcomes[v] \in AnyOutcome
        /\ claims[v] = <<>> <=> outcomes[v] = "NONE"
        /\ \A i \in DOMAIN claims[v] : claims[v][i].schedule = viewings[v].schedule
    BY LeftAlone DEF Row, Story
  <1>2. now + Response \in Nat /\ outcome \in Validated /\ viewings[v].schedule \in Nat
    BY <1>1, TimesAssumption DEF AInv, Validated, Viewing
  <1>3. claim \in Claim
    BY <1>2 DEF Claim
  <1>4. UNCHANGED now /\ viewings[v].state = "SCHEDULED"
    BY DEF ClaimAttendance, MayClaim, schedule
  <1>5. CASE outcomes[v] = "NONE"
    <2>1. /\ viewings' = [viewings EXCEPT ![v] = viewings[v]] /\ claims' = [claims EXCEPT ![v] = <<claim>>]
          /\ outcomes' = [outcomes EXCEPT ![v] = "AWAITING_VALIDATION"]
          /\ jobs' = [jobs EXCEPT ![v] = job]
      BY <1>5, LeftAlone DEF ClaimAttendance
    <2>2. job \in Job /\ Open(job) /\ job.due = claim.deadline
      BY <1>2 DEF Job, NoJob, Open
    <2>3. /\ <<claim>> \in Seq(Claim) /\ <<claim>> # <<>> /\ <<claim>>[1] = claim
          /\ Len(<<claim>>) = 1
          /\ \A i \in DOMAIN <<claim>> : <<claim>>[i] = claim
      BY <1>3
    <2>4. claim.schedule = viewings[v].schedule /\ claim.state = "PENDING"
      OBVIOUS
    <2>. HIDE DEF claim, job
    <2>5. Row(viewings[v], <<claim>>, "AWAITING_VALIDATION", job)
      BY <1>1, <1>4, <2>2, <2>3, <2>4 DEF Row, Story, AnyOutcome
    <2>6. now' \in Nat
      BY <1>4 DEF AInv
    <2>7. QED
      BY <2>1, <2>5, <2>6, OneViewing
  <1>6. CASE outcomes[v] # "NONE"
    <2>. DEFINE made == Append(claims[v], claim)
    <2>1. Dispute(v, made)
      BY <1>6 DEF ClaimAttendance
    <2>2. claim.schedule = viewings[v].schedule
      OBVIOUS
    <2>. HIDE DEF claim
    <2>3. /\ made \in Seq(Claim) /\ made # <<>> /\ DOMAIN made = 1..Len(claims[v]) + 1
          /\ \A i \in 1..Len(claims[v]) : made[i] = claims[v][i]
          /\ made[Len(claims[v]) + 1] = claim
      BY <1>1, <1>3, AppendProperties
    <2>. HIDE DEF made
    <2>4. \A i \in DOMAIN made : made[i].schedule = viewings[v].schedule
      BY <1>1, <2>2, <2>3
    <2>5. QED
      BY <1>4, <2>1, <2>3, <2>4, DisputeKeeps
  <1>7. QED
    BY <1>5, <1>6

LEMMA ParticipantsKeep ==
  ASSUME AInv, Participants
  PROVE  AInv'
  <1>1. PICK v \in Viewings, side \in Sides :
          \/ \E outcome \in Outcomes : ClaimAttendance(v, side, outcome)
          \/ \E own \in BOOLEAN : ConfirmAttendance(v, side, own)
          \/ DisputeAttendance(v, side)
    BY DEF Participants
  <1>2. ASSUME NEW outcome \in Outcomes, ClaimAttendance(v, side, outcome) PROVE AInv'
    BY <1>2, ClaimKeeps
  <1>3. ASSUME NEW own \in BOOLEAN, ConfirmAttendance(v, side, own) PROVE AInv'
    <2>1. /\ outcomes[v] = "AWAITING_VALIDATION" /\ Finalize(v, "CONFIRMED", own) /\ UNCHANGED now
      BY <1>3 DEF ConfirmAttendance, MayConfirm, schedule
    <2>2. QED
      BY <2>1, FinalizeKeeps
  <1>4. CASE DisputeAttendance(v, side)
    <2>1. DOMAIN claims[v] # {} /\ Dispute(v, claims[v]) /\ UNCHANGED now
      BY <1>4 DEF DisputeAttendance, schedule
    <2>2. /\ claims[v] \in Seq(Claim) /\ claims[v] # <<>>
          /\ \A i \in DOMAIN claims[v] : claims[v][i].schedule = viewings[v].schedule
      BY <2>1, LeftAlone DEF Row, Story
    <2>3. QED
      BY <2>1, <2>2, DisputeKeeps
  <1>5. QED
    BY <1>1, <1>2, <1>3, <1>4

-----------------------------------------------------------------------------
(* A step that writes jobs alone, and neither opens, closes nor moves one.  *)
LEMMA JobsKeep ==
  ASSUME AInv, UNCHANGED <<now, viewings, claims, outcomes>>,
         jobs' = [v \in Viewings |-> jobs'[v]],
         \A v \in Viewings : /\ jobs'[v] \in Job /\ jobs'[v].due = jobs[v].due
                             /\ Open(jobs'[v]) <=> Open(jobs[v])
  PROVE  AInv'
  <1>1. Functions'
    BY DEF AInv, Functions
  <1>2. ASSUME NEW v \in Viewings
        PROVE  Row(viewings[v], claims[v], outcomes[v], jobs'[v])
    <2>1. Row(viewings[v], claims[v], outcomes[v], jobs[v])
      BY LeftAlone
    <2>2. QED
      BY <2>1 DEF Row, Story
  <1>3. QED
    BY <1>1, <1>2 DEF AInv, Rows

LEMMA LeaseKeeps ==
  ASSUME AInv, NEW w \in Workers, Lease(w)
  PROVE  AInv'
  <1>1. /\ jobs' = [v \in Viewings |-> IF Due(v) THEN [jobs[v] EXCEPT !.state = "LEASED", !.token = w,
                                                        !.until = now + LeaseTime] ELSE jobs[v]]
        /\ UNCHANGED <<now, viewings, claims, outcomes>>
    BY DEF Lease, schedule, records
  <1>2. now + LeaseTime \in Nat
    BY TimesAssumption DEF AInv
  <1>3. ASSUME NEW v \in Viewings
        PROVE  /\ jobs'[v] \in Job /\ jobs'[v].due = jobs[v].due
               /\ Open(jobs'[v]) <=> Open(jobs[v])
    <2>1. jobs[v] \in Job
      BY LeftAlone DEF Row
    <2>2. CASE Due(v)
      BY <1>1, <1>2, <2>1, <2>2 DEF Due, Job, Open
    <2>3. CASE ~Due(v)
      BY <1>1, <2>1, <2>3
    <2>4. QED
      BY <2>2, <2>3
  <1>4. QED
    BY <1>1, <1>3, JobsKeep

(* A job given back, or put off to the deadline it has, stays open.         *)
LEMMA PendingKeeps ==
  ASSUME AInv, NEW v \in Viewings, UNCHANGED <<now, viewings, claims, outcomes>>,
         Open(jobs[v]),
         jobs' = [jobs EXCEPT ![v] = Settled(jobs[v], "PENDING")]
  PROVE  AInv'
  <1>1. \A u \in Viewings : jobs[u] \in Job
    BY LeftAlone DEF Row
  <1>2. /\ Settled(jobs[v], "PENDING") \in Job /\ Settled(jobs[v], "PENDING").due = jobs[v].due
        /\ Open(Settled(jobs[v], "PENDING"))
    BY <1>1, SettledJob
  <1>3. jobs = [u \in Viewings |-> jobs[u]]
    BY DEF AInv, Functions
  <1>4. \A u \in Viewings : jobs'[u] = IF u = v THEN Settled(jobs[v], "PENDING") ELSE jobs[u]
    BY <1>3
  <1>5. \A u \in Viewings : /\ jobs'[u] \in Job /\ jobs'[u].due = jobs[u].due
                            /\ Open(jobs'[u]) <=> Open(jobs[u])
    BY <1>1, <1>2, <1>4
  <1>6. jobs' = [u \in Viewings |-> jobs'[u]]
    BY <1>3
  <1>7. QED
    BY <1>5, <1>6, JobsKeep

LEMMA ReleaseKeeps ==
  ASSUME AInv, NEW w \in Workers, NEW v \in Viewings, ReleaseJob(w, v)
  PROVE  AInv'
  <1>1. UNCHANGED <<now, viewings, claims, outcomes>>
    BY DEF ReleaseJob, schedule, records
  <1>2. CASE Owns(w, v)
    <2>1. jobs' = [jobs EXCEPT ![v] = Settled(jobs[v], "PENDING")] /\ Open(jobs[v])
      BY <1>2 DEF ReleaseJob, Owns, Open
    <2>2. QED
      BY <1>1, <2>1, PendingKeeps
  <1>3. CASE ~Owns(w, v)
    <2>1. jobs' = jobs
      BY <1>3, LeftAlone DEF ReleaseJob
    <2>2. QED
      BY <1>1, <2>1 DEF AInv, Functions, Rows
  <1>4. QED
    BY <1>2, <1>3

(* Whoever holds a lease holds it on a claim that waits and is not          *)
(* contested, so a run closes a timer only with the claim.                  *)
LEMMA HandleKeeps ==
  ASSUME AInv, NEW w \in Workers, NEW v \in Viewings, NEW own \in BOOLEAN, HandleJob(w, v, own)
  PROVE  AInv'
  <1>1. Row(viewings[v], claims[v], outcomes[v], jobs[v])
    BY LeftAlone
  <1>2. Open(jobs[v]) /\ UNCHANGED now
    BY DEF HandleJob, Owns, Open, schedule
  <1>3. /\ outcomes[v] = "AWAITING_VALIDATION" /\ claims[v] # <<>> /\ claims[v] \in Seq(Claim)
        /\ jobs[v].due = claims[v][1].deadline /\ claims[v][1].state = "PENDING"
        /\ viewings[v].state = "SCHEDULED" /\ jobs[v] \in Job
        /\ \A i \in DOMAIN claims[v] : claims[v][i].schedule = viewings[v].schedule
    BY <1>1, <1>2 DEF Row, Story
  <1>4. 1 \in DOMAIN claims[v]
    BY <1>3
  <1>5. ~Contested(v)
    BY <1>3, <1>4 DEF Contested
  <1>6. CASE claims[v][1].deadline > now
    <2>1. /\ jobs' = [jobs EXCEPT ![v] = [Settled(jobs[v], "PENDING") EXCEPT !.due = claims[v][1].deadline]]
          /\ UNCHANGED <<viewings, claims, outcomes>>
      BY <1>5, <1>6 DEF HandleJob, records
    <2>2. [Settled(jobs[v], "PENDING") EXCEPT !.due = claims[v][1].deadline] = Settled(jobs[v], "PENDING")
      BY <1>3 DEF Settled, Job
    <2>3. QED
      BY <1>2, <2>1, <2>2, PendingKeeps
  <1>7. CASE ~(claims[v][1].deadline > now)
    <2>1. Finalize(v, "FINALIZED", own)
      BY <1>5, <1>7 DEF HandleJob
    <2>2. QED
      BY <1>2, <1>3, <2>1, FinalizeKeeps
  <1>8. QED
    BY <1>6, <1>7

LEMMA StepAInv == AInv /\ [Next]_vars => AInv'
  <1>. SUFFICES ASSUME AInv, [Next]_vars PROVE AInv'
    OBVIOUS
  <1>1. CASE Scheduling
    BY <1>1, SchedulingKeeps
  <1>2. CASE Participants
    BY <1>2, ParticipantsKeep
  <1>3. CASE Worker
    <2>1. PICK w \in Workers : Lease(w) \/ Handling(w) \/ Crash(w)
      BY <1>3 DEF Worker
    <2>2. CASE Lease(w)
      BY <2>2, LeaseKeeps
    <2>3. CASE Handling(w)
      <3>1. PICK v \in Viewings : ReleaseJob(w, v) \/ \E own \in BOOLEAN : HandleJob(w, v, own)
        BY <2>3 DEF Handling
      <3>2. QED
        BY <3>1, ReleaseKeeps, HandleKeeps
    <2>4. CASE Crash(w)
      BY <2>4 DEF Crash, schedule, records, AInv, Functions, Rows
    <2>5. QED
      BY <2>1, <2>2, <2>3, <2>4
  <1>4. CASE Tick
    <2>1. now' \in Nat
      BY <1>4 DEF Tick, AInv
    <2>2. QED
      BY <1>4, <2>1 DEF Tick, records, AInv, Functions, Rows
  <1>5. CASE EligibilityChanges
    BY <1>5 DEF EligibilityChanges, records, AInv, Functions, Rows
  <1>6. ASSUME NEW d \in Sides, SlotUsed(d) PROVE AInv'
    BY <1>6 DEF SlotUsed, schedule, AInv, Functions, Rows
  <1>7. CASE UNCHANGED vars
    BY <1>7 DEF vars, AInv, Functions, Rows
  <1>8. QED
    BY <1>1, <1>2, <1>3, <1>4, <1>5, <1>6, <1>7 DEF Next

LEMMA RowsTell ==
  ASSUME AInv
  PROVE  ClaimTimed /\ ClaimGoverns
  <1>1. ASSUME NEW v \in Viewings PROVE Story(viewings[v], claims[v], outcomes[v], jobs[v])
    BY LeftAlone DEF Row
  <1>2. QED
    BY <1>1 DEF Story, ClaimTimed, ClaimGoverns

(* A claim that waits for an answer always has its timer, due at its        *)
(* deadline, and no other viewing has one, however runs overlap and die     *)
(* (attendanceOnce and dispute of viewing-attendance.ts).                   *)
THEOREM ClaimTimedCorrect == Spec => []ClaimTimed
  BY InitAInv, StepAInv, RowsTell, PTL DEF Spec

-----------------------------------------------------------------------------
(* The read model.                                                          *)
LEMMA Offers ==
  ASSUME AInv
  PROVE  OffersKept
  <1>1. ASSUME NEW v \in Viewings, NEW side \in Sides, NEW outcome \in Validated,
               CanClaim(v, side, outcome)
        PROVE  MayClaim(v, side, outcome)
    <2>1. outcome # Absence(side)
      <3>1. Other(side) \in Sides /\ Other(side) # side
        BY DEF Other, Sides
      <3>2. QED
        BY <1>1, <3>1 DEF CanClaim, Absence, Sides
    <2>2. \A i \in DOMAIN claims[v] : claims[v][i].outcome # outcome
      <3>1. /\ claims[v] \in Seq(Claim) /\ claims[v] = <<>> <=> outcomes[v] = "NONE"
            /\ outcomes[v] = "AWAITING_VALIDATION" => Len(claims[v]) = 1
        BY LeftAlone DEF Row, Story
      <3>2. claims[v] # <<>> => Len(claims[v]) = 1 /\ claims[v][1].outcome # outcome
        BY <1>1, <3>1 DEF CanClaim
      <3>3. QED
        BY <3>1, <3>2
    <2>3. QED
      BY <1>1, <2>1, <2>2 DEF CanClaim, MayClaim
  <1>2. ASSUME NEW v \in Viewings, NEW side \in Sides, NEW i \in DOMAIN claims[v]
        PROVE  /\ CanConfirm(v, side, i) => MayConfirm(v, side, i)
               /\ CanDispute(v, side, i) => MayDispute(v, side, i)
    BY DEF CanConfirm, MayConfirm, CanDispute, MayDispute, MayRespond, OfferedResponse
  <1>3. QED
    BY <1>1, <1>2 DEF OffersKept

(* What the read model offers a side, the command accepts: it compares the  *)
(* outcome with the first claim alone, which is every claim while one is    *)
(* awaited (viewing-attendance.ts 95-123 and 159-216).                      *)
THEOREM OffersKeptCorrect == Spec => []OffersKept
  BY InitAInv, StepAInv, Offers, PTL DEF Spec

-----------------------------------------------------------------------------
(* Staff.  A case is about an outcome that was disputed; no step of the     *)
(* participants or the worker makes that an outcome to be awaited again.    *)
Unanswered == {"NONE", "AWAITING_VALIDATION"}

LEMMA DisputedForGood ==
  ASSUME AInv, [Next]_vars, NEW v \in Viewings, outcomes[v] \notin Unanswered
  PROVE  outcomes'[v] \notin Unanswered
  <1>. USE DEF Unanswered
  <1>0. outcomes = [u \in Viewings |-> outcomes[u]]
    BY DEF AInv, Functions
  <1>a. ASSUME NEW u \in Viewings, NEW made, Dispute(u, made) PROVE outcomes'[v] \notin Unanswered
    BY <1>0, <1>a DEF Dispute
  <1>b. ASSUME NEW u \in Viewings, outcomes[u] = "AWAITING_VALIDATION", UNCHANGED now,
               NEW method, NEW own, Finalize(u, method, own)
        PROVE  outcomes'[v] \notin Unanswered
    <2>1. outcomes' = [outcomes EXCEPT ![u] = claims[u][1].outcome]
      BY <1>b DEF Finalize
    <2>2. u # v
      BY <1>b
    <2>3. QED
      BY <1>0, <2>1, <2>2
  <1>1. CASE Scheduling
    <2>1. UNCHANGED outcomes
      BY <1>1 DEF Scheduling, Request, Cancel, Agree, Reschedule, Moved
    <2>2. QED
      BY <2>1
  <1>2. CASE Participants
    <2>1. PICK u \in Viewings, side \in Sides :
            \/ \E outcome \in Outcomes : ClaimAttendance(u, side, outcome)
            \/ \E own \in BOOLEAN : ConfirmAttendance(u, side, own)
            \/ DisputeAttendance(u, side)
      BY <1>2 DEF Participants
    <2>2. ASSUME NEW outcome \in Outcomes, ClaimAttendance(u, side, outcome)
          PROVE  outcomes'[v] \notin Unanswered
      <3>1. CASE outcomes[u] = "NONE"
        BY <1>0, <2>2, <3>1 DEF ClaimAttendance
      <3>2. CASE outcomes[u] # "NONE"
        BY <1>a, <2>2, <3>2 DEF ClaimAttendance
      <3>3. QED
        BY <3>1, <3>2
    <2>3. ASSUME NEW own \in BOOLEAN, ConfirmAttendance(u, side, own)
          PROVE  outcomes'[v] \notin Unanswered
      BY <1>b, <2>3 DEF ConfirmAttendance, MayConfirm, schedule
    <2>4. CASE DisputeAttendance(u, side)
      BY <1>a, <2>4 DEF DisputeAttendance
    <2>5. QED
      BY <2>1, <2>2, <2>3, <2>4
  <1>3. CASE Worker
    <2>1. PICK w \in Workers : Lease(w) \/ Handling(w) \/ Crash(w)
      BY <1>3 DEF Worker
    <2>2. CASE Lease(w) \/ Crash(w)
      BY <2>2 DEF Lease, Crash, records
    <2>3. CASE Handling(w)
      <3>1. PICK u \in Viewings : ReleaseJob(w, u) \/ \E own \in BOOLEAN : HandleJob(w, u, own)
        BY <2>3 DEF Handling
      <3>2. CASE ReleaseJob(w, u)
        BY <3>2 DEF ReleaseJob, records
      <3>3. ASSUME NEW own \in BOOLEAN, HandleJob(w, u, own) PROVE outcomes'[v] \notin Unanswered
        <4>1. UNCHANGED outcomes \/ (~Contested(u) /\ Finalize(u, "FINALIZED", own) /\ UNCHANGED now)
          BY <3>3 DEF HandleJob, records, schedule
        <4>2. QED
          BY <1>b, <4>1 DEF Contested
      <3>4. QED
        BY <3>1, <3>2, <3>3
    <2>4. QED
      BY <2>1, <2>2, <2>3
  <1>4. CASE Tick \/ EligibilityChanges \/ (\E d \in Sides : SlotUsed(d)) \/ UNCHANGED vars
    BY <1>4 DEF Tick, EligibilityChanges, SlotUsed, records, vars
  <1>5. QED
    BY <1>1, <1>2, <1>3, <1>4 DEF Next

(* Only once there is a first completed viewing are there slots, and only   *)
(* then does a slot get used: none is opened a second time.                 *)
SlotsOfBoundary == /\ slots = [d \in Sides |-> slots[d]]
                   /\ boundary.viewing = None => \A d \in Sides : slots[d] = "NONE"

Used(d) == slots[d] \notin {"NONE", "OPEN"}

LEMMA SlotsKept ==
  ASSUME SlotsOfBoundary, [Next]_vars
  PROVE  SlotsOfBoundary' /\ \A d \in Sides : Used(d) => Used(d)'
  <1>. DEFINE Goal == SlotsOfBoundary' /\ \A d \in Sides : Used(d) => Used(d)'
  <1>a. ASSUME UNCHANGED <<slots, boundary>> PROVE Goal
    BY <1>a DEF SlotsOfBoundary, Used
  <1>b. ASSUME NEW v \in Viewings, NEW made, Dispute(v, made) PROVE Goal
    <2>1. /\ UNCHANGED boundary
          /\ slots' = [d \in Sides |-> IF boundary.viewing = v /\ slots[d] = "OPEN" THEN "HELD" ELSE slots[d]]
      BY <1>b DEF Dispute
    <2>2. boundary.viewing = v => boundary.viewing # None
      BY NoneAssumption
    <2>3. QED
      BY <2>1, <2>2 DEF SlotsOfBoundary, Used
  <1>c. ASSUME NEW v \in Viewings, NEW method, NEW own \in BOOLEAN, Finalize(v, method, own) PROVE Goal
    <2>1. ReviewBoundary(v, own) \/ UNCHANGED <<slots, boundary>>
      BY <1>c DEF Finalize
    <2>2. CASE ReviewBoundary(v, own) /\ boundary.viewing = None
      <3>1. boundary' = [viewing |-> v, state |-> IF own THEN "HELD" ELSE "OPEN"]
        BY <2>2 DEF ReviewBoundary
      <3>2. boundary'.viewing # None
        BY <3>1, NoneAssumption
      <3>3. slots' = IF own THEN slots ELSE [d \in Sides |-> "OPEN"]
        BY <2>2 DEF ReviewBoundary
      <3>4. QED
        BY <2>2, <3>2, <3>3 DEF SlotsOfBoundary, Used
    <2>3. CASE ReviewBoundary(v, own) /\ boundary.viewing # None
      BY <1>a, <2>3 DEF ReviewBoundary
    <2>4. QED
      BY <1>a, <2>1, <2>2, <2>3
  <1>1. CASE Scheduling
    <2>1. UNCHANGED <<slots, boundary>>
      BY <1>1 DEF Scheduling, Request, Cancel, Agree, Reschedule, Moved
    <2>2. QED
      BY <1>a, <2>1
  <1>2. CASE Participants
    <2>1. PICK v \in Viewings, side \in Sides :
            \/ \E outcome \in Outcomes : ClaimAttendance(v, side, outcome)
            \/ \E own \in BOOLEAN : ConfirmAttendance(v, side, own)
            \/ DisputeAttendance(v, side)
      BY <1>2 DEF Participants
    <2>2. ASSUME NEW outcome \in Outcomes, ClaimAttendance(v, side, outcome) PROVE Goal
      <3>1. CASE outcomes[v] = "NONE"
        BY <1>a, <2>2, <3>1 DEF ClaimAttendance
      <3>2. CASE outcomes[v] # "NONE"
        BY <1>b, <2>2, <3>2 DEF ClaimAttendance
      <3>3. QED
        BY <3>1, <3>2
    <2>3. ASSUME NEW own \in BOOLEAN, ConfirmAttendance(v, side, own) PROVE Goal
      BY <1>c, <2>3 DEF ConfirmAttendance
    <2>4. CASE DisputeAttendance(v, side)
      BY <1>b, <2>4 DEF DisputeAttendance
    <2>5. QED
      BY <2>1, <2>2, <2>3, <2>4
  <1>3. CASE Worker
    <2>1. PICK w \in Workers : Lease(w) \/ Handling(w) \/ Crash(w)
      BY <1>3 DEF Worker
    <2>2. CASE Lease(w) \/ Crash(w)
      BY <1>a, <2>2 DEF Lease, Crash, records
    <2>3. CASE Handling(w)
      <3>1. PICK v \in Viewings : ReleaseJob(w, v) \/ \E own \in BOOLEAN : HandleJob(w, v, own)
        BY <2>3 DEF Handling
      <3>2. CASE ReleaseJob(w, v)
        BY <1>a, <3>2 DEF ReleaseJob, records
      <3>3. ASSUME NEW own \in BOOLEAN, HandleJob(w, v, own) PROVE Goal
        <4>1. UNCHANGED <<slots, boundary>> \/ Finalize(v, "FINALIZED", own)
          BY <3>3 DEF HandleJob, records
        <4>2. QED
          BY <1>a, <1>c, <4>1
      <3>4. QED
        BY <3>1, <3>2, <3>3
    <2>4. QED
      BY <2>1, <2>2, <2>3
  <1>4. CASE Tick \/ EligibilityChanges \/ UNCHANGED vars
    BY <1>a, <1>4 DEF Tick, EligibilityChanges, records, vars
  <1>5. ASSUME NEW d \in Sides, SlotUsed(d) PROVE Goal
    <2>1. PICK state \in {"CONSUMED", "EXPIRED"} : slots' = [slots EXCEPT ![d] = state]
      BY <1>5 DEF SlotUsed
    <2>2. slots[d] = "OPEN" /\ UNCHANGED boundary
      BY <1>5 DEF SlotUsed
    <2>3. QED
      BY <2>1, <2>2 DEF SlotsOfBoundary, Used
  <1>6. QED
    BY <1>1, <1>2, <1>3, <1>4, <1>5 DEF Next

(* What holds of cases, staff and used slots.                               *)
StaffInv == /\ reviewers \subseteq Staff
            /\ cases = [v \in Viewings |-> cases[v]]
            /\ \A v \in Viewings : cases[v] # NoCase => outcomes[v] \notin Unanswered
            /\ consumed \subseteq Sides /\ \A d \in consumed : Used(d)

JInv == AInv /\ SlotsOfBoundary /\ StaffInv

LEMMA InitJInv == AdjudicationInit => JInv
  <1>. SUFFICES ASSUME AdjudicationInit PROVE JInv
    OBVIOUS
  <1>1. AInv
    BY InitAInv DEF AdjudicationInit
  <1>2. SlotsOfBoundary
    BY DEF AdjudicationInit, Init, SlotsOfBoundary
  <1>3. StaffInv
    BY DEF AdjudicationInit, StaffInv
  <1>4. QED
    BY <1>1, <1>2, <1>3 DEF JInv

LEMMA AttendanceStep ==
  ASSUME JInv, Attendance
  PROVE  JInv' /\ \A d \in consumed : slots'[d] # "OPEN"
  <1>1. [Next]_vars
    BY DEF Attendance
  <1>2. AInv' /\ SlotsOfBoundary' /\ \A d \in Sides : Used(d) => Used(d)'
    BY <1>1, StepAInv, SlotsKept DEF JInv
  <1>3. ASSUME NEW v \in Viewings, cases'[v] # NoCase
        PROVE  outcomes'[v] \notin Unanswered
    <2>1. outcomes'[v] = "DISPUTED" \/ cases[v] # NoCase
      BY <1>3 DEF Attendance
    <2>2. QED
      BY <1>1, <2>1, DisputedForGood DEF JInv, StaffInv, Unanswered
  <1>4. \A d \in consumed' : Used(d)'
    BY <1>2 DEF Attendance, JInv, StaffInv, Used
  <1>5. StaffInv'
    <2>1. /\ reviewers' \subseteq Staff /\ cases' = [v \in Viewings |-> cases'[v]]
          /\ consumed' \subseteq Sides
      BY DEF Attendance, JInv, StaffInv
    <2>2. QED
      BY <1>3, <1>4, <2>1 DEF StaffInv
  <1>6. \A d \in consumed : slots'[d] # "OPEN"
    BY <1>2 DEF JInv, StaffInv, Used
  <1>7. QED
    BY <1>2, <1>5, <1>6 DEF JInv

(* Steps of staff that write cases and appeals alone.                       *)
LEMMA CasesAlone ==
  ASSUME JInv, UNCHANGED <<vars, consumed>>, reviewers' \subseteq Staff,
         cases' = [v \in Viewings |-> cases'[v]],
         \A v \in Viewings : cases'[v] # NoCase => cases[v] # NoCase
  PROVE  JInv' /\ \A d \in consumed : slots'[d] # "OPEN"
  <1>1. /\ UNCHANGED <<now, viewings, claims, outcomes, jobs, slots, boundary>>
    BY DEF vars
  <1>2. AInv' /\ SlotsOfBoundary'
    BY <1>1 DEF JInv, AInv, Functions, Rows, SlotsOfBoundary
  <1>3. StaffInv' /\ \A d \in consumed : slots'[d] # "OPEN"
    BY <1>1 DEF JInv, StaffInv, Used
  <1>4. QED
    BY <1>2, <1>3 DEF JInv

(* A decision is about an outcome that was disputed: it has claims and no   *)
(* timer, and it writes the outcome and the viewing together.               *)
LEMMA EffectKeepsRows ==
  ASSUME JInv, NEW v \in Viewings, cases[v] # NoCase,
         NEW outcome \in Outcomes \cup {"ATTENDANCE_UNCONFIRMED"}, NEW own \in BOOLEAN,
         Effect(v, outcome, own)
  PROVE  AInv' /\ outcome \notin Unanswered
  <1>. DEFINE viewing == [viewings[v] EXCEPT !.state = outcome]
  <1>1. Row(viewings[v], claims[v], outcomes[v], jobs[v]) /\ AInv
    BY LeftAlone DEF JInv
  <1>2. outcomes[v] \notin Unanswered
    BY DEF JInv, StaffInv
  <1>3. outcome \in AnyOutcome /\ outcome \notin Unanswered
    BY TimesAssumption DEF AnyOutcome, Validated, Unanswered
  <1>4. viewing \in Viewing /\ viewing.state = outcome /\ viewing.schedule = viewings[v].schedule
    <2>1. viewings[v] \in Viewing
      BY <1>1 DEF Row
    <2>2. outcome \in {"ATTENDANCE_UNCONFIRMED"} \cup Validated
      BY TimesAssumption DEF Validated
    <2>3. QED
      BY <2>1, <2>2 DEF Viewing
  <1>5. /\ viewings' = [viewings EXCEPT ![v] = viewing] /\ claims' = [claims EXCEPT ![v] = claims[v]]
        /\ outcomes' = [outcomes EXCEPT ![v] = outcome] /\ jobs' = [jobs EXCEPT ![v] = jobs[v]]
        /\ now' \in Nat
    BY <1>1, LeftAlone DEF Effect, AInv
  <1>. HIDE DEF viewing
  <1>6. Row(viewing, claims[v], outcome, jobs[v])
    BY <1>1, <1>2, <1>3, <1>4 DEF Row, Story, Unanswered
  <1>7. QED
    BY <1>1, <1>3, <1>5, <1>6, OneViewing

(* A decision revokes a used slot, or leaves it used.                       *)
LEMMA UsedDecided ==
  ASSUME NEW v, NEW outcome, NEW opened, NEW open, NEW d \in Sides, d \in consumed, open[d] # "NONE"
  PROVE  SlotsDecided(v, outcome, opened, open)[d] \in {"REVOKED", "CONSUMED", open[d]}
  BY DEF SlotsDecided

LEMMA EffectKeepsSlots ==
  ASSUME JInv, NEW v \in Viewings,
         NEW outcome \in Outcomes \cup {"ATTENDANCE_UNCONFIRMED"}, NEW own \in BOOLEAN,
         Effect(v, outcome, own)
  PROVE  SlotsOfBoundary' /\ \A d \in consumed : Used(d)'
  <1>. DEFINE opens == outcome = "COMPLETED" /\ boundary.viewing = None
              after == IF opens THEN [viewing |-> v, state |-> IF own THEN "HELD" ELSE "OPEN"]
                                ELSE boundary
              open == [d \in Sides |-> IF opens /\ ~(opens /\ own) THEN "OPEN" ELSE slots[d]]
              decided == SlotsDecided(v, outcome, after.viewing, open)
  <1>1. boundary' = after /\ slots' = IF after.viewing = None THEN slots ELSE decided
    BY DEF Effect
  <1>2. /\ slots = [d \in Sides |-> slots[d]]
        /\ boundary.viewing = None => \A d \in Sides : slots[d] = "NONE"
        /\ consumed \subseteq Sides /\ \A d \in consumed : slots[d] \notin {"NONE", "OPEN"}
    BY DEF JInv, SlotsOfBoundary, StaffInv, Used
  <1>3. decided = [d \in Sides |-> decided[d]]
    BY DEF SlotsDecided
  <1>4. SlotsOfBoundary'
    <2>1. slots' = [d \in Sides |-> slots'[d]]
      <3>. HIDE DEF decided, after
      <3>1. slots' = slots \/ slots' = decided
        BY <1>1
      <3>2. QED
        BY <1>2, <1>3, <3>1
    <2>2. after.viewing = None => boundary.viewing = None
      <3>1. v # None
        BY NoneAssumption
      <3>2. CASE opens
        OBVIOUS
      <3>3. CASE ~opens
        BY <3>3
      <3>4. QED
        BY <3>2, <3>3
    <2>3. QED
      BY <1>1, <1>2, <2>1, <2>2 DEF SlotsOfBoundary
  <1>5. ASSUME NEW d \in consumed
        PROVE  slots'[d] \notin {"NONE", "OPEN"}
    <2>1. d \in Sides /\ boundary.viewing # None
      BY <1>2, <1>5
    <2>a. ~opens /\ open[d] = slots[d]
      BY <2>1
    <2>2. decided[d] \in {"REVOKED", "CONSUMED", open[d]}
      <3>1. open[d] # "NONE"
        BY <1>2, <1>5, <2>a
      <3>. HIDE DEF open, after
      <3>2. QED
        BY <1>5, <2>1, <3>1, UsedDecided
    <2>3. slots'[d] \in {slots[d], decided[d]}
      BY <1>1
    <2>. HIDE DEF open, after, decided
    <2>4. QED
      BY <1>2, <1>5, <2>a, <2>2, <2>3
  <1>6. QED
    BY <1>4, <1>5 DEF Used

LEMMA EffectStep ==
  ASSUME JInv, NEW v \in Viewings, NEW actor \in Staff, Allowed(v, actor),
         NEW outcome \in Outcomes \cup {"ATTENDANCE_UNCONFIRMED"}, NEW own \in BOOLEAN,
         Effect(v, outcome, own),
         \A u \in Viewings \ {v} : cases'[u] = cases[u], cases' = [u \in Viewings |-> cases'[u]]
  PROVE  JInv' /\ \A d \in consumed : slots'[d] # "OPEN"
  <1>1. cases[v] # NoCase
    BY StaffAssumption DEF Allowed, NoCase
  <1>2. AInv' /\ outcome \notin Unanswered
    BY <1>1, EffectKeepsRows
  <1>3. SlotsOfBoundary' /\ \A d \in consumed : Used(d)'
    BY EffectKeepsSlots
  <1>4. /\ outcomes' = [outcomes EXCEPT ![v] = outcome] /\ outcomes = [u \in Viewings |-> outcomes[u]]
        /\ UNCHANGED <<reviewers, consumed>>
    BY DEF Effect, JInv, AInv, Functions
  <1>6. ASSUME NEW u \in Viewings, cases'[u] # NoCase PROVE outcomes'[u] \notin Unanswered
    <2>1. CASE u = v
      BY <1>2, <1>4, <2>1
    <2>2. CASE u # v
      BY <1>4, <1>6, <2>2 DEF JInv, StaffInv
    <2>3. QED
      BY <2>1, <2>2
  <1>7. StaffInv'
    BY <1>3, <1>4, <1>6 DEF JInv, StaffInv
  <1>8. QED
    BY <1>2, <1>3, <1>7 DEF JInv, Used

LEMMA StaffStep ==
  ASSUME JInv, [AdjudicationNext]_allVars
  PROVE  JInv' /\ \A d \in consumed : slots'[d] # "OPEN"
  <1>. DEFINE Goal == JInv' /\ \A d \in consumed : slots'[d] # "OPEN"
  <1>0. reviewers \subseteq Staff /\ cases = [v \in Viewings |-> cases[v]]
    BY DEF JInv, StaffInv
  <1>1. CASE Attendance
    BY <1>1, AttendanceStep
  <1>2. ASSUME NEW v \in Viewings, NEW actor \in Staff, NEW assignee \in Staff,
               Assign(v, actor, assignee)
        PROVE  Goal
    <2>1. UNCHANGED <<vars, reviewers, consumed>> /\ cases[v] # NoCase
      BY <1>2 DEF Assign, OnlyCase, NoCase
    <2>2. PICK row : cases' = [cases EXCEPT ![v] = row]
      BY <1>2 DEF Assign, OnlyCase
    <2>3. QED
      BY <1>0, <2>1, <2>2, CasesAlone
  <1>3. ASSUME NEW v \in Viewings, NEW actor \in Staff, BeginInvestigation(v, actor)
        PROVE  Goal
    <2>1. UNCHANGED <<vars, reviewers, consumed>> /\ cases[v] # NoCase
      BY <1>3 DEF BeginInvestigation, OnlyCase, NoCase
    <2>2. PICK row : cases' = [cases EXCEPT ![v] = row]
      BY <1>3 DEF BeginInvestigation, OnlyCase
    <2>3. QED
      BY <1>0, <2>1, <2>2, CasesAlone
  <1>4. ASSUME NEW v \in Viewings, NEW actor \in Staff, NEW own \in BOOLEAN,
               NEW outcome \in Outcomes \cup {"ATTENDANCE_UNCONFIRMED"},
               Decide(v, actor, outcome, own) \/ \E side \in Sides : ResolveAppeal(v, side, actor, outcome, own)
        PROVE  Goal
    <2>1. Allowed(v, actor) /\ Effect(v, outcome, own)
      BY <1>4 DEF Decide, ResolveAppeal
    <2>2. /\ cases' = [u \in Viewings |-> cases'[u]]
          /\ \A u \in Viewings \ {v} : cases'[u] = cases[u]
      BY <1>0, <1>4 DEF Decide, ResolveAppeal
    <2>3. QED
      BY <2>1, <2>2, EffectStep
  <1>5. CASE GrantsChange
    <2>1. reviewers' \subseteq Staff
      BY <1>0, <1>5 DEF GrantsChange
    <2>2. UNCHANGED <<vars, cases, consumed>>
      BY <1>5 DEF GrantsChange
    <2>3. QED
      BY <1>0, <2>1, <2>2, CasesAlone
  <1>6. ASSUME NEW v \in Viewings, NEW side \in Sides, SubmitAppeal(v, side) PROVE Goal
    <2>1. UNCHANGED <<vars, reviewers, cases, consumed>>
      BY <1>6 DEF SubmitAppeal
    <2>2. QED
      BY <1>0, <2>1, CasesAlone
  <1>7. CASE UNCHANGED allVars
    <2>1. UNCHANGED <<vars, reviewers, cases, consumed>>
      BY <1>7 DEF allVars, workflow
    <2>2. QED
      BY <1>0, <2>1, CasesAlone
  <1>8. QED
    BY <1>1, <1>2, <1>3, <1>4, <1>5, <1>6, <1>7 DEF AdjudicationNext, Adjudication

(* Whatever staff decide, and in whatever order with claims, answers and    *)
(* appeals: an appointment with a claim is never moved or cancelled, and    *)
(* the viewing, its outcome and its claims tell one story (dispute and      *)
(* finalize of viewing-attendance.ts, command of                            *)
(* attendance-adjudication.ts).                                             *)
THEOREM ClaimGovernsCorrect == AdjudicationSpec => []ClaimGoverns
  <1>1. JInv /\ [AdjudicationNext]_allVars => JInv'
    BY StaffStep
  <1>2. JInv => ClaimGoverns
    BY RowsTell DEF JInv
  <1>3. QED
    BY InitJInv, <1>1, <1>2, PTL DEF AdjudicationSpec

(* A review slot that was used is never opened again, by no decision,       *)
(* appeal or completion (attendance-adjudication.ts 200).                   *)
THEOREM ConsumedCorrect == AdjudicationSpec => ConsumedForGood
  <1>1. JInv /\ [AdjudicationNext]_allVars => JInv'
    BY StaffStep
  <1>2. JInv /\ [AdjudicationNext]_allVars => [\A d \in consumed : slots'[d] # "OPEN"]_allVars
    BY StaffStep
  <1>3. QED
    BY InitJInv, <1>1, <1>2, PTL DEF AdjudicationSpec, ConsumedForGood
-----------------------------------------------------------------------------
(* What hangs on an outcome.  A step of attendance is one of five as far as *)
(* outcomes, absences and review slots are concerned.                       *)
FirstClaim(v) == /\ outcomes[v] = "NONE"
                 /\ outcomes' = [outcomes EXCEPT ![v] = "AWAITING_VALIDATION"]
                 /\ UNCHANGED <<noShows, boundary, slots>>

Validation(v) == /\ outcomes[v] = "AWAITING_VALIDATION" /\ claims[v][1].outcome \in Validated
                 /\ \E method \in {"CONFIRMED", "FINALIZED"}, own \in BOOLEAN : Finalize(v, method, own)

LEMMA StepKinds ==
  ASSUME AInv, [Next]_vars
  PROVE  \/ UNCHANGED <<outcomes, noShows, boundary, slots>>
         \/ \E v \in Viewings : FirstClaim(v) \/ Validation(v) \/ \E made : Dispute(v, made)
         \/ \E d \in Sides : SlotUsed(d)
  <1>. DEFINE Goal == \/ UNCHANGED <<outcomes, noShows, boundary, slots>>
                      \/ \E v \in Viewings : FirstClaim(v) \/ Validation(v) \/ \E made : Dispute(v, made)
                      \/ \E d \in Sides : SlotUsed(d)
  <1>a. ASSUME NEW v \in Viewings, outcomes[v] = "AWAITING_VALIDATION"
        PROVE  claims[v][1].outcome \in Validated
    <2>1. claims[v] \in Seq(Claim) /\ Len(claims[v]) = 1
      BY <1>a, LeftAlone DEF Row, Story
    <2>2. claims[v][1] \in Claim
      BY <2>1
    <2>3. QED
      BY <2>2 DEF Claim
  <1>1. CASE Scheduling
    <2>1. UNCHANGED <<outcomes, noShows, boundary, slots>>
      BY <1>1 DEF Scheduling, Request, Cancel, Agree, Reschedule, Moved
    <2>2. QED
      BY <2>1
  <1>2. CASE Participants
    <2>1. PICK v \in Viewings, side \in Sides :
            \/ \E outcome \in Outcomes : ClaimAttendance(v, side, outcome)
            \/ \E own \in BOOLEAN : ConfirmAttendance(v, side, own)
            \/ DisputeAttendance(v, side)
      BY <1>2 DEF Participants
    <2>2. ASSUME NEW outcome \in Outcomes, ClaimAttendance(v, side, outcome) PROVE Goal
      <3>1. CASE outcomes[v] = "NONE"
        BY <2>2, <3>1 DEF ClaimAttendance, FirstClaim
      <3>2. CASE outcomes[v] # "NONE"
        BY <2>2, <3>2 DEF ClaimAttendance
      <3>3. QED
        BY <3>1, <3>2
    <2>3. ASSUME NEW own \in BOOLEAN, ConfirmAttendance(v, side, own) PROVE Goal
      BY <1>a, <2>3 DEF ConfirmAttendance, MayConfirm, Validation
    <2>4. CASE DisputeAttendance(v, side)
      BY <2>4 DEF DisputeAttendance
    <2>5. QED
      BY <2>1, <2>2, <2>3, <2>4
  <1>3. CASE Worker
    <2>1. PICK w \in Workers : Lease(w) \/ Handling(w) \/ Crash(w)
      BY <1>3 DEF Worker
    <2>2. CASE Lease(w) \/ Crash(w)
      BY <2>2 DEF Lease, Crash, records
    <2>3. CASE Handling(w)
      <3>1. PICK v \in Viewings : ReleaseJob(w, v) \/ \E own \in BOOLEAN : HandleJob(w, v, own)
        BY <2>3 DEF Handling
      <3>2. CASE ReleaseJob(w, v)
        BY <3>2 DEF ReleaseJob, records
      <3>3. ASSUME NEW own \in BOOLEAN, HandleJob(w, v, own) PROVE Goal
        <4>1. \/ UNCHANGED <<outcomes, noShows, boundary, slots>>
              \/ ~Contested(v) /\ Finalize(v, "FINALIZED", own)
          BY <3>3 DEF HandleJob, records
        <4>2. QED
          BY <1>a, <4>1 DEF Contested, Validation
      <3>4. QED
        BY <3>1, <3>2, <3>3
    <2>4. QED
      BY <2>1, <2>2, <2>3
  <1>4. CASE Tick \/ EligibilityChanges \/ (\E d \in Sides : SlotUsed(d)) \/ UNCHANGED vars
    BY <1>4 DEF Tick, EligibilityChanges, records, vars
  <1>5. QED
    BY <1>1, <1>2, <1>3, <1>4 DEF Next

(* A case begins with a dispute and is never empty again; an absence is on  *)
(* record until its viewing has one; the slots follow the first completed   *)
(* viewing, which is not awaited again.                                     *)
Case == [state : {"NONE", "OPEN", "TRIAGED", "UNDER_REVIEW", "RESOLVED"},
         assignee : Staff \cup {NoStaff}, original : AnyOutcome,
         author : Staff \cup {NoStaff}, decided : Nat, appealed : BOOLEAN]

CaseRows == \A v \in Viewings : cases[v] \in Case /\ (cases[v].state = "NONE" => cases[v] = NoCase)

AbsenceRecorded(v) ==
  noShows[v] = "VALID" <=> cases[v] = NoCase /\ outcomes[v] \in {"SEEKER_NO_SHOW", "PROVIDER_NO_SHOW"}

Absences == /\ noShows = [v \in Viewings |-> noShows[v]]
            /\ \A v \in Viewings : AbsenceRecorded(v)

BoundaryRow == /\ boundary \in [viewing : Viewings \cup {None}, state : {"NONE", "OPEN", "HELD"}]
               /\ boundary.viewing = None <=> boundary.state = "NONE"
               /\ boundary.viewing # None => outcomes[boundary.viewing] \notin Unanswered
               /\ boundary.state = "OPEN" => \A d \in Sides : slots[d] # "NONE"

SlotsFollow ==
  boundary.state = "OPEN" =>
    LET effective == outcomes[boundary.viewing]
    IN  /\ effective = "DISPUTED" => \A d \in Sides : slots[d] # "OPEN"
        /\ effective \notin {"COMPLETED", "DISPUTED"} => \A d \in Sides : slots[d] = "REVOKED"
        /\ effective = "COMPLETED" /\ (\A v \in Viewings : outcomes[v] # "DISPUTED") =>
             \A d \in Sides : slots[d] \in {"OPEN", "CONSUMED", "EXPIRED"}

EInv == JInv /\ CaseRows /\ Absences /\ BoundaryRow /\ SlotsFollow

LEMMA InitEInv == AdjudicationInit => EInv
  <1>. SUFFICES ASSUME AdjudicationInit PROVE EInv
    OBVIOUS
  <1>1. JInv
    BY InitJInv
  <1>2. CaseRows
    BY DEF AdjudicationInit, CaseRows, Case, NoCase, AnyOutcome
  <1>3. Absences
    BY DEF AdjudicationInit, Init, Absences, AbsenceRecorded
  <1>4. BoundaryRow /\ SlotsFollow
    BY DEF AdjudicationInit, Init, BoundaryRow, SlotsFollow
  <1>5. QED
    BY <1>1, <1>2, <1>3, <1>4 DEF EInv

LEMMA CasesOpen ==
  ASSUME EInv, Attendance
  PROVE  /\ CaseRows'
         /\ \A v \in Viewings : \/ cases'[v] = cases[v]
                                \/ cases'[v] # NoCase /\ outcomes'[v] = "DISPUTED"
  <1>1. [NoCase EXCEPT !.state = "OPEN"] \in Case /\ [NoCase EXCEPT !.state = "OPEN"] # NoCase
        /\ [NoCase EXCEPT !.state = "OPEN"].state = "OPEN"
    BY DEF NoCase, Case, AnyOutcome
  <1>2. QED
    BY <1>1 DEF EInv, CaseRows, Attendance

(* The absence follows the outcome of its own viewing, step by step.        *)
LEMMA AbsencesFollow ==
  ASSUME EInv, Attendance
  PROVE  Absences'
  <1>0. /\ noShows = [v \in Viewings |-> noShows[v]] /\ outcomes = [v \in Viewings |-> outcomes[v]]
        /\ \A v \in Viewings : AbsenceRecorded(v)
        /\ \A v \in Viewings : cases[v] # NoCase => outcomes[v] \notin Unanswered
    BY DEF EInv, Absences, JInv, AInv, Functions, StaffInv
  <1>1. \A v \in Viewings : \/ cases'[v] = cases[v]
                            \/ cases'[v] # NoCase /\ outcomes'[v] = "DISPUTED"
    BY CasesOpen
  <1>a. ASSUME UNCHANGED <<outcomes, noShows>> PROVE Absences'
    BY <1>0, <1>1, <1>a DEF Absences, AbsenceRecorded
  <1>2. ASSUME NEW v \in Viewings, FirstClaim(v) PROVE Absences'
    BY <1>0, <1>1, <1>2 DEF FirstClaim, Absences, AbsenceRecorded
  <1>3. ASSUME NEW v \in Viewings, NEW made, Dispute(v, made) PROVE Absences'
    BY <1>0, <1>1, <1>3 DEF Dispute, Absences, AbsenceRecorded
  <1>4. ASSUME NEW v \in Viewings, Validation(v) PROVE Absences'
    <2>1. cases[v] = NoCase
      BY <1>0, <1>4 DEF Validation, Unanswered
    <2>2. /\ outcomes[v] = "AWAITING_VALIDATION" /\ claims[v][1].outcome \in Validated
          /\ outcomes' = [outcomes EXCEPT ![v] = claims[v][1].outcome]
          /\ IF claims[v][1].outcome = "COMPLETED" THEN UNCHANGED noShows
             ELSE noShows' = [noShows EXCEPT ![v] = "VALID"]
      BY <1>4 DEF Validation, Finalize
    <2>3. QED
      BY <1>0, <1>1, <2>1, <2>2 DEF Absences, AbsenceRecorded, Validated
  <1>5. ASSUME NEW d \in Sides, SlotUsed(d) PROVE Absences'
    BY <1>a, <1>5 DEF SlotUsed
  <1>6. QED
    <2>1. AInv /\ [Next]_vars
      BY DEF EInv, JInv, Attendance
    <2>2. QED
      BY <1>a, <1>2, <1>3, <1>4, <1>5, <2>1, StepKinds

(* The participants and the worker settle no dispute.                       *)
LEMMA SlotsStep ==
  ASSUME EInv, Attendance
  PROVE  BoundaryRow' /\ SlotsFollow'
  <1>. DEFINE Goal == BoundaryRow' /\ SlotsFollow'
  <1>0. /\ outcomes = [v \in Viewings |-> outcomes[v]] /\ slots = [d \in Sides |-> slots[d]]
        /\ BoundaryRow /\ SlotsFollow
    BY DEF EInv, JInv, AInv, Functions, SlotsOfBoundary
  <1>n. boundary.viewing # None => boundary.viewing \in Viewings
    BY <1>0 DEF BoundaryRow
  <1>a. ASSUME UNCHANGED <<outcomes, boundary, slots>> PROVE Goal
    BY <1>0, <1>a DEF BoundaryRow, SlotsFollow
  <1>2. ASSUME NEW v \in Viewings, FirstClaim(v) PROVE Goal
    <2>1. boundary.viewing # v
      BY <1>0, <1>2, NoneAssumption DEF FirstClaim, BoundaryRow, Unanswered
    <2>2. boundary.viewing # None => outcomes'[boundary.viewing] = outcomes[boundary.viewing]
      BY <1>0, <1>n, <1>2, <2>1 DEF FirstClaim
    <2>3. (\A u \in Viewings : outcomes'[u] # "DISPUTED") => \A u \in Viewings : outcomes[u] # "DISPUTED"
      BY <1>0, <1>2 DEF FirstClaim
    <2>4. boundary.state = "OPEN" => boundary.viewing # None
      BY <1>0 DEF BoundaryRow
    <2>5. UNCHANGED <<boundary, slots>>
      BY <1>2 DEF FirstClaim
    <2>6. QED
      BY <1>0, <2>2, <2>3, <2>4, <2>5 DEF BoundaryRow, SlotsFollow
  <1>3. ASSUME NEW v \in Viewings, NEW made, Dispute(v, made) PROVE Goal
    <2>1. /\ UNCHANGED boundary /\ outcomes' = [outcomes EXCEPT ![v] = "DISPUTED"]
          /\ slots' = [d \in Sides |-> IF boundary.viewing = v /\ slots[d] = "OPEN" THEN "HELD" ELSE slots[d]]
      BY <1>3 DEF Dispute
    <2>2. outcomes'[v] = "DISPUTED"
      BY <1>0, <2>1
    <2>3. CASE boundary.viewing = v
      BY <1>0, <2>1, <2>2, <2>3 DEF BoundaryRow, SlotsFollow, Unanswered
    <2>4. CASE boundary.viewing # v
      <3>1. boundary.viewing # None => outcomes'[boundary.viewing] = outcomes[boundary.viewing]
        BY <1>0, <1>n, <2>1, <2>4
      <3>2. boundary.state = "OPEN" => boundary.viewing # None
        BY <1>0 DEF BoundaryRow
      <3>3. slots' = slots
        BY <1>0, <2>1, <2>4
      <3>4. QED
        BY <1>0, <2>1, <2>2, <3>1, <3>2, <3>3 DEF BoundaryRow, SlotsFollow
    <2>5. QED
      BY <2>3, <2>4
  <1>4. ASSUME NEW v \in Viewings, Validation(v) PROVE Goal
    <2>1. PICK method \in {"CONFIRMED", "FINALIZED"}, own \in BOOLEAN : Finalize(v, method, own)
      BY <1>4 DEF Validation
    <2>2. /\ outcomes[v] = "AWAITING_VALIDATION" /\ claims[v][1].outcome \in Validated
          /\ outcomes' = [outcomes EXCEPT ![v] = claims[v][1].outcome]
      BY <1>4 DEF Validation, Finalize
    <2>3. outcomes'[v] \notin Unanswered /\ outcomes'[v] # "DISPUTED"
      BY <1>0, <2>2 DEF Validated, Unanswered
    <2>4. boundary.viewing # v
      BY <1>0, <2>2, NoneAssumption DEF BoundaryRow, Unanswered
    <2>5. CASE UNCHANGED <<boundary, slots>>
      <3>1. boundary.viewing # None => outcomes'[boundary.viewing] = outcomes[boundary.viewing]
        BY <1>0, <1>n, <2>2, <2>4
      <3>2. (\A u \in Viewings : outcomes'[u] # "DISPUTED") => \A u \in Viewings : outcomes[u] # "DISPUTED"
        BY <1>0, <2>2
      <3>3. boundary.state = "OPEN" => boundary.viewing # None
        BY <1>0 DEF BoundaryRow
      <3>4. QED
        BY <1>0, <2>5, <3>1, <3>2, <3>3 DEF BoundaryRow, SlotsFollow
    <2>6. CASE boundary.viewing = None /\ claims[v][1].outcome = "COMPLETED"
      <3>1. /\ boundary' = [viewing |-> v, state |-> IF own THEN "HELD" ELSE "OPEN"]
            /\ slots' = IF own THEN slots ELSE [d \in Sides |-> "OPEN"]
        BY <2>1, <2>6 DEF Finalize, ReviewBoundary
      <3>2. v # None /\ outcomes'[v] = "COMPLETED"
        BY <1>0, <2>2, <2>6, NoneAssumption
      <3>3. QED
        BY <2>3, <3>1, <3>2 DEF BoundaryRow, SlotsFollow
    <2>7. QED
      BY <2>1, <2>5, <2>6 DEF Finalize, ReviewBoundary
  <1>5. ASSUME NEW d \in Sides, SlotUsed(d) PROVE Goal
    <2>1. /\ slots[d] = "OPEN" /\ UNCHANGED <<outcomes, boundary>>
          /\ \A v \in Viewings : outcomes[v] # "DISPUTED"
      BY <1>5 DEF SlotUsed
    <2>2. PICK state \in {"CONSUMED", "EXPIRED"} : slots' = [slots EXCEPT ![d] = state]
      BY <1>5 DEF SlotUsed
    <2>3. \A s \in Sides : slots'[s] = IF s = d THEN state ELSE slots[s]
      BY <1>0, <2>2
    <2>4. boundary.state = "OPEN" => boundary.viewing \in Viewings
      BY <1>0, <1>n DEF BoundaryRow
    <2>5. boundary.state = "OPEN" => outcomes[boundary.viewing] = "COMPLETED"
      BY <1>0, <2>1, <2>4 DEF SlotsFollow
    <2>6. QED
      BY <1>0, <2>1, <2>2, <2>3, <2>4, <2>5 DEF BoundaryRow, SlotsFollow
  <1>6. QED
    <2>1. AInv /\ [Next]_vars
      BY DEF EInv, JInv, Attendance
    <2>2. QED
      BY <1>a, <1>2, <1>3, <1>4, <1>5, <2>1, StepKinds

LEMMA AttendanceEffects ==
  ASSUME EInv, Attendance
  PROVE  EInv'
  <1>1. JInv'
    BY AttendanceStep DEF EInv
  <1>2. QED
    BY <1>1, CasesOpen, AbsencesFollow, SlotsStep DEF EInv

(* A step of staff writes the case of one viewing, which has one.           *)
Workflow(v, row) == /\ cases[v] # NoCase /\ row \in Case /\ row.state # "NONE"
                    /\ cases' = [cases EXCEPT ![v] = row]

LEMMA CasesWritten ==
  ASSUME EInv, NEW v \in Viewings, NEW row, Workflow(v, row)
  PROVE  CaseRows' /\ cases'[v] # NoCase /\ \A u \in Viewings \ {v} : cases'[u] = cases[u]
  <1>1. cases = [u \in Viewings |-> cases[u]]
    BY DEF EInv, JInv, StaffInv
  <1>2. NoCase.state = "NONE"
    BY DEF NoCase
  <1>3. QED
    BY <1>1, <1>2 DEF Workflow, EInv, CaseRows

LEMMA WorkflowAlone ==
  ASSUME EInv, NEW v \in Viewings, NEW row, Workflow(v, row), UNCHANGED vars
  PROVE  CaseRows' /\ Absences' /\ BoundaryRow' /\ SlotsFollow'
  <1>1. UNCHANGED <<outcomes, noShows, boundary, slots>>
    BY DEF vars
  <1>2. cases[v] # NoCase /\ cases'[v] # NoCase /\ \A u \in Viewings \ {v} : cases'[u] = cases[u]
    BY CasesWritten DEF Workflow
  <1>3. Absences'
    BY <1>1, <1>2 DEF EInv, Absences, AbsenceRecorded
  <1>4. BoundaryRow' /\ SlotsFollow'
    BY <1>1 DEF EInv, BoundaryRow, SlotsFollow
  <1>5. QED
    BY <1>3, <1>4, CasesWritten

LEMMA CasesUnchanged ==
  ASSUME EInv, UNCHANGED <<vars, cases>>
  PROVE  CaseRows' /\ Absences' /\ BoundaryRow' /\ SlotsFollow'
  <1>1. UNCHANGED <<outcomes, noShows, boundary, slots>>
    BY DEF vars
  <1>2. CaseRows' /\ Absences'
    BY <1>1 DEF EInv, CaseRows, Absences, AbsenceRecorded
  <1>3. BoundaryRow' /\ SlotsFollow'
    BY <1>1 DEF EInv, BoundaryRow, SlotsFollow
  <1>4. QED
    BY <1>2, <1>3

(* What a decision makes of a slot that was open, held, used or revoked.    *)
LEMMA EffectOnSlots ==
  ASSUME EInv, NEW v \in Viewings, cases[v] # NoCase,
         NEW outcome \in Outcomes \cup {"ATTENDANCE_UNCONFIRMED"}, NEW own \in BOOLEAN,
         Effect(v, outcome, own)
  PROVE  BoundaryRow' /\ SlotsFollow'
  <1>. DEFINE opens == outcome = "COMPLETED" /\ boundary.viewing = None
              after == IF opens THEN [viewing |-> v, state |-> IF own THEN "HELD" ELSE "OPEN"]
                                ELSE boundary
              open == [d \in Sides |-> IF opens /\ ~(opens /\ own) THEN "OPEN" ELSE slots[d]]
              decided == SlotsDecided(v, outcome, after.viewing, open)
  <1>0. /\ outcomes = [u \in Viewings |-> outcomes[u]] /\ slots = [d \in Sides |-> slots[d]]
        /\ BoundaryRow /\ SlotsFollow
    BY DEF EInv, JInv, AInv, Functions, SlotsOfBoundary
  <1>1. boundary' = after /\ slots' = IF after.viewing = None THEN slots ELSE decided
    BY DEF Effect
  <1>2. /\ outcomes' = [outcomes EXCEPT ![v] = outcome]
        /\ outcome \in Validated \cup {"ATTENDANCE_UNCONFIRMED"}
    BY TimesAssumption DEF Effect, Validated
  <1>3. outcomes'[v] = outcome /\ \A u \in Viewings \ {v} : outcomes'[u] = outcomes[u]
    BY <1>0, <1>2
  <1>4. CASE ~opens /\ boundary.viewing = None
    <2>1. boundary' = boundary /\ boundary.state = "NONE"
      BY <1>0, <1>1, <1>4 DEF BoundaryRow
    <2>2. QED
      BY <1>0, <1>4, <2>1 DEF BoundaryRow, SlotsFollow
  <1>5. CASE opens
    <2>1. v # None /\ outcomes'[v] = "COMPLETED"
      BY <1>3, <1>5, NoneAssumption
    <2>2. /\ after = [viewing |-> v, state |-> IF own THEN "HELD" ELSE "OPEN"]
          /\ after.viewing = v /\ after.state = IF own THEN "HELD" ELSE "OPEN"
      BY <1>5
    <2>3. CASE own
      BY <1>1, <2>1, <2>2, <2>3 DEF BoundaryRow, SlotsFollow, Unanswered
    <2>4. CASE ~own
      <3>1. \A d \in Sides : open[d] = "OPEN"
        BY <1>5, <2>4
      <3>2. slots' = decided
        BY <1>1, <2>1, <2>2
      <3>. HIDE DEF open, after
      <3>3. \A d \in Sides : decided[d] \in {"CONSUMED", "OPEN"}
        <4>1. ASSUME NEW d \in Sides
              PROVE  SlotsDecided(v, outcome, v, open)[d] \in {"CONSUMED", "OPEN"}
          BY <1>5, <3>1 DEF SlotsDecided
        <4>2. QED
          BY <2>2, <4>1
      <3>. HIDE DEF decided
      <3>4. QED
        BY <1>1, <2>1, <2>2, <3>2, <3>3 DEF BoundaryRow, SlotsFollow, Unanswered
    <2>5. QED
      BY <2>3, <2>4
  <1>6. CASE boundary.viewing # None
    <2>. DEFINE b == boundary.viewing
    <2>1. ~opens /\ after = boundary /\ b \in Viewings /\ outcomes[b] \notin Unanswered
      BY <1>0, <1>6 DEF BoundaryRow
    <2>2. \A d \in Sides : open[d] = slots[d]
      BY <2>1
    <2>3. boundary' = boundary /\ slots' = decided
      BY <1>1, <1>6, <2>1
    <2>4. outcomes'[b] \notin Unanswered
      BY <1>2, <1>3, <2>1 DEF Unanswered, Validated
    <2>5. CASE boundary.state # "OPEN"
      BY <1>0, <2>1, <2>3, <2>4, <2>5 DEF BoundaryRow, SlotsFollow
    <2>6. CASE boundary.state = "OPEN"
      <3>1. \A d \in Sides : slots[d] # "NONE"
        BY <1>0, <2>6 DEF BoundaryRow
      <3>2. decided = SlotsDecided(v, outcome, b, open)
        BY <2>1
      <3>. HIDE DEF open, after, decided
      <3>3. \A d \in Sides :
              slots'[d] = IF outcomes'[b] # "COMPLETED" /\ b = v THEN "REVOKED"
                          ELSE IF outcomes'[b] = "COMPLETED" /\ \A u \in Viewings : outcomes'[u] # "DISPUTED"
                               THEN IF d \in consumed THEN "CONSUMED" ELSE "OPEN"
                               ELSE slots[d]
        <4>1. ASSUME NEW d \in Sides
              PROVE  SlotsDecided(v, outcome, b, open)[d] =
                       IF outcomes'[b] # "COMPLETED" /\ b = v THEN "REVOKED"
                       ELSE IF outcomes'[b] = "COMPLETED" /\ \A u \in Viewings : outcomes'[u] # "DISPUTED"
                            THEN IF d \in consumed THEN "CONSUMED" ELSE "OPEN"
                            ELSE open[d]
          <5>1. open[d] # "NONE" /\ b \in Viewings
            BY <2>1, <2>2, <3>1
          <5>. HIDE DEF b
          <5>2. \A u \in Viewings : outcomes'[u] = IF u = v THEN outcome ELSE outcomes[u]
            BY <1>3
          <5>3. QED
            BY <5>1, <5>2 DEF SlotsDecided
        <4>2. QED
          BY <2>2, <2>3, <3>2, <4>1
      <3>4. BoundaryRow'
        BY <1>0, <2>1, <2>3, <2>4, <3>1, <3>3 DEF BoundaryRow
      <3>5. SlotsFollow'
        <4>1. CASE b = v
          BY <1>2, <1>3, <2>3, <3>3, <4>1 DEF SlotsFollow, Validated
        <4>2. CASE b # v
          BY <1>0, <1>3, <2>1, <2>3, <2>6, <3>3, <4>2 DEF SlotsFollow
        <4>3. QED
          BY <4>1, <4>2
      <3>6. QED
        BY <3>4, <3>5
    <2>7. QED
      BY <2>5, <2>6
  <1>7. QED
    BY <1>4, <1>5, <1>6

LEMMA StaffEffects ==
  ASSUME EInv, [AdjudicationNext]_allVars
  PROVE  EInv'
  <1>. DEFINE Goal == CaseRows' /\ Absences' /\ BoundaryRow' /\ SlotsFollow'
  <1>0. JInv' /\ JInv
    BY StaffStep DEF EInv
  <1>g. ASSUME Goal PROVE EInv'
    BY <1>0, <1>g DEF EInv
  <1>c. \A v \in Viewings : /\ cases[v] \in Case
                            /\ cases[v] = NoCase <=> cases[v].state = "NONE"
                            /\ cases[v] = NoCase => cases[v].assignee = NoStaff
    <2>1. NoCase.state = "NONE" /\ NoCase.assignee = NoStaff
      BY DEF NoCase
    <2>2. QED
      BY <2>1 DEF EInv, CaseRows
  <1>d. cases = [v \in Viewings |-> cases[v]]
    BY DEF EInv, JInv, StaffInv
  <1>1. CASE Attendance
    BY <1>1, AttendanceEffects
  <1>2. ASSUME NEW v \in Viewings, NEW actor \in Staff, NEW assignee \in Staff,
               Assign(v, actor, assignee)
        PROVE  Goal
    <2>. DEFINE row == [cases[v] EXCEPT !.assignee = assignee,
                                        !.state = IF cases[v].state = "OPEN" THEN "TRIAGED" ELSE cases[v].state]
    <2>1. cases[v].state # "NONE" /\ UNCHANGED vars /\ cases' = [cases EXCEPT ![v] = row]
      BY <1>2 DEF Assign, OnlyCase
    <2>2. row \in Case /\ row.state # "NONE"
      BY <1>c, <2>1 DEF Case
    <2>. HIDE DEF row
    <2>3. QED
      BY <1>c, <2>1, <2>2, WorkflowAlone DEF Workflow
  <1>3. ASSUME NEW v \in Viewings, NEW actor \in Staff, BeginInvestigation(v, actor)
        PROVE  Goal
    <2>. DEFINE row == [cases[v] EXCEPT !.state = "UNDER_REVIEW"]
    <2>1. cases[v].state # "NONE" /\ UNCHANGED vars /\ cases' = [cases EXCEPT ![v] = row]
      BY <1>3 DEF BeginInvestigation, OnlyCase
    <2>2. row \in Case /\ row.state # "NONE"
      BY <1>c, <2>1 DEF Case
    <2>. HIDE DEF row
    <2>3. QED
      BY <1>c, <2>1, <2>2, WorkflowAlone DEF Workflow
  <1>4. ASSUME NEW v \in Viewings, NEW actor \in Staff, NEW own \in BOOLEAN,
               NEW outcome \in Outcomes \cup {"ATTENDANCE_UNCONFIRMED"},
               Decide(v, actor, outcome, own) \/ \E side \in Sides : ResolveAppeal(v, side, actor, outcome, own)
        PROVE  Goal
    <2>1. Effect(v, outcome, own) /\ cases[v].assignee \in Staff /\ actor \in Staff
      BY <1>4 DEF Decide, ResolveAppeal, Allowed
    <2>2. cases[v] # NoCase /\ cases[v].state # "NONE"
      BY <1>c, <2>1, StaffAssumption
    <2>3. PICK row : Workflow(v, row)
      <3>1. now \in Nat /\ outcome \in AnyOutcome
        BY TimesAssumption DEF EInv, JInv, AInv, AnyOutcome, Validated
      <3>2. CASE Decide(v, actor, outcome, own)
        <4>. DEFINE row == [cases[v] EXCEPT !.state = "RESOLVED", !.original = outcome,
                                            !.author = actor, !.decided = now]
        <4>1. row \in Case /\ row.state = "RESOLVED"
          BY <1>c, <2>1, <3>1 DEF Case
        <4>2. cases' = [cases EXCEPT ![v] = row]
          BY <1>c, <1>d, <3>2 DEF Decide, Case
        <4>. HIDE DEF row
        <4>3. QED
          BY <2>2, <4>1, <4>2 DEF Workflow
      <3>3. ASSUME NEW side \in Sides, ResolveAppeal(v, side, actor, outcome, own)
            PROVE  \E row : Workflow(v, row)
        <4>. DEFINE row == [cases[v] EXCEPT !.appealed = TRUE]
        <4>1. row \in Case /\ row.state # "NONE"
          BY <1>c, <2>2 DEF Case
        <4>2. cases' = [cases EXCEPT ![v] = row]
          BY <1>c, <1>d, <3>3 DEF ResolveAppeal, Case
        <4>. HIDE DEF row
        <4>3. QED
          BY <2>2, <4>1, <4>2 DEF Workflow
      <3>4. QED
        BY <1>4, <3>2, <3>3
    <2>4. BoundaryRow' /\ SlotsFollow'
      BY <2>1, <2>2, EffectOnSlots
    <2>5. CaseRows' /\ cases'[v] # NoCase /\ \A u \in Viewings \ {v} : cases'[u] = cases[u]
      BY <2>3, CasesWritten
    <2>6. Absences'
      <3>1. /\ outcomes' = [outcomes EXCEPT ![v] = outcome] /\ UNCHANGED noShows
            /\ outcomes = [u \in Viewings |-> outcomes[u]]
        BY <2>1 DEF Effect, EInv, JInv, AInv, Functions
      <3>2. QED
        BY <2>2, <2>5, <3>1 DEF EInv, Absences, AbsenceRecorded
    <2>7. QED
      BY <2>4, <2>5, <2>6
  <1>5. CASE GrantsChange
    BY <1>g, <1>5, CasesUnchanged DEF GrantsChange
  <1>6. ASSUME NEW v \in Viewings, NEW side \in Sides, SubmitAppeal(v, side) PROVE Goal
    BY <1>6, CasesUnchanged DEF SubmitAppeal
  <1>7. CASE UNCHANGED allVars
    BY <1>g, <1>7, CasesUnchanged DEF allVars, workflow
  <1>. HIDE DEF Goal
  <1>8. QED
    BY <1>g, <1>1, <1>2, <1>3, <1>4, <1>5, <1>6, <1>7 DEF AdjudicationNext, Adjudication

(* Slots and absences follow the outcomes through every dispute, decision   *)
(* and appeal: what is usable was not decided against, what is in dispute   *)
(* is not open, and no absence outlives the validation it records           *)
(* (attendance-adjudication.ts 190-207, viewing-attendance.ts 228).         *)
THEOREM EffectsFollowCorrect == AdjudicationSpec => []EffectsFollowOutcome
  <1>1. EInv /\ [AdjudicationNext]_allVars => EInv'
    BY StaffEffects
  <1>2. EInv => EffectsFollowOutcome
    BY DEF EInv, Absences, AbsenceRecorded, SlotsFollow, EffectsFollowOutcome
  <1>3. QED
    BY InitEInv, <1>1, <1>2, PTL DEF AdjudicationSpec
=============================================================================
