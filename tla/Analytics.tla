------------------------------ MODULE Analytics ------------------------------
(***************************************************************************)
(* The provider-response report and the consumers that project the         *)
(* outboxes it is computed from (analytics.ts processAnalyticsOnce and     *)
(* providerResponseSummary, analytics-context.ts; the sources are written  *)
(* by interaction.ts and conversation.ts).                                 *)
(*                                                                         *)
(* A source is the event of a contact or of its first response.  Several   *)
(* consumers run: each looks at what is pending, locks what no other has   *)
(* locked, which may have been projected since it looked, and projects all *)
(* of it in one transaction that may fail.  Of the dimensions the model    *)
(* keeps one, whether the provider was verified, which changes over time.  *)
(***************************************************************************)
EXTENDS Naturals, FiniteSets

CONSTANTS Contacts,   \* the Interactions of the provider
          Consumers,  \* runs of the consumer
          Day,        \* the 24 hours a response may take
          Batch,      \* sources of one transaction
          MaxDays     \* bound: time

ASSUME AnalyticsAssumption == {Day, Batch, MaxDays} \subseteq Nat \ {0}

VARIABLES now,
          verified,  \* the provider's identity is verified now
          sources,   \* rows of interaction_outbox and communication_outbox
          projected, \* rows of analytics_events, each with its receipt
          seen,      \* what each consumer found pending
          held       \* the sources each consumer has locked

reportVars == <<now, verified, sources, projected, seen, held>>

Created(c) == {s \in sources : s.kind = "CONTACT" /\ s.contact = c}
Responded(c) == {s \in sources : s.kind = "RESPONSE" /\ s.contact = c}

ReportInit ==
  /\ now = 1 /\ verified = TRUE
  /\ sources = {} /\ projected = {}
  /\ seen = [x \in Consumers |-> {}] /\ held = [x \in Consumers |-> {}]

(* The domain writes each source in the transaction of what it is about;   *)
(* that of a contact carries the dimensions of that moment.                *)
Inquire(c) ==
  /\ Created(c) = {}
  /\ sources' = sources \cup {[kind |-> "CONTACT", contact |-> c, at |-> now, verified |-> verified]}
  /\ UNCHANGED <<now, verified, projected, seen, held>>

Respond(c) ==
  /\ Created(c) # {} /\ Responded(c) = {}
  /\ sources' = sources \cup {[kind |-> "RESPONSE", contact |-> c, at |-> now, verified |-> FALSE]}
  /\ UNCHANGED <<now, verified, projected, seen, held>>

VerificationChanges ==
  /\ verified' = ~verified
  /\ UNCHANGED <<now, sources, projected, seen, held>>

ReportTick ==
  /\ now < MaxDays /\ now' = now + 1
  /\ UNCHANGED <<verified, sources, projected, seen, held>>

(* Consuming.  A response waits until its contact is projected.            *)
IsProjected(s) == \E e \in projected : e.kind = s.kind /\ e.contact = s.contact
ContactOf(c) == {e \in projected : e.kind = "CONTACT" /\ e.contact = c}
Pending == {s \in sources : ~IsProjected(s) /\ (s.kind = "RESPONSE" => ContactOf(s.contact) # {})}

Look(x) ==
  /\ seen[x] = {} /\ held[x] = {} /\ Pending # {}
  /\ seen' = [seen EXCEPT ![x] = Pending]
  /\ UNCHANGED <<now, verified, sources, projected, held>>

Unlocked(x) == seen[x] \ UNION {held[y] : y \in Consumers \ {x}}

Lock(x) ==
  /\ seen[x] # {}
  /\ \E kind \in {"CONTACT", "RESPONSE"} : \E taken \in SUBSET {s \in Unlocked(x) : s.kind = kind} :
       /\ Cardinality(taken) <= Batch
       /\ held' = [held EXCEPT ![x] = taken]
  /\ seen' = [seen EXCEPT ![x] = {}]
  /\ UNCHANGED <<now, verified, sources, projected>>

\* Mutant of Projection: the state of the projecting run, not that of the contact.
ProjectedNow(s) == [s EXCEPT !.verified = verified]

(* A response has the dimensions of its contact.                           *)
ProjectedAsWritten(s) ==
  IF s.kind = "CONTACT" THEN s
  ELSE [s EXCEPT !.verified = (CHOOSE e \in ContactOf(s.contact) : TRUE).verified]
Projection(s) == ProjectedAsWritten(s)

Commit(x) ==
  /\ held[x] # {}
  /\ projected' = projected \cup {Projection(s) : s \in {t \in held[x] : ~IsProjected(t)}}
  /\ held' = [held EXCEPT ![x] = {}]
  /\ UNCHANGED <<now, verified, sources, seen>>

Fail(x) ==
  /\ held[x] # {}
  /\ held' = [held EXCEPT ![x] = {}]
  /\ UNCHANGED <<now, verified, sources, projected, seen>>

ReportNext ==
  \/ \E c \in Contacts : Inquire(c) \/ Respond(c)
  \/ VerificationChanges \/ ReportTick
  \/ \E x \in Consumers : Look(x) \/ Lock(x) \/ Commit(x) \/ Fail(x)

ReportSpec == ReportInit /\ [][ReportNext]_reportVars

(* The report on the contacts of a window, as of a time: how many matured, *)
(* were answered in time, answered late, or have not matured.              *)
Cohort(from, to, v) ==
  {e \in projected : e.kind = "CONTACT" /\ e.at >= from /\ e.at < to /\ e.verified = v}
Answers(e, asOf) ==
  {r \in projected : r.kind = "RESPONSE" /\ r.contact = e.contact /\ r.at <= asOf}
Report(from, to, asOf, v) ==
  LET mature == {e \in Cohort(from, to, v) : e.at + Day <= asOf}
      answered == {e \in mature : \E r \in Answers(e, asOf) : r.at <= e.at + Day}
      late == {e \in mature : \E r \in Answers(e, asOf) : r.at > e.at + Day}
  IN  [denominator |-> Cardinality(mature), numerator |-> Cardinality(answered),
       late |-> Cardinality(late),
       immature |-> Cardinality(Cohort(from, to, v) \ mature)]

(***************************************************************************)
(* Properties.                                                             *)
(***************************************************************************)

(* What happened, from the sources alone.                                  *)
ContactsIn(from, to, v) ==
  {c \in Contacts : \E s \in Created(c) : s.at \in from..(to - 1) /\ s.verified = v}
OpenedAt(c) == (CHOOSE s \in Created(c) : TRUE).at
Waited(c, asOf, longest) ==
  \E s \in Responded(c) : s.at <= asOf /\ s.at - OpenedAt(c) <= longest
Truth(from, to, asOf, v) ==
  LET those == ContactsIn(from, to, v)
      mature == {c \in those : asOf - OpenedAt(c) >= Day}
  IN  [denominator |-> Cardinality(mature),
       numerator |-> Cardinality({c \in mature : Waited(c, asOf, Day)}),
       late |-> Cardinality({c \in mature : Waited(c, asOf, MaxDays) /\ ~Waited(c, asOf, Day)}),
       immature |-> Cardinality(those) - Cardinality(mature)]

(* Once nothing is left to project, every report on the past is what       *)
(* happened: each contact once, in the cohort its provider belonged to at  *)
(* that moment and not when it was projected, whatever the consumers, the  *)
(* failures and the order they took (analytics.ts 141-241, 286-307;        *)
(* analytics-context.ts 29-30).                                            *)
ReportExact ==
  (\A s \in sources : IsProjected(s)) =>
    \A from, to, asOf \in 1..now : \A v \in BOOLEAN :
      from < to /\ to <= asOf => Report(from, to, asOf, v) = Truth(from, to, asOf, v)
=============================================================================
