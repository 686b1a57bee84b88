---------------------------- MODULE PhoneOwnership ----------------------------
(***************************************************************************)
(* Proving that a phone is the user's, by a code sent to it                *)
(* (phone-verification.ts, apps/api/src/phone.ts, migrations 0001-0005).   *)
(*                                                                         *)
(* A challenge is created in one transaction, the code is sent, and the    *)
(* result of the sending is recorded in another: requests of one user      *)
(* overlap, and a result may come when its challenge has been replaced.    *)
(* The limit on one request fingerprint only refuses and is left out.      *)
(***************************************************************************)
EXTENDS Naturals, Sequences, FiniteSets

CONSTANTS Users, Phones,
          Cooldown,      \* PHONE_RESEND_COOLDOWN_MS
          Life,          \* PHONE_CODE_TTL_MS
          Window,        \* the hour MaxSends is counted in
          MaxSends,      \* PHONE_MAX_SENDS_PER_WINDOW
          MaxAttempts,   \* PHONE_MAX_ATTEMPTS
          MaxChallenges, \* bound: challenges in all
          MaxMinutes    \* bound: time

ASSUME PhoneAssumption ==
  {Cooldown, Life, Window, MaxSends, MaxAttempts, MaxChallenges, MaxMinutes} \subseteq Nat \ {0}

VARIABLES clock,
          account,    \* users.account_state
          challenges, \* phone_otp_challenges, in the order they were created
          owner       \* phone_contacts: the user of a verified phone, or "NONE"

phoneVars == <<clock, account, challenges, owner>>

PhoneInit ==
  /\ clock = 0
  /\ account = [u \in Users |-> "PENDING_PHONE"]
  /\ challenges = <<>>
  /\ owner = [p \in Phones |-> "NONE"]

Of(u, p) == {i \in DOMAIN challenges : challenges[i].user = u /\ challenges[i].phone = p}

(* A new code replaces those of the user and phone that are not used yet.  *)
CreateChallenge(u, p) ==
  LET recent == {i \in Of(u, p) : clock - challenges[i].sent <= Window}
      unused == {i \in Of(u, p) : challenges[i].status \in {"PENDING_DELIVERY", "SENT"}}
      superseded == [i \in DOMAIN challenges |->
        IF i \in unused THEN [challenges[i] EXCEPT !.status = "SUPERSEDED"] ELSE challenges[i]]
  IN  /\ Len(challenges) < MaxChallenges
      /\ account[u] # "SUSPENDED"
      /\ \A i \in recent : clock - challenges[i].sent >= Cooldown
      /\ Cardinality(recent) < MaxSends
      /\ challenges' = Append(superseded,
           [user |-> u, phone |-> p, status |-> "PENDING_DELIVERY", attempts |-> 0, sent |-> clock])
      /\ UNCHANGED <<clock, account, owner>>

\* Mutant of Result: a late answer of the sender revives what was superseded.
ResultOfAny(i, result) == [challenges EXCEPT ![i].status = result]

(* What the sender says of a challenge counts only while it awaits it.     *)
ResultOfAwaited(i, result) ==
  IF challenges[i].status = "PENDING_DELIVERY"
  THEN [challenges EXCEPT ![i].status = result] ELSE challenges
Result(i, result) == ResultOfAwaited(i, result)

MarkDelivery(i) ==
  /\ \E result \in {"SENT", "DELIVERY_FAILED"} : challenges' = Result(i, result)
  /\ UNCHANGED <<clock, account, owner>>

(* An answer to a challenge that was sent.  An expired one closes it, a    *)
(* wrong one is counted, and the right one gives the phone to the user,    *)
(* whose account it may activate, unless the account is restricted, the    *)
(* phone is another's or the user has another phone.                       *)
Expired(i) == clock - challenges[i].sent >= Life

ConfirmExpired(i) ==
  /\ challenges[i].status = "SENT" /\ Expired(i)
  /\ challenges' = [challenges EXCEPT ![i].status = "EXPIRED"]
  /\ UNCHANGED <<clock, account, owner>>

ConfirmWrong(i) ==
  LET tried == challenges[i].attempts + 1
  IN  /\ challenges[i].status = "SENT" /\ ~Expired(i)
      /\ challenges' = [challenges EXCEPT ![i].attempts = tried,
           ![i].status = IF tried >= MaxAttempts THEN "LOCKED" ELSE "SENT"]
      /\ UNCHANGED <<clock, account, owner>>

ConfirmRight(i) ==
  LET u == challenges[i].user
      p == challenges[i].phone
  IN  /\ challenges[i].status = "SENT" /\ ~Expired(i)
      /\ account[u] # "SUSPENDED"
      /\ owner[p] \in {"NONE", u}
      /\ \A q \in Phones \ {p} : owner[q] # u
      /\ challenges' = [challenges EXCEPT ![i].status = "CONSUMED"]
      /\ owner' = [owner EXCEPT ![p] = u]
      /\ account' = [account EXCEPT ![u] = "ACTIVE"]
      /\ UNCHANGED clock

(* Staff may suspend an account at any time.                               *)
AccountSuspended(u) ==
  /\ account[u] # "SUSPENDED"
  /\ account' = [account EXCEPT ![u] = "SUSPENDED"]
  /\ UNCHANGED <<clock, challenges, owner>>

PhoneTick ==
  /\ clock < MaxMinutes /\ clock' = clock + 1
  /\ UNCHANGED <<account, challenges, owner>>

PhoneNext ==
  \/ \E u \in Users : AccountSuspended(u) \/ \E p \in Phones : CreateChallenge(u, p)
  \/ \E i \in DOMAIN challenges :
       MarkDelivery(i) \/ ConfirmExpired(i) \/ ConfirmWrong(i) \/ ConfirmRight(i)
  \/ PhoneTick

PhoneSpec == PhoneInit /\ [][PhoneNext]_phoneVars

(***************************************************************************)
(* Properties.                                                             *)
(***************************************************************************)

(* A code stops working once the user has asked for another one for the    *)
(* phone, even when the sender reports only afterwards that the first one  *)
(* has arrived (phone-verification.ts 44-48, 62-68).                       *)
LatestCodeOnly == [][\A i \in DOMAIN challenges :
  challenges[i].status # "CONSUMED" /\ challenges'[i].status = "CONSUMED" =>
    \A j \in Of(challenges[i].user, challenges[i].phone) : j <= i]_phoneVars
=============================================================================
