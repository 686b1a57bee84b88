------------------------------ MODULE StaffLogin ------------------------------
(***************************************************************************)
(* How a staff session begins and ends in one browser (admin login,        *)
(* callback and logout routes; provider.ts of the admin application;       *)
(* StaffStore.register).  Each request reads the cookie when it arrives    *)
(* and works on that copy; the browser's cookie is replaced as a whole     *)
(* when the answer arrives, if it does, and requests overlap freely.  The  *)
(* browser follows the provider's redirects once, twice or late.           *)
(*                                                                         *)
(* The host's clock ticks in half seconds, the provider signs whole ones   *)
(* of a clock of its own, and may answer with an authentication it already *)
(* had.  State, nonce and verifier are drawn with each transaction and are *)
(* one with it here, as csrf is with the session.  The revocation at the   *)
(* provider that follows the local one changes nothing here, whether it    *)
(* succeeds or not.                                                        *)
(***************************************************************************)
EXTENDS Naturals, FiniteSets

CONSTANTS BrowserRequests, \* requests of the browser that run at once
          Aheads,       \* ticks the provider's clock may be ahead by
          MaxAge,       \* ticks an authentication is fresh (10 min)
          TransactionLife, \* ticks a login transaction lives (10 min)
          SettleTime,   \* ticks waited for a clock that is ahead (2 s)
          MaxLogins,    \* bound: transactions
          MaxTicks      \* bound: the clock

ASSUME StaffLoginAssumption ==
  Aheads \subseteq Nat /\ {MaxAge, TransactionLife, SettleTime, MaxLogins, MaxTicks} \subseteq Nat

VARIABLES hostClock, \* of the host
          ahead,     \* the provider's clock minus the host's
          begun,     \* login transactions: when each was started
          consumed,  \* those whose callback has run
          codes,     \* authorization codes not yet redeemed
          previously,\* the provider's signed time of an authentication it had at first
          cookie,    \* the transaction and the session in the browser's cookie, 0 for none
          request,   \* per request: where it is and what it has read
          sessions,  \* registered staff sessions, by the number of their transaction
          revoked,   \* those revoked by a later login or a logout
          eligible,  \* a linked active account with a grant
          mixed      \* the cookie of a new session came while another request was under
                     \* way, or never

loginVars ==
  <<hostClock, ahead, begun, consumed, codes, previously, cookie, request, sessions, revoked, eligible, mixed>>
loginRows == <<begun, consumed, sessions, revoked, eligible>>

Second(tick) == tick \div 2
Resting == [at |-> "REST", transaction |-> 0, previous |-> 0, for |-> 0, auth |-> 0, origin |-> 0]
CallPlaces == {"CALLED", "CONSUMED", "EXCHANGED", "WAITING", "FRESH", "ATTESTED", "REGISTERED"}

LoginInit ==
  /\ hostClock = 2 /\ ahead \in Aheads /\ begun = <<>> /\ consumed = {} /\ codes = {}
  /\ previously = Second(1 + ahead) /\ cookie = [transaction |-> 0, id |-> 0]
  /\ request = [r \in BrowserRequests |-> Resting]
  /\ sessions = {} /\ revoked = {} /\ eligible = TRUE /\ mixed = FALSE

Transactions == DOMAIN begun

Step(r, where) == request' = [request EXCEPT ![r].at = where]
ComesToRest(r) == request' = [request EXCEPT ![r] = Resting]
Between(r) == request[r].at \in {"REGISTERED", "REVOKED"} \* its session is not in the cookie yet

(* A request arrives, with the cookie of its moment.                       *)
Arrives(r, where) ==
  /\ request[r].at = "REST"
  /\ request' = [request EXCEPT ![r] = [Resting EXCEPT !.at = where, !.previous = cookie.id]]
  /\ UNCHANGED <<hostClock, ahead, loginRows, codes, previously, cookie, mixed>>

(* The login route: a transaction, and a cookie that forgets the last one  *)
(* and keeps the session that was in it.                                   *)
AskLogin(r) == Arrives(r, "LOGIN")

BeginLogin(r) ==
  LET n == Cardinality(Transactions) + 1 IN
  /\ request[r].at = "LOGIN" /\ n <= MaxLogins
  /\ begun' = [t \in 1..n |-> IF t = n THEN hostClock ELSE begun[t]]
  /\ request' = [request EXCEPT ![r].at = "BEGUN", ![r].transaction = n]
  /\ UNCHANGED <<hostClock, ahead, consumed, codes, previously, cookie, sessions, revoked, eligible, mixed>>

LoginAnswered(r) ==
  /\ request[r].at = "BEGUN" /\ ComesToRest(r)
  /\ cookie' = [transaction |-> request[r].transaction, id |-> request[r].previous]
  /\ UNCHANGED <<hostClock, ahead, loginRows, codes, previously, mixed>>

\* The browser has been sent to the provider with transaction t.
Redirected(t) == \A r \in BrowserRequests : request[r].transaction = t => request[r].at # "BEGUN"

(* The provider sends the browser back with a code, for an authentication  *)
(* made now (a token family of its own) or for the one it had (family 0).  *)
ProviderAnswers(t) ==
  /\ Redirected(t) /\ t \notin consumed
  /\ \A code \in codes : code.transaction # t
  /\ \E code \in {[transaction |-> t, auth |-> Second(hostClock + ahead), origin |-> t],
                  [transaction |-> t, auth |-> previously, origin |-> 0]} : codes' = codes \cup {code}
  /\ UNCHANGED <<hostClock, ahead, loginRows, previously, cookie, request, mixed>>

(* A callback request, with the cookie of its moment.                      *)
CallBack(c, t) ==
  /\ request[c].at = "REST" /\ Redirected(t)
  /\ request' = [request EXCEPT ![c] = [Resting EXCEPT !.at = "CALLED", !.transaction = cookie.transaction,
                                                       !.previous = cookie.id, !.for = t]]
  /\ UNCHANGED <<hostClock, ahead, loginRows, codes, previously, cookie, mixed>>

ConsumeLogin(c) ==
  LET t == request[c].transaction IN
  /\ request[c].at = "CALLED" /\ t # 0
  /\ t \notin consumed /\ begun[t] + TransactionLife > hostClock
  /\ consumed' = consumed \cup {t} /\ Step(c, "CONSUMED")
  /\ UNCHANGED <<hostClock, ahead, begun, codes, previously, cookie, sessions, revoked, eligible, mixed>>

(* The code is redeemed once, and only with the state, nonce and verifier  *)
(* of its own transaction; the access token is of the same local subject.  *)
Exchange(c) ==
  /\ request[c].at = "CONSUMED" /\ request[c].for = request[c].transaction
  /\ \E code \in codes :
       /\ code.transaction = request[c].for /\ codes' = codes \ {code}
       /\ request' = [request EXCEPT ![c].at = "EXCHANGED", ![c].auth = code.auth, ![c].origin = code.origin]
  /\ UNCHANGED <<hostClock, ahead, loginRows, previously, cookie, mixed>>

(* settledFreshAuthentication(): wait when the signed second is a little   *)
(* ahead, then read the clock again and judge.                             *)
AheadOf(second) == 2 * second > hostClock /\ 2 * second <= hostClock + SettleTime

Settle(c) ==
  /\ request[c].at = "EXCHANGED" /\ AheadOf(request[c].auth)
  /\ Step(c, "WAITING")
  /\ UNCHANGED <<hostClock, ahead, loginRows, codes, previously, cookie, mixed>>

\* Mutant of Fresh: only the age of the authentication is looked at.
FreshByAge(second, started) == second <= Second(hostClock) /\ hostClock <= 2 * second + MaxAge
Fresh(second, started) ==
  /\ second >= Second(started)
  /\ second <= Second(hostClock) /\ hostClock <= 2 * second + MaxAge

Judged(c) ==
  \/ request[c].at = "WAITING"
  \/ request[c].at = "EXCHANGED" /\ ~AheadOf(request[c].auth)

ProveFresh(c) ==
  /\ Judged(c) /\ Fresh(request[c].auth, begun[request[c].transaction])
  /\ Step(c, "FRESH")
  /\ UNCHANGED <<hostClock, ahead, loginRows, codes, previously, cookie, mixed>>

(* attestRequiredTotp(), whose answer is the pool's policy and the user's  *)
(* settings: it passes, or Reject is next.                                 *)
Attest(c) ==
  /\ request[c].at = "FRESH" /\ Step(c, "ATTESTED")
  /\ UNCHANGED <<hostClock, ahead, loginRows, codes, previously, cookie, mixed>>

Register(c) ==
  LET call == request[c] IN
  /\ call.at = "ATTESTED" /\ eligible
  /\ 2 * call.auth <= hostClock /\ hostClock <= 2 * call.auth + MaxAge
  /\ \A s \in sessions : s.origin # call.origin
  /\ sessions' = sessions \cup {[id |-> call.transaction, auth |-> call.auth, origin |-> call.origin, registered |-> hostClock]}
  /\ Step(c, "REGISTERED")
  /\ UNCHANGED <<hostClock, ahead, begun, consumed, codes, previously, cookie, revoked, eligible, mixed>>

(* The session before is revoked, and the cookie replaced when the answer  *)
(* arrives, under the feet of any request that has read the cookie before. *)
RevokePrevious(c) ==
  /\ request[c].at = "REGISTERED" /\ Step(c, "REVOKED")
  /\ revoked' = revoked \cup ({request[c].previous} \ {0})
  /\ UNCHANGED <<hostClock, ahead, begun, consumed, codes, previously, cookie, sessions, eligible, mixed>>

Finish(c) ==
  /\ request[c].at = "REVOKED" /\ ComesToRest(c)
  /\ cookie' = [transaction |-> 0, id |-> request[c].transaction]
  /\ mixed' = (mixed \/ \E r \in BrowserRequests \ {c} : request[r].at # "REST")
  /\ UNCHANGED <<hostClock, ahead, loginRows, codes, previously>>

(* Any step of a callback may fail, and those above must when their        *)
(* condition does not hold: the cookie loses its transaction and keeps its *)
(* session.                                                                *)
Reject(c) ==
  /\ request[c].at \in CallPlaces /\ ComesToRest(c)
  /\ cookie' = [transaction |-> 0, id |-> request[c].previous]
  /\ mixed' = (mixed \/ Between(c))
  /\ UNCHANGED <<hostClock, ahead, loginRows, codes, previously>>

(* The logout route ends the session of the cookie it has read, and clears *)
(* the cookie whatever is in it by then.                                   *)
AskLogout(r) == cookie.id # 0 /\ Arrives(r, "LOGOUT")

LogOut(r) ==
  /\ request[r].at = "LOGOUT" /\ Step(r, "ENDED")
  /\ revoked' = revoked \cup {request[r].previous}
  /\ UNCHANGED <<hostClock, ahead, begun, consumed, codes, previously, cookie, sessions, eligible, mixed>>

LogoutAnswered(r) ==
  /\ request[r].at = "ENDED" /\ ComesToRest(r)
  /\ cookie' = [transaction |-> 0, id |-> 0]
  /\ UNCHANGED <<hostClock, ahead, loginRows, codes, previously, mixed>>

(* A request fails before it has a cookie to set, or its answer is lost.   *)
NoAnswer(r) ==
  /\ request[r].at # "REST" /\ ComesToRest(r)
  /\ mixed' = (mixed \/ Between(r))
  /\ UNCHANGED <<hostClock, ahead, loginRows, codes, previously, cookie>>

GrantLapses ==
  /\ eligible /\ eligible' = FALSE
  /\ UNCHANGED <<hostClock, ahead, begun, consumed, codes, previously, cookie, request, sessions, revoked, mixed>>

HostTick ==
  /\ hostClock < MaxTicks /\ hostClock' = hostClock + 1
  /\ UNCHANGED <<ahead, loginRows, codes, previously, cookie, request, mixed>>

LoginNext ==
  \/ GrantLapses \/ HostTick
  \/ \E t \in Transactions : ProviderAnswers(t) \/ \E c \in BrowserRequests : CallBack(c, t)
  \/ \E c \in BrowserRequests : \/ ConsumeLogin(c) \/ Exchange(c) \/ Settle(c) \/ ProveFresh(c) \/ Attest(c)
                                \/ Register(c) \/ RevokePrevious(c) \/ Finish(c) \/ Reject(c)
  \/ \E r \in BrowserRequests : \/ AskLogin(r) \/ BeginLogin(r) \/ LoginAnswered(r)
                                \/ AskLogout(r) \/ LogOut(r) \/ LogoutAnswered(r) \/ NoAnswer(r)

LoginSpec == LoginInit /\ [][LoginNext]_loginVars

(***************************************************************************)
(* Properties.                                                             *)
(***************************************************************************)

(* A staff session rests on a login of its own: its authentication is not  *)
(* older than the transaction it answers, was neither in the future nor    *)
(* over age when the session began, and is that of no other session.  And  *)
(* however the requests of a browser overlap, no session is live but the   *)
(* one in its cookie and those on their way into it, unless the cookie of  *)
(* a new session found another request under way or never came             *)
(* (callback/route.ts 34-79; login/route.ts 11-28; logout/route.ts 5-9).   *)
LoginOfItsOwn ==
  /\ \A s \in sessions :
       /\ s.auth >= Second(begun[s.id])
       /\ 2 * s.auth <= s.registered /\ s.registered <= 2 * s.auth + MaxAge
       /\ \A other \in sessions \ {s} : other.id # s.id /\ other.origin # s.origin
  /\ ~mixed => \A s \in sessions :
       \/ s.id \in revoked \cup {cookie.id}
       \/ \E c \in BrowserRequests : Between(c) /\ request[c].transaction = s.id
=============================================================================
