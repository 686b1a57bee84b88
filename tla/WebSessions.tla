------------------------------ MODULE WebSessions ------------------------------
(***************************************************************************)
(* Token families, and the three places that know of them: the web server, *)
(* which keeps the tokens of a browser's session (web-session.ts; web      *)
(* lib/server-auth.ts; the routes of web api/auth), the API, which         *)
(* registers every family it meets and remembers the ended ones            *)
(* (identity.ts; account.controller.ts), and the identity provider, which  *)
(* rotates the refresh token.                                              *)
(*                                                                         *)
(* Requests of one browser run at once, without a lock around a refresh;   *)
(* other clients call the API with tokens of their own.  Any call may fail *)
(* and any request may be cut off.                                         *)
(***************************************************************************)
EXTENDS Naturals

CONSTANTS Families,     \* token families (origin_jti), one per login
          WebRequests,  \* requests that run at once
          MaxRotations  \* bound: refresh tokens issued to a family

ASSUME WebSessionAssumption == MaxRotations \in Nat

VARIABLES web,       \* web_auth_sessions: [known, revoked, fresh, refresh]
          api,       \* security_sessions: "UNKNOWN", "OPEN" or "REVOKED"
          inserting, \* families whose first registration is not committed
          accepts,   \* the refresh token the provider accepts, 0 for none
          cookie_of, \* the family in the browser's cookie, or "NONE"
          work,      \* per request: where it is, what for, with which tokens
          ended,     \* families an API logout found and ended
          late,      \* families a request was authenticated on after that
          loggedOut  \* families the browser was logged out of

webVars == <<web, api, inserting, accepts, cookie_of, work, ended, late, loggedOut>>
webServer == <<web, cookie_of, loggedOut>>
apiServer == <<api, inserting, ended, late>>

Purposes == {"USE", "LOGOUT", "LOGOUT_ALL"}
AtRest == [at |-> "REST", purpose |-> "USE", family |-> "NONE", refresh |-> 0, browser |-> FALSE]

WebInit ==
  /\ web = [f \in Families |-> [known |-> FALSE, revoked |-> FALSE, fresh |-> TRUE, refresh |-> 0]]
  /\ api = [f \in Families |-> "UNKNOWN"] /\ inserting = {} /\ accepts = [f \in Families |-> 0]
  /\ cookie_of = "NONE" /\ work = [r \in WebRequests |-> AtRest]
  /\ ended = {} /\ late = {} /\ loggedOut = {}

Goes(r, where) == work' = [work EXCEPT ![r].at = where]
Rests(r) == work' = [work EXCEPT ![r] = AtRest]

(* The callback of a login: the code buys the first tokens of a family.    *)
ExchangeCode(r, f) ==
  /\ work[r].at = "REST" /\ accepts[f] = 0 /\ ~web[f].known /\ api[f] = "UNKNOWN"
  /\ \A q \in WebRequests : work[q].family # f
  /\ accepts' = [accepts EXCEPT ![f] = 1]
  /\ work' = [work EXCEPT ![r] = [at |-> "CALLING", purpose |-> "LOGIN", family |-> f, refresh |-> 1, browser |-> TRUE]]
  /\ UNCHANGED <<webServer, apiServer>>

(* webAuthSession(): the row of the cookie, and its token when it is good. *)
ReadSession(r, purpose) ==
  LET f == cookie_of IN
  /\ work[r].at = "REST" /\ f # "NONE"
  /\ \/ /\ web[f].revoked /\ cookie_of' = "NONE" /\ UNCHANGED <<web, work>>
     \/ /\ ~web[f].revoked /\ UNCHANGED <<web, cookie_of>>
        /\ work' = [work EXCEPT ![r] = [at |-> IF web[f].fresh THEN "CALLING" ELSE "ASKING", purpose |-> purpose,
                                        family |-> f, refresh |-> web[f].refresh, browser |-> TRUE]]
     \/ \* idle or over age, or past its token with no refresh token
        web' = [web EXCEPT ![f].revoked = TRUE] /\ cookie_of' = "NONE" /\ UNCHANGED work
  /\ UNCHANGED <<apiServer, accepts, loggedOut>>

ProviderRefreshes(r) ==
  LET f == work[r].family IN
  /\ work[r].at = "ASKING" /\ work[r].refresh = accepts[f] /\ accepts[f] < MaxRotations
  /\ accepts' = [accepts EXCEPT ![f] = @ + 1]
  /\ work' = [work EXCEPT ![r].at = "ANSWERED", ![r].refresh = accepts[f] + 1]
  /\ UNCHANGED <<webServer, apiServer>>

(* The provider refuses or is not heard: the session ends.                 *)
RefreshFails(r) ==
  /\ work[r].at \in {"ASKING", "ANSWERED"}
  /\ web' = [web EXCEPT ![work[r].family].revoked = TRUE] /\ cookie_of' = "NONE" /\ Rests(r)
  /\ UNCHANGED <<apiServer, accepts, loggedOut>>

(* updateTokens() leaves a revoked row alone, and the read after it finds  *)
(* that: the request goes on without a session.                            *)
UpdateTokens(r) ==
  LET f == work[r].family IN
  /\ work[r].at = "ANSWERED"
  /\ \/ /\ web[f].revoked /\ UNCHANGED web /\ Rests(r)
        /\ cookie_of' = IF work[r].purpose = "USE" THEN cookie_of ELSE "NONE"
     \/ /\ ~web[f].revoked /\ Goes(r, "CALLING") /\ UNCHANGED cookie_of
        /\ web' = [web EXCEPT ![f].refresh = work[r].refresh, ![f].fresh = TRUE]
  /\ UNCHANGED <<apiServer, accepts, loggedOut>>

(* A client with a family of its own calls the API itself.                 *)
CallDirectly(r, f, purpose) ==
  /\ work[r].at = "REST" /\ ~web[f].known
  /\ \A q \in WebRequests : ~(work[q].browser /\ work[q].family = f)
  /\ work' = [work EXCEPT ![r] = [at |-> "CALLING", purpose |-> purpose, family |-> f, refresh |-> 0, browser |-> FALSE]]
  /\ UNCHANGED <<webServer, apiServer, accepts>>

\* Mutant of Tombstone: only the rows that still stand are looked at.
TombstoneNever(f) == FALSE

(* bootstrap(): the API registers the family, or finds its row.            *)
Tombstone(f) == api[f] = "REVOKED"

AfterAuthentication(r) ==
  CASE work[r].purpose = "LOGIN" -> Goes(r, "CREATING")
    [] work[r].purpose = "USE" -> Rests(r)
    [] OTHER -> Goes(r, "ENDING")

Authenticate(r) ==
  LET f == work[r].family IN
  /\ work[r].at = "CALLING" /\ api[f] # "UNKNOWN" /\ ~Tombstone(f)
  /\ api' = [api EXCEPT ![f] = "OPEN"] /\ AfterAuthentication(r)
  /\ late' = late \cup (ended \cap {f})
  /\ UNCHANGED <<webServer, inserting, ended, accepts>>

InsertFamily(r) ==
  LET f == work[r].family IN
  /\ work[r].at = "CALLING" /\ api[f] = "UNKNOWN" /\ f \notin inserting
  /\ inserting' = inserting \cup {f} /\ Goes(r, "INSERTED")
  /\ UNCHANGED <<webServer, api, ended, late, accepts>>

CommitFamily(r) ==
  LET f == work[r].family IN
  /\ work[r].at = "INSERTED"
  /\ inserting' = inserting \ {f} /\ api' = [api EXCEPT ![f] = "OPEN"]
  /\ AfterAuthentication(r)
  /\ UNCHANGED <<webServer, ended, late, accepts>>

(* The call was refused, failed or was not heard.  A login ends with its   *)
(* cookie, a logout goes on without the API.                               *)
CallFails(r) ==
  /\ work[r].at \in {"CALLING", "INSERTED", "ENDING"}
  /\ inserting' = IF work[r].at = "INSERTED" THEN inserting \ {work[r].family} ELSE inserting
  /\ \/ /\ work[r].purpose \in {"LOGOUT", "LOGOUT_ALL"} /\ work[r].browser
        /\ Goes(r, "REVOKING") /\ UNCHANGED cookie_of
     \/ work[r].purpose = "LOGIN" /\ Rests(r) /\ cookie_of' = "NONE"
     \/ (work[r].purpose = "USE" \/ ~work[r].browser) /\ Rests(r) /\ UNCHANGED cookie_of
  /\ UNCHANGED <<web, loggedOut, api, ended, late, accepts>>

(* create(): the web session of a login, and the cookie.                   *)
CreateSession(r) ==
  LET f == work[r].family IN
  /\ work[r].at = "CREATING"
  /\ web' = [web EXCEPT ![f] = [known |-> TRUE, revoked |-> FALSE, fresh |-> TRUE, refresh |-> work[r].refresh]]
  /\ cookie_of' = f /\ Rests(r)
  /\ UNCHANGED <<apiServer, accepts, loggedOut>>

(* revokeSession() and revokeAllSessions(): the rows that are committed.   *)
EndSessions(r) ==
  LET found == IF work[r].purpose = "LOGOUT" THEN {work[r].family} ELSE {f \in Families : api[f] # "UNKNOWN"} IN
  /\ work[r].at = "ENDING"
  /\ api' = [f \in Families |-> IF f \in found THEN "REVOKED" ELSE api[f]]
  /\ ended' = ended \cup found
  /\ IF work[r].browser THEN Goes(r, "REVOKING") ELSE Rests(r)
  /\ UNCHANGED <<webServer, inserting, late, accepts>>

(* The rest of the browser's logout: the provider, the row, the cookie.    *)
RevokeRefreshToken(r) ==
  /\ work[r].at = "REVOKING" /\ Goes(r, "CLEARING")
  /\ accepts' \in {accepts, [accepts EXCEPT ![work[r].family] = 0]}
  /\ UNCHANGED <<webServer, apiServer>>

RevokeWebSession(r) ==
  LET f == work[r].family IN
  /\ work[r].at = "CLEARING" /\ Rests(r)
  /\ web' = [web EXCEPT ![f].revoked = TRUE] /\ cookie_of' = "NONE"
  /\ loggedOut' = loggedOut \cup {f}
  /\ UNCHANGED <<apiServer, accepts>>

CutOff(r) ==
  /\ work[r].at # "REST" /\ Rests(r)
  /\ inserting' = IF work[r].at = "INSERTED" THEN inserting \ {work[r].family} ELSE inserting
  /\ UNCHANGED <<webServer, api, ended, late, accepts>>

AccessExpires(f) ==
  /\ web[f].known /\ web[f].fresh
  /\ web' = [web EXCEPT ![f].fresh = FALSE]
  /\ UNCHANGED <<cookie_of, loggedOut, apiServer, accepts, work>>

WebNext ==
  \/ \E f \in Families : AccessExpires(f)
  \/ \E r \in WebRequests :
       \/ \E f \in Families : ExchangeCode(r, f) \/ \E purpose \in Purposes : CallDirectly(r, f, purpose)
       \/ \E purpose \in Purposes : ReadSession(r, purpose)
       \/ ProviderRefreshes(r) \/ RefreshFails(r) \/ UpdateTokens(r)
       \/ Authenticate(r) \/ InsertFamily(r) \/ CommitFamily(r) \/ CallFails(r)
       \/ CreateSession(r) \/ EndSessions(r) \/ RevokeRefreshToken(r) \/ RevokeWebSession(r)
       \/ CutOff(r)

WebSpec == WebInit /\ [][WebNext]_webVars

(***************************************************************************)
(* Properties.                                                             *)
(***************************************************************************)

(* What a logout ended stays ended: no request is authenticated on a token *)
(* family after a logout found it, though its tokens are still rotated,    *)
(* stored and sent by requests that began before (ADR 0002, "a revoked     *)
(* token-family tombstone cannot be registered again"), and a session the  *)
(* browser was logged out of is not brought back by a refresh under way.   *)
EndedForGood == late = {} /\ \A f \in loggedOut : web[f].revoked
=============================================================================
