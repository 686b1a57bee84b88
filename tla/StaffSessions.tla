----------------------------- MODULE StaffSessions -----------------------------
(***************************************************************************)
(* One staff session and the tokens of the identity provider behind it     *)
(* (staff.ts; admin/lib/session.ts; admin/lib/revocation.ts).              *)
(*                                                                         *)
(* Every page of the admin application asks for the session's access       *)
(* token, and the first to find it expiring refreshes it: the provider     *)
(* takes the refresh token and issues the next one, and only that works    *)
(* from then on.  The request holds the session's row from the read to the *)
(* commit, and what other sessions and pages write to the row waits.  The  *)
(* answer of the provider, or the commit, may be lost.  Reading a session  *)
(* moves its idle time, which the model folds into Ends.                   *)
(***************************************************************************)
EXTENDS Naturals

CONSTANTS Requests,    \* concurrent requests of the admin application
          MaxRefreshes \* bound: refresh tokens the provider issues

ASSUME StaffSessionAssumption == MaxRefreshes \in Nat /\ "NONE" \notin Requests

VARIABLES session,   \* the row: [revoked, refresh, fresh], refresh numbered
          valid,     \* the session, its user, identity and grants still stand
          provider,  \* the provider's refresh token; 0 when it is revoked
          page,      \* per request: where it is and the token it works with
          holder,    \* the request that holds the row, or "NONE"
          lost,      \* an answer of the provider or the commit after it was lost
          logout     \* the refresh token the logout will revoke; 0 for none

staffVars == <<session, valid, provider, page, holder, lost, logout>>

StaffInit ==
  /\ session = [revoked |-> FALSE, refresh |-> 1, fresh |-> TRUE]
  /\ valid = TRUE /\ provider = 1
  /\ page = [r \in Requests |-> [at |-> "IDLE", refresh |-> 0]]
  /\ holder = "NONE" /\ lost = FALSE /\ logout = 0

At(r, where, refresh) == page' = [page EXCEPT ![r] = [at |-> where, refresh |-> refresh]]

\* Mutant of Free: the row is not locked while the provider is asked.
FreeAlways(r) == TRUE

(* The row's lock.                                                         *)
FreeFor(r) == holder \in {"NONE", r}
Free(r) == FreeFor(r)

(* tokens(): lock, read() and return the token when it is fresh; refuse    *)
(* when the session no longer stands.                                      *)
Tokens(r) ==
  /\ page[r].at = "IDLE" /\ Free(r)
  /\ valid /\ ~session.revoked /\ ~session.fresh
  /\ holder' = r /\ At(r, "ASKING", session.refresh)
  /\ UNCHANGED <<session, valid, provider, lost, logout>>

(* The provider answers with the next token, or refuses one that is not    *)
(* the current one.                                                        *)
ProviderRotates(r) ==
  /\ page[r].at = "ASKING" /\ page[r].refresh = provider /\ provider <= MaxRefreshes
  /\ provider' = provider + 1 /\ At(r, "ANSWERED", provider + 1)
  /\ UNCHANGED <<session, valid, holder, lost, logout>>

ProviderRefuses(r) ==
  /\ page[r].at = "ASKING" /\ page[r].refresh # provider
  /\ At(r, "REFUSED", page[r].refresh)
  /\ UNCHANGED <<session, valid, provider, holder, lost, logout>>

(* The answer is lost after the provider has rotated: to the request this  *)
(* is a failure like any other.                                            *)
AnswerLost(r) ==
  /\ page[r].at = "ANSWERED"
  /\ At(r, "REFUSED", page[r].refresh) /\ lost' = TRUE
  /\ UNCHANGED <<session, valid, provider, holder, logout>>

(* The new token is stored, or the session revoked, and the row released.  *)
Release(r) == holder' = (IF holder = r THEN "NONE" ELSE holder)

Store(r) ==
  /\ page[r].at = "ANSWERED"
  /\ session' = [session EXCEPT !.refresh = page[r].refresh, !.fresh = TRUE]
  /\ At(r, "IDLE", 0) /\ Release(r)
  /\ UNCHANGED <<valid, provider, lost, logout>>

RevokeFailed(r) ==
  /\ page[r].at = "REFUSED"
  /\ session' = [session EXCEPT !.revoked = TRUE]
  /\ At(r, "IDLE", 0) /\ Release(r)
  /\ UNCHANGED <<valid, provider, lost, logout>>

(* The process dies, and the transaction with it.                          *)
Crash(r) ==
  /\ page[r].at # "IDLE"
  /\ lost' = (lost \/ page[r].at = "ANSWERED")
  /\ At(r, "IDLE", 0) /\ Release(r)
  /\ UNCHANGED <<session, valid, provider, logout>>

(* revoke(): the logout of the user ends the session first, then revokes   *)
(* at the provider the refresh token the row has, which may fail.  A row   *)
(* that was revoked before gives its token again, to the same logout when  *)
(* that is still on its way to the provider.                               *)
Logout ==
  /\ holder = "NONE"
  /\ session' = [session EXCEPT !.revoked = TRUE]
  /\ logout' = session.refresh
  /\ UNCHANGED <<valid, provider, page, holder, lost>>

RevokeAtProvider ==
  /\ logout # 0
  /\ \/ provider' = IF logout = provider THEN 0 ELSE provider
     \/ provider' = provider
  /\ logout' = 0
  /\ UNCHANGED <<session, valid, page, holder, lost>>

(* provision(): a new grant ends the sessions of its user.                 *)
Provision ==
  /\ holder = "NONE" /\ ~session.revoked
  /\ session' = [session EXCEPT !.revoked = TRUE]
  /\ UNCHANGED <<valid, provider, page, holder, lost, logout>>

(* The session runs out, or its account, identity or last grant lapses;    *)
(* the access token expires.                                               *)
Ends ==
  /\ valid /\ valid' = FALSE
  /\ UNCHANGED <<session, provider, page, holder, lost, logout>>

TokenExpires ==
  /\ session.fresh
  /\ session' = [session EXCEPT !.fresh = FALSE]
  /\ UNCHANGED <<valid, provider, page, holder, lost, logout>>

StaffNext ==
  \/ \E r \in Requests : \/ Tokens(r) \/ ProviderRotates(r) \/ ProviderRefuses(r)
                         \/ AnswerLost(r) \/ Store(r) \/ RevokeFailed(r) \/ Crash(r)
  \/ Logout \/ RevokeAtProvider \/ Provision \/ Ends \/ TokenExpires

StaffSpec == StaffInit /\ [][StaffNext]_staffVars

(***************************************************************************)
(* Properties.                                                             *)
(***************************************************************************)

(* Staff are not logged out by their own pages: unless an answer of the    *)
(* provider was lost, the row of a session that stands has the refresh     *)
(* token the provider will accept, and none was refused, however many      *)
(* pages refresh at once (staff.ts 179: "DB lock coordinates rotation      *)
(* across processes/instances.  No stale token write."); and a logout has  *)
(* the token that ends the session at the provider too, unless one has     *)
(* ended it there.                                                         *)
RotationSurvives ==
  ~lost => /\ ~session.revoked /\ holder = "NONE" => session.refresh = provider
           /\ \A r \in Requests : page[r].at # "REFUSED"
           /\ logout # 0 => provider \in {logout, 0}
=============================================================================
