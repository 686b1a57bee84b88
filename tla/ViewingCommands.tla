-------------------------- MODULE ViewingCommands --------------------------
(***************************************************************************)
(* The command protocol around the operations of ViewingEpisodes:          *)
(* ViewingStore.command with its optimistic versions and its idempotency   *)
(* receipts.                                                               *)
(*                                                                         *)
(* A participant sends a request that names the version it saw.  Requests  *)
(* are never lost from the set "requests", so any of them may be delivered *)
(* late, out of order and again: a double click, a retry after a timeout,  *)
(* a reply that got lost.  A delivery that the store rejects, and one that *)
(* it answers from a receipt, changes nothing and is a stuttering step.    *)
(*                                                                         *)
(* The request hash of a receipt covers operation, resource and input, so  *)
(* a receipt keeps the whole request here.                                 *)
(***************************************************************************)
EXTENDS ViewingEpisodes, FiniteSets

CONSTANTS Keys,             \* idempotency keys a participant may send
          MaxRequests       \* bound: different requests ever sent

VARIABLES requests,         \* the request bodies sent so far
          receipts          \* viewing_command_receipts

commandVars == <<now, eligible, viewings, events, actions, jobs, requests, receipts>>

Operations == {"CREATE", "ACCEPT", "DECLINE", "CONFIRM", "CANCEL"}

\* resource: the Interaction (None) for CREATE, else a viewing; the version is
\* expected_version and the start is the proposed start of a CREATE.
Request == [side : Sides, key : Keys, operation : Operations,
            resource : Episodes \cup {None}, version : Nat, start : Nat]

CommandInit == Init /\ requests = {} /\ receipts = {}
-----------------------------------------------------------------------------
(* A participant sends a request for what it sees on its screen.  Nothing    *)
(* stops it from using a key again for another request.                      *)

Send(r) ==
  /\ Cardinality(requests) < MaxRequests
  /\ r \notin requests
  /\ requests' = requests \cup {r}
  /\ UNCHANGED <<now, eligible, viewings, events, actions, jobs, receipts>>

RequestsFor(e) ==
  {r \in [side : Sides, key : Keys, operation : Operations \ {"CREATE"},
          resource : {e}, version : {viewings[e].version}, start : {0}] :
     r.operation \in {"ACCEPT", "DECLINE"} => r.side = "PROVIDER"}

CreateRequests == [side : {"SEEKER"}, key : Keys, operation : {"CREATE"},
                   resource : {None}, version : {0}, start : Starts]
-----------------------------------------------------------------------------
(* The store receives a request: command().                                  *)

\* Mutant of Fresh: receipts are looked up by operation as well.
FreshForOperation(r) ==
  \A c \in receipts : \/ c.request.side # r.side \/ c.request.key # r.key
                      \/ c.request.operation # r.operation

\* The receipt lookup by (actor, key).  A prior receipt ends the command there:
\* IDEMPOTENCY_KEY_REUSED for another hash, a replay without effect otherwise.
Fresh(r) == \A c \in receipts : c.request.side # r.side \/ c.request.key # r.key

\* STALE_SCHEDULE_VERSION and STALE_VERSION; without rescheduling the schedule
\* version is 1 throughout.
Current(r) == r.operation # "CREATE" => viewings[r.resource].version = r.version

Operate(r, e) ==
  CASE r.operation = "CREATE"  -> Create(e, r.start)
    [] r.operation = "ACCEPT"  -> Accept(e)
    [] r.operation = "DECLINE" -> Decline(e)
    [] r.operation = "CONFIRM" -> Confirm(e, r.side)
    [] r.operation = "CANCEL"  -> Cancel(e, r.side)

Execute(r, e) ==
  /\ r \in requests
  /\ r.operation # "CREATE" => e = r.resource
  /\ Fresh(r)
  /\ Current(r)
  /\ Operate(r, e)
  /\ receipts' = receipts \cup {[request |-> r, viewing |-> e]}
  /\ UNCHANGED requests
-----------------------------------------------------------------------------
CommandNext ==
  \/ \E r \in CreateRequests : Send(r)
  \/ \E e \in Episodes : viewings[e] # NoViewing /\ \E r \in RequestsFor(e) : Send(r)
  \/ \E r \in requests, e \in Episodes : Execute(r, e)
  \/ (Worker \/ Tick \/ EligibilityChanges) /\ UNCHANGED <<requests, receipts>>

CommandSpec == CommandInit /\ [][CommandNext]_commandVars
-----------------------------------------------------------------------------
(* Properties.                                                               *)

ParticipantEvents ==
  UNION {{e} \X {i \in DOMAIN events[e] : events[e][i].side # "SYSTEM"} : e \in Episodes}

EventOf(operation) ==
  CASE operation = "CREATE"  -> {"viewing_requested"}
    [] operation = "ACCEPT"  -> {"viewing_accepted"}
    [] operation = "DECLINE" -> {"viewing_declined"}
    [] operation = "CONFIRM" -> {"viewing_confirmed", "viewing_scheduled"}
    [] operation = "CANCEL"  -> {"viewing_cancelled"}

\* Every participant effect in the log has exactly one receipt, of one request of
\* one key, however often requests are delivered; and it is the event right after
\* the version its sender saw, on the viewing the receipt names: no decision is
\* taken twice or on a stale screen.
EffectsOnceAsSeen ==
  /\ Cardinality(ParticipantEvents) = Cardinality(receipts)
  /\ \A c, d \in receipts :
       c.request.side = d.request.side /\ c.request.key = d.request.key => c = d
  /\ \A c \in receipts :
       LET r == c.request
       IN  /\ r.version < Len(events[c.viewing])
           /\ events[c.viewing][r.version + 1].type \in EventOf(r.operation)
           /\ events[c.viewing][r.version + 1].side = r.side
           /\ r.operation # "CREATE" => c.viewing = r.resource

=============================================================================
