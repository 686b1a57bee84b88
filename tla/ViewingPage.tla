----------------------------- MODULE ViewingPage -----------------------------
(***************************************************************************)
(* The details of a viewing in the browser: the viewing itself and, below  *)
(* it, the controls of the appointment, of the attendance and of the       *)
(* user's review, over servers that keep one version of the viewing and    *)
(* one of the review (viewing-controls.tsx, viewing-appointment-controls,  *)
(* viewing-attendance-controls, review-controls).                          *)
(*                                                                         *)
(* Each panel reads what it shows, and keeps a command until an answer     *)
(* below 500 confirms or refuses it.  Requests are lost, executed late or  *)
(* answered late; the counterparty uses the servers directly.              *)
(***************************************************************************)
EXTENDS Naturals, FiniteSets

CONSTANTS MaxChanges, \* bound: changes that are not of this page
          MaxTries    \* bound: commands and retries sent

ASSUME ViewingPageAssumption == {MaxChanges, MaxTries} \subseteq Nat \ {0}

VARIABLES version,   \* at the server, of the viewing and of the review
          receipts,  \* idempotency keys of executed commands
          effects,   \* clicks that changed a row
          requests,  \* what the server may still execute
          answers,   \* under way to the panels
          tries,     \* requests sent so far
          view,      \* what the page holds, see ViewingPageInit
          refused,   \* clicks the user was told came too late for their version
          controls   \* bound: the controls that read and send in this behaviour

rows == <<version, receipts, effects>>
network == <<requests, answers, tries>>
viewingPageVars == <<rows, network, view, refused, controls>>

Reporting == {"APPOINTMENT", "ATTENDANCE"}
Children == Reporting \cup {"REVIEW"}
Panels == {"VIEWING"} \cup Children
AllBusy == [p \in Reporting |-> p \in controls]
Row(p) == IF p = "REVIEW" THEN "REVIEW" ELSE "VIEWING"
Asking(p) == IF p = "APPOINTMENT" THEN 1 ELSE version[Row(p)]

NoAttempt == [key |-> 0, click |-> 0, seen |-> 0]
Nothing == [kind |-> "NONE", version |-> 0]

\* shown: the version a panel shows, 1 for the proposals and claims of any, 0 for
\* none; loading: 0, or the oldest version the answer may be of (busy), 1 where
\* that does not matter; childBusy: what the controls reported.
ViewingPageInit ==
  /\ controls \in {Reporting, {"REVIEW"}}
  /\ version = [r \in {"VIEWING", "REVIEW"} |-> 1] /\ receipts = {} /\ effects = {} /\ refused = {}
  /\ requests = {} /\ answers = [p \in Panels |-> Nothing] /\ tries = 0
  /\ view = [shown |-> [p \in Panels |-> 0], loading |-> [p \in Panels |-> IF p = "VIEWING" THEN 1 ELSE 0],
             pending |-> [p \in Panels |-> NoAttempt], sending |-> [p \in Panels |-> FALSE],
             stale |-> [p \in {"VIEWING", "REVIEW"} |-> FALSE], childBusy |-> AllBusy]

Busy(p) == view.loading[p] # 0

(* The servers: a request has a receipt, was made on another version, or   *)
(* is executed.  What is refused for other reasons is heard as a failure.  *)
Answer(request, kind, v) ==
  /\ requests' = requests \ {request} /\ UNCHANGED <<tries, view, refused>>
  /\ answers' = IF request.live THEN [answers EXCEPT ![request.panel] = [kind |-> kind, version |-> v]] ELSE answers

Execute(request) ==
  LET row == Row(request.panel) IN
  /\ request \in requests
  /\ \/ request.key \in receipts /\ UNCHANGED rows /\ Answer(request, "OK", version[row])
     \/ /\ request.key \notin receipts /\ request.seen # version[row]
        /\ UNCHANGED rows /\ Answer(request, "CONFLICT", 0)
     \/ /\ request.key \notin receipts /\ request.seen = version[row]
        /\ version' = [version EXCEPT ![row] = @ + 1]
        /\ receipts' = receipts \cup {request.key} /\ effects' = effects \cup {request.click}
        /\ Answer(request, "OK", version[row] + 1)

CounterpartyChanges ==
  /\ version["VIEWING"] + version["REVIEW"] - 2 - Cardinality(effects) < MaxChanges
  /\ \E r \in {"VIEWING"} \cup (controls \cap {"REVIEW"}) : version' = [version EXCEPT ![r] = @ + 1]
  /\ UNCHANGED <<receipts, effects, network, view, refused>>

(* What becomes of the page, and of the requests it no longer listens to.  *)
Unheeded(ps) == {IF r.panel \in ps THEN [r EXCEPT !.live = FALSE] ELSE r : r \in requests}
Deaf(ps) ==
  /\ requests' = Unheeded(ps) /\ UNCHANGED tries
  /\ answers' = [p \in Panels |-> IF p \in ps THEN Nothing ELSE answers[p]]

Reported(pg, p) ==
  IF p \notin Reporting THEN pg
  ELSE [pg EXCEPT !.childBusy[p] = pg.sending[p] \/ pg.loading[p] # 0 \/ pg.pending[p] # NoAttempt]

\* The viewing is shown, and every control below it reads again.
Showing(pg, v) ==
  [pg EXCEPT !.shown["VIEWING"] = v, !.stale["VIEWING"] = FALSE, !.childBusy = AllBusy,
             !.loading = [p \in Panels |-> IF p \in controls THEN Asking(p) ELSE 0]]

\* The viewing is shown no more, and the controls go with their attempts.
Emptied(pg) ==
  [pg EXCEPT !.shown = [p \in Panels |-> 0], !.loading = [p \in Panels |-> 0],
             !.pending = [p \in Panels |-> IF p = "VIEWING" THEN @[p] ELSE NoAttempt],
             !.sending = [p \in Panels |-> p = "VIEWING" /\ @[p]],
             !.stale["REVIEW"] = FALSE, !.childBusy = [p \in Reporting |-> FALSE]]

\* A control found out that the viewing has changed.
Outdated(pg) == [pg EXCEPT !.loading["VIEWING"] = 0, !.stale["VIEWING"] = TRUE]

(* Reading.                                                                *)
RefreshViewing ==
  /\ ~Busy("VIEWING") /\ ~view.sending["VIEWING"]
  /\ view' = [view EXCEPT !.loading["VIEWING"] = version["VIEWING"], !.childBusy = AllBusy]
  /\ UNCHANGED <<rows, network, refused>>

ViewingLoads ==
  /\ Busy("VIEWING") /\ UNCHANGED <<rows, refused>>
  /\ \/ /\ \E v \in view.loading["VIEWING"]..version["VIEWING"] : view' = Showing(view, v)
        /\ UNCHANGED network
     \/ view' = Emptied(view) /\ Deaf(Children)

RefreshChild(p) ==
  /\ view.shown["VIEWING"] # 0 /\ ~Busy(p) /\ ~view.sending[p] /\ (p = "APPOINTMENT" \/ view.pending[p] = NoAttempt)
  /\ view' = Reported([view EXCEPT !.loading[p] = Asking(p)], p)
  /\ UNCHANGED <<rows, network, refused>>

PanelLoaded(p, v) == Reported([view EXCEPT !.loading[p] = 0, !.shown[p] = v], p)
PanelFails(p) == view' = PanelLoaded(p, 0) /\ UNCHANGED network
LoadDenied == view' = Emptied(view) /\ Deaf(Panels)

AppointmentLoads ==
  /\ Busy("APPOINTMENT") /\ UNCHANGED <<rows, refused>>
  /\ \/ \E shows \in {view.shown["APPOINTMENT"], 1} : view' = PanelLoaded("APPOINTMENT", shows) /\ UNCHANGED network
     \/ PanelFails("APPOINTMENT") \/ LoadDenied

AttendanceLoads ==
  /\ Busy("ATTENDANCE") /\ UNCHANGED <<rows, refused>>
  /\ \/ \E v \in view.loading["ATTENDANCE"]..version["VIEWING"] :
          IF v = view.shown["VIEWING"] THEN view' = PanelLoaded("ATTENDANCE", 1) /\ UNCHANGED network
          ELSE view' = Outdated(PanelLoaded("ATTENDANCE", 1)) /\ Deaf({"VIEWING"})
     \/ PanelFails("ATTENDANCE") \/ LoadDenied

ReviewLoads ==
  /\ Busy("REVIEW") /\ UNCHANGED <<rows, network, refused>>
  /\ \/ \E v \in view.loading["REVIEW"]..version["REVIEW"] :
          view' = [PanelLoaded("REVIEW", v) EXCEPT !.stale["REVIEW"] = FALSE]
     \/ view' = PanelLoaded("REVIEW", 0)

(* Commands.  A new one needs a panel at rest, a retry only an attempt.    *)
Unavailable == Busy("VIEWING") \/ view.sending["VIEWING"] \/ view.stale["VIEWING"] \/ view.pending["VIEWING"] # NoAttempt

ViewingFree == ~view.stale["VIEWING"] /\ ~Busy("VIEWING") /\ \A p \in Reporting : ~view.childBusy[p]
AppointmentFree == ~Unavailable /\ ~view.childBusy["ATTENDANCE"] /\ ~Busy("APPOINTMENT")
AttendanceFree == ~Unavailable /\ ~view.childBusy["APPOINTMENT"] /\ ~Busy("ATTENDANCE")
ReviewFree ==
  ~Unavailable /\ ~Busy("REVIEW") /\ ~view.stale["REVIEW"] /\ \A p \in Reporting : ~view.childBusy[p]

Free(p) ==
  /\ view.shown[p] # 0
  /\ CASE p = "VIEWING" -> ViewingFree [] p = "APPOINTMENT" -> AppointmentFree
       [] p = "ATTENDANCE" -> AttendanceFree [] OTHER -> ReviewFree

\* Mutant of Repeated: a retry draws a key of its own.
RetriedAnew(p) ==
  IF view.pending[p] # NoAttempt THEN [view.pending[p] EXCEPT !.key = tries + 1]
  ELSE [key |-> tries + 1, click |-> tries + 1, seen |-> view.shown[Row(p)]]
Repeated(p) ==
  IF view.pending[p] # NoAttempt THEN view.pending[p]
  ELSE [key |-> tries + 1, click |-> tries + 1, seen |-> view.shown[Row(p)]]

Command(p) ==
  LET attempt == Repeated(p) IN
  /\ view.shown["VIEWING"] # 0 /\ ~view.sending[p] /\ (view.pending[p] # NoAttempt \/ Free(p))
  /\ tries < MaxTries /\ tries' = tries + 1
  /\ view' = Reported([view EXCEPT !.pending[p] = attempt, !.sending[p] = TRUE, !.loading[p] = 0], p)
  /\ requests' = requests \cup {[panel |-> p, live |-> TRUE, key |-> attempt.key, click |-> attempt.click, seen |-> attempt.seen]}
  /\ UNCHANGED <<rows, answers, refused>>

(* Answers.  DENIED and REFUSED requests are not executed (403, 429); one  *)
(* that is lost or late is an ERROR to the page, whatever becomes of it.   *)
Failures == {"DENIED", "REFUSED", "ERROR"}
Live(p) == {r \in requests : r.panel = p /\ r.live}

Heard(p, kind) ==
  \/ kind \notin Failures /\ answers[p].kind = kind
  \/ kind \in Failures /\ Live(p) # {}
  \/ kind = "ERROR" /\ answers[p] # Nothing

Answered(p, kind) ==
  [view EXCEPT !.sending[p] = FALSE, !.pending[p] = IF kind = "ERROR" THEN @ ELSE NoAttempt]
Denied(p, ps) ==
  /\ requests' = Unheeded(ps) \ {[r EXCEPT !.live = FALSE] : r \in Live(p)} /\ UNCHANGED tries
  /\ answers' = [q \in Panels |-> IF q \in ps THEN Nothing ELSE answers[q]]
Unconfirmed(p, kind) ==
  /\ view' = Reported(Answered(p, kind), p) /\ UNCHANGED tries
  /\ answers' = [answers EXCEPT ![p] = Nothing]
  /\ \/ kind = "REFUSED" /\ requests' = requests \ Live(p)
     \/ kind = "ERROR" /\ requests' = Unheeded({p})
Refuse(p, kind) ==
  refused' = IF kind = "CONFLICT" THEN refused \cup {view.pending[p].click} ELSE refused

ViewingAnswered(kind) ==
  /\ Heard("VIEWING", kind) /\ UNCHANGED rows /\ Refuse("VIEWING", kind)
  /\ \/ /\ kind = "OK" /\ view' = Showing(Answered("VIEWING", kind), answers["VIEWING"].version)
        /\ Deaf({"VIEWING"})
     \/ /\ kind = "CONFLICT" /\ view' = [Answered("VIEWING", kind) EXCEPT !.stale["VIEWING"] = TRUE]
        /\ Deaf({"VIEWING"})
     \/ kind = "DENIED" /\ view' = Emptied(Answered("VIEWING", kind)) /\ Denied("VIEWING", Panels)
     \/ Unconfirmed("VIEWING", kind)

\* onChange, onStale and onDenied end what the viewing waits for as well.
ChildAnswered(p, kind, shows) ==
  /\ Heard(p, kind) /\ UNCHANGED rows /\ Refuse(p, kind)
  /\ \/ kind = "OK" /\ view' = Showing([Answered(p, kind) EXCEPT !.shown[p] = shows], answers[p].version)
        /\ Deaf({"VIEWING", p})
     \/ kind = "CONFLICT" /\ view' = Outdated(Reported(Answered(p, kind), p)) /\ Deaf({"VIEWING", p})
     \/ kind = "DENIED" /\ view' = Emptied(Answered(p, kind)) /\ Denied(p, Panels)
     \/ Unconfirmed(p, kind)

AppointmentAnswered(kind) == ChildAnswered("APPOINTMENT", kind, view.shown["APPOINTMENT"])
AttendanceAnswered(kind) == ChildAnswered("ATTENDANCE", kind, 1)

ReviewAnswered(kind) ==
  /\ Heard("REVIEW", kind) /\ UNCHANGED rows /\ Refuse("REVIEW", kind)
  /\ \/ /\ kind = "OK" /\ Deaf({"REVIEW"})
        /\ view' = [Answered("REVIEW", kind) EXCEPT !.loading["REVIEW"] = 0, !.shown["REVIEW"] = answers["REVIEW"].version]
     \/ /\ kind = "CONFLICT" /\ Deaf({"REVIEW"})
        /\ view' = [Answered("REVIEW", kind) EXCEPT !.stale["REVIEW"] = TRUE]
     \/ kind = "DENIED" /\ view' = [Answered("REVIEW", kind) EXCEPT !.shown["REVIEW"] = 0] /\ Denied("REVIEW", {"REVIEW"})
     \/ Unconfirmed("REVIEW", kind)

ViewingPageNext ==
  /\ UNCHANGED controls
  /\ \/ RefreshViewing \/ ViewingLoads \/ AppointmentLoads \/ AttendanceLoads \/ ReviewLoads
     \/ \E p \in controls : RefreshChild(p)
     \/ \E p \in {"VIEWING"} \cup controls : Command(p)
     \/ \E kind \in Failures \cup {"OK", "CONFLICT"} :
          ViewingAnswered(kind) \/ AppointmentAnswered(kind) \/ AttendanceAnswered(kind) \/ ReviewAnswered(kind)
     \/ \E r \in requests : Execute(r)
     \/ CounterpartyChanges

ViewingPageSpec == ViewingPageInit /\ [][ViewingPageNext]_viewingPageVars

(***************************************************************************)
(* Properties.                                                             *)
(***************************************************************************)

(* A click the user was told came too late never takes effect, however     *)
(* late its first request or a retry lands: a retry repeats the key and    *)
(* the version of its attempt (viewing-controls 197-223 and its siblings). *)
(* And at most one of the viewing and its controls has a command that is   *)
(* not confirmed, so that a retry never competes with a command of another *)
(* panel on the same version (viewing-controls 231, 263-270).              *)
RefusedIsFinal ==
  /\ effects \cap refused = {}
  /\ Cardinality({p \in Panels \ {"REVIEW"} : view.pending[p] # NoAttempt}) <= 1
=============================================================================
