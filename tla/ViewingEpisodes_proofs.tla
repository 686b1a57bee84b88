----------------------- MODULE ViewingEpisodes_proofs -----------------------
(***************************************************************************)
(* Proofs about viewing episodes, for any number of episodes and worker    *)
(* runs, any start times and any windows: ViewingEpisodes with its types,  *)
(* its one appointment, its timers and its refinement of the database      *)
(* guard; ViewingCommands, which implements it, whatever is delivered;     *)
(* and ViewingAppointments, which adds rescheduling and reminders.         *)
(***************************************************************************)
EXTENDS ViewingCommands, ViewingAppointments, FiniteSetTheorems, TLAPS

\* The values written are typed: what a record() of any operation needs.
LEMMA RecordTypes ==
  ASSUME TypeOK, NEW e \in Episodes, NEW row \in Viewing, NEW type \in EventTypes,
         NEW side \in Sides \cup {"SYSTEM"}, Record(e, row, type, side)
  PROVE  /\ viewings' \in [Episodes -> Viewing]
         /\ events' \in [Episodes -> Seq(Event)]
<1>1. viewings[e].state \in States /\ row.state \in States
  BY DEF TypeOK, Viewing
<1>2. [type |-> type, prior |-> viewings[e].state, next |-> row.state, side |-> side] \in Event
  BY <1>1 DEF Event
<1> QED BY <1>2 DEF TypeOK, Record

\* Settling keeps an action typed, and so do a new due time and a lease.
LEMMA SettledTypes ==
  ASSUME NEW a \in Action, NEW outcome \in {"PENDING", "PROCESSED", "SKIPPED"}
  PROVE  Settled(a, outcome) \in Action
BY DEF Settled, Action

\* Moving the due time of an action keeps it typed.
LEMMA DueTypes ==
  ASSUME NEW a \in Action, NEW due \in Nat
  PROVE  [a EXCEPT !.due = due] \in Action
BY DEF Action

\* Leasing an action to a worker keeps it typed.
LEMMA LeasedTypes ==
  ASSUME NEW a \in Action, NEW w \in Workers, NEW until \in Nat
  PROVE  [a EXCEPT !.state = "LEASED", !.token = w, !.until = until] \in Action
BY DEF Action

\* So do the updates of a row that the operations make.
LEMMA RowUpdates ==
  ASSUME NEW v \in Viewing, NEW s \in States, NEW side \in Sides
  PROVE  /\ [v EXCEPT !.state = s, !.version = @ + 1] \in Viewing
         /\ [v EXCEPT !.state = s, !.version = @ + 1, !.scheduled = v.proposed] \in Viewing
         /\ [v EXCEPT !.version = @ + 1, !.state = s] \in Viewing
         /\ [v EXCEPT !.confirmed = @ \cup {side}, !.version = @ + 1, !.state = s] \in Viewing
<1>1. v.version + 1 \in Nat /\ v.proposed \in Nat /\ v.confirmed \cup {side} \in SUBSET Sides
  BY DEF Viewing
<1>2. [v EXCEPT !.state = s, !.version = @ + 1] \in Viewing BY <1>1 DEF Viewing
<1>3. [v EXCEPT !.state = s, !.version = @ + 1, !.scheduled = v.proposed] \in Viewing BY <1>1 DEF Viewing
<1>4. [v EXCEPT !.version = @ + 1, !.state = s] \in Viewing BY <1>1 DEF Viewing
<1>5. [v EXCEPT !.confirmed = @ \cup {side}, !.version = @ + 1, !.state = s] \in Viewing
  BY <1>1 DEF Viewing
<1> QED BY <1>2, <1>3, <1>4, <1>5

\* closeAction() leaves a typed action.
LEMMA CloseTypes ==
  ASSUME TypeOK, NEW e \in Episodes, CloseAction(e)
  PROVE  actions' \in [Episodes -> Action]
BY SettledTypes DEF CloseAction, TypeOK

\* The names the operations write are names of states.
LEMMA StateNames ==
  {"REQUESTED", "ACCEPTED", "SCHEDULED", "DECLINED", "EXPIRED",
   "CANCELLED_BY_SEEKER", "CANCELLED_BY_PROVIDER"} \subseteq States
BY DEF States, Guard!ViewingStates, Guard!Scheduling, Guard!Cancelled

\* Rows, events, actions and leases start typed.
LEMMA TypeInit == Init => TypeOK
BY DEF Init, TypeOK, NoViewing, NoAction, Viewing, Action, States

\* And every step keeps them so.
LEMMA TypeStep == TypeOK /\ [Next]_vars => TypeOK'
<1> SUFFICES ASSUME TypeOK, [Next]_vars PROVE TypeOK' OBVIOUS
<1> USE StartsAssumption, TimesAssumption, WorkersAssumption
<1>1. ASSUME NEW e \in Episodes, NEW start \in Starts, Create(e, start) PROVE TypeOK'
  <2> DEFINE deadline == Earliest(now + ResponseWindow, start)
             row == [NoViewing EXCEPT !.state = "REQUESTED", !.proposed = start,
                       !.deadline = deadline, !.version = 1, !.schedule_version = 1]
  <2>1. deadline \in Nat /\ start \in Nat BY DEF Earliest, TypeOK
  <2>2. row \in Viewing
    BY <2>1 DEF NoViewing, Viewing, States, Guard!ViewingStates, Guard!Scheduling
  <2>3. Record(e, row, "viewing_requested", "SEEKER") BY <1>1 DEF Create
  <2>4. actions' \in [Episodes -> Action] BY <1>1, <2>1 DEF Create, TypeOK, Action, NoAction
  <2> QED BY <1>1, <2>2, <2>3, <2>4, RecordTypes DEF Create, TypeOK, Sides, Guard!Sides, EventTypes
<1>2. ASSUME NEW e \in Episodes, Accept(e) PROVE TypeOK'
  <2> DEFINE row == [viewings[e] EXCEPT !.state = "ACCEPTED", !.version = @ + 1,
                       !.scheduled = viewings[e].proposed]
  <2>1. row \in Viewing BY StateNames, RowUpdates DEF TypeOK, Sides, Guard!Sides
  <2>2. Record(e, row, "viewing_accepted", "PROVIDER") BY <1>2 DEF Accept
  <2> QED BY <1>2, <2>1, <2>2, RecordTypes, CloseTypes DEF Accept, TypeOK, Sides, Guard!Sides, EventTypes
<1>3. ASSUME NEW e \in Episodes, Decline(e) PROVE TypeOK'
  <2> DEFINE row == [viewings[e] EXCEPT !.state = "DECLINED", !.version = @ + 1]
  <2>1. row \in Viewing BY StateNames, RowUpdates DEF TypeOK, Sides, Guard!Sides
  <2>2. Record(e, row, "viewing_declined", "PROVIDER") BY <1>3 DEF Decline
  <2> QED BY <1>3, <2>1, <2>2, RecordTypes, CloseTypes DEF Decline, TypeOK, Sides, Guard!Sides, EventTypes
<1>4. ASSUME NEW e \in Episodes, NEW side \in Sides, Confirm(e, side) PROVE TypeOK'
  <2> DEFINE both == viewings[e].confirmed \cup {side} = Sides
             row  == [viewings[e] EXCEPT !.confirmed = @ \cup {side}, !.version = @ + 1,
                        !.state = IF both THEN "SCHEDULED" ELSE "ACCEPTED"]
             type == IF both THEN "viewing_scheduled" ELSE "viewing_confirmed"
  <2>1. row \in Viewing BY StateNames, RowUpdates DEF TypeOK, Sides, Guard!Sides
  <2>2. Record(e, row, type, side) BY <1>4 DEF Confirm
  <2>3. type \in EventTypes BY DEF EventTypes
  <2> HIDE DEF row, type
  <2> QED BY <1>4, <2>1, <2>2, <2>3, RecordTypes DEF Confirm, TypeOK
<1>5. ASSUME NEW e \in Episodes, NEW side \in Sides, Cancel(e, side) PROVE TypeOK'
  <2> DEFINE row == [viewings[e] EXCEPT !.version = @ + 1,
                       !.state = IF side = "SEEKER" THEN "CANCELLED_BY_SEEKER" ELSE "CANCELLED_BY_PROVIDER"]
  <2>1. row \in Viewing BY StateNames, RowUpdates DEF TypeOK, Sides, Guard!Sides
  <2>2. Record(e, row, "viewing_cancelled", side) BY <1>5 DEF Cancel
  <2> HIDE DEF row
  <2> QED BY <1>5, <2>1, <2>2, RecordTypes, CloseTypes DEF Cancel, TypeOK, EventTypes
<1>6. ASSUME NEW w \in Workers, Lease(w) PROVE TypeOK'
  <2>1. now + LeaseTime \in Nat BY DEF TypeOK
  <2>2. actions' \in [Episodes -> Action] BY <1>6, <2>1, LeasedTypes DEF Lease, TypeOK
  <2> QED BY <1>6, <2>2 DEF Lease, TypeOK
<1>7. ASSUME NEW w \in Workers, NEW e \in Episodes, SkipBusy(w, e) PROVE TypeOK'
  <2>1. Released(actions[e]) \in Action BY SettledTypes DEF Released, TypeOK
  <2>2. actions' \in [Episodes -> Action]
    <3>1. CASE Owns(w, e) BY <1>7, <2>1, <3>1 DEF SkipBusy, TypeOK
    <3>2. CASE ~Owns(w, e) BY <1>7, <3>2 DEF SkipBusy, TypeOK
    <3> QED BY <3>1, <3>2
  <2> QED BY <1>7, <2>2 DEF SkipBusy, Handled, TypeOK
<1>8. ASSUME NEW w \in Workers, NEW e \in Episodes, LoseLease(w, e) PROVE TypeOK'
  BY <1>8 DEF LoseLease, Handled, TypeOK
<1>9. ASSUME NEW w \in Workers, NEW e \in Episodes, Handle(w, e) PROVE TypeOK'
  <2> DEFINE row == [viewings[e] EXCEPT !.state = "EXPIRED", !.version = @ + 1]
  <2>1. row \in Viewing BY StateNames, RowUpdates DEF TypeOK, Sides, Guard!Sides
  <2>2. /\ jobs' \in [Workers -> SUBSET Episodes]
        /\ now' = now /\ eligible' = eligible
    BY <1>9 DEF Handle, Handled, TypeOK
  <2>3. CASE viewings[e].state = "REQUESTED" /\ ~(viewings[e].deadline > now)
    <3>1. Record(e, row, "viewing_expired", "SYSTEM") BY <1>9, <2>3 DEF Handle
    <3>2. Settled(actions[e], "PROCESSED") \in Action BY SettledTypes DEF TypeOK
    <3>3. actions' \in [Episodes -> Action] BY <1>9, <2>3, <3>2 DEF Handle, TypeOK
    <3> QED BY <2>1, <2>2, <3>1, <3>3, RecordTypes DEF TypeOK, EventTypes
  <2>4. CASE ~(viewings[e].state = "REQUESTED" /\ ~(viewings[e].deadline > now))
    <3>1. viewings[e].deadline \in Nat BY DEF TypeOK, Viewing
    <3>2. /\ Settled(actions[e], "SKIPPED") \in Action
          /\ Released(actions[e]) \in Action
      BY SettledTypes DEF Released, TypeOK
    <3>3. [Released(actions[e]) EXCEPT !.due = viewings[e].deadline] \in Action
      BY <3>1, <3>2, DueTypes
    <3>4. actions' \in [Episodes -> Action] BY <1>9, <2>4, <3>2, <3>3 DEF Handle, TypeOK
    <3>5. UNCHANGED <<viewings, events>> BY <1>9, <2>4 DEF Handle
    <3> QED BY <2>2, <3>4, <3>5 DEF TypeOK
  <2> QED BY <2>3, <2>4
<1>10. ASSUME NEW w \in Workers, Crash(w) PROVE TypeOK'
  BY <1>10 DEF Crash, TypeOK
<1>11. CASE Tick
  BY <1>11 DEF Tick, TypeOK
<1>12. CASE EligibilityChanges
  BY <1>12 DEF EligibilityChanges, TypeOK
<1>13. CASE UNCHANGED vars
  BY <1>13 DEF vars, TypeOK
<1> QED BY <1>1, <1>2, <1>3, <1>4, <1>5, <1>6, <1>7, <1>8, <1>9, <1>10, <1>11, <1>12, <1>13 DEF Next, Command, Worker

\* TypeOK holds in every reachable state.
THEOREM TypeCorrect == Safety => []TypeOK
BY TypeInit, TypeStep, PTL DEF Safety
-----------------------------------------------------------------------------
(* OneCurrentAppointment.  Only Create adds a row to those that occupy the   *)
(* slot, and it looks at every other row first.                              *)

Holds(v) == v.state \in Guard!Scheduling \/ (v.state = "DISPUTED" /\ ~v.validated)

\* OneCurrentAppointment without the mapping to the rows of the guard.
LEMMA Exclusive ==
  OneCurrentAppointment <=> \A e, f \in Episodes : Holds(viewings[e]) /\ Holds(viewings[f]) => e = f
BY DEF OneCurrentAppointment, Guard!OneCurrent, Guard!Occupies, Holds

\* The same in the state after a step.
LEMMA ExclusiveNext ==
  OneCurrentAppointment' <=> \A e, f \in Episodes : Holds(viewings'[e]) /\ Holds(viewings'[f]) => e = f
BY DEF OneCurrentAppointment, Guard!OneCurrent, Guard!Occupies, Holds

\* Updating rows that held the slot before keeps it exclusive.
LEMMA SlotKept ==
  ASSUME OneCurrentAppointment, \A e \in Episodes : Holds(viewings'[e]) => Holds(viewings[e])
  PROVE  OneCurrentAppointment'
BY Exclusive, ExclusiveNext

\* An Interaction never has two current appointments.
THEOREM OneCurrentCorrect == Safety => []OneCurrentAppointment
<1>1. Init => OneCurrentAppointment
  BY DEF Init, OneCurrentAppointment, Guard!OneCurrent, Guard!Occupies, Guard!Scheduling, NoViewing
<1>2. TypeOK /\ TypeOK' /\ OneCurrentAppointment /\ [Next]_vars => OneCurrentAppointment'
  <2> SUFFICES ASSUME TypeOK, TypeOK', OneCurrentAppointment, [Next]_vars
               PROVE  OneCurrentAppointment'
    OBVIOUS
  <2>1. ASSUME NEW e \in Episodes, NEW start \in Starts, Create(e, start)
        PROVE  OneCurrentAppointment'
    <3>1. \A o \in Episodes : ~Holds(viewings[o])
      BY <2>1 DEF Create, RequestBlocking, Guard!Scheduling, Holds
    <3>2. \A o \in Episodes \ {e} : viewings'[o] = viewings[o]
      BY <2>1 DEF Create, Record, TypeOK
    <3> QED BY <3>1, <3>2, ExclusiveNext
  <2>2. ASSUME NEW e \in Episodes, Accept(e) PROVE OneCurrentAppointment'
    <3>1. \A o \in Episodes : Holds(viewings'[o]) => Holds(viewings[o])
      BY <2>2 DEF Accept, Record, Holds, Guard!Scheduling, TypeOK, Viewing
    <3> QED BY <3>1, SlotKept
  <2>3. ASSUME NEW e \in Episodes, Decline(e) PROVE OneCurrentAppointment'
    <3>1. \A o \in Episodes : Holds(viewings'[o]) => Holds(viewings[o])
      BY <2>3 DEF Decline, Record, Holds, Guard!Scheduling, TypeOK, Viewing
    <3> QED BY <3>1, SlotKept
  <2>4. ASSUME NEW e \in Episodes, NEW side \in Sides, Confirm(e, side) PROVE OneCurrentAppointment'
    <3>1. \A o \in Episodes : Holds(viewings'[o]) => Holds(viewings[o])
      BY <2>4 DEF Confirm, Record, Holds, Guard!Scheduling, TypeOK, Viewing
    <3> QED BY <3>1, SlotKept
  <2>5. ASSUME NEW e \in Episodes, NEW side \in Sides, Cancel(e, side) PROVE OneCurrentAppointment'
    <3>1. \A o \in Episodes : Holds(viewings'[o]) => Holds(viewings[o])
      BY <2>5 DEF Cancel, Record, Holds, Guard!Scheduling, TypeOK, Viewing
    <3> QED BY <3>1, SlotKept
  <2>6. ASSUME NEW w \in Workers, NEW e \in Episodes, Handle(w, e) PROVE OneCurrentAppointment'
    <3>1. \A o \in Episodes : Holds(viewings'[o]) => Holds(viewings[o])
      BY <2>6 DEF Handle, Record, Holds, Guard!Scheduling, TypeOK, Viewing
    <3> QED BY <3>1, SlotKept
  <2>7. CASE UNCHANGED viewings
    BY <2>7, SlotKept
  <2>8. ASSUME NEW w \in Workers, NEW e \in Episodes, SkipBusy(w, e) \/ LoseLease(w, e)
        PROVE  UNCHANGED viewings
    BY <2>8 DEF SkipBusy, LoseLease
  <2>9. Tick \/ EligibilityChanges \/ UNCHANGED vars => UNCHANGED viewings
    BY DEF Tick, EligibilityChanges, vars
  <2>10. ASSUME NEW w \in Workers, Lease(w) \/ Crash(w) PROVE UNCHANGED viewings
    BY <2>10 DEF Lease, Crash
  <2> QED BY <2>1, <2>2, <2>3, <2>4, <2>5, <2>6, <2>7, <2>8, <2>9, <2>10 DEF Next, Command, Worker
<1> QED BY <1>1, <1>2, TypeCorrect, PTL DEF Safety
-----------------------------------------------------------------------------
(* The two halves of TimerArmed are inductive only together: Handle settles  *)
(* the action of a row that is REQUESTED because the action is open, and no  *)
(* settled action is opened again.                                           *)

\* TimerArmed for one episode.
Armed(v, a) ==
  /\ v.state = "REQUESTED" => Open(a) /\ a.due = v.deadline
  /\ v.state # "REQUESTED" => ~Open(a)
  /\ a.state = "PROCESSED" <=> v.state = "EXPIRED"

\* TimerArmed holds exactly when it holds of each episode alone.
LEMMA TimerByEpisode ==
  TimerArmed <=> \A e \in Episodes : Armed(viewings[e], actions[e])
BY DEF TimerArmed, Armed

\* The same in the state after a step.
LEMMA TimerByEpisodeNext ==
  TimerArmed' <=> \A e \in Episodes : Armed(viewings'[e], actions'[e])
BY DEF TimerArmed, Armed, Open

\* A step that touches the row and the action of one episode.
LEMMA OneEpisode ==
  ASSUME TimerArmed, NEW e \in Episodes, Armed(viewings'[e], actions'[e]),
         \A o \in Episodes \ {e} : viewings'[o] = viewings[o] /\ actions'[o] = actions[o]
  PROVE  TimerArmed'
BY TimerByEpisode, TimerByEpisodeNext

\* What settling does to the fields Armed reads.
LEMMA SettledFields ==
  ASSUME NEW a \in Action, NEW outcome
  PROVE  Settled(a, outcome).state = outcome /\ Settled(a, outcome).due = a.due
BY DEF Settled, Action

\* The expiry action is open exactly for the requests that wait, and PROCESSED
\* exactly for those that expired.
THEOREM TimerCorrect == Safety => []TimerArmed
<1>1. Init => TimerArmed
  BY TimerByEpisode DEF Init, NoViewing, NoAction, Armed, Open
<1>2. TypeOK /\ TypeOK' /\ TimerArmed /\ [Next]_vars => TimerArmed'
  <2> SUFFICES ASSUME TypeOK, TypeOK', TimerArmed, [Next]_vars PROVE TimerArmed'
    OBVIOUS
  <2>0. \A e \in Episodes : Armed(viewings[e], actions[e]) BY TimerByEpisode
  <2>1. ASSUME NEW e \in Episodes, NEW start \in Starts, Create(e, start) PROVE TimerArmed'
    <3>1. Armed(viewings'[e], actions'[e])
      BY <2>1 DEF Create, Record, NoViewing, NoAction, Armed, Open, TypeOK
    <3>2. \A o \in Episodes \ {e} : viewings'[o] = viewings[o] /\ actions'[o] = actions[o]
      BY <2>1 DEF Create, Record, TypeOK
    <3> QED BY <3>1, <3>2, OneEpisode
  <2>2. ASSUME NEW e \in Episodes, Accept(e) PROVE TimerArmed'
    <3>1. Armed(viewings'[e], actions'[e])
      BY <2>0, <2>2 DEF Accept, Record, CloseAction, Settled, Armed, Open, TypeOK, Viewing, Action
    <3>2. \A o \in Episodes \ {e} : viewings'[o] = viewings[o] /\ actions'[o] = actions[o]
      BY <2>2 DEF Accept, Record, CloseAction, TypeOK
    <3> QED BY <3>1, <3>2, OneEpisode
  <2>3. ASSUME NEW e \in Episodes, Decline(e) PROVE TimerArmed'
    <3>1. Armed(viewings'[e], actions'[e])
      BY <2>0, <2>3 DEF Decline, Record, CloseAction, Settled, Armed, Open, TypeOK, Viewing, Action
    <3>2. \A o \in Episodes \ {e} : viewings'[o] = viewings[o] /\ actions'[o] = actions[o]
      BY <2>3 DEF Decline, Record, CloseAction, TypeOK
    <3> QED BY <3>1, <3>2, OneEpisode
  <2>4. ASSUME NEW e \in Episodes, NEW side \in Sides, Confirm(e, side) PROVE TimerArmed'
    <3>1. Armed(viewings'[e], actions'[e])
      <4>1. /\ viewings[e].state = "ACCEPTED" /\ actions' = actions
            /\ viewings'[e].state \in {"ACCEPTED", "SCHEDULED"}
        <5> DEFINE both == viewings[e].confirmed \cup {side} = Sides
                   s    == IF both THEN "SCHEDULED" ELSE "ACCEPTED"
        <5>1. s \in {"ACCEPTED", "SCHEDULED"} OBVIOUS
        <5>2. viewings'[e] = [viewings[e] EXCEPT !.confirmed = @ \cup {side}, !.version = @ + 1, !.state = s]
          BY <2>4 DEF Confirm, Record, TypeOK
        <5> HIDE DEF s
        <5>3. viewings'[e].state = s BY <5>2 DEF TypeOK, Viewing
        <5> QED BY <2>4, <5>1, <5>3 DEF Confirm
      <4> QED BY <2>0, <4>1 DEF Armed
    <3>2. \A o \in Episodes \ {e} : viewings'[o] = viewings[o] /\ actions'[o] = actions[o]
      BY <2>4 DEF Confirm, Record, TypeOK
    <3> QED BY <3>1, <3>2, OneEpisode
  <2>5. ASSUME NEW e \in Episodes, NEW side \in Sides, Cancel(e, side) PROVE TimerArmed'
    <3>1. Armed(viewings'[e], actions'[e])
      BY <2>0, <2>5 DEF Cancel, Cancellable, Record, CloseAction, Settled, Armed, Open, TypeOK, Viewing, Action
    <3>2. \A o \in Episodes \ {e} : viewings'[o] = viewings[o] /\ actions'[o] = actions[o]
      BY <2>5 DEF Cancel, Record, CloseAction, TypeOK
    <3> QED BY <3>1, <3>2, OneEpisode
  <2>6. ASSUME NEW w \in Workers, Lease(w) PROVE TimerArmed'
    <3>1. ASSUME NEW e \in Episodes PROVE Armed(viewings[e], actions'[e])
      <4>1. CASE Due(e)
        <5>1. actions'[e].state = "LEASED" /\ actions'[e].due = actions[e].due
          <6>1. actions'[e] = [actions[e] EXCEPT !.state = "LEASED", !.token = w, !.until = now + LeaseTime]
            BY <2>6, <4>1 DEF Lease
          <6>2. actions[e] \in Action BY DEF TypeOK
          <6> QED BY <6>1, <6>2 DEF Action
        <5>2. Open(actions[e]) BY <4>1 DEF Due, Open
        <5> QED BY <2>0, <5>1, <5>2 DEF Armed, Open
      <4>2. CASE ~Due(e)
        BY <2>0, <2>6, <4>2 DEF Lease
      <4> QED BY <4>1, <4>2
    <3> QED BY <2>6, <3>1, TimerByEpisodeNext DEF Lease
  <2>7. ASSUME NEW w \in Workers, NEW e \in Episodes, SkipBusy(w, e) PROVE TimerArmed'
    <3>1. Armed(viewings'[e], actions'[e])
      <4>1. CASE Owns(w, e)
        <5>1. actions'[e] = Released(actions[e]) BY <2>7, <4>1 DEF SkipBusy, TypeOK
        <5>2. actions'[e].state = "PENDING" /\ actions'[e].due = actions[e].due
          BY <5>1, SettledFields DEF Released, TypeOK
        <5>3. viewings' = viewings /\ actions[e].state = "LEASED" BY <2>7, <4>1 DEF SkipBusy, Owns
        <5> QED BY <2>0, <5>2, <5>3 DEF Armed, Open
      <4>2. CASE ~Owns(w, e)
        BY <2>0, <2>7, <4>2 DEF SkipBusy, TypeOK
      <4> QED BY <4>1, <4>2
    <3>2. \A o \in Episodes \ {e} : viewings'[o] = viewings[o] /\ actions'[o] = actions[o]
      BY <2>7 DEF SkipBusy, TypeOK
    <3> QED BY <3>1, <3>2, OneEpisode
  <2>8. ASSUME NEW w \in Workers, NEW e \in Episodes, Handle(w, e) PROVE TimerArmed'
    <3>1. viewings[e].state = "REQUESTED"
      BY <2>0, <2>8 DEF Handle, Owns, Armed, Open
    <3>2. Armed(viewings'[e], actions'[e])
      <4>1. CASE viewings[e].deadline > now
        <5>1. /\ actions'[e] = [Released(actions[e]) EXCEPT !.due = viewings[e].deadline]
              /\ viewings' = viewings
          BY <2>8, <3>1, <4>1 DEF Handle, TypeOK
        <5>2. actions'[e].state = "PENDING" /\ actions'[e].due = viewings[e].deadline
          <6>1. Released(actions[e]) \in Action BY SettledTypes DEF Released, TypeOK
          <6>2. Released(actions[e]).state = "PENDING" BY SettledFields DEF Released, TypeOK
          <6> QED BY <5>1, <6>1, <6>2 DEF Action
        <5> QED BY <3>1, <5>1, <5>2 DEF Armed, Open
      <4>2. CASE ~(viewings[e].deadline > now)
        <5>1. actions'[e] = Settled(actions[e], "PROCESSED") BY <2>8, <3>1, <4>2 DEF Handle, TypeOK
        <5>2. actions'[e].state = "PROCESSED" BY <5>1, SettledFields DEF TypeOK
        <5>3. viewings'[e].state = "EXPIRED"
          <6>1. viewings'[e] = [viewings[e] EXCEPT !.state = "EXPIRED", !.version = @ + 1]
            BY <2>8, <3>1, <4>2 DEF Handle, Record, TypeOK
          <6> QED BY <6>1 DEF TypeOK, Viewing
        <5> QED BY <5>2, <5>3 DEF Armed, Open
      <4> QED BY <4>1, <4>2
    <3>3. \A o \in Episodes \ {e} : viewings'[o] = viewings[o] /\ actions'[o] = actions[o]
      BY <2>8 DEF Handle, Record, TypeOK
    <3> QED BY <3>2, <3>3, OneEpisode
  <2>9. CASE UNCHANGED <<viewings, actions>>
    BY <2>0, <2>9, TimerByEpisodeNext
  <2>10. ASSUME NEW w \in Workers, Crash(w) \/ \E e \in Episodes : LoseLease(w, e)
         PROVE  UNCHANGED <<viewings, actions>>
    BY <2>10 DEF Crash, LoseLease
  <2>11. Tick \/ EligibilityChanges \/ UNCHANGED vars => UNCHANGED <<viewings, actions>>
    BY DEF Tick, EligibilityChanges, vars
  <2> QED BY <2>1, <2>2, <2>3, <2>4, <2>5, <2>6, <2>7, <2>8, <2>9, <2>10, <2>11 DEF Next, Command, Worker
<1> QED BY <1>1, <1>2, TypeCorrect, PTL DEF Safety
-----------------------------------------------------------------------------
(* ViewingCommands.  Whatever is delivered, and however often, the rows move  *)
(* as ViewingEpisodes lets them; and the log has one event per version, so  *)
(* that the version a request names is the place of the event it causes.    *)

\* What participants may have sent.
RequestsSent ==
  \A r \in requests :
    /\ r.side \in Sides /\ r.operation \in Operations /\ r.version \in Nat
    /\ r.operation = "CREATE" => r.side = "SEEKER" /\ r.version = 0 /\ r.start \in Starts
    /\ r.operation # "CREATE" => r.resource \in Episodes
    /\ r.operation \in {"ACCEPT", "DECLINE"} => r.side = "PROVIDER"

Numbered == \A e \in Episodes : Len(events[e]) = viewings[e].version

\* The receipts and the events they are for can be counted.
Counted ==
  /\ IsFiniteSet(receipts) /\ IsFiniteSet(ParticipantEvents)
  /\ \A c \in receipts : c.viewing \in Episodes /\ c.request.version \in Nat

CommandInv == TypeOK /\ RequestsSent /\ Numbered /\ Counted /\ EffectsOnceAsSeen

\* An operation is a command of ViewingEpisodes.
LEMMA ExecuteIsCommand ==
  ASSUME RequestsSent, NEW r \in requests, NEW e \in Episodes, Execute(r, e)
  PROVE  Command
<1>1. r.side \in Sides /\ r.operation \in Operations /\ (r.operation = "CREATE" => r.start \in Starts)
  BY DEF RequestsSent
<1>2. Operate(r, e) BY DEF Execute
<1> QED BY <1>1, <1>2 DEF Operations, Operate, Command

\* The envelope adds nothing to what a step may do to the rows.
LEMMA EnvelopeSteps == RequestsSent /\ [CommandNext]_commandVars => [Next]_vars
BY ExecuteIsCommand DEF CommandNext, commandVars, vars, Send, Next

LEMMA RequestsSentStep == TypeOK /\ RequestsSent /\ [CommandNext]_commandVars => RequestsSent'
<1> SUFFICES ASSUME TypeOK, RequestsSent, [CommandNext]_commandVars PROVE RequestsSent' OBVIOUS
<1>1. ASSUME NEW r \in CreateRequests, Send(r) PROVE RequestsSent'
  <2>1. r.side = "SEEKER" /\ r.operation = "CREATE" /\ r.version = 0 /\ r.start \in Starts
    BY DEF CreateRequests
  <2> QED BY <1>1, <2>1 DEF Send, RequestsSent, Operations, Sides, Guard!Sides
<1>2. ASSUME NEW e \in Episodes, NEW r \in RequestsFor(e), Send(r) PROVE RequestsSent'
  <2>1. /\ r.side \in Sides /\ r.operation \in Operations \ {"CREATE"} /\ r.resource = e
        /\ r.version = viewings[e].version /\ (r.operation \in {"ACCEPT", "DECLINE"} => r.side = "PROVIDER")
    BY DEF RequestsFor
  <2>2. viewings[e].version \in Nat BY DEF TypeOK, Viewing
  <2> QED BY <1>2, <2>1, <2>2 DEF Send, RequestsSent
<1>3. CASE UNCHANGED requests
  BY <1>3 DEF RequestsSent
<1> QED BY <1>1, <1>2, <1>3 DEF CommandNext, commandVars, Execute

\* Commands and their receipts move the rows as ViewingEpisodes says: what is
\* proved of it holds under every delivery of every request.
THEOREM CommandsImplement == CommandSpec => Safety
<1>1. CommandInit => Init /\ TypeOK /\ RequestsSent
  BY TypeInit DEF CommandInit, RequestsSent
<1> QED BY <1>1, TypeStep, EnvelopeSteps, RequestsSentStep, PTL DEF CommandSpec, Safety
\* The event log seen as a set: what is in ParticipantEvents.
LEMMA InTheLog ==
  \A x : x \in ParticipantEvents <=>
    \E e \in Episodes : \E i \in DOMAIN events[e] : x = <<e, i>> /\ events[e][i].side # "SYSTEM"
BY DEF ParticipantEvents

\* The same in the state after a step.
LEMMA InTheLogNext ==
  \A x : x \in ParticipantEvents' <=>
    \E e \in Episodes : \E i \in DOMAIN events'[e] : x = <<e, i>> /\ events'[e][i].side # "SYSTEM"
BY DEF ParticipantEvents

\* A step that records one event, with the version that follows.
Advances(e, type, side) ==
  \E row \in Viewing : Record(e, row, type, side) /\ row.version = viewings[e].version + 1

\* It adds one entry to the log, at the place of the version it ends.
LEMMA AdvanceLogs ==
  ASSUME TypeOK, Numbered, NEW e \in Episodes, NEW type, NEW side, Advances(e, type, side)
  PROVE  /\ Numbered'
         /\ \A o \in Episodes : Len(events[o]) <= Len(events'[o])
         /\ \A o \in Episodes : \A i \in 1 .. Len(events[o]) : events'[o][i] = events[o][i]
         /\ Len(events'[e]) = Len(events[e]) + 1
         /\ events'[e][viewings[e].version + 1].type = type /\ events'[e][viewings[e].version + 1].side = side
         /\ <<e, viewings[e].version + 1>> \notin ParticipantEvents
         /\ ParticipantEvents' = ParticipantEvents \cup (IF side = "SYSTEM" THEN {} ELSE {<<e, viewings[e].version + 1>>})
<1>1. PICK row \in Viewing : Record(e, row, type, side) /\ row.version = viewings[e].version + 1
  BY DEF Advances
<1> DEFINE n == viewings[e].version
           event == [type |-> type, prior |-> viewings[e].state, next |-> row.state, side |-> side]
<1>2. /\ viewings' = [viewings EXCEPT ![e] = row] /\ events' = [events EXCEPT ![e] = Append(events[e], event)]
      /\ n \in Nat /\ events[e] \in Seq(Event) /\ Len(events[e]) = n
  BY <1>1 DEF Record, TypeOK, Viewing, Numbered
<1>3. /\ viewings'[e] = row /\ events'[e] = Append(events[e], event)
      /\ \A o \in Episodes \ {e} : viewings'[o] = viewings[o] /\ events'[o] = events[o]
  BY <1>2 DEF TypeOK
<1>4. event.type = type /\ event.side = side
  OBVIOUS
<1> HIDE DEF event
<1>5. /\ Len(events'[e]) = n + 1 /\ events'[e][n + 1] = event
      /\ \A i \in 1 .. n : events'[e][i] = events[e][i]
      /\ DOMAIN events[e] = 1 .. n /\ DOMAIN events'[e] = 1 .. (n + 1)
  BY <1>2, <1>3
<1>6. \A o \in Episodes : Len(events[o]) \in Nat
  BY DEF TypeOK
<1>7. Numbered'
  BY <1>1, <1>3, <1>5 DEF Numbered
<1>8. <<e, n + 1>> \notin ParticipantEvents
  BY <1>2, <1>5, InTheLog
<1>9. ParticipantEvents' = ParticipantEvents \cup (IF side = "SYSTEM" THEN {} ELSE {<<e, n + 1>>})
  <2>1. ASSUME NEW x, x \in ParticipantEvents'
        PROVE  x \in ParticipantEvents \/ (side # "SYSTEM" /\ x = <<e, n + 1>>)
    <3>1. PICK o \in Episodes : \E i \in DOMAIN events'[o] : x = <<o, i>> /\ events'[o][i].side # "SYSTEM"
      BY <2>1, InTheLogNext
    <3>2. PICK i \in DOMAIN events'[o] : x = <<o, i>> /\ events'[o][i].side # "SYSTEM"
      BY <3>1
    <3>3. CASE o # e
      BY <1>3, <3>2, <3>3, InTheLog
    <3>4. CASE o = e
      <4>1. CASE i = n + 1
        BY <1>4, <1>5, <3>2, <3>4, <4>1
      <4>2. CASE i # n + 1
        <5>1. i \in 1 .. n BY <1>2, <1>5, <3>2, <3>4, <4>2
        <5> QED BY <1>5, <3>2, <3>4, <5>1, InTheLog
      <4> QED BY <4>1, <4>2
    <3> QED BY <3>3, <3>4
  <2>2. ASSUME NEW x, x \in ParticipantEvents PROVE x \in ParticipantEvents'
    <3>1. PICK o \in Episodes : \E i \in DOMAIN events[o] : x = <<o, i>> /\ events[o][i].side # "SYSTEM"
      BY <2>2, InTheLog
    <3>2. PICK i \in DOMAIN events[o] : x = <<o, i>> /\ events[o][i].side # "SYSTEM"
      BY <3>1
    <3>3. CASE o # e
      BY <1>3, <3>2, <3>3, InTheLogNext
    <3>4. CASE o = e
      <4>1. i \in 1 .. n /\ i \in 1 .. (n + 1) BY <1>2, <1>5, <3>2, <3>4
      <4> QED BY <1>5, <3>2, <3>4, <4>1, InTheLogNext
    <3> QED BY <3>3, <3>4
  <2>3. side # "SYSTEM" => <<e, n + 1>> \in ParticipantEvents'
    <3>1. n + 1 \in 1 .. (n + 1) BY <1>2
    <3> QED BY <1>4, <1>5, <3>1, InTheLogNext
  <2> QED BY <2>1, <2>2, <2>3
<1>10. \A o \in Episodes : /\ Len(events[o]) <= Len(events'[o])
                           /\ \A i \in 1 .. Len(events[o]) : events'[o][i] = events[o][i]
  <2>1. ASSUME NEW o \in Episodes, o # e
        PROVE  Len(events[o]) <= Len(events'[o]) /\ \A i \in 1 .. Len(events[o]) : events'[o][i] = events[o][i]
    BY <1>3, <1>6, <2>1
  <2>2. Len(events[e]) <= Len(events'[e]) /\ \A i \in 1 .. Len(events[e]) : events'[e][i] = events[e][i]
    BY <1>2, <1>5
  <2> QED BY <2>1, <2>2
<1> QED BY <1>2, <1>4, <1>5, <1>7, <1>8, <1>9, <1>10
\* Every command advances its viewing by one version, from the one its sender saw.
LEMMA ExecuteAdvances ==
  ASSUME TypeOK, RequestsSent, NEW r \in requests, NEW e \in Episodes, Execute(r, e)
  PROVE  /\ viewings[e].version = r.version
         /\ \E type \in EventOf(r.operation) : Advances(e, type, r.side)
<1>1. /\ r.side \in Sides /\ r.operation \in Operations /\ r.version \in Nat
      /\ r.operation = "CREATE" => r.side = "SEEKER" /\ r.version = 0 /\ r.start \in Starts
      /\ r.operation \in {"ACCEPT", "DECLINE"} => r.side = "PROVIDER"
      /\ Operate(r, e) /\ Current(r) /\ (r.operation # "CREATE" => e = r.resource)
  BY DEF RequestsSent, Execute
<1>2. viewings[e] \in Viewing /\ viewings[e].version \in Nat
  BY DEF TypeOK, Viewing
<1>3. CASE r.operation = "CREATE"
  <2> DEFINE deadline == Earliest(now + ResponseWindow, r.start)
             row == [NoViewing EXCEPT !.state = "REQUESTED", !.proposed = r.start,
                       !.deadline = deadline, !.version = 1, !.schedule_version = 1]
  <2>1. viewings[e] = NoViewing /\ Record(e, row, "viewing_requested", "SEEKER")
    BY <1>1, <1>3 DEF Operate, Create
  <2>2. deadline \in Nat /\ r.start \in Nat
    <3>1. r.start \in Nat /\ now \in Nat /\ ResponseWindow \in Nat
      BY <1>1, <1>3, StartsAssumption, TimesAssumption DEF TypeOK
    <3> QED BY <3>1 DEF Earliest
  <2>3. row \in Viewing /\ row.version = 1 /\ NoViewing.version = 0
    BY <2>2 DEF NoViewing, Viewing, States, Guard!ViewingStates, Guard!Scheduling
  <2> HIDE DEF row
  <2>4. Advances(e, "viewing_requested", "SEEKER")
    BY <2>1, <2>3 DEF Advances
  <2> QED BY <1>1, <1>3, <2>1, <2>3, <2>4 DEF EventOf
<1>4. CASE r.operation = "ACCEPT"
  <2> DEFINE row == [viewings[e] EXCEPT !.state = "ACCEPTED", !.version = @ + 1, !.scheduled = viewings[e].proposed]
  <2>1. row \in Viewing /\ row.version = viewings[e].version + 1
    BY <1>2, StateNames, RowUpdates DEF Sides, Guard!Sides, Viewing
  <2>2. Record(e, row, "viewing_accepted", "PROVIDER")
    BY <1>1, <1>4 DEF Operate, Accept
  <2> HIDE DEF row
  <2> QED BY <1>1, <1>4, <2>1, <2>2 DEF EventOf, Advances, Current
<1>5. CASE r.operation = "DECLINE"
  <2> DEFINE row == [viewings[e] EXCEPT !.state = "DECLINED", !.version = @ + 1]
  <2>1. row \in Viewing /\ row.version = viewings[e].version + 1
    BY <1>2, StateNames, RowUpdates DEF Sides, Guard!Sides, Viewing
  <2>2. Record(e, row, "viewing_declined", "PROVIDER")
    BY <1>1, <1>5 DEF Operate, Decline
  <2> HIDE DEF row
  <2> QED BY <1>1, <1>5, <2>1, <2>2 DEF EventOf, Advances, Current
<1>6. CASE r.operation = "CONFIRM"
  <2> DEFINE both == viewings[e].confirmed \cup {r.side} = Sides
             s    == IF both THEN "SCHEDULED" ELSE "ACCEPTED"
             row  == [viewings[e] EXCEPT !.confirmed = @ \cup {r.side}, !.version = @ + 1, !.state = s]
             type == IF both THEN "viewing_scheduled" ELSE "viewing_confirmed"
  <2>1. s \in States /\ type \in {"viewing_confirmed", "viewing_scheduled"}
    BY StateNames
  <2>2. Record(e, row, type, r.side)
    BY <1>1, <1>6 DEF Operate, Confirm
  <2> HIDE DEF s, type
  <2>3. row \in Viewing /\ row.version = viewings[e].version + 1
    BY <1>1, <1>2, <2>1, RowUpdates DEF Viewing
  <2> HIDE DEF row
  <2> QED BY <1>1, <1>6, <2>1, <2>2, <2>3 DEF EventOf, Advances, Current
<1>7. CASE r.operation = "CANCEL"
  <2> DEFINE s   == IF r.side = "SEEKER" THEN "CANCELLED_BY_SEEKER" ELSE "CANCELLED_BY_PROVIDER"
             row == [viewings[e] EXCEPT !.version = @ + 1, !.state = s]
  <2>1. s \in States
    BY StateNames
  <2>2. Record(e, row, "viewing_cancelled", r.side)
    BY <1>1, <1>7 DEF Operate, Cancel
  <2> HIDE DEF s
  <2>3. row \in Viewing /\ row.version = viewings[e].version + 1
    BY <1>1, <1>2, <2>1, RowUpdates DEF Viewing
  <2> HIDE DEF row
  <2> QED BY <1>1, <1>7, <2>2, <2>3 DEF EventOf, Advances, Current
<1> QED BY <1>1, <1>3, <1>4, <1>5, <1>6, <1>7 DEF Operations

\* The worker records the expiry of a request, in its own name, or nothing.
LEMMA WorkerAdvances ==
  ASSUME TypeOK, Worker
  PROVE  UNCHANGED <<viewings, events>> \/ \E e \in Episodes : Advances(e, "viewing_expired", "SYSTEM")
<1>1. ASSUME NEW w \in Workers, NEW e \in Episodes, Handle(w, e)
      PROVE  UNCHANGED <<viewings, events>> \/ Advances(e, "viewing_expired", "SYSTEM")
  <2> DEFINE row == [viewings[e] EXCEPT !.state = "EXPIRED", !.version = @ + 1]
  <2>1. row \in Viewing /\ row.version = viewings[e].version + 1
    BY StateNames, RowUpdates DEF TypeOK, Viewing, Sides, Guard!Sides
  <2>2. UNCHANGED <<viewings, events>> \/ Record(e, row, "viewing_expired", "SYSTEM")
    BY <1>1 DEF Handle
  <2> HIDE DEF row
  <2> QED BY <2>1, <2>2 DEF Advances
<1>2. ASSUME NEW w \in Workers, ~(\E e \in Episodes : Handle(w, e)),
             \/ Lease(w) \/ Crash(w)
             \/ \E e \in Episodes : SkipBusy(w, e) \/ LoseLease(w, e)
      PROVE  UNCHANGED <<viewings, events>>
  BY <1>2 DEF Lease, SkipBusy, LoseLease, Crash
<1> QED BY <1>1, <1>2 DEF Worker

\* A receipt names the event that its command caused.
AsSeen(c, log) ==
  LET r == c.request
  IN  /\ r.version < Len(log[c.viewing])
      /\ log[c.viewing][r.version + 1].type \in EventOf(r.operation)
      /\ log[c.viewing][r.version + 1].side = r.side
      /\ r.operation # "CREATE" => c.viewing = r.resource

\* EffectsOnceAsSeen, receipt by receipt.
LEMMA EffectsByReceipt ==
  EffectsOnceAsSeen <=>
    /\ Cardinality(ParticipantEvents) = Cardinality(receipts)
    /\ \A c, d \in receipts :
         c.request.side = d.request.side /\ c.request.key = d.request.key => c = d
    /\ \A c \in receipts : AsSeen(c, events)
BY DEF EffectsOnceAsSeen, AsSeen

\* The same in the state after a step.
LEMMA EffectsByReceiptNext ==
  EffectsOnceAsSeen' <=>
    /\ Cardinality(ParticipantEvents') = Cardinality(receipts')
    /\ \A c, d \in receipts' :
         c.request.side = d.request.side /\ c.request.key = d.request.key => c = d
    /\ \A c \in receipts' : AsSeen(c, events')
BY DEF EffectsOnceAsSeen, AsSeen, EventOf

\* What a receipt names stays where it is when the log grows.
LEMMA ReceiptsKept ==
  ASSUME Counted, EffectsOnceAsSeen,
         \A o \in Episodes : Len(events[o]) \in Nat /\ Len(events'[o]) \in Nat /\ Len(events[o]) <= Len(events'[o]),
         \A o \in Episodes : \A i \in 1 .. Len(events[o]) : events'[o][i] = events[o][i],
         NEW c \in receipts
  PROVE  AsSeen(c, events')
<1>1. c.viewing \in Episodes /\ c.request.version \in Nat /\ AsSeen(c, events)
  BY EffectsByReceipt DEF Counted
<1>2. c.request.version + 1 \in 1 .. Len(events[c.viewing]) /\ c.request.version < Len(events'[c.viewing])
  BY <1>1 DEF AsSeen
<1>3. events'[c.viewing][c.request.version + 1] = events[c.viewing][c.request.version + 1]
  BY <1>1, <1>2
<1> QED BY <1>1, <1>2, <1>3 DEF AsSeen

\* A command that is executed adds one receipt and the event it is for.
LEMMA ExecuteEffects ==
  ASSUME CommandInv, TypeOK', NEW r \in requests, NEW e \in Episodes, Execute(r, e)
  PROVE  Numbered' /\ Counted' /\ EffectsOnceAsSeen'
<1> USE DEF CommandInv
<1>1. viewings[e].version = r.version /\ \E type \in EventOf(r.operation) : Advances(e, type, r.side)
  BY ExecuteAdvances
<1>2. PICK type \in EventOf(r.operation) : Advances(e, type, r.side)
  BY <1>1
<1> DEFINE c == [request |-> r, viewing |-> e]
           x == <<e, viewings[e].version + 1>>
<1>3. /\ Fresh(r) /\ receipts' = receipts \cup {c} /\ (r.operation # "CREATE" => e = r.resource)
      /\ r.version \in Nat /\ r.side \in Sides
  BY DEF Execute, RequestsSent
<1>4. r.side # "SYSTEM"
  BY <1>3 DEF Sides, Guard!Sides
<1>5. /\ Numbered'
      /\ \A o \in Episodes : Len(events[o]) <= Len(events'[o])
      /\ \A o \in Episodes : \A i \in 1 .. Len(events[o]) : events'[o][i] = events[o][i]
      /\ Len(events'[e]) = Len(events[e]) + 1
      /\ events'[e][viewings[e].version + 1].type = type /\ events'[e][viewings[e].version + 1].side = r.side
      /\ x \notin ParticipantEvents /\ ParticipantEvents' = ParticipantEvents \cup {x}
  BY <1>2, <1>4, AdvanceLogs
<1>6. \A o \in Episodes : Len(events[o]) \in Nat /\ Len(events'[o]) \in Nat
  BY DEF TypeOK
<1>7. c.request = r /\ c.viewing = e
  OBVIOUS
<1> HIDE DEF c, x
<1>8. c \notin receipts /\ \A d \in receipts : d.request.side # r.side \/ d.request.key # r.key
  BY <1>3, <1>7 DEF Fresh
<1>9. Counted'
  BY <1>3, <1>5, <1>7, FS_AddElement DEF Counted
<1>10. Cardinality(ParticipantEvents') = Cardinality(receipts')
  <2>1. IsFiniteSet(receipts) /\ IsFiniteSet(ParticipantEvents) /\ Cardinality(ParticipantEvents) = Cardinality(receipts)
    BY EffectsByReceipt DEF Counted
  <2>2. Cardinality(receipts \cup {c}) = Cardinality(receipts) + 1
    BY <1>8, <2>1, FS_AddElement
  <2>3. Cardinality(ParticipantEvents \cup {x}) = Cardinality(ParticipantEvents) + 1
    BY <1>5, <2>1, FS_AddElement
  <2> QED BY <1>3, <1>5, <2>1, <2>2, <2>3
<1>11. \A a, b \in receipts' : a.request.side = b.request.side /\ a.request.key = b.request.key => a = b
  <2>1. \A a, b \in receipts : a.request.side = b.request.side /\ a.request.key = b.request.key => a = b
    BY EffectsByReceipt
  <2> QED BY <1>3, <1>7, <1>8, <2>1
<1>12. AsSeen(c, events')
  <2>1. Len(events[e]) = r.version
    BY <1>1 DEF Numbered
  <2> QED BY <1>1, <1>2, <1>3, <1>5, <1>7, <2>1 DEF AsSeen
<1>13. \A d \in receipts' : AsSeen(d, events')
  BY <1>3, <1>5, <1>6, <1>12, ReceiptsKept
<1> QED BY <1>5, <1>9, <1>10, <1>11, <1>13, EffectsByReceiptNext

\* What the system does in its own name leaves receipts and effects as they are.
LEMMA OthersEffects ==
  ASSUME CommandInv, TypeOK', UNCHANGED receipts,
         UNCHANGED <<viewings, events>> \/ \E e \in Episodes : Advances(e, "viewing_expired", "SYSTEM")
  PROVE  Numbered' /\ Counted' /\ EffectsOnceAsSeen'
<1> USE DEF CommandInv
<1>1. CASE UNCHANGED <<viewings, events>>
  <2>1. ParticipantEvents' = ParticipantEvents
    BY <1>1 DEF ParticipantEvents
  <2>2. Numbered' /\ Counted'
    BY <1>1, <2>1 DEF Numbered, Counted
  <2> QED BY <1>1, <2>1, <2>2, EffectsByReceipt, EffectsByReceiptNext
<1>2. ASSUME NEW e \in Episodes, Advances(e, "viewing_expired", "SYSTEM") PROVE Numbered' /\ Counted' /\ EffectsOnceAsSeen'
  <2>1. /\ Numbered' /\ \A o \in Episodes : Len(events[o]) <= Len(events'[o])
        /\ \A o \in Episodes : \A i \in 1 .. Len(events[o]) : events'[o][i] = events[o][i]
        /\ ParticipantEvents' = ParticipantEvents \cup (IF "SYSTEM" = "SYSTEM" THEN {} ELSE {<<e, viewings[e].version + 1>>})
    BY <1>2, AdvanceLogs
  <2>2. /\ \A o \in Episodes : Len(events[o]) \in Nat /\ Len(events'[o]) \in Nat
        /\ ParticipantEvents' = ParticipantEvents
    BY <2>1 DEF TypeOK
  <2>3. Counted'
    BY <2>2 DEF Counted
  <2>4. \A c \in receipts : AsSeen(c, events')
    BY <2>1, <2>2, ReceiptsKept
  <2> QED BY <2>1, <2>2, <2>3, <2>4, EffectsByReceipt, EffectsByReceiptNext
<1> QED BY <1>1, <1>2

\* Every step of the protocol keeps the invariant.
LEMMA CommandStep == CommandInv /\ [CommandNext]_commandVars => CommandInv'
<1> SUFFICES ASSUME CommandInv, [CommandNext]_commandVars PROVE CommandInv' OBVIOUS
<1>1. TypeOK' /\ RequestsSent'
  BY EnvelopeSteps, TypeStep, RequestsSentStep DEF CommandInv
<1>2. CASE \E r \in requests, e \in Episodes : Execute(r, e)
  BY <1>1, <1>2, ExecuteEffects DEF CommandInv
<1>3. CASE Worker /\ UNCHANGED <<requests, receipts>>
  <2>1. UNCHANGED <<viewings, events>> \/ \E e \in Episodes : Advances(e, "viewing_expired", "SYSTEM")
    BY <1>3, WorkerAdvances DEF CommandInv
  <2> QED BY <1>1, <1>3, <2>1, OthersEffects DEF CommandInv
<1>4. CASE UNCHANGED <<viewings, events, receipts>>
  BY <1>1, <1>4, OthersEffects DEF CommandInv
<1>5. \/ \E r \in requests, e \in Episodes : Execute(r, e)
      \/ Worker /\ UNCHANGED <<requests, receipts>>
      \/ UNCHANGED <<viewings, events, receipts>>
  BY DEF CommandNext, commandVars, Send, Tick, EligibilityChanges
<1> QED BY <1>2, <1>3, <1>4, <1>5

\* Every effect of a participant has one receipt, of one key, and is the event
\* right after the version its sender saw, however often requests are delivered
\* (viewing.ts, the command envelope).
THEOREM EffectsOnceCorrect == CommandSpec => []EffectsOnceAsSeen
<1>1. CommandInit => CommandInv
  <2> SUFFICES ASSUME CommandInit PROVE CommandInv OBVIOUS
  <2>1. TypeOK /\ RequestsSent /\ receipts = {}
    BY TypeInit DEF CommandInit, RequestsSent
  <2>2. \A e \in Episodes : events[e] = <<>> /\ viewings[e].version = 0
    BY DEF CommandInit, Init, NoViewing
  <2>3. ParticipantEvents = {}
    BY <2>2, InTheLog
  <2>4. Numbered
    <3>1. ASSUME NEW e \in Episodes PROVE Len(events[e]) = viewings[e].version
      BY <2>2
    <3> QED BY <3>1 DEF Numbered
  <2>5. Counted /\ EffectsOnceAsSeen
    BY <2>1, <2>3, FS_EmptySet DEF Counted, EffectsOnceAsSeen
  <2> QED BY <2>1, <2>4, <2>5 DEF CommandInv
<1>2. CommandInv => EffectsOnceAsSeen
  BY DEF CommandInv
<1> QED BY <1>1, <1>2, CommandStep, PTL DEF CommandSpec
-----------------------------------------------------------------------------
(* ViewingEpisodes implements ViewingGuard: the database refuses no write that *)
(* a command or a run of the worker makes after its own checks.             *)

\* The columns of a row that the guard reads, and the table as it sees it.
GuardRow(v) == [state |-> v.state, version |-> v.version, schedule_version |-> v.schedule_version,
                scheduled |-> v.scheduled, confirmed |-> v.confirmed, validated |-> v.validated]
GuardRows == [e \in Episodes |->
               [state |-> viewings[e].state, version |-> viewings[e].version,
                schedule_version |-> viewings[e].schedule_version,
                scheduled |-> viewings[e].scheduled, confirmed |-> viewings[e].confirmed,
                validated |-> viewings[e].validated]]

\* A request has no schedule yet, and without rescheduling no row is between two.
Unscheduled ==
  \A e \in Episodes : /\ viewings[e].state # "RESCHEDULED"
                      /\ viewings[e].state = "REQUESTED" => viewings[e].scheduled = 0

\* A step that records a row: what the guard has to agree with.
LEMMA GuardUpdate ==
  ASSUME TypeOK, Unscheduled, NEW e \in Episodes, NEW row \in Viewing, NEW type, NEW side, Record(e, row, type, side),
         viewings[e].state # "ABSENT", Guard!Updates(GuardRow(viewings[e]), GuardRow(row)),
         row.state \notin {"RESCHEDULED", "REQUESTED"}
  PROVE  Unscheduled' /\ Guard!Next
<1>1. viewings' = [viewings EXCEPT ![e] = row] /\ viewings \in [Episodes -> Viewing]
  BY DEF Record, TypeOK
<1>2. Unscheduled'
  BY <1>1 DEF Unscheduled
<1>3. /\ \A o \in Episodes : GuardRows[o] = GuardRow(viewings[o]) /\ GuardRows'[o] = GuardRow(viewings'[o])
      /\ GuardRows' = [GuardRows EXCEPT ![e] = GuardRow(row)] /\ GuardRows'[e] = GuardRow(row)
  BY <1>1 DEF GuardRows, GuardRow
<1>4. GuardRow(viewings[e]).state # "ABSENT"
  BY DEF GuardRow
<1>5. GuardRows[e] # Guard!Absent
  BY <1>3, <1>4 DEF Guard!Absent
<1>6. GuardRows' = [GuardRows EXCEPT ![e] = GuardRows'[e]] /\ Guard!Updates(GuardRows[e], GuardRows'[e])
  BY <1>1, <1>3
<1>7. Guard!Update(e)
  BY <1>5, <1>6 DEF Guard!Update, GuardRows
<1> QED BY <1>2, <1>7 DEF Guard!Next

\* The row of a new request.
LEMMA GuardInsert ==
  ASSUME TypeOK, Unscheduled, NEW e \in Episodes, NEW start \in Starts, Create(e, start)
  PROVE  Unscheduled' /\ Guard!Next
<1> DEFINE row == [NoViewing EXCEPT !.state = "REQUESTED", !.proposed = start,
                     !.deadline = Earliest(now + ResponseWindow, start), !.version = 1, !.schedule_version = 1]
<1>1. /\ viewings' = [viewings EXCEPT ![e] = row] /\ viewings \in [Episodes -> Viewing]
      /\ viewings[e] = NoViewing /\ \A o \in Episodes : viewings[o].state \notin RequestBlocking
  BY DEF Create, Record, TypeOK
<1>2. /\ row.state = "REQUESTED" /\ row.version = 1 /\ row.schedule_version = 1
      /\ row.scheduled = 0 /\ row.confirmed = {} /\ row.validated = FALSE
  BY DEF NoViewing
<1> HIDE DEF row
<1>3. Unscheduled'
  BY <1>1, <1>2 DEF Unscheduled
<1>4. /\ \A o \in Episodes : GuardRows[o] = GuardRow(viewings[o]) /\ GuardRows'[o] = GuardRow(viewings'[o])
      /\ GuardRows' = [GuardRows EXCEPT ![e] = GuardRow(row)] /\ GuardRows'[e] = GuardRow(row)
  BY <1>1 DEF GuardRows, GuardRow
<1>5. GuardRows[e] = Guard!Absent
  <2>1. GuardRows[e] = GuardRow(NoViewing)
    BY <1>1, <1>4
  <2> QED BY <2>1 DEF GuardRow, NoViewing, Guard!Absent
<1>6. \A o \in Episodes : GuardRows[o].state \notin RequestBlocking
  <2>1. ASSUME NEW o \in Episodes PROVE GuardRows[o].state \notin RequestBlocking
    <3>1. GuardRows[o] = GuardRow(viewings[o]) /\ viewings[o].state \notin RequestBlocking
      BY <1>1, <1>4
    <3> QED BY <3>1 DEF GuardRow
  <2> QED BY <2>1
<1>7. Guard!Inserts(GuardRows'[e], {GuardRows[o] : o \in Episodes \ {e}})
  BY <1>2, <1>4, <1>6 DEF GuardRow, Guard!Inserts, Guard!Occupies, Guard!Scheduling, RequestBlocking
<1>8. GuardRows' = [GuardRows EXCEPT ![e] = GuardRows'[e]]
  BY <1>4
<1>9. Guard!Insert(e)
  BY <1>5, <1>7, <1>8 DEF Guard!Insert, GuardRows
<1> QED BY <1>3, <1>9 DEF Guard!Next

\* The rows a command or the worker writes are along the guard.
LEMMA GuardedRows ==
  ASSUME NEW v \in Viewing, NEW side \in Sides
  PROVE  /\ v.state = "REQUESTED" /\ v.scheduled = 0 =>
              /\ Guard!Updates(GuardRow(v), GuardRow([v EXCEPT !.state = "ACCEPTED", !.version = @ + 1, !.scheduled = v.proposed]))
              /\ \A s \in {"DECLINED", "EXPIRED"} : Guard!Updates(GuardRow(v), GuardRow([v EXCEPT !.state = s, !.version = @ + 1]))
         /\ v.state = "ACCEPTED" => \A s \in {"ACCEPTED", "SCHEDULED"} :
              Guard!Updates(GuardRow(v), GuardRow([v EXCEPT !.confirmed = @ \cup {side}, !.version = @ + 1, !.state = s]))
         /\ v.state \in {"REQUESTED", "ACCEPTED", "SCHEDULED"} => \A s \in Cancelled :
              Guard!Updates(GuardRow(v), GuardRow([v EXCEPT !.version = @ + 1, !.state = s]))
<1>1. v.validated \in BOOLEAN
  BY DEF Viewing
<1>2. ASSUME v.state = "REQUESTED", v.scheduled = 0
      PROVE  Guard!Updates(GuardRow(v), GuardRow([v EXCEPT !.state = "ACCEPTED", !.version = @ + 1, !.scheduled = v.proposed]))
  BY <1>1, <1>2 DEF GuardRow, Viewing, Guard!Updates, Guard!Successors, Guard!Validated, Guard!Cancelled
<1>3. ASSUME v.state = "REQUESTED", NEW s \in {"DECLINED", "EXPIRED"}
      PROVE  Guard!Updates(GuardRow(v), GuardRow([v EXCEPT !.state = s, !.version = @ + 1]))
  BY <1>1, <1>3 DEF GuardRow, Viewing, Guard!Updates, Guard!Successors, Guard!Validated, Guard!Cancelled
<1>4. ASSUME v.state = "ACCEPTED", NEW s \in {"ACCEPTED", "SCHEDULED"}
      PROVE  Guard!Updates(GuardRow(v), GuardRow([v EXCEPT !.confirmed = @ \cup {side}, !.version = @ + 1, !.state = s]))
  BY <1>1, <1>4 DEF GuardRow, Viewing, Guard!Updates, Guard!Successors, Guard!Validated, Guard!Cancelled
<1>5. ASSUME v.state \in {"REQUESTED", "ACCEPTED", "SCHEDULED"}, NEW s \in Cancelled
      PROVE  Guard!Updates(GuardRow(v), GuardRow([v EXCEPT !.version = @ + 1, !.state = s]))
  BY <1>1, <1>5 DEF GuardRow, Viewing, Guard!Updates, Guard!Successors, Guard!Validated, Guard!Cancelled, Cancelled
<1> QED BY <1>2, <1>3, <1>4, <1>5
\* Every step is one the guard lets through, or does not touch the rows.
LEMMA GuardStep ==
  TypeOK /\ TypeOK' /\ Unscheduled /\ [Next]_vars => Unscheduled' /\ [Guard!Next]_GuardRows
<1> SUFFICES ASSUME TypeOK, TypeOK', Unscheduled, [Next]_vars PROVE Unscheduled' /\ [Guard!Next]_GuardRows
  OBVIOUS
<1> USE DEF Sides, Guard!Sides
<1>0. \A e \in Episodes : viewings[e] \in Viewing
  BY DEF TypeOK
<1>1. ASSUME NEW e \in Episodes, NEW start \in Starts, Create(e, start) PROVE Unscheduled' /\ Guard!Next
  BY <1>1, GuardInsert
<1>2. ASSUME NEW e \in Episodes, Accept(e) PROVE Unscheduled' /\ Guard!Next
  <2> DEFINE row == [viewings[e] EXCEPT !.state = "ACCEPTED", !.version = @ + 1, !.scheduled = viewings[e].proposed]
  <2>1. /\ viewings[e].state = "REQUESTED" /\ viewings[e].scheduled = 0
        /\ Record(e, row, "viewing_accepted", "PROVIDER")
    BY <1>2 DEF Accept, Unscheduled
  <2>2. row \in Viewing /\ row.state = "ACCEPTED" /\ Guard!Updates(GuardRow(viewings[e]), GuardRow(row))
    <3>1. row.state = "ACCEPTED" BY <1>0 DEF Viewing
    <3>2. row \in Viewing BY <1>0, StateNames, RowUpdates
    <3>3. Guard!Updates(GuardRow(viewings[e]), GuardRow(row)) BY <1>0, <2>1, GuardedRows
    <3> QED BY <3>1, <3>2, <3>3
  <2> HIDE DEF row
  <2> QED BY <2>1, <2>2, GuardUpdate
<1>3. ASSUME NEW e \in Episodes, Decline(e) PROVE Unscheduled' /\ Guard!Next
  <2> DEFINE row == [viewings[e] EXCEPT !.state = "DECLINED", !.version = @ + 1]
  <2>1. /\ viewings[e].state = "REQUESTED" /\ viewings[e].scheduled = 0
        /\ Record(e, row, "viewing_declined", "PROVIDER")
    BY <1>3 DEF Decline, Unscheduled
  <2>2. row \in Viewing /\ row.state = "DECLINED" /\ Guard!Updates(GuardRow(viewings[e]), GuardRow(row))
    <3>1. row.state = "DECLINED" BY <1>0 DEF Viewing
    <3>2. row \in Viewing BY <1>0, StateNames, RowUpdates
    <3>3. Guard!Updates(GuardRow(viewings[e]), GuardRow(row)) BY <1>0, <2>1, GuardedRows
    <3> QED BY <3>1, <3>2, <3>3
  <2> HIDE DEF row
  <2> QED BY <2>1, <2>2, GuardUpdate
<1>4. ASSUME NEW e \in Episodes, NEW side \in Sides, Confirm(e, side) PROVE Unscheduled' /\ Guard!Next
  <2> DEFINE both == viewings[e].confirmed \cup {side} = Sides
             s    == IF both THEN "SCHEDULED" ELSE "ACCEPTED"
             type == IF both THEN "viewing_scheduled" ELSE "viewing_confirmed"
             row  == [viewings[e] EXCEPT !.confirmed = @ \cup {side}, !.version = @ + 1, !.state = s]
  <2>1. viewings[e].state = "ACCEPTED" /\ Record(e, row, type, side)
    BY <1>4 DEF Confirm
  <2>2. s \in {"ACCEPTED", "SCHEDULED"}
    OBVIOUS
  <2> HIDE DEF s, type
  <2>3. row \in Viewing /\ row.state = s /\ Guard!Updates(GuardRow(viewings[e]), GuardRow(row))
    <3>1. row.state = s BY <1>0 DEF Viewing
    <3>2. row \in Viewing BY <1>0, <2>2, StateNames, RowUpdates
    <3>3. Guard!Updates(GuardRow(viewings[e]), GuardRow(row)) BY <1>0, <2>1, <2>2, GuardedRows
    <3> QED BY <3>1, <3>2, <3>3
  <2> HIDE DEF row
  <2> QED BY <2>1, <2>2, <2>3, GuardUpdate
<1>5. ASSUME NEW e \in Episodes, NEW side \in Sides, Cancel(e, side) PROVE Unscheduled' /\ Guard!Next
  <2> DEFINE s   == IF side = "SEEKER" THEN "CANCELLED_BY_SEEKER" ELSE "CANCELLED_BY_PROVIDER"
             row == [viewings[e] EXCEPT !.version = @ + 1, !.state = s]
  <2>1. viewings[e].state \in {"REQUESTED", "ACCEPTED", "SCHEDULED"} /\ Record(e, row, "viewing_cancelled", side)
    BY <1>5 DEF Cancel, Cancellable, Unscheduled
  <2>2. s \in Cancelled /\ s \in States /\ s \notin {"RESCHEDULED", "REQUESTED"}
    BY StateNames DEF Cancelled, Guard!Cancelled
  <2> HIDE DEF s
  <2>3. row \in Viewing /\ row.state = s /\ Guard!Updates(GuardRow(viewings[e]), GuardRow(row))
    BY <1>0, <2>1, <2>2, RowUpdates, GuardedRows DEF Viewing
  <2> HIDE DEF row
  <2> QED BY <2>1, <2>2, <2>3, GuardUpdate
<1>6. CASE UNCHANGED viewings
  BY <1>6 DEF Unscheduled, GuardRows
<1>7. ASSUME NEW w \in Workers, NEW e \in Episodes, Handle(w, e) PROVE Unscheduled' /\ [Guard!Next]_GuardRows
  <2> DEFINE row == [viewings[e] EXCEPT !.state = "EXPIRED", !.version = @ + 1]
  <2>1. \/ UNCHANGED viewings
        \/ viewings[e].state = "REQUESTED" /\ Record(e, row, "viewing_expired", "SYSTEM")
    BY <1>7 DEF Handle
  <2>2. CASE viewings[e].state = "REQUESTED" /\ Record(e, row, "viewing_expired", "SYSTEM")
    <3>1. row \in Viewing /\ row.state = "EXPIRED" /\ Guard!Updates(GuardRow(viewings[e]), GuardRow(row))
      BY <1>0, <2>2, StateNames, RowUpdates, GuardedRows DEF Viewing, Unscheduled
    <3> HIDE DEF row
    <3> QED BY <2>2, <3>1, GuardUpdate
  <2> QED BY <1>6, <2>1, <2>2
<1>8. ASSUME NEW w \in Workers,
             \/ Lease(w) \/ Crash(w)
             \/ \E e \in Episodes : SkipBusy(w, e) \/ LoseLease(w, e)
      PROVE  UNCHANGED viewings
  BY <1>8 DEF Lease, SkipBusy, LoseLease, Crash
<1>9. Tick \/ EligibilityChanges \/ UNCHANGED vars => UNCHANGED viewings
  BY DEF Tick, EligibilityChanges, vars
<1> QED BY <1>1, <1>2, <1>3, <1>4, <1>5, <1>6, <1>7, <1>8, <1>9 DEF Next, Command, Worker

\* No command and no run of the worker writes what the trigger of the database
\* refuses (0038), so none fails after its own checks have accepted it.
THEOREM GuardedCorrect == Safety => ImplementsGuard
<1>1. Init => Unscheduled /\ Guard!Init
  BY DEF Init, Unscheduled, NoViewing, Guard!Init, Guard!Absent
<1> QED BY <1>1, TypeInit, TypeStep, GuardStep, PTL DEF Safety, ImplementsGuard, Guard!Spec, GuardRows

\* The same under every delivery of every request.
THEOREM CommandsGuarded == CommandSpec => ImplementsGuard
BY CommandsImplement, GuardedCorrect, PTL
-----------------------------------------------------------------------------
(* ViewingAppointments.  An appointment, its proposals, its history, its     *)
(* reminders and the queue are right together or not at all: the invariant   *)
(* says for each episode what ties them, and a lemma per operation on these  *)
(* parts ("...Keeps") says that the operation keeps the ties; the lemmas per *)
(* action ("...Step") find the operation in the action.                      *)

Proposal == [base : Nat, base_start : Nat, start : Nat, side : Sides, version : Nat,
             state : {"PENDING", "FINALIZED", "REJECTED", "WITHDRAWN", "EXPIRED", "INVALIDATED"},
             approved : SUBSET Sides, expires : Nat]

Notice == [kind : Reminders, schedule : Numbers, start : Nat, at : Nat]

AppointmentTypes ==
  /\ now \in Nat /\ eligible \in BOOLEAN /\ viewings \in [Episodes -> Viewing]
  /\ proposals \in [Episodes -> Seq(Proposal)] /\ history \in [Episodes -> Seq(Nat)]
  /\ plans \in [Episodes -> SUBSET Nat] /\ work \in [Jobs -> Action] /\ notices \in [Episodes -> Seq(Notice)]
  /\ \A e \in Episodes : Len(proposals[e]) <= MaxProposals

\* A row is scheduled from its acceptance on, and what hangs on a schedule
\* begins with it.
Rowed(v, past, sent) ==
  /\ v.state # "RESCHEDULED"
  /\ v.state = "REQUESTED" => v.scheduled = 0 /\ v.schedule_version = 1 /\ v.proposed # 0
  /\ v.state \in {"ACCEPTED", "SCHEDULED"} => v.scheduled # 0
  /\ v.scheduled = 0 => past = <<>> /\ sent = <<>>

\* ProposalArmed, JointlyReplaced and RemindersOfTheSchedule for one episode.
Proposed(e, v, made, table) ==
  \A i \in Numbers :
    LET expiry == table[Job(e, "EXPIRE_RESCHEDULE", i)]
    IN  IF i \in DOMAIN made /\ made[i].state = "PENDING"
        THEN /\ i = Len(made) /\ v.state = "SCHEDULED"
             /\ made[i].base = v.schedule_version /\ made[i].base_start = v.scheduled
             /\ Open(expiry) /\ expiry.due = made[i].expires
        ELSE ~Open(expiry)

Chained(v, past, made) ==
  v.scheduled # 0 =>
    /\ Len(past) + 1 = v.schedule_version
    /\ Append(past, v.scheduled)[1] = v.proposed
    /\ \A n \in 2 .. Len(past) + 1 : \E i \in DOMAIN made :
         /\ made[i].state = "FINALIZED" /\ made[i].approved = Sides
         /\ made[i].base = n - 1 /\ made[i].base_start = Append(past, v.scheduled)[n - 1]
         /\ made[i].start = Append(past, v.scheduled)[n]

Reminding(e, v, table) ==
  \A kind \in Reminders, n \in Numbers : Open(table[Job(e, kind, n)]) =>
    /\ v.state = "SCHEDULED" /\ v.schedule_version = n
    /\ table[Job(e, kind, n)].due = Opens(kind, v.scheduled)

Reminded(e, v, past, planned, sent, table) ==
  /\ \A i \in DOMAIN sent :
       /\ Opens(sent[i].kind, sent[i].start) <= sent[i].at /\ sent[i].at < Closes(sent[i].kind, sent[i].start)
       /\ sent[i].schedule \in 1 .. Len(past) + 1 /\ sent[i].start = Append(past, v.scheduled)[sent[i].schedule]
       /\ \A k \in DOMAIN sent : sent[k].kind = sent[i].kind /\ sent[k].schedule = sent[i].schedule => k = i
  /\ \A kind \in Reminders, n \in Numbers :
       /\ table[Job(e, kind, n)].state # "NONE" => n \in planned
       /\ table[Job(e, kind, n)].state = "PROCESSED" <=> \E i \in DOMAIN sent : sent[i].kind = kind /\ sent[i].schedule = n

Appointed(e, v, made, past, planned, sent, table) ==
  /\ Rowed(v, past, sent) /\ Proposed(e, v, made, table) /\ Chained(v, past, made)
  /\ Reminding(e, v, table) /\ Reminded(e, v, past, planned, sent, table)

\* Every episode is as it should be.
AllAppointed ==
  \A e \in Episodes : Appointed(e, viewings[e], proposals[e], history[e], plans[e], notices[e], work)

AppointmentInv == AppointmentTypes /\ AllAppointed

Types == Reminders \cup {"EXPIRE_RESCHEDULE"}

\* What the invariant reads of an action.
Alike(a, b) ==
  /\ a.due = b.due /\ (Open(a) <=> Open(b))
  /\ (a.state = "PROCESSED" <=> b.state = "PROCESSED") /\ (a.state = "NONE" <=> b.state = "NONE")

\* And of a row.
SameSchedule(row, v) ==
  /\ row.state = v.state /\ row.scheduled = v.scheduled
  /\ row.schedule_version = v.schedule_version /\ row.proposed = v.proposed

\* A job is its episode, type and number.
LEMMA JobParts ==
  ASSUME NEW e \in Episodes, NEW type \in Types, NEW n \in Numbers
  PROVE  /\ Job(e, type, n) \in Jobs
         /\ Job(e, type, n)[1] = e /\ Job(e, type, n)[2] = type /\ Job(e, type, n)[3] = n
BY DEF Job, Jobs, Types

LEMMA JobNamed ==
  ASSUME NEW j \in Jobs
  PROVE  /\ j[1] \in Episodes /\ j[2] \in Types /\ j[3] \in Numbers
         /\ j = Job(j[1], j[2], j[3])
BY DEF Job, Jobs, Types

LEMMA ReminderTypes == Reminders \subseteq Types /\ "EXPIRE_RESCHEDULE" \in Types /\ "EXPIRE_RESCHEDULE" \notin Reminders
BY DEF Types, Reminders

\* What stands where in a chain of schedules.
LEMMA AppendAt ==
  ASSUME NEW s \in Seq(Nat), NEW x \in Nat
  PROVE  /\ Append(s, x) \in Seq(Nat) /\ Len(s) \in Nat /\ Len(Append(s, x)) = Len(s) + 1
         /\ Append(s, x)[Len(s) + 1] = x
         /\ \A n \in 1 .. Len(s) : Append(s, x)[n] = s[n]
OBVIOUS

\* A chain of schedules rests on the finalized proposals alone.
LEMMA ChainKept ==
  ASSUME NEW v, NEW past, NEW made, NEW more, Chained(v, past, made),
         \A i \in DOMAIN made : made[i].state = "FINALIZED" => i \in DOMAIN more /\ more[i] = made[i]
  PROVE  Chained(v, past, more)
<1> SUFFICES ASSUME v.scheduled # 0, NEW n \in 2 .. Len(past) + 1
             PROVE  \E i \in DOMAIN more :
                      /\ more[i].state = "FINALIZED" /\ more[i].approved = Sides
                      /\ more[i].base = n - 1 /\ more[i].base_start = Append(past, v.scheduled)[n - 1]
                      /\ more[i].start = Append(past, v.scheduled)[n]
  BY DEF Chained
<1>1. PICK i \in DOMAIN made :
         /\ made[i].state = "FINALIZED" /\ made[i].approved = Sides
         /\ made[i].base = n - 1 /\ made[i].base_start = Append(past, v.scheduled)[n - 1]
         /\ made[i].start = Append(past, v.scheduled)[n]
  BY DEF Chained
<1> QED BY <1>1

\* Another version of the row, and leases taken or given back, change nothing.
LEMMA AlikeKeeps ==
  ASSUME NEW e \in Episodes, NEW v, NEW row, NEW made, NEW past, NEW planned, NEW sent, NEW table, NEW next,
         Appointed(e, v, made, past, planned, sent, table), SameSchedule(row, v),
         \A type \in Types, n \in Numbers : Alike(next[Job(e, type, n)], table[Job(e, type, n)])
  PROVE  Appointed(e, row, made, past, planned, sent, next)
<1>0. /\ Rowed(v, past, sent) /\ Proposed(e, v, made, table) /\ Chained(v, past, made)
      /\ Reminding(e, v, table) /\ Reminded(e, v, past, planned, sent, table)
  BY DEF Appointed
<1>1. Rowed(row, past, sent) BY <1>0 DEF Rowed, SameSchedule
<1>2. Proposed(e, row, made, next)
  BY <1>0, ReminderTypes DEF Proposed, SameSchedule, Alike
<1>3. Chained(row, past, made) BY <1>0 DEF Chained, SameSchedule
<1>4. Reminding(e, row, next) BY <1>0, ReminderTypes DEF Reminding, SameSchedule, Alike
<1>5. Reminded(e, row, past, planned, sent, next)
  BY <1>0, ReminderTypes DEF Reminded, SameSchedule, Alike
<1> QED BY <1>1, <1>2, <1>3, <1>4, <1>5 DEF Appointed

\* A step that touches one episode.
LEMMA OneAppointment ==
  ASSUME AllAppointed, NEW e \in Episodes,
         \A o \in Episodes \ {e} :
           /\ viewings'[o] = viewings[o] /\ proposals'[o] = proposals[o] /\ history'[o] = history[o]
           /\ plans'[o] = plans[o] /\ notices'[o] = notices[o]
           /\ \A type \in Types, n \in Numbers : work'[Job(o, type, n)] = work[Job(o, type, n)],
         Appointed(e, viewings'[e], proposals'[e], history'[e], plans'[e], notices'[e], work')
  PROVE  AllAppointed'
<1>1. ASSUME NEW o \in Episodes \ {e}
      PROVE  Appointed(o, viewings'[o], proposals'[o], history'[o], plans'[o], notices'[o], work')
  <2>1. Appointed(o, viewings[o], proposals[o], history[o], plans[o], notices[o], work) BY DEF AllAppointed
  <2>2. \A type \in Types, n \in Numbers : Alike(work'[Job(o, type, n)], work[Job(o, type, n)])
    BY DEF Alike
  <2>3. SameSchedule(viewings[o], viewings[o]) BY DEF SameSchedule
  <2>4. Appointed(o, viewings[o], proposals[o], history[o], plans[o], notices[o], work')
    BY <2>1, <2>2, <2>3, AlikeKeeps
  <2> QED BY <2>4
<1>2. \A o \in Episodes : Appointed(o, viewings'[o], proposals'[o], history'[o], plans'[o], notices'[o], work')
  BY <1>1
<1> QED BY <1>2 DEF AllAppointed

\* A step that leaves every schedule alone.
LEMMA SchedulesAlike ==
  ASSUME AllAppointed, UNCHANGED <<viewings, proposals, history, plans, notices>>,
         \A j \in Jobs : Alike(work'[j], work[j])
  PROVE  AllAppointed'
<1>1. ASSUME NEW o \in Episodes
      PROVE  Appointed(o, viewings'[o], proposals'[o], history'[o], plans'[o], notices'[o], work')
  <2>1. Appointed(o, viewings[o], proposals[o], history[o], plans[o], notices[o], work) BY DEF AllAppointed
  <2>2. \A type \in Types, n \in Numbers : Alike(work'[Job(o, type, n)], work[Job(o, type, n)])
    BY JobParts
  <2>3. SameSchedule(viewings[o], viewings[o]) BY DEF SameSchedule
  <2>4. Appointed(o, viewings[o], proposals[o], history[o], plans[o], notices[o], work')
    BY <2>1, <2>2, <2>3, AlikeKeeps
  <2> QED BY <2>4
<1> QED BY <1>1 DEF AllAppointed

\* Skipping closes the open actions it names and does nothing else.
LEMMA SkipAt ==
  ASSUME NEW J, NEW table \in [Jobs -> Action], NEW j \in Jobs
  PROVE  /\ Skipping(J, table)[j] \in Action
         /\ Skipping(J, table)[j].due = table[j].due
         /\ Open(Skipping(J, table)[j]) <=> Open(table[j]) /\ j \notin J
         /\ Skipping(J, table)[j].state = "PROCESSED" <=> table[j].state = "PROCESSED"
         /\ Skipping(J, table)[j].state = "NONE" <=> table[j].state = "NONE"
<1>1. table[j] \in Action OBVIOUS
<1>2. CASE j \in J /\ Open(table[j])
  <2>1. Skipping(J, table)[j] = Settled(table[j], "SKIPPED") BY <1>2 DEF Skipping
  <2>2. Settled(table[j], "SKIPPED") \in Action BY <1>1, SettledTypes
  <2>3. Settled(table[j], "SKIPPED").state = "SKIPPED" /\ Settled(table[j], "SKIPPED").due = table[j].due
    BY <1>1, SettledFields
  <2> QED BY <1>2, <2>1, <2>2, <2>3 DEF Open
<1>3. CASE ~(j \in J /\ Open(table[j]))
  <2>1. Skipping(J, table)[j] = table[j] BY <1>3 DEF Skipping
  <2> QED BY <1>1, <1>3, <2>1
<1> QED BY <1>2, <1>3

\* What the trigger makes of the proposals of an episode that is closed.
LEMMA InvalidatedTypes ==
  ASSUME NEW made \in Seq(Proposal)
  PROVE  /\ Invalidated(made) \in Seq(Proposal) /\ Len(Invalidated(made)) = Len(made)
         /\ DOMAIN Invalidated(made) = DOMAIN made
         /\ \A i \in DOMAIN made : /\ Invalidated(made)[i].state # "PENDING"
                                   /\ made[i].state # "PENDING" => Invalidated(made)[i] = made[i]
<1>1. ASSUME NEW i \in DOMAIN made
      PROVE  /\ Invalidated(made)[i] \in Proposal /\ Invalidated(made)[i].state # "PENDING"
             /\ made[i].state # "PENDING" => Invalidated(made)[i] = made[i]
  <2>1. made[i] \in Proposal OBVIOUS
  <2>2. CASE made[i].state = "PENDING"
    <3>1. Invalidated(made)[i] = [made[i] EXCEPT !.state = "INVALIDATED", !.version = @ + 1]
      BY <2>2 DEF Invalidated
    <3>2. made[i].version + 1 \in Nat BY <2>1 DEF Proposal
    <3>3. [made[i] EXCEPT !.state = "INVALIDATED", !.version = @ + 1] \in Proposal BY <2>1, <3>2 DEF Proposal
    <3>4. [made[i] EXCEPT !.state = "INVALIDATED", !.version = @ + 1].state = "INVALIDATED" BY <2>1 DEF Proposal
    <3> QED BY <2>2, <3>1, <3>3, <3>4
  <2>3. CASE made[i].state # "PENDING" BY <2>1, <2>3 DEF Invalidated
  <2> QED BY <2>2, <2>3
<1>2. DOMAIN made = 1 .. Len(made) /\ Len(made) \in Nat OBVIOUS
<1>3. DOMAIN Invalidated(made) = DOMAIN made BY DEF Invalidated
<1>4. Invalidated(made) \in [1 .. Len(made) -> Proposal] BY <1>1, <1>2 DEF Invalidated
<1>5. Invalidated(made) \in Seq(Proposal) /\ Len(Invalidated(made)) = Len(made)
  BY <1>2, <1>4
<1> QED BY <1>1, <1>3, <1>5

\* An episode that leaves SCHEDULED, or never came there, takes its open work
\* and its pending proposal along.
LEMMA CloseKeeps ==
  ASSUME NEW e \in Episodes, NEW v, NEW row, NEW made \in Seq(Proposal), NEW past, NEW planned, NEW sent,
         NEW table \in [Jobs -> Action],
         Appointed(e, v, made, past, planned, sent, table),
         row.state # "SCHEDULED", Rowed(row, past, sent), Chained(row, past, made),
         row.scheduled = v.scheduled \/ sent = <<>>
  PROVE  Appointed(e, row, Invalidated(made), past, planned, sent, Skipping(JobsOf(e), table))
<1> DEFINE next == Skipping(JobsOf(e), table)
<1>0. Reminded(e, v, past, planned, sent, table) BY DEF Appointed
<1>1. ASSUME NEW type \in Types, NEW n \in Numbers
      PROVE  /\ ~Open(next[Job(e, type, n)])
             /\ next[Job(e, type, n)].state = "PROCESSED" <=> table[Job(e, type, n)].state = "PROCESSED"
             /\ next[Job(e, type, n)].state = "NONE" <=> table[Job(e, type, n)].state = "NONE"
  <2>1. Job(e, type, n) \in JobsOf(e) /\ Job(e, type, n) \in Jobs BY JobParts DEF JobsOf
  <2> QED BY <2>1, SkipAt
<1> HIDE DEF next
<1>2. Proposed(e, row, Invalidated(made), next)
  BY <1>1, ReminderTypes, InvalidatedTypes DEF Proposed
<1>3. Chained(row, past, Invalidated(made)) BY InvalidatedTypes, ChainKept
<1>4. Reminding(e, row, next) BY <1>1, ReminderTypes DEF Reminding
<1>5. Reminded(e, row, past, planned, sent, next)
  <2>1. CASE row.scheduled = v.scheduled BY <1>0, <1>1, <2>1, ReminderTypes DEF Reminded
  <2>2. CASE sent = <<>>
    <3>1. DOMAIN sent = {} BY <2>2
    <3> QED BY <1>0, <1>1, <3>1, ReminderTypes DEF Reminded
  <2> QED BY <2>1, <2>2
<1> QED BY <1>2, <1>3, <1>4, <1>5 DEF Appointed, next

\* Planning writes the reminders that are still ahead, for a schedule that has
\* none planned.
LEMMA PlanKeeps ==
  ASSUME NEW e \in Episodes, NEW row, NEW made, NEW past, NEW sent, NEW table \in [Jobs -> Action],
         now \in Nat,
         row.state = "SCHEDULED", row.scheduled \in Nat, row.schedule_version \in Nat,
         Appointed(e, row, made, past, plans[e], sent, table)
  PROVE  /\ Appointed(e, row, made, past, plans[e] \cup {row.schedule_version}, sent, Planning(e, row, table))
         /\ Planning(e, row, table) \in [Jobs -> Action]
<1> DEFINE version == row.schedule_version
           next    == Planning(e, row, table)
<1>0. /\ Rowed(row, past, sent) /\ Proposed(e, row, made, table) /\ Chained(row, past, made)
      /\ Reminding(e, row, table) /\ Reminded(e, row, past, plans[e], sent, table)
  BY DEF Appointed
<1>1. ASSUME NEW type \in Types, NEW n \in Numbers
      PROVE  next[Job(e, type, n)] =
               IF version \notin plans[e] /\ n = version /\ type \in Reminders /\ Ahead(type, row.scheduled)
               THEN [NoAction EXCEPT !.state = "PENDING", !.due = Opens(type, row.scheduled)]
               ELSE table[Job(e, type, n)]
  <2>1. Job(e, type, n) \in Jobs /\ Job(e, type, n)[2] = type BY JobParts
  <2>2. (\E kind \in Reminders : Job(e, type, n) = Job(e, kind, version) /\ Ahead(kind, row.scheduled))
          <=> n = version /\ type \in Reminders /\ Ahead(type, row.scheduled)
    BY DEF Job
  <2> QED BY <2>1, <2>2 DEF Planning
<1>2. ASSUME NEW type \in Types, NEW n \in Numbers
      PROVE  LET job == Job(e, type, n)
             IN  \/ next[job] = table[job]
                 \/ /\ version \notin plans[e] /\ n = version /\ type \in Reminders
                    /\ table[job].state = "NONE" /\ next[job].state = "PENDING"
                    /\ next[job].due = Opens(type, row.scheduled)
  <2> DEFINE fresh == [NoAction EXCEPT !.state = "PENDING", !.due = Opens(type, row.scheduled)]
  <2>1. fresh.state = "PENDING" /\ fresh.due = Opens(type, row.scheduled) BY DEF NoAction
  <2>2. version \notin plans[e] /\ n = version /\ type \in Reminders => table[Job(e, type, n)].state = "NONE"
    BY <1>0 DEF Reminded
  <2> HIDE DEF fresh, next
  <2> QED BY <1>1, <2>1, <2>2 DEF fresh
<1>3. next \in [Jobs -> Action]
  <2> SUFFICES ASSUME NEW j \in Jobs PROVE next[j] \in Action BY DEF Planning
  <2>1. CASE \E kind \in Reminders : j = Job(e, kind, version) /\ Ahead(kind, row.scheduled)
    <3>1. PICK kind \in Reminders : j = Job(e, kind, version) /\ Ahead(kind, row.scheduled) BY <2>1
    <3>2. j[2] = kind BY <3>1 DEF Job
    <3>3. Opens(kind, row.scheduled) \in Nat
      BY <3>1, LeadsAssumption DEF Ahead, Opens, Lead
    <3>4. [NoAction EXCEPT !.state = "PENDING", !.due = Opens(j[2], row.scheduled)] \in Action
      BY <3>2, <3>3 DEF NoAction, Action
    <3> QED BY <3>4 DEF Planning
  <2>2. CASE ~\E kind \in Reminders : j = Job(e, kind, version) /\ Ahead(kind, row.scheduled)
    BY <2>2 DEF Planning
  <2> QED BY <2>1, <2>2
<1> HIDE DEF next
<1>4. Proposed(e, row, made, next)
  <2>1. \A n \in Numbers : next[Job(e, "EXPIRE_RESCHEDULE", n)] = table[Job(e, "EXPIRE_RESCHEDULE", n)]
    BY <1>2, ReminderTypes
  <2> QED BY <1>0, <2>1 DEF Proposed
<1>5. Reminding(e, row, next)
  <2> SUFFICES ASSUME NEW kind \in Reminders, NEW n \in Numbers, Open(next[Job(e, kind, n)])
               PROVE  /\ row.state = "SCHEDULED" /\ row.schedule_version = n
                      /\ next[Job(e, kind, n)].due = Opens(kind, row.scheduled)
    BY DEF Reminding
  <2> QED BY <1>0, <1>2, ReminderTypes DEF Reminding
<1>6. Reminded(e, row, past, plans[e] \cup {version}, sent, next)
  <2>1. ASSUME NEW kind \in Reminders, NEW n \in Numbers
        PROVE  /\ next[Job(e, kind, n)].state # "NONE" => n \in plans[e] \cup {version}
               /\ next[Job(e, kind, n)].state = "PROCESSED" <=>
                    \E i \in DOMAIN sent : sent[i].kind = kind /\ sent[i].schedule = n
    <3>1. /\ table[Job(e, kind, n)].state # "NONE" => n \in plans[e]
          /\ table[Job(e, kind, n)].state = "PROCESSED" <=>
               \E i \in DOMAIN sent : sent[i].kind = kind /\ sent[i].schedule = n
      BY <1>0 DEF Reminded
    <3> QED BY <1>2, <3>1, ReminderTypes
  <2> QED BY <1>0, <2>1 DEF Reminded
<1> QED BY <1>0, <1>3, <1>4, <1>5, <1>6 DEF Appointed, next
\* A proposal for the current schedule joins an episode that has none pending,
\* and its expiry with it.
LEMMA ProposeKeeps ==
  ASSUME NEW e \in Episodes, NEW v, NEW made \in Seq(Proposal), NEW past, NEW planned, NEW sent,
         NEW table \in [Jobs -> Action], NEW next, NEW p \in Proposal,
         Appointed(e, v, made, past, planned, sent, table),
         v.state = "SCHEDULED", \A i \in DOMAIN made : made[i].state # "PENDING", Len(made) + 1 \in Numbers,
         p.state = "PENDING", p.base = v.schedule_version, p.base_start = v.scheduled,
         Open(next[Job(e, "EXPIRE_RESCHEDULE", Len(made) + 1)]),
         next[Job(e, "EXPIRE_RESCHEDULE", Len(made) + 1)].due = p.expires,
         \A type \in Types, n \in Numbers : type \in Reminders \/ n # Len(made) + 1 =>
           next[Job(e, type, n)] = table[Job(e, type, n)]
  PROVE  Appointed(e, v, Append(made, p), past, planned, sent, next)
<1> DEFINE more == Append(made, p)
<1>0. /\ Rowed(v, past, sent) /\ Proposed(e, v, made, table) /\ Chained(v, past, made)
      /\ Reminding(e, v, table) /\ Reminded(e, v, past, planned, sent, table)
  BY DEF Appointed
<1>1. /\ Len(made) \in Nat /\ DOMAIN made = 1 .. Len(made) /\ DOMAIN more = 1 .. Len(made) + 1
      /\ Len(more) = Len(made) + 1 /\ more[Len(made) + 1] = p
      /\ \A i \in DOMAIN made : more[i] = made[i]
  OBVIOUS
<1> HIDE DEF more
<1>2. Proposed(e, v, more, next)
  <2> SUFFICES ASSUME NEW i \in Numbers
               PROVE  IF i \in DOMAIN more /\ more[i].state = "PENDING"
                      THEN /\ i = Len(more) /\ v.state = "SCHEDULED"
                           /\ more[i].base = v.schedule_version /\ more[i].base_start = v.scheduled
                           /\ Open(next[Job(e, "EXPIRE_RESCHEDULE", i)])
                           /\ next[Job(e, "EXPIRE_RESCHEDULE", i)].due = more[i].expires
                      ELSE ~Open(next[Job(e, "EXPIRE_RESCHEDULE", i)])
    BY DEF Proposed
  <2>1. CASE i = Len(made) + 1 BY <1>1, <2>1
  <2>2. CASE i # Len(made) + 1
    <3>1. ~(i \in DOMAIN more /\ more[i].state = "PENDING") BY <1>1, <2>2
    <3>2. ~Open(table[Job(e, "EXPIRE_RESCHEDULE", i)]) BY <1>0 DEF Proposed
    <3> QED BY <2>2, <3>1, <3>2, ReminderTypes
  <2> QED BY <2>1, <2>2
<1>3. Chained(v, past, more) BY <1>0, <1>1, ChainKept
<1>4. \A kind \in Reminders, n \in Numbers : next[Job(e, kind, n)] = table[Job(e, kind, n)] BY ReminderTypes
<1>5. Reminding(e, v, next) BY <1>0, <1>4 DEF Reminding
<1>6. Reminded(e, v, past, planned, sent, next) BY <1>0, <1>4 DEF Reminded
<1> QED BY <1>0, <1>2, <1>3, <1>5, <1>6 DEF Appointed, more

\* The one pending proposal is answered for good, and its expiry closed.
LEMMA AnswerKeeps ==
  ASSUME NEW e \in Episodes, NEW v, NEW made \in Seq(Proposal), NEW past, NEW planned, NEW sent,
         NEW table \in [Jobs -> Action], NEW next, NEW i \in DOMAIN made, NEW p,
         Appointed(e, v, made, past, planned, sent, table),
         made[i].state = "PENDING", p.state # "PENDING",
         i \in Numbers => ~Open(next[Job(e, "EXPIRE_RESCHEDULE", i)]),
         \A type \in Types, n \in Numbers : type \in Reminders \/ n # i =>
           next[Job(e, type, n)] = table[Job(e, type, n)]
  PROVE  Appointed(e, v, [made EXCEPT ![i] = p], past, planned, sent, next)
<1> DEFINE answered == [made EXCEPT ![i] = p]
<1>0. /\ Rowed(v, past, sent) /\ Proposed(e, v, made, table) /\ Chained(v, past, made)
      /\ Reminding(e, v, table) /\ Reminded(e, v, past, planned, sent, table)
  BY DEF Appointed
<1>1. /\ DOMAIN answered = DOMAIN made /\ answered[i] = p /\ Len(answered) = Len(made)
      /\ \A k \in DOMAIN made \ {i} : answered[k] = made[k]
  OBVIOUS
<1> HIDE DEF answered
<1>2. Proposed(e, v, answered, next)
  <2> SUFFICES ASSUME NEW k \in Numbers
               PROVE  IF k \in DOMAIN answered /\ answered[k].state = "PENDING"
                      THEN /\ k = Len(answered) /\ v.state = "SCHEDULED"
                           /\ answered[k].base = v.schedule_version /\ answered[k].base_start = v.scheduled
                           /\ Open(next[Job(e, "EXPIRE_RESCHEDULE", k)])
                           /\ next[Job(e, "EXPIRE_RESCHEDULE", k)].due = answered[k].expires
                      ELSE ~Open(next[Job(e, "EXPIRE_RESCHEDULE", k)])
    BY DEF Proposed
  <2>1. CASE k = i BY <1>1, <2>1
  <2>2. CASE k # i
    <3>1. next[Job(e, "EXPIRE_RESCHEDULE", k)] = table[Job(e, "EXPIRE_RESCHEDULE", k)] BY <2>2, ReminderTypes
    <3> QED BY <1>0, <1>1, <2>2, <3>1 DEF Proposed
  <2> QED BY <2>1, <2>2
<1>3. Chained(v, past, answered) BY <1>0, <1>1, ChainKept
<1>4. \A kind \in Reminders, n \in Numbers : next[Job(e, kind, n)] = table[Job(e, kind, n)] BY ReminderTypes
<1>5. Reminding(e, v, next) BY <1>0, <1>4 DEF Reminding
<1>6. Reminded(e, v, past, planned, sent, next) BY <1>0, <1>4 DEF Reminded
<1> QED BY <1>0, <1>2, <1>3, <1>5, <1>6 DEF Appointed, answered

\* The first approval leaves it pending.
LEMMA ApproveKeeps ==
  ASSUME NEW e \in Episodes, NEW v, NEW made \in Seq(Proposal), NEW past, NEW planned, NEW sent,
         NEW table, NEW i \in DOMAIN made, NEW p,
         Appointed(e, v, made, past, planned, sent, table),
         made[i].state = "PENDING", p.state = "PENDING",
         p.base = made[i].base, p.base_start = made[i].base_start, p.expires = made[i].expires
  PROVE  Appointed(e, v, [made EXCEPT ![i] = p], past, planned, sent, table)
<1> DEFINE approved == [made EXCEPT ![i] = p]
<1>0. /\ Rowed(v, past, sent) /\ Proposed(e, v, made, table) /\ Chained(v, past, made)
      /\ Reminding(e, v, table) /\ Reminded(e, v, past, planned, sent, table)
  BY DEF Appointed
<1>1. /\ DOMAIN approved = DOMAIN made /\ approved[i] = p /\ Len(approved) = Len(made)
      /\ \A k \in DOMAIN made \ {i} : approved[k] = made[k]
  OBVIOUS
<1> HIDE DEF approved
<1>2. Proposed(e, v, approved, table) BY <1>0, <1>1 DEF Proposed
<1>3. Chained(v, past, approved) BY <1>0, <1>1, ChainKept
<1> QED BY <1>0, <1>2, <1>3 DEF Appointed, approved
\* A row and its pending proposal before and after the second approval.
Agreement(v, new, q, p) ==
  /\ v.state = "SCHEDULED" /\ v.scheduled \in Nat /\ v.schedule_version \in Nat
  /\ q.state = "PENDING" /\ q.base = v.schedule_version /\ q.base_start = v.scheduled
  /\ p.state = "FINALIZED" /\ p.approved = Sides /\ p.base = q.base /\ p.base_start = q.base_start
  /\ p.start = q.start /\ p.start \in Nat \ {0}
  /\ new.state = "SCHEDULED" /\ new.scheduled = p.start /\ new.schedule_version = v.schedule_version + 1
  /\ new.proposed = v.proposed

\* The open work of an episode without that of a schedule and of a proposal.
Dropping(e, version, i, next, table) ==
  \A type \in Types, n \in Numbers :
    /\ Open(next[Job(e, type, n)]) => /\ Open(table[Job(e, type, n)])
                                      /\ type \in Reminders => n # version
                                      /\ type \notin Reminders => n # i
    /\ next[Job(e, type, n)].due = table[Job(e, type, n)].due
    /\ next[Job(e, type, n)].state = "PROCESSED" <=> table[Job(e, type, n)].state = "PROCESSED"
    /\ next[Job(e, type, n)].state = "NONE" <=> table[Job(e, type, n)].state = "NONE"

\* The second approval: the schedule it replaces goes to the history, and no
\* open work is left of it.
LEMMA FinalizeKeeps ==
  ASSUME NEW e \in Episodes, NEW v, NEW new, NEW made \in Seq(Proposal), NEW past \in Seq(Nat), NEW planned,
         NEW sent \in Seq(Notice), NEW table, NEW next, NEW i \in DOMAIN made \cap Numbers, NEW p,
         NEW more, more = [made EXCEPT ![i] = p], NEW later, later = Append(past, v.scheduled),
         Appointed(e, v, made, past, planned, sent, table),
         Agreement(v, new, made[i], p), Dropping(e, v.schedule_version, i, next, table)
  PROVE  Appointed(e, new, more, later, planned, sent, next)
<1> DEFINE final  == [made EXCEPT ![i] = p]
           before == Append(past, v.scheduled)
           chain  == Append(before, p.start)
<1>a. more = final /\ later = before OBVIOUS
<1>c. /\ v.state = "SCHEDULED" /\ v.scheduled \in Nat /\ v.schedule_version \in Nat
      /\ made[i].state = "PENDING" /\ made[i].base = v.schedule_version /\ made[i].base_start = v.scheduled
      /\ p.state = "FINALIZED" /\ p.approved = Sides /\ p.base = made[i].base
      /\ p.base_start = made[i].base_start /\ p.start = made[i].start /\ p.start \in Nat \ {0}
      /\ new.state = "SCHEDULED" /\ new.scheduled = p.start /\ new.schedule_version = v.schedule_version + 1
      /\ new.proposed = v.proposed
  BY DEF Agreement
<1>b. \A type \in Types, n \in Numbers :
        /\ Open(next[Job(e, type, n)]) => /\ Open(table[Job(e, type, n)])
                                          /\ type \in Reminders => n # v.schedule_version
                                          /\ type \notin Reminders => n # i
        /\ next[Job(e, type, n)].due = table[Job(e, type, n)].due
        /\ next[Job(e, type, n)].state = "PROCESSED" <=> table[Job(e, type, n)].state = "PROCESSED"
        /\ next[Job(e, type, n)].state = "NONE" <=> table[Job(e, type, n)].state = "NONE"
  BY DEF Dropping
<1>0. /\ Rowed(v, past, sent) /\ Proposed(e, v, made, table) /\ Chained(v, past, made)
      /\ Reminding(e, v, table) /\ Reminded(e, v, past, planned, sent, table)
  BY DEF Appointed
<1>1. /\ DOMAIN final = DOMAIN made /\ final[i] = p /\ Len(final) = Len(made)
      /\ \A k \in DOMAIN made \ {i} : final[k] = made[k]
  OBVIOUS
<1>2. /\ before \in Seq(Nat) /\ Len(past) \in Nat /\ Len(before) = Len(past) + 1
      /\ before[Len(past) + 1] = v.scheduled
  BY <1>c, AppendAt
<1>3. /\ Len(chain) = Len(before) + 1 /\ chain[Len(before) + 1] = p.start
      /\ \A n \in 1 .. Len(before) : chain[n] = before[n]
  BY <1>2, AppendAt
<1> HIDE DEF final, before, chain
<1>4. v.scheduled # 0 BY <1>c, <1>0 DEF Rowed
<1>5. Rowed(new, before, sent) BY <1>c DEF Rowed
<1>6. Proposed(e, new, final, next)
  <2> SUFFICES ASSUME NEW k \in Numbers
               PROVE  ~(k \in DOMAIN final /\ final[k].state = "PENDING") /\ ~Open(next[Job(e, "EXPIRE_RESCHEDULE", k)])
    BY DEF Proposed
  <2>1. DOMAIN made = 1 .. Len(made) /\ Len(made) \in Nat OBVIOUS
  <2>2. CASE k = i BY <1>c, <1>b, <1>1, <2>2, ReminderTypes
  <2>3. CASE k # i
    <3>1. ~(k \in DOMAIN made /\ made[k].state = "PENDING")
      <4>1. i = Len(made) BY <1>c, <1>0 DEF Proposed
      <4> QED BY <1>0, <2>3, <4>1 DEF Proposed
    <3>2. ~Open(table[Job(e, "EXPIRE_RESCHEDULE", k)]) BY <1>0, <3>1 DEF Proposed
    <3> QED BY <1>b, <1>1, <2>3, <3>1, <3>2, ReminderTypes
  <2> QED BY <2>2, <2>3
<1>7. Chained(new, before, final)
  <2>1. /\ Len(past) + 1 = v.schedule_version /\ before[1] = v.proposed
    BY <1>0, <1>4 DEF Chained, before
  <2>2. Len(before) + 1 = new.schedule_version /\ Append(before, new.scheduled) = chain
    BY <1>c, <1>2, <2>1 DEF chain
  <2>3. chain[1] = new.proposed
    <3>1. 1 \in 1 .. Len(before) BY <1>2
    <3> QED BY <1>c, <1>3, <2>1, <3>1
  <2>4. ASSUME NEW n \in 2 .. Len(before) + 1
        PROVE  \E k \in DOMAIN final :
                 /\ final[k].state = "FINALIZED" /\ final[k].approved = Sides
                 /\ final[k].base = n - 1 /\ final[k].base_start = chain[n - 1] /\ final[k].start = chain[n]
    <3>1. CASE n = Len(before) + 1
      <4>1. n - 1 = Len(before) /\ Len(before) \in 1 .. Len(before) BY <1>2, <3>1
      <4>2. chain[Len(before)] = v.scheduled BY <1>2, <1>3, <4>1
      <4>3. final[i].base = n - 1 /\ final[i].start = chain[n] BY <1>c, <1>1, <1>2, <1>3, <2>1, <3>1
      <4>4. final[i].base_start = chain[n - 1] BY <1>c, <1>1, <4>1, <4>2
      <4> QED BY <1>c, <1>1, <4>3, <4>4
    <3>2. CASE n # Len(before) + 1
      <4>0. Len(before) = Len(past) + 1 /\ Len(past) \in Nat BY <1>2
      <4>1. n \in 2 .. Len(past) + 1 /\ n \in 1 .. Len(before) /\ n - 1 \in 1 .. Len(before)
        BY <3>2, <4>0
      <4>2. chain[n] = before[n] /\ chain[n - 1] = before[n - 1] BY <1>3, <4>1
      <4>3. PICK k \in DOMAIN made :
               /\ made[k].state = "FINALIZED" /\ made[k].approved = Sides
               /\ made[k].base = n - 1 /\ made[k].base_start = before[n - 1] /\ made[k].start = before[n]
        BY <1>0, <1>4, <4>1 DEF Chained, before
      <4>4. k # i BY <1>c, <4>3
      <4>5. k \in DOMAIN final /\ final[k] = made[k] BY <1>1, <4>4
      <4> QED BY <4>2, <4>3, <4>5
    <3> QED BY <3>1, <3>2
  <2> QED BY <2>2, <2>3, <2>4 DEF Chained
<1>8. Reminding(e, new, next)
  BY <1>b, <1>0, ReminderTypes DEF Reminding
<1>9. Reminded(e, new, before, planned, sent, next)
  <2>1. ASSUME NEW k \in DOMAIN sent
        PROVE  sent[k].schedule \in 1 .. Len(before) + 1 /\ sent[k].start = chain[sent[k].schedule]
    <3>1. sent[k].schedule \in 1 .. Len(past) + 1 /\ sent[k].start = before[sent[k].schedule]
      BY <1>0 DEF Reminded, before
    <3>2. sent[k].schedule \in 1 .. Len(before) BY <1>2, <3>1
    <3> QED BY <1>2, <1>3, <3>1, <3>2
  <2>2. ASSUME NEW kind \in Reminders, NEW n \in Numbers
        PROVE  /\ next[Job(e, kind, n)].state # "NONE" => n \in planned
               /\ next[Job(e, kind, n)].state = "PROCESSED" <=>
                    \E k \in DOMAIN sent : sent[k].kind = kind /\ sent[k].schedule = n
    <3>1. /\ table[Job(e, kind, n)].state # "NONE" => n \in planned
          /\ table[Job(e, kind, n)].state = "PROCESSED" <=>
               \E k \in DOMAIN sent : sent[k].kind = kind /\ sent[k].schedule = n
      BY <1>0 DEF Reminded
    <3>2. /\ next[Job(e, kind, n)].state = "PROCESSED" <=> table[Job(e, kind, n)].state = "PROCESSED"
          /\ next[Job(e, kind, n)].state = "NONE" <=> table[Job(e, kind, n)].state = "NONE"
      BY <1>b, ReminderTypes
    <3> QED BY <3>1, <3>2
  <2>3. Append(before, new.scheduled) = chain BY <1>c DEF chain
  <2> QED BY <1>0, <2>1, <2>2, <2>3 DEF Reminded
<1> QED BY <1>a, <1>5, <1>6, <1>7, <1>8, <1>9 DEF Appointed

\* One reminder that was open is settled, and no other job changes.
Settling(e, kind, n, outcome, next, table) ==
  /\ Open(table[Job(e, kind, n)]) /\ next[Job(e, kind, n)].state = outcome
  /\ \A type \in Types, k \in Numbers : type # kind \/ k # n => next[Job(e, type, k)] = table[Job(e, type, k)]

\* An open reminder is skipped.
LEMMA SkipKeeps ==
  ASSUME NEW e \in Episodes, NEW v, NEW made, NEW past, NEW planned, NEW sent,
         NEW table, NEW next, NEW kind \in Reminders, NEW n \in Numbers,
         Appointed(e, v, made, past, planned, sent, table), Settling(e, kind, n, "SKIPPED", next, table)
  PROVE  Appointed(e, v, made, past, planned, sent, next)
<1>s. /\ Open(table[Job(e, kind, n)]) /\ next[Job(e, kind, n)].state = "SKIPPED"
      /\ \A type \in Types, k \in Numbers : type # kind \/ k # n => next[Job(e, type, k)] = table[Job(e, type, k)]
  BY DEF Settling
<1> USE <1>s
<1>0. /\ Rowed(v, past, sent) /\ Proposed(e, v, made, table) /\ Chained(v, past, made)
      /\ Reminding(e, v, table) /\ Reminded(e, v, past, planned, sent, table)
  BY DEF Appointed
<1>1. Proposed(e, v, made, next)
  <2>1. \A k \in Numbers : next[Job(e, "EXPIRE_RESCHEDULE", k)] = table[Job(e, "EXPIRE_RESCHEDULE", k)]
    BY ReminderTypes
  <2> QED BY <1>0, <2>1 DEF Proposed
<1>2. Reminding(e, v, next)
  BY <1>0, ReminderTypes DEF Reminding, Open
<1>3. Reminded(e, v, past, planned, sent, next)
  <2>1. ASSUME NEW other \in Reminders, NEW k \in Numbers
        PROVE  /\ next[Job(e, other, k)].state # "NONE" => k \in planned
               /\ next[Job(e, other, k)].state = "PROCESSED" <=>
                    \E i \in DOMAIN sent : sent[i].kind = other /\ sent[i].schedule = k
    <3>1. /\ table[Job(e, other, k)].state # "NONE" => k \in planned
          /\ table[Job(e, other, k)].state = "PROCESSED" <=>
               \E i \in DOMAIN sent : sent[i].kind = other /\ sent[i].schedule = k
      BY <1>0 DEF Reminded
    <3>2. CASE other = kind /\ k = n BY <3>1, <3>2 DEF Open
    <3>3. CASE other # kind \/ k # n BY <3>1, <3>3, ReminderTypes
    <3> QED BY <3>2, <3>3
  <2> QED BY <1>0, <2>1 DEF Reminded
<1> QED BY <1>0, <1>1, <1>2, <1>3 DEF Appointed

\* A notice of a reminder inside its window.
Timely(notice, kind, n, start) ==
  /\ notice.kind = kind /\ notice.schedule = n /\ notice.start = start
  /\ Opens(kind, start) <= notice.at /\ notice.at < Closes(kind, start)

\* An open reminder is sent inside its window, and was not before.
LEMMA NoticeKeeps ==
  ASSUME NEW e \in Episodes, NEW v, NEW made, NEW past \in Seq(Nat), NEW planned, NEW sent \in Seq(Notice),
         NEW table, NEW next, NEW kind \in Reminders, NEW n \in Numbers, NEW notice \in Notice,
         Appointed(e, v, made, past, planned, sent, table), v.scheduled \in Nat, v.schedule_version \in Nat,
         Settling(e, kind, n, "PROCESSED", next, table), Timely(notice, kind, n, v.scheduled)
  PROVE  /\ Appointed(e, v, made, past, planned, Append(sent, notice), next)
         /\ ~\E i \in DOMAIN sent : sent[i].kind = kind /\ sent[i].schedule = n
<1> DEFINE more  == Append(sent, notice)
           chain == Append(past, v.scheduled)
<1>t. /\ notice.kind = kind /\ notice.schedule = n /\ notice.start = v.scheduled
      /\ Opens(kind, v.scheduled) <= notice.at /\ notice.at < Closes(kind, v.scheduled)
  BY DEF Timely
<1>s. /\ Open(table[Job(e, kind, n)]) /\ next[Job(e, kind, n)].state = "PROCESSED"
      /\ \A type \in Types, k \in Numbers : type # kind \/ k # n => next[Job(e, type, k)] = table[Job(e, type, k)]
  BY DEF Settling
<1> USE <1>s
<1>0. /\ Rowed(v, past, sent) /\ Proposed(e, v, made, table) /\ Chained(v, past, made)
      /\ Reminding(e, v, table) /\ Reminded(e, v, past, planned, sent, table)
  BY DEF Appointed
<1>1. /\ Len(sent) \in Nat /\ DOMAIN sent = 1 .. Len(sent) /\ DOMAIN more = 1 .. Len(sent) + 1
      /\ more[Len(sent) + 1] = notice /\ \A i \in DOMAIN sent : more[i] = sent[i]
  OBVIOUS
<1>2. Len(past) \in Nat /\ chain[Len(past) + 1] = v.scheduled BY AppendAt
<1> HIDE DEF more, chain
<1>3. v.state = "SCHEDULED" /\ v.schedule_version = n BY <1>0 DEF Reminding
<1>4. v.scheduled # 0 /\ Len(past) + 1 = n BY <1>0, <1>3 DEF Rowed, Chained
<1>5. ~\E i \in DOMAIN sent : sent[i].kind = kind /\ sent[i].schedule = n BY <1>0 DEF Reminded, Open
<1>6. Rowed(v, past, more) BY <1>0, <1>4 DEF Rowed
<1>7. Proposed(e, v, made, next)
  <2>1. \A k \in Numbers : next[Job(e, "EXPIRE_RESCHEDULE", k)] = table[Job(e, "EXPIRE_RESCHEDULE", k)]
    BY ReminderTypes
  <2> QED BY <1>0, <2>1 DEF Proposed
<1>8. Reminding(e, v, next)
  BY <1>0, ReminderTypes DEF Reminding, Open
<1>9. ASSUME NEW i \in DOMAIN more
      PROVE  /\ Opens(more[i].kind, more[i].start) <= more[i].at /\ more[i].at < Closes(more[i].kind, more[i].start)
             /\ more[i].schedule \in 1 .. Len(past) + 1 /\ more[i].start = chain[more[i].schedule]
             /\ \A k \in DOMAIN more : more[k].kind = more[i].kind /\ more[k].schedule = more[i].schedule => k = i
  <2>1. CASE i = Len(sent) + 1
    <3>1. more[i] = notice BY <1>1, <2>1
    <3>2. notice.schedule \in 1 .. Len(past) + 1 /\ chain[notice.schedule] = v.scheduled BY <1>t, <1>2, <1>4
    <3>3. ASSUME NEW k \in DOMAIN more, more[k].kind = kind, more[k].schedule = n PROVE k = i
      <4>1. k \notin DOMAIN sent BY <1>1, <1>5, <3>3
      <4> QED BY <1>1, <2>1, <4>1
    <3> QED BY <1>t, <3>1, <3>2, <3>3
  <2>2. CASE i # Len(sent) + 1
    <3>1. i \in DOMAIN sent /\ more[i] = sent[i] BY <1>1, <2>2
    <3>2. /\ Opens(sent[i].kind, sent[i].start) <= sent[i].at /\ sent[i].at < Closes(sent[i].kind, sent[i].start)
          /\ sent[i].schedule \in 1 .. Len(past) + 1 /\ sent[i].start = chain[sent[i].schedule]
          /\ \A k \in DOMAIN sent : sent[k].kind = sent[i].kind /\ sent[k].schedule = sent[i].schedule => k = i
      BY <1>0, <3>1 DEF Reminded, chain
    <3>3. ~(sent[i].kind = kind /\ sent[i].schedule = n) BY <1>5, <3>1
    <3>4. ASSUME NEW k \in DOMAIN more, more[k].kind = more[i].kind, more[k].schedule = more[i].schedule PROVE k = i
      <4>1. k # Len(sent) + 1 BY <1>t, <1>1, <3>1, <3>3, <3>4
      <4>2. k \in DOMAIN sent /\ more[k] = sent[k] BY <1>1, <4>1
      <4> QED BY <3>1, <3>2, <3>4, <4>2
    <3> QED BY <3>1, <3>2, <3>4
  <2> QED BY <2>1, <2>2
<1>10. ASSUME NEW other \in Reminders, NEW k \in Numbers
       PROVE  /\ next[Job(e, other, k)].state # "NONE" => k \in planned
              /\ next[Job(e, other, k)].state = "PROCESSED" <=>
                   \E i \in DOMAIN more : more[i].kind = other /\ more[i].schedule = k
  <2>1. /\ table[Job(e, other, k)].state # "NONE" => k \in planned
        /\ table[Job(e, other, k)].state = "PROCESSED" <=>
             \E i \in DOMAIN sent : sent[i].kind = other /\ sent[i].schedule = k
    BY <1>0 DEF Reminded
  <2>2. CASE other = kind /\ k = n
    <3>1. table[Job(e, kind, n)].state # "NONE" BY DEF Open
    <3>2. Len(sent) + 1 \in DOMAIN more BY <1>1
    <3>3. more[Len(sent) + 1].kind = other /\ more[Len(sent) + 1].schedule = k BY <1>t, <1>1, <2>2
    <3> QED BY <2>1, <2>2, <3>1, <3>2, <3>3
  <2>3. CASE other # kind \/ k # n
    <3>1. next[Job(e, other, k)] = table[Job(e, other, k)] BY <2>3, ReminderTypes
    <3>2. (\E i \in DOMAIN more : more[i].kind = other /\ more[i].schedule = k)
            <=> \E i \in DOMAIN sent : sent[i].kind = other /\ sent[i].schedule = k
      <4>1. ~(notice.kind = other /\ notice.schedule = k) BY <1>t, <2>3
      <4>2. ASSUME NEW i \in DOMAIN more, more[i].kind = other, more[i].schedule = k
            PROVE  i \in DOMAIN sent /\ more[i] = sent[i]
        <5>1. i # Len(sent) + 1 BY <1>1, <4>1, <4>2
        <5> QED BY <1>1, <5>1
      <4>3. \A i \in DOMAIN sent : i \in DOMAIN more /\ more[i] = sent[i] BY <1>1
      <4> QED BY <4>2, <4>3
    <3> QED BY <2>1, <3>1, <3>2
  <2> QED BY <2>2, <2>3
<1>11. Reminded(e, v, past, planned, more, next) BY <1>9, <1>10 DEF Reminded, chain
<1> QED BY <1>0, <1>5, <1>6, <1>7, <1>8, <1>11 DEF Appointed, more
\* A row that has nothing open may move on without touching it.
LEMMA IdleKeeps ==
  ASSUME NEW e \in Episodes, NEW v, NEW row, NEW made, NEW past, NEW planned, NEW sent, NEW table,
         Appointed(e, v, made, past, planned, sent, table), v.state # "SCHEDULED",
         Rowed(row, past, sent), Chained(row, past, made), row.scheduled = v.scheduled \/ sent = <<>>
  PROVE  Appointed(e, row, made, past, planned, sent, table)
<1>0. Proposed(e, v, made, table) /\ Reminding(e, v, table) /\ Reminded(e, v, past, planned, sent, table)
  BY DEF Appointed
<1>1. Proposed(e, row, made, table) BY <1>0 DEF Proposed
<1>2. Reminding(e, row, table) BY <1>0 DEF Reminding
<1>3. Reminded(e, row, past, planned, sent, table)
  <2>1. CASE row.scheduled = v.scheduled BY <1>0, <2>1 DEF Reminded
  <2>2. CASE sent = <<>>
    <3>1. DOMAIN sent = {} BY <2>2
    <3> QED BY <1>0, <3>1 DEF Reminded
  <2> QED BY <2>1, <2>2
<1> QED BY <1>1, <1>2, <1>3 DEF Appointed

\* Nothing open of another episode is skipped or planned.
LEMMA OthersWork ==
  ASSUME NEW e \in Episodes, NEW o \in Episodes \ {e}, NEW type \in Types, NEW n \in Numbers
  PROVE  /\ Job(o, type, n) \notin JobsOf(e)
         /\ \A table, J : J \subseteq JobsOf(e) => Skipping(J, table)[Job(o, type, n)] = table[Job(o, type, n)]
         /\ \A table, row : Planning(e, row, table)[Job(o, type, n)] = table[Job(o, type, n)]
<1>1. Job(o, type, n) \in Jobs /\ Job(o, type, n)[1] = o BY JobParts
<1>2. Job(o, type, n) \notin JobsOf(e) BY <1>1 DEF JobsOf
<1>3. ASSUME NEW table, NEW J, J \subseteq JobsOf(e)
      PROVE  Skipping(J, table)[Job(o, type, n)] = table[Job(o, type, n)]
  BY <1>1, <1>2, <1>3 DEF Skipping
<1>4. ASSUME NEW table, NEW row
      PROVE  Planning(e, row, table)[Job(o, type, n)] = table[Job(o, type, n)]
  <2>1. \A kind, k : Job(e, kind, k)[1] = e BY DEF Job
  <2>2. \A kind \in Reminders : Job(o, type, n) # Job(e, kind, row.schedule_version) BY <1>1, <2>1
  <2> QED BY <1>1, <2>2 DEF Planning
<1> QED BY <1>2, <1>3, <1>4

\* What AppointmentInv says of one episode.
LEMMA OfEpisode ==
  ASSUME AppointmentInv, NEW e \in Episodes
  PROVE  /\ Appointed(e, viewings[e], proposals[e], history[e], plans[e], notices[e], work)
         /\ Rowed(viewings[e], history[e], notices[e]) /\ Chained(viewings[e], history[e], proposals[e])
         /\ Proposed(e, viewings[e], proposals[e], work) /\ Reminding(e, viewings[e], work)
         /\ viewings[e] \in Viewing /\ proposals[e] \in Seq(Proposal) /\ history[e] \in Seq(Nat)
         /\ plans[e] \in SUBSET Nat /\ notices[e] \in Seq(Notice) /\ work \in [Jobs -> Action]
         /\ viewings[e].scheduled \in Nat /\ viewings[e].schedule_version \in Nat
         /\ viewings[e].version \in Nat /\ viewings[e].proposed \in Nat
         /\ now \in Nat
BY DEF AppointmentInv, AllAppointed, AppointmentTypes, Appointed, Viewing

\* closeAction() and the trigger, after whatever wrote the row.
LEMMA CloseStep ==
  ASSUME AppointmentInv, NEW e \in Episodes, NEW row \in Viewing, viewings' = [viewings EXCEPT ![e] = row],
         row.state \notin {"SCHEDULED", "RESCHEDULED"},
         Rowed(row, history[e], notices[e]), Chained(row, history[e], proposals[e]),
         row.scheduled = viewings[e].scheduled \/ notices[e] = <<>>,
         CloseAppointment(e), UNCHANGED <<now, eligible>>
  PROVE  AppointmentInv'
<1>1. viewings' \in [Episodes -> Viewing] /\ viewings'[e] = row /\ \A o \in Episodes \ {e} : viewings'[o] = viewings[o]
  BY DEF AppointmentInv, AppointmentTypes
<1>2. /\ work' = Skipping(JobsOf(e), work) /\ UNCHANGED <<history, plans, notices>>
      /\ proposals'[e] = Invalidated(proposals[e]) /\ proposals' = [proposals EXCEPT ![e] = Invalidated(proposals[e])]
  <2>1. viewings'[e].state \notin {"SCHEDULED", "RESCHEDULED"} BY <1>1
  <2>2. work' = Skipping(JobsOf(e), work) BY <2>1 DEF CloseAppointment, WorkInvalidation
  <2>3. proposals' = [proposals EXCEPT ![e] = Invalidated(proposals[e])]
    BY <2>1 DEF CloseAppointment, WorkInvalidation, Invalidated
  <2> QED BY <2>2, <2>3 DEF CloseAppointment, AppointmentInv, AppointmentTypes
<1>3. Appointed(e, viewings'[e], proposals'[e], history'[e], plans'[e], notices'[e], work')
  BY <1>1, <1>2, OfEpisode, CloseKeeps
<1>4. \A o \in Episodes \ {e} : proposals'[o] = proposals[o]
  BY <1>2 DEF AppointmentInv, AppointmentTypes
<1>5. ASSUME NEW o \in Episodes \ {e}, NEW type \in Types, NEW n \in Numbers
      PROVE  work'[Job(o, type, n)] = work[Job(o, type, n)]
  BY <1>2, OthersWork
<1>6. AllAppointed'
  BY <1>1, <1>2, <1>3, <1>4, <1>5, OneAppointment DEF AppointmentInv
<1>7. work' \in [Jobs -> Action]
  <2>1. ASSUME NEW j \in Jobs PROVE work'[j] \in Action BY <1>2, OfEpisode, SkipAt
  <2> QED BY <1>2, <2>1 DEF Skipping
<1>8. proposals' \in [Episodes -> Seq(Proposal)] /\ \A o \in Episodes : Len(proposals'[o]) <= MaxProposals
  BY <1>2, <1>4, OfEpisode, InvalidatedTypes DEF AppointmentInv, AppointmentTypes
<1> QED BY <1>1, <1>2, <1>6, <1>7, <1>8 DEF AppointmentInv, AppointmentTypes

\* Any other step of one episode.
LEMMA EpisodeStep ==
  ASSUME AppointmentInv, NEW e \in Episodes, NEW row \in Viewing, NEW made \in Seq(Proposal),
         NEW past \in Seq(Nat), NEW planned \in SUBSET Nat, NEW sent \in Seq(Notice),
         viewings' = [viewings EXCEPT ![e] = row], proposals' = [proposals EXCEPT ![e] = made],
         history' = [history EXCEPT ![e] = past], plans' = [plans EXCEPT ![e] = planned],
         notices' = [notices EXCEPT ![e] = sent], UNCHANGED <<now, eligible>>,
         work' \in [Jobs -> Action], Len(made) <= MaxProposals,
         \A o \in Episodes \ {e}, type \in Types, n \in Numbers : work'[Job(o, type, n)] = work[Job(o, type, n)],
         Appointed(e, row, made, past, planned, sent, work')
  PROVE  AppointmentInv'
<1>1. /\ viewings'[e] = row /\ proposals'[e] = made /\ history'[e] = past
      /\ plans'[e] = planned /\ notices'[e] = sent
      /\ \A o \in Episodes \ {e} :
           /\ viewings'[o] = viewings[o] /\ proposals'[o] = proposals[o] /\ history'[o] = history[o]
           /\ plans'[o] = plans[o] /\ notices'[o] = notices[o]
  BY DEF AppointmentInv, AppointmentTypes
<1>2. AllAppointed'
  <2>1. Appointed(e, viewings'[e], proposals'[e], history'[e], plans'[e], notices'[e], work') BY <1>1
  <2> QED BY <1>1, <2>1, OneAppointment DEF AppointmentInv
<1>3. \A o \in Episodes : Len(proposals'[o]) <= MaxProposals
  BY <1>1 DEF AppointmentInv, AppointmentTypes
<1> QED BY <1>2, <1>3 DEF AppointmentInv, AppointmentTypes
LEMMA NextVersion ==
  ASSUME NEW v \in Viewing
  PROVE  [v EXCEPT !.version = @ + 1] \in Viewing /\ SameSchedule([v EXCEPT !.version = @ + 1], v)
<1>1. v.version + 1 \in Nat BY DEF Viewing
<1> QED BY <1>1 DEF Viewing, SameSchedule

\* A new request has no schedule yet.
LEMMA CreateStep ==
  ASSUME AppointmentInv, NEW e \in Episodes, NEW start \in Starts, Create(e, start), UNCHANGED newVars
  PROVE  AppointmentInv'
<1> USE StartsAssumption, TimesAssumption
<1> DEFINE deadline == Earliest(now + ResponseWindow, start)
           row == [NoViewing EXCEPT !.state = "REQUESTED", !.proposed = start,
                     !.deadline = deadline, !.version = 1, !.schedule_version = 1]
<1>1. deadline \in Nat /\ start \in Nat \ {0} BY OfEpisode DEF Earliest
<1>2. row \in Viewing
  BY <1>1 DEF NoViewing, Viewing, States, Guard!ViewingStates, Guard!Scheduling
<1>3. /\ row.state = "REQUESTED" /\ row.scheduled = 0 /\ row.schedule_version = 1 /\ row.proposed # 0
  BY <1>1 DEF NoViewing
<1>4. viewings' = [viewings EXCEPT ![e] = row] BY DEF Create, Record
<1>5. viewings[e].state = "ABSENT" /\ viewings[e].scheduled = 0 BY DEF Create, NoViewing
<1> HIDE DEF row
<1>6. history[e] = <<>> /\ notices[e] = <<>> BY <1>5, OfEpisode DEF Rowed
<1>7. Rowed(row, history[e], notices[e]) /\ Chained(row, history[e], proposals[e])
  BY <1>3, <1>6 DEF Rowed, Chained
<1>8. Appointed(e, row, proposals[e], history[e], plans[e], notices[e], work)
  BY <1>3, <1>5, <1>7, OfEpisode, IdleKeeps
<1>9. Appointed(e, row, proposals[e], history[e], plans[e], notices[e], work')
  BY <1>8 DEF newVars
<1>10. UNCHANGED <<now, eligible, proposals, history, plans, work, notices>> BY DEF Create, newVars
<1>11. /\ proposals' = [proposals EXCEPT ![e] = proposals[e]] /\ history' = [history EXCEPT ![e] = history[e]]
       /\ plans' = [plans EXCEPT ![e] = plans[e]] /\ notices' = [notices EXCEPT ![e] = notices[e]]
       /\ Len(proposals[e]) <= MaxProposals /\ work' \in [Jobs -> Action]
  BY <1>10 DEF AppointmentInv, AppointmentTypes
<1> QED BY <1>2, <1>4, <1>9, <1>10, <1>11, OfEpisode, EpisodeStep

\* An acceptance starts the chain of schedules.
LEMMA AcceptStep ==
  ASSUME AppointmentInv, NEW e \in Episodes, Accept(e), CloseAppointment(e)
  PROVE  AppointmentInv'
<1> DEFINE row == [viewings[e] EXCEPT !.state = "ACCEPTED", !.version = @ + 1, !.scheduled = viewings[e].proposed]
<1>1. viewings[e] \in Viewing /\ viewings[e].state = "REQUESTED" /\ UNCHANGED <<now, eligible>>
  BY OfEpisode DEF Accept
<1>2. row \in Viewing BY <1>1, StateNames, RowUpdates DEF Sides, Guard!Sides
<1>3. /\ row.state = "ACCEPTED" /\ row.scheduled = viewings[e].proposed
      /\ row.schedule_version = viewings[e].schedule_version /\ row.proposed = viewings[e].proposed
  BY <1>1 DEF Viewing
<1>4. viewings' = [viewings EXCEPT ![e] = row] BY DEF Accept, Record
<1> HIDE DEF row
<1>5. /\ history[e] = <<>> /\ notices[e] = <<>> /\ viewings[e].schedule_version = 1
      /\ viewings[e].proposed # 0
  BY <1>1, OfEpisode DEF Rowed
<1>6. Rowed(row, history[e], notices[e]) BY <1>3, <1>5 DEF Rowed
<1>7. Chained(row, history[e], proposals[e])
  <2>1. Len(history[e]) = 0 /\ Append(history[e], row.scheduled)[1] = row.scheduled
    BY <1>3, <1>5, OfEpisode, AppendAt
  <2> QED BY <1>3, <1>5, <2>1 DEF Chained
<1> QED BY <1>1, <1>2, <1>3, <1>4, <1>5, <1>6, <1>7, CloseStep

\* Declining and cancelling keep the schedule the row has.
LEMMA EndStep ==
  ASSUME AppointmentInv, NEW e \in Episodes, NEW row \in Viewing,
         viewings' = [viewings EXCEPT ![e] = row], UNCHANGED <<now, eligible>>,
         row.state \notin {"REQUESTED", "ACCEPTED", "SCHEDULED", "RESCHEDULED"},
         row.scheduled = viewings[e].scheduled, row.schedule_version = viewings[e].schedule_version,
         row.proposed = viewings[e].proposed, CloseAppointment(e)
  PROVE  AppointmentInv'
<1>1. Rowed(row, history[e], notices[e])
  <2>1. Rowed(viewings[e], history[e], notices[e]) BY OfEpisode
  <2> QED BY <2>1 DEF Rowed
<1>2. Chained(row, history[e], proposals[e])
  <2>1. Chained(viewings[e], history[e], proposals[e]) BY OfEpisode
  <2> QED BY <2>1 DEF Chained
<1> QED BY <1>1, <1>2, CloseStep

LEMMA DeclineStep ==
  ASSUME AppointmentInv, NEW e \in Episodes, Decline(e), CloseAppointment(e)
  PROVE  AppointmentInv'
<1> DEFINE row == [viewings[e] EXCEPT !.state = "DECLINED", !.version = @ + 1]
<1>1. viewings[e] \in Viewing /\ UNCHANGED <<now, eligible>> BY OfEpisode DEF Decline
<1>2. row \in Viewing BY <1>1, StateNames, RowUpdates DEF Sides, Guard!Sides
<1>3. /\ row.state = "DECLINED" /\ row.scheduled = viewings[e].scheduled
      /\ row.schedule_version = viewings[e].schedule_version /\ row.proposed = viewings[e].proposed
  BY <1>1 DEF Viewing
<1>4. viewings' = [viewings EXCEPT ![e] = row] BY DEF Decline, Record
<1> HIDE DEF row
<1> QED BY <1>1, <1>2, <1>3, <1>4, EndStep

LEMMA CancelStep ==
  ASSUME AppointmentInv, NEW e \in Episodes, NEW side \in Sides, Cancel(e, side), CloseAppointment(e)
  PROVE  AppointmentInv'
<1> DEFINE state == IF side = "SEEKER" THEN "CANCELLED_BY_SEEKER" ELSE "CANCELLED_BY_PROVIDER"
           row == [viewings[e] EXCEPT !.version = @ + 1, !.state = state]
<1>1. viewings[e] \in Viewing /\ UNCHANGED <<now, eligible>> BY OfEpisode DEF Cancel
<1>2. state \in States /\ state \in {"CANCELLED_BY_SEEKER", "CANCELLED_BY_PROVIDER"} BY StateNames
<1>3. viewings' = [viewings EXCEPT ![e] = row] BY DEF Cancel, Record
<1> HIDE DEF state
<1>4. row \in Viewing BY <1>1, <1>2, RowUpdates DEF Sides, Guard!Sides
<1>5. /\ row.state = state /\ row.scheduled = viewings[e].scheduled
      /\ row.schedule_version = viewings[e].schedule_version /\ row.proposed = viewings[e].proposed
  BY <1>1 DEF Viewing
<1> HIDE DEF row
<1> QED BY <1>1, <1>2, <1>3, <1>4, <1>5, EndStep

\* The expiry of a request, and of anything else its job may find.
LEMMA HandleStep ==
  ASSUME AppointmentInv, NEW w \in Workers, NEW e \in Episodes, Handle(w, e), CloseAppointment(e)
  PROVE  AppointmentInv'
<1>0. viewings[e] \in Viewing /\ UNCHANGED <<now, eligible>> BY OfEpisode DEF Handle
<1>1. CASE viewings[e].state = "REQUESTED" /\ ~(viewings[e].deadline > now)
  <2> DEFINE row == [viewings[e] EXCEPT !.state = "EXPIRED", !.version = @ + 1]
  <2>1. row \in Viewing BY <1>0, StateNames, RowUpdates DEF Sides, Guard!Sides
  <2>2. /\ row.state = "EXPIRED" /\ row.scheduled = viewings[e].scheduled
        /\ row.schedule_version = viewings[e].schedule_version /\ row.proposed = viewings[e].proposed
    BY <1>0 DEF Viewing
  <2>3. viewings' = [viewings EXCEPT ![e] = row] BY <1>1 DEF Handle, Record
  <2> HIDE DEF row
  <2> QED BY <1>0, <2>1, <2>2, <2>3, EndStep
<1>2. CASE ~(viewings[e].state = "REQUESTED" /\ ~(viewings[e].deadline > now))
  <2>1. viewings' = viewings BY <1>2 DEF Handle
  <2>2. viewings' = [viewings EXCEPT ![e] = viewings[e]] BY <2>1 DEF AppointmentInv, AppointmentTypes
  <2>3. CASE viewings[e].state = "SCHEDULED"
    <3>1. UNCHANGED <<proposals, work, history, plans, notices>>
      BY <2>1, <2>3 DEF CloseAppointment, WorkInvalidation
    <3>2. \A j \in Jobs : Alike(work'[j], work[j]) BY <3>1 DEF Alike
    <3>3. AllAppointed' BY <2>1, <3>1, <3>2, SchedulesAlike DEF AppointmentInv
    <3> QED BY <1>0, <2>1, <3>1, <3>3 DEF AppointmentInv, AppointmentTypes
  <2>4. CASE viewings[e].state # "SCHEDULED"
    <3>1. viewings[e].state # "RESCHEDULED" BY OfEpisode DEF Rowed
    <3> QED BY <1>0, <2>2, <2>4, <3>1, OfEpisode, CloseStep
  <2> QED BY <2>3, <2>4
<1> QED BY <1>1, <1>2

\* The second confirmation plans the reminders.
LEMMA ConfirmStep ==
  ASSUME AppointmentInv, NEW e \in Episodes, NEW side \in Sides, Confirm(e, side), PlanAppointment(e)
  PROVE  AppointmentInv'
<1> DEFINE state == IF viewings[e].confirmed \cup {side} = Sides THEN "SCHEDULED" ELSE "ACCEPTED"
           row   == [viewings[e] EXCEPT !.confirmed = @ \cup {side}, !.version = @ + 1, !.state = state]
<1>1. viewings[e] \in Viewing /\ viewings[e].state = "ACCEPTED" /\ UNCHANGED <<now, eligible>>
  BY OfEpisode DEF Confirm
<1>2. state \in States /\ state \in {"ACCEPTED", "SCHEDULED"} BY StateNames
<1>3. viewings' = [viewings EXCEPT ![e] = row] BY DEF Confirm, Record
<1> HIDE DEF state
<1>4. row \in Viewing BY <1>1, <1>2, RowUpdates
<1>5. /\ row.state = state /\ row.scheduled = viewings[e].scheduled
      /\ row.schedule_version = viewings[e].schedule_version /\ row.proposed = viewings[e].proposed
  BY <1>1 DEF Viewing
<1> HIDE DEF row
<1>6. row.scheduled \in Nat /\ row.schedule_version \in Nat BY <1>4 DEF Viewing
<1>7. Rowed(row, history[e], notices[e])
  <2>1. Rowed(viewings[e], history[e], notices[e]) BY OfEpisode
  <2> QED BY <1>1, <1>2, <1>5, <2>1 DEF Rowed
<1>8. Chained(row, history[e], proposals[e])
  <2>1. Chained(viewings[e], history[e], proposals[e]) BY OfEpisode
  <2> QED BY <1>5, <2>1 DEF Chained
<1>9. Appointed(e, row, proposals[e], history[e], plans[e], notices[e], work)
  BY <1>1, <1>5, <1>7, <1>8, OfEpisode, IdleKeeps
<1>10. viewings'[e] = row BY <1>3 DEF AppointmentInv, AppointmentTypes
<1>11. UNCHANGED <<proposals, history, notices>> BY DEF PlanAppointment
<1>12. /\ proposals' = [proposals EXCEPT ![e] = proposals[e]] /\ history' = [history EXCEPT ![e] = history[e]]
       /\ notices' = [notices EXCEPT ![e] = notices[e]] /\ Len(proposals[e]) <= MaxProposals
  BY <1>11 DEF AppointmentInv, AppointmentTypes
<1>13. CASE state = "SCHEDULED"
  <2> DEFINE planned == plans[e] \cup {row.schedule_version}
  <2>1. work' = Planning(e, row, work) /\ plans' = [plans EXCEPT ![e] = planned]
    BY <1>5, <1>10, <1>13 DEF PlanAppointment
  <2>2. Appointed(e, row, proposals[e], history[e], planned, notices[e], work') /\ work' \in [Jobs -> Action]
    BY <1>5, <1>6, <1>9, <1>13, <2>1, OfEpisode, PlanKeeps
  <2>3. ASSUME NEW o \in Episodes \ {e}, NEW type \in Types, NEW n \in Numbers
        PROVE  work'[Job(o, type, n)] = work[Job(o, type, n)]
    BY <2>1, OthersWork
  <2>4. planned \in SUBSET Nat BY <1>6, OfEpisode
  <2> HIDE DEF planned
  <2> QED BY <1>1, <1>3, <1>4, <1>12, <2>1, <2>2, <2>3, <2>4, OfEpisode, EpisodeStep
<1>14. CASE state # "SCHEDULED"
  <2>1. work' = work /\ plans' = plans BY <1>5, <1>10, <1>14 DEF PlanAppointment
  <2>2. plans' = [plans EXCEPT ![e] = plans[e]] BY <2>1 DEF AppointmentInv, AppointmentTypes
  <2> QED BY <1>1, <1>3, <1>4, <1>9, <1>12, <2>1, <2>2, OfEpisode, EpisodeStep
<1> QED BY <1>13, <1>14
\* Proposals and answers keep the types of their tables.
LEMMA AnsweredTypes ==
  ASSUME NEW p \in Proposal, NEW state \in {"PENDING", "FINALIZED", "REJECTED", "WITHDRAWN", "EXPIRED", "INVALIDATED"},
         NEW approved \in SUBSET Sides
  PROVE  /\ Answered(p, state, approved) \in Proposal
         /\ Answered(p, state, approved).state = state /\ Answered(p, state, approved).approved = approved
         /\ Answered(p, state, approved).base = p.base /\ Answered(p, state, approved).base_start = p.base_start
         /\ Answered(p, state, approved).start = p.start /\ Answered(p, state, approved).expires = p.expires
<1>1. p.version + 1 \in Nat BY DEF Proposal
<1> QED BY <1>1 DEF Answered, Proposal

\* The places of the proposals of an episode.
LEMMA ProposalPlace ==
  ASSUME AppointmentInv, NEW e \in Episodes, NEW i \in DOMAIN proposals[e]
  PROVE  /\ proposals[e][i] \in Proposal /\ i \in Numbers /\ proposals[e][i].approved \subseteq Sides
         /\ Len(proposals[e]) <= MaxProposals
<1>1. proposals[e] \in Seq(Proposal) /\ Len(proposals[e]) <= MaxProposals
  BY DEF AppointmentInv, AppointmentTypes
<1>2. proposals[e][i] \in Proposal /\ i \in 1 .. Len(proposals[e]) /\ Len(proposals[e]) \in Nat BY <1>1
<1>3. proposals[e][i].approved \subseteq Sides BY <1>2 DEF Proposal
<1> QED BY <1>1, <1>2, <1>3, ProposalsAssumption DEF Numbers

\* An answer replaces one proposal by a typed one.
LEMMA AnswerRow ==
  ASSUME AppointmentInv, NEW e \in Episodes, NEW i \in DOMAIN proposals[e],
         NEW state \in {"PENDING", "FINALIZED", "REJECTED", "WITHDRAWN", "EXPIRED", "INVALIDATED"},
         NEW approved \in SUBSET Sides, Answer(e, i, state, approved)
  PROVE  LET made == [proposals[e] EXCEPT ![i] = Answered(proposals[e][i], state, approved)]
         IN  /\ proposals' = [proposals EXCEPT ![e] = made]
             /\ made \in Seq(Proposal) /\ Len(made) <= MaxProposals
<1> DEFINE p    == Answered(proposals[e][i], state, approved)
           made == [proposals[e] EXCEPT ![i] = p]
<1>1. p \in Proposal BY ProposalPlace, AnsweredTypes
<1>2. proposals[e] \in Seq(Proposal) BY OfEpisode
<1>3. proposals' = [proposals EXCEPT ![e] = made] BY DEF Answer
<1> HIDE DEF p
<1>4. made \in Seq(Proposal) /\ Len(made) = Len(proposals[e]) BY <1>1, <1>2
<1> QED BY <1>3, <1>4, ProposalPlace DEF p

\* A proposal is made for the schedule there is.
LEMMA ProposeStep ==
  ASSUME AppointmentInv, NEW e \in Episodes, NEW side \in Sides, NEW start \in Starts, Propose(e, side, start)
  PROVE  AppointmentInv'
<1> USE StartsAssumption, TimesAssumption
<1> DEFINE v       == viewings[e]
           row     == [v EXCEPT !.version = @ + 1]
           number  == Len(proposals[e]) + 1
           expires == Earliest(Earliest(now + ResponseWindow, v.scheduled), start)
           p       == [base |-> v.schedule_version, base_start |-> v.scheduled, start |-> start, side |-> side,
                       version |-> 1, state |-> "PENDING", approved |-> {}, expires |-> expires]
           made    == Append(proposals[e], p)
           action  == [NoAction EXCEPT !.state = "PENDING", !.due = expires]
           job     == Job(e, "EXPIRE_RESCHEDULE", number)
<1>1. v \in Viewing /\ proposals[e] \in Seq(Proposal) /\ v.scheduled \in Nat /\ v.schedule_version \in Nat /\ now \in Nat
  BY OfEpisode
<1>2. expires \in Nat /\ start \in Nat BY <1>1 DEF Earliest
<1> HIDE DEF expires
<1>3. p \in Proposal BY <1>1, <1>2 DEF Proposal
<1>4. action \in Action BY <1>2 DEF NoAction, Action
<1>5. action.state = "PENDING" /\ action.due = expires BY DEF NoAction
<1>6. number \in Numbers /\ Len(made) <= MaxProposals /\ made \in Seq(Proposal)
  <2>1. number <= MaxProposals BY DEF Propose
  <2>2. Len(proposals[e]) \in Nat /\ Len(made) = number /\ made \in Seq(Proposal) BY <1>1, <1>3
  <2> QED BY <2>1, <2>2, ProposalsAssumption DEF Numbers
<1>7. row \in Viewing /\ SameSchedule(row, v) BY <1>1, NextVersion
<1>8. viewings' = [viewings EXCEPT ![e] = row] BY DEF Propose, Record
<1>9. proposals' = [proposals EXCEPT ![e] = made] BY DEF Propose, expires
<1>10. work' = [work EXCEPT ![job] = action] BY DEF Propose, expires
<1>11. v.state = "SCHEDULED" /\ \A i \in DOMAIN proposals[e] : proposals[e][i].state # "PENDING"
  BY DEF Propose, Pending
<1>12. UNCHANGED <<now, eligible, history, plans, notices>> BY DEF Propose
<1>13. job \in Jobs /\ work \in [Jobs -> Action] BY <1>6, JobParts, ReminderTypes, OfEpisode
<1>14. work' \in [Jobs -> Action] /\ work'[job] = action /\ \A j \in Jobs \ {job} : work'[j] = work[j]
  BY <1>4, <1>10, <1>13
<1>15. p.state = "PENDING" /\ p.base = v.schedule_version /\ p.base_start = v.scheduled /\ p.expires = expires
  OBVIOUS
<1> HIDE DEF row, p, action
<1>16. ASSUME NEW o \in Episodes, NEW type \in Types, NEW n \in Numbers, o # e \/ type \in Reminders \/ n # number
       PROVE  work'[Job(o, type, n)] = work[Job(o, type, n)]
  <2>1. Job(o, type, n) \in Jobs BY JobParts
  <2>2. Job(o, type, n) # job BY <1>16, ReminderTypes DEF Job
  <2> QED BY <1>14, <2>1, <2>2
<1>17. Open(work'[job]) /\ work'[job].due = p.expires BY <1>5, <1>14, <1>15 DEF Open
<1>18. Appointed(e, v, proposals[e], history[e], plans[e], notices[e], work) BY OfEpisode
<1> HIDE DEF v, number, job
<1>19. Appointed(e, v, made, history[e], plans[e], notices[e], work')
  <2>1. Open(work'[Job(e, "EXPIRE_RESCHEDULE", Len(proposals[e]) + 1)])
        /\ work'[Job(e, "EXPIRE_RESCHEDULE", Len(proposals[e]) + 1)].due = p.expires
    BY <1>17 DEF job, number
  <2>2. \A type \in Types, n \in Numbers : type \in Reminders \/ n # Len(proposals[e]) + 1 =>
           work'[Job(e, type, n)] = work[Job(e, type, n)]
    BY <1>16 DEF number
  <2>3. Len(proposals[e]) + 1 \in Numbers BY <1>6 DEF number
  <2> QED BY <1>1, <1>3, <1>11, <1>13, <1>15, <1>18, <2>1, <2>2, <2>3, ProposeKeeps
<1>20. Appointed(e, row, made, history[e], plans[e], notices[e], work')
  <2>1. \A type \in Types, n \in Numbers : Alike(work'[Job(e, type, n)], work'[Job(e, type, n)]) BY DEF Alike
  <2> QED BY <1>7, <1>19, <2>1, AlikeKeeps
<1>21. /\ history' = [history EXCEPT ![e] = history[e]] /\ plans' = [plans EXCEPT ![e] = plans[e]]
       /\ notices' = [notices EXCEPT ![e] = notices[e]]
  BY <1>12 DEF AppointmentInv, AppointmentTypes
<1>22. \A o \in Episodes \ {e}, type \in Types, n \in Numbers : work'[Job(o, type, n)] = work[Job(o, type, n)]
  BY <1>16
<1>23. /\ history[e] \in Seq(Nat) /\ plans[e] \in SUBSET Nat /\ notices[e] \in Seq(Notice)
       /\ work' \in [Jobs -> Action]
  BY <1>14, OfEpisode
<1> HIDE DEF made
<1> QED BY <1>6, <1>7, <1>8, <1>9, <1>12, <1>20, <1>21, <1>22, <1>23, EpisodeStep
\* The first approval.
LEMMA ApproveStep ==
  ASSUME AppointmentInv, NEW e \in Episodes, NEW side \in Sides, NEW i \in DOMAIN proposals[e],
         ApproveReschedule(e, i, side)
  PROVE  AppointmentInv'
<1> DEFINE row      == [viewings[e] EXCEPT !.version = @ + 1]
           approved == proposals[e][i].approved \cup {side}
           p        == Answered(proposals[e][i], "PENDING", approved)
           made     == [proposals[e] EXCEPT ![i] = p]
<1>1. approved \in SUBSET Sides /\ proposals[e][i] \in Proposal BY ProposalPlace
<1>2. Answer(e, i, "PENDING", approved) /\ proposals[e][i].state = "PENDING"
  BY DEF ApproveReschedule, Answerable
<1> HIDE DEF approved
<1>3. /\ proposals' = [proposals EXCEPT ![e] = made] /\ made \in Seq(Proposal) /\ Len(made) <= MaxProposals
  BY <1>1, <1>2, AnswerRow
<1>4. /\ p.state = "PENDING" /\ p.base = proposals[e][i].base /\ p.base_start = proposals[e][i].base_start
      /\ p.expires = proposals[e][i].expires
  BY <1>1, AnsweredTypes
<1>5. row \in Viewing /\ SameSchedule(row, viewings[e]) BY OfEpisode, NextVersion
<1>6. viewings' = [viewings EXCEPT ![e] = row] BY DEF ApproveReschedule, Record
<1>7. UNCHANGED <<now, eligible, history, plans, work, notices>> BY DEF ApproveReschedule
<1> HIDE DEF p, row
<1>8. Appointed(e, viewings[e], made, history[e], plans[e], notices[e], work)
  BY <1>2, <1>4, OfEpisode, ApproveKeeps
<1>9. Appointed(e, row, made, history[e], plans[e], notices[e], work')
  <2>1. \A type \in Types, n \in Numbers : Alike(work'[Job(e, type, n)], work[Job(e, type, n)])
    BY <1>7 DEF Alike
  <2> QED BY <1>5, <1>8, <2>1, AlikeKeeps
<1>10. /\ history' = [history EXCEPT ![e] = history[e]] /\ plans' = [plans EXCEPT ![e] = plans[e]]
       /\ notices' = [notices EXCEPT ![e] = notices[e]]
  BY <1>7 DEF AppointmentInv, AppointmentTypes
<1>11. /\ history[e] \in Seq(Nat) /\ plans[e] \in SUBSET Nat /\ notices[e] \in Seq(Notice)
       /\ work' \in [Jobs -> Action]
  BY <1>7, OfEpisode
<1>12. \A o \in Episodes \ {e}, type \in Types, n \in Numbers : work'[Job(o, type, n)] = work[Job(o, type, n)]
  BY <1>7
<1> HIDE DEF made
<1> QED BY <1>3, <1>5, <1>6, <1>7, <1>9, <1>10, <1>11, <1>12, EpisodeStep

\* A pending proposal ends without a new schedule, and its expiry with it.
LEMMA EndProposalStep ==
  ASSUME AppointmentInv, NEW e \in Episodes, NEW i \in DOMAIN proposals[e], NEW row \in Viewing,
         NEW state \in {"REJECTED", "WITHDRAWN", "EXPIRED", "INVALIDATED"},
         proposals[e][i].state = "PENDING", Answer(e, i, state, proposals[e][i].approved),
         viewings' = [viewings EXCEPT ![e] = row], SameSchedule(row, viewings[e]),
         ~Open(work'[Job(e, "EXPIRE_RESCHEDULE", i)]), work' \in [Jobs -> Action],
         \A j \in Jobs : j # Job(e, "EXPIRE_RESCHEDULE", i) => work'[j] = work[j],
         UNCHANGED <<now, eligible, history, plans, notices>>
  PROVE  AppointmentInv'
<1> DEFINE p    == Answered(proposals[e][i], state, proposals[e][i].approved)
           made == [proposals[e] EXCEPT ![i] = p]
<1>1. proposals[e][i].approved \in SUBSET Sides /\ proposals[e][i] \in Proposal BY ProposalPlace
<1>2. /\ proposals' = [proposals EXCEPT ![e] = made] /\ made \in Seq(Proposal) /\ Len(made) <= MaxProposals
  BY <1>1, AnswerRow
<1>3. p.state # "PENDING" BY <1>1, AnsweredTypes
<1> HIDE DEF p
<1>4. ASSUME NEW o \in Episodes, NEW type \in Types, NEW n \in Numbers, o # e \/ type \in Reminders \/ n # i
      PROVE  work'[Job(o, type, n)] = work[Job(o, type, n)]
  <2>1. Job(o, type, n) \in Jobs BY JobParts
  <2>2. Job(o, type, n) # Job(e, "EXPIRE_RESCHEDULE", i) BY <1>4, ReminderTypes DEF Job
  <2> QED BY <2>1, <2>2
<1>5. Appointed(e, viewings[e], made, history[e], plans[e], notices[e], work')
  <2>1. \A type \in Types, n \in Numbers : type \in Reminders \/ n # i =>
          work'[Job(e, type, n)] = work[Job(e, type, n)]
    BY <1>4
  <2> QED BY <1>3, <2>1, OfEpisode, AnswerKeeps
<1>6. Appointed(e, row, made, history[e], plans[e], notices[e], work')
  <2>1. \A type \in Types, n \in Numbers : Alike(work'[Job(e, type, n)], work'[Job(e, type, n)]) BY DEF Alike
  <2> QED BY <1>5, <2>1, AlikeKeeps
<1>7. /\ history' = [history EXCEPT ![e] = history[e]] /\ plans' = [plans EXCEPT ![e] = plans[e]]
      /\ notices' = [notices EXCEPT ![e] = notices[e]]
  BY DEF AppointmentInv, AppointmentTypes
<1>8. history[e] \in Seq(Nat) /\ plans[e] \in SUBSET Nat /\ notices[e] \in Seq(Notice) BY OfEpisode
<1>9. \A o \in Episodes \ {e}, type \in Types, n \in Numbers : work'[Job(o, type, n)] = work[Job(o, type, n)]
  BY <1>4
<1> HIDE DEF made
<1> QED BY <1>2, <1>6, <1>7, <1>8, <1>9, EpisodeStep

\* A rejection or a withdrawal.
LEMMA RefuseStep ==
  ASSUME AppointmentInv, NEW e \in Episodes, NEW side \in Sides, NEW i \in DOMAIN proposals[e],
         NEW state \in {"REJECTED", "WITHDRAWN"}, NEW type, Refuse(e, i, side, state, type)
  PROVE  AppointmentInv'
<1> DEFINE row == [viewings[e] EXCEPT !.version = @ + 1]
           job == Job(e, "EXPIRE_RESCHEDULE", i)
<1>1. proposals[e][i].state = "PENDING" /\ Answer(e, i, state, proposals[e][i].approved)
  BY DEF Refuse, Answerable
<1>2. row \in Viewing /\ SameSchedule(row, viewings[e]) BY OfEpisode, NextVersion
<1>3. viewings' = [viewings EXCEPT ![e] = row] BY DEF Refuse, Record
<1>4. UNCHANGED <<now, eligible, history, plans, notices>> BY DEF Refuse
<1> HIDE DEF row
<1>5. work' = Skipping({job}, work) /\ work \in [Jobs -> Action] /\ job \in Jobs
  BY OfEpisode, ProposalPlace, JobParts, ReminderTypes DEF Refuse
<1> HIDE DEF job
<1>6. ASSUME NEW j \in Jobs
      PROVE  work'[j] \in Action /\ (j = job => ~Open(work'[j])) /\ (j # job => work'[j] = work[j])
  <2>1. work'[j] \in Action /\ (Open(work'[j]) <=> Open(work[j]) /\ j \notin {job}) BY <1>5, SkipAt
  <2>2. j # job => work'[j] = work[j] BY <1>5 DEF Skipping
  <2> QED BY <2>1, <2>2
<1>7. work' \in [Jobs -> Action] BY <1>5, <1>6 DEF Skipping
<1> QED BY <1>1, <1>2, <1>3, <1>4, <1>5, <1>6, <1>7, EndProposalStep DEF job
LEMMA ReplacedTypes ==
  ASSUME NEW v \in Viewing, NEW start \in Nat
  PROVE  /\ Replaced(v, start) \in Viewing
         /\ Replaced(v, start).state = v.state /\ Replaced(v, start).scheduled = start
         /\ Replaced(v, start).schedule_version = v.schedule_version + 1
         /\ Replaced(v, start).proposed = v.proposed
<1>1. v.version + 3 \in Nat /\ v.schedule_version + 1 \in Nat BY DEF Viewing
<1>2. Replaced(v, start) \in Viewing BY <1>1 DEF Replaced, Viewing
<1>3. /\ Replaced(v, start).state = v.state /\ Replaced(v, start).scheduled = start
      /\ Replaced(v, start).schedule_version = v.schedule_version + 1
      /\ Replaced(v, start).proposed = v.proposed
  BY DEF Replaced, Viewing
<1> QED BY <1>2, <1>3

\* The second approval: the old schedule's work is skipped and the new one planned.
LEMMA FinalizeStep ==
  ASSUME AppointmentInv, NEW e \in Episodes, NEW side \in Sides, NEW i \in DOMAIN proposals[e],
         FinalizeReschedule(e, i, side)
  PROVE  AppointmentInv'
<1> DEFINE v        == viewings[e]
           new      == Replaced(v, proposals[e][i].start)
           approved == proposals[e][i].approved \cup {side}
           p        == Answered(proposals[e][i], "FINALIZED", approved)
           made     == [proposals[e] EXCEPT ![i] = p]
           obsolete == {j \in JobsOf(e) : Open(work[j]) /\ Expected(j) = v.schedule_version}
           skipped  == Skipping(obsolete, work)
           past     == Append(history[e], v.scheduled)
           planned  == plans[e] \cup {new.schedule_version}
<1>1. approved \in SUBSET Sides /\ proposals[e][i] \in Proposal /\ i \in Numbers BY ProposalPlace
<1>2. /\ Answer(e, i, "FINALIZED", approved) /\ proposals[e][i].state = "PENDING" /\ approved = Sides
      /\ v.state = "SCHEDULED" /\ proposals[e][i].base = v.schedule_version /\ proposals[e][i].start > now
  BY DEF FinalizeReschedule, Answerable, Agreed
<1>3. /\ v \in Viewing /\ v.scheduled \in Nat /\ v.schedule_version \in Nat /\ v.version \in Nat /\ now \in Nat
      /\ work \in [Jobs -> Action] /\ history[e] \in Seq(Nat) /\ notices[e] \in Seq(Notice)
      /\ plans[e] \in SUBSET Nat /\ proposals[e] \in Seq(Proposal)
  BY OfEpisode
<1>4. proposals[e][i].start \in Nat \ {0} BY <1>1, <1>2, <1>3 DEF Proposal
<1>5. /\ new \in Viewing /\ new.state = v.state /\ new.scheduled = proposals[e][i].start
      /\ new.schedule_version = v.schedule_version + 1 /\ new.proposed = v.proposed
  BY <1>3, <1>4, ReplacedTypes
<1>6. /\ viewings' = [viewings EXCEPT ![e] = new] /\ history' = [history EXCEPT ![e] = past]
      /\ plans' = [plans EXCEPT ![e] = planned] /\ work' = Planning(e, new, skipped)
      /\ UNCHANGED <<now, eligible, notices>>
  BY DEF FinalizeReschedule
<1> HIDE DEF approved
<1>7. /\ proposals' = [proposals EXCEPT ![e] = made] /\ made \in Seq(Proposal) /\ Len(made) <= MaxProposals
  BY <1>1, <1>2, AnswerRow
<1>8. /\ p.state = "FINALIZED" /\ p.approved = Sides /\ p.base = proposals[e][i].base
      /\ p.base_start = proposals[e][i].base_start /\ p.start = proposals[e][i].start
  BY <1>1, <1>2, AnsweredTypes
<1> HIDE DEF p, new, skipped, planned
<1>9. ASSUME NEW j \in Jobs
      PROVE  /\ skipped[j] \in Action /\ skipped[j].due = work[j].due
             /\ Open(skipped[j]) <=> Open(work[j]) /\ j \notin obsolete
             /\ skipped[j].state = "PROCESSED" <=> work[j].state = "PROCESSED"
             /\ skipped[j].state = "NONE" <=> work[j].state = "NONE"
  <2> HIDE DEF obsolete
  <2> QED BY <1>3, SkipAt DEF skipped
<1>10. skipped \in [Jobs -> Action] BY <1>9 DEF skipped, Skipping
<1>11. ASSUME NEW type \in Types, NEW n \in Numbers
       PROVE  /\ Open(skipped[Job(e, type, n)]) => /\ Open(work[Job(e, type, n)])
                                                   /\ type \in Reminders => n # v.schedule_version
                                                   /\ type \notin Reminders => n # i
              /\ skipped[Job(e, type, n)].due = work[Job(e, type, n)].due
              /\ skipped[Job(e, type, n)].state = "PROCESSED" <=> work[Job(e, type, n)].state = "PROCESSED"
              /\ skipped[Job(e, type, n)].state = "NONE" <=> work[Job(e, type, n)].state = "NONE"
  <2> DEFINE job == Job(e, type, n)
  <2>1. job \in Jobs /\ job[1] = e /\ job[2] = type /\ job[3] = n BY JobParts
  <2>2. job \in JobsOf(e) BY <2>1 DEF JobsOf
  <2>3. type \in Reminders /\ n = v.schedule_version => Expected(job) = v.schedule_version
    BY <2>1, ReminderTypes DEF Expected
  <2>4. type \notin Reminders => type = "EXPIRE_RESCHEDULE" BY DEF Types
  <2>5. type \notin Reminders /\ n = i => Expected(job) = v.schedule_version
    BY <1>2, <2>1, <2>4 DEF Expected
  <2> HIDE DEF job
  <2> QED BY <1>9, <2>1, <2>2, <2>3, <2>5 DEF job
<1>12. proposals[e][i].base_start = v.scheduled
  BY <1>1, <1>2, OfEpisode DEF Proposed
<1>13. Appointed(e, v, proposals[e], history[e], plans[e], notices[e], work) BY OfEpisode
<1> HIDE DEF v, obsolete
<1>14. Appointed(e, new, made, past, plans[e], notices[e], skipped)
  <2>1. i \in DOMAIN proposals[e] \cap Numbers BY <1>1
  <2>2. Agreement(v, new, proposals[e][i], p) BY <1>2, <1>3, <1>4, <1>5, <1>8, <1>12 DEF Agreement
  <2>3. Dropping(e, v.schedule_version, i, skipped, work) BY <1>11 DEF Dropping
  <2> QED BY <1>3, <1>13, <2>1, <2>2, <2>3, FinalizeKeeps
<1> HIDE DEF made
<1>15. new.scheduled \in Nat /\ new.schedule_version \in Nat BY <1>5 DEF Viewing
<1>16. /\ Appointed(e, new, made, past, plans[e] \cup {new.schedule_version}, notices[e], Planning(e, new, skipped))
       /\ Planning(e, new, skipped) \in [Jobs -> Action]
  BY <1>2, <1>3, <1>5, <1>10, <1>14, <1>15, PlanKeeps
<1>17. Appointed(e, new, made, past, planned, notices[e], work') /\ work' \in [Jobs -> Action]
  BY <1>6, <1>16 DEF planned
<1>18. ASSUME NEW o \in Episodes \ {e}, NEW type \in Types, NEW n \in Numbers
       PROVE  work'[Job(o, type, n)] = work[Job(o, type, n)]
  <2>1. obsolete \subseteq JobsOf(e) BY DEF obsolete
  <2>2. skipped[Job(o, type, n)] = work[Job(o, type, n)] BY <2>1, OthersWork DEF skipped
  <2> QED BY <1>6, <2>2, OthersWork
<1>19. planned \in SUBSET Nat BY <1>3, <1>15 DEF planned
<1>20. past \in Seq(Nat) BY <1>3, AppendAt
<1>21. notices' = [notices EXCEPT ![e] = notices[e]] BY <1>6 DEF AppointmentInv, AppointmentTypes
<1> HIDE DEF past
<1> QED BY <1>3, <1>5, <1>6, <1>7, <1>17, <1>18, <1>19, <1>20, <1>21, EpisodeStep
-----------------------------------------------------------------------------
(* The runs of the worker.                                                   *)

\* A job that is given back, and one that is leased, look the same.
LEMMA LooksSame ==
  ASSUME NEW a \in Action, NEW w \in Workers, NEW until \in Nat, Open(a)
  PROVE  /\ Released(a) \in Action /\ Alike(Released(a), a)
         /\ [a EXCEPT !.state = "LEASED", !.token = w, !.until = until] \in Action
         /\ Alike([a EXCEPT !.state = "LEASED", !.token = w, !.until = until], a)
<1>1. Released(a) \in Action BY SettledTypes DEF Released
<1>2. Released(a).state = "PENDING" /\ Released(a).due = a.due BY SettledFields DEF Released
<1>3. [a EXCEPT !.state = "LEASED", !.token = w, !.until = until] \in Action BY LeasedTypes
<1>4. /\ [a EXCEPT !.state = "LEASED", !.token = w, !.until = until].state = "LEASED"
      /\ [a EXCEPT !.state = "LEASED", !.token = w, !.until = until].due = a.due
  BY DEF Action
<1> QED BY <1>1, <1>2, <1>3, <1>4 DEF Alike, Open

\* A step of the queue alone.
LEMMA QueueStep ==
  ASSUME AppointmentInv, UNCHANGED <<now, eligible, viewings, proposals, history, plans, notices>>,
         work' \in [Jobs -> Action], \A j \in Jobs : Alike(work'[j], work[j])
  PROVE  AppointmentInv'
<1>1. AllAppointed' BY SchedulesAlike DEF AppointmentInv
<1> QED BY <1>1 DEF AppointmentInv, AppointmentTypes

LEMMA LeaseStep ==
  ASSUME AppointmentInv, NEW w \in Workers, LeaseAppointments(w)
  PROVE  AppointmentInv'
<1>1. UNCHANGED <<now, eligible, viewings, proposals, history, plans, notices>> BY DEF LeaseAppointments
<1>2. now + LeaseTime \in Nat BY TimesAssumption DEF AppointmentInv, AppointmentTypes
<1>3. ASSUME NEW j \in Jobs PROVE work'[j] \in Action /\ Alike(work'[j], work[j])
  <2>1. work[j] \in Action BY DEF AppointmentInv, AppointmentTypes
  <2>2. CASE Leasable(j)
    <3>1. work'[j] = [work[j] EXCEPT !.state = "LEASED", !.token = w, !.until = now + LeaseTime]
      BY <2>2 DEF LeaseAppointments
    <3>2. Open(work[j]) BY <2>2 DEF Leasable, Open
    <3>3. /\ [work[j] EXCEPT !.state = "LEASED", !.token = w, !.until = now + LeaseTime] \in Action
          /\ Alike([work[j] EXCEPT !.state = "LEASED", !.token = w, !.until = now + LeaseTime], work[j])
      BY <1>2, <2>1, <3>2, LooksSame
    <3> QED BY <3>1, <3>3
  <2>3. CASE ~Leasable(j)
    <3>1. work'[j] = work[j] BY <2>3 DEF LeaseAppointments
    <3> QED BY <2>1, <3>1 DEF Alike
  <2> QED BY <2>2, <2>3
<1>4. work' \in [Jobs -> Action] BY <1>3 DEF LeaseAppointments
<1> QED BY <1>1, <1>3, <1>4, QueueStep

\* One job of the queue is written.
LEMMA OneJob ==
  ASSUME AppointmentInv, NEW j \in Jobs, NEW action \in Action, work' = [work EXCEPT ![j] = action]
  PROVE  /\ work' \in [Jobs -> Action] /\ work'[j] = action
         /\ \A k \in Jobs : k # j => work'[k] = work[k]
BY DEF AppointmentInv, AppointmentTypes

LEMMA GiveBackStep ==
  ASSUME AppointmentInv, NEW j \in Jobs, Open(work[j]), NEW action \in Action, Alike(action, work[j]),
         work' = [work EXCEPT ![j] = action],
         UNCHANGED <<now, eligible, viewings, proposals, history, plans, notices>>
  PROVE  AppointmentInv'
<1>1. \A k \in Jobs : Alike(work'[k], work[k]) BY OneJob DEF Alike
<1> QED BY <1>1, OneJob, QueueStep

LEMMA SkipBusyStep ==
  ASSUME AppointmentInv, NEW w \in Workers, NEW j \in Jobs, SkipBusyWork(w, j)
  PROVE  AppointmentInv'
<1>1. work[j] \in Action BY DEF AppointmentInv, AppointmentTypes
<1>2. Open(work[j]) /\ work' = [work EXCEPT ![j] = Released(work[j])]
  BY DEF SkipBusyWork, OwnsWork, HandledWork, Open
<1>3. Released(work[j]) \in Action /\ Alike(Released(work[j]), work[j]) BY <1>1, <1>2, LooksSame
<1>4. UNCHANGED <<now, eligible, viewings, proposals, history, plans, notices>> BY DEF SkipBusyWork
<1> QED BY <1>2, <1>3, <1>4, GiveBackStep
\* The expiry of a proposal: an open one has a proposal that is pending.
LEMMA HandleProposalStep ==
  ASSUME AppointmentInv, NEW w \in Workers, NEW j \in Jobs, HandleProposal(w, j)
  PROVE  AppointmentInv'
<1> DEFINE e   == j[1]
           i   == j[3]
           p   == proposals[e][i]
           row == [viewings[e] EXCEPT !.version = @ + 1]
           due == p.expires <= now
<1>1. e \in Episodes /\ i \in Numbers /\ j = Job(e, "EXPIRE_RESCHEDULE", i)
  BY JobNamed DEF HandleProposal
<1>2. work[j] \in Action /\ Open(work[j]) BY DEF AppointmentInv, AppointmentTypes, HandleProposal, OwnsWork, Open
<1>3. /\ i \in DOMAIN proposals[e] /\ p.state = "PENDING" /\ viewings[e].state = "SCHEDULED"
      /\ p.base = viewings[e].schedule_version /\ work[j].due = p.expires
  <2>1. Proposed(e, viewings[e], proposals[e], work) BY <1>1, OfEpisode
  <2> QED BY <1>1, <1>2, <2>1 DEF Proposed
<1>4. UNCHANGED <<now, eligible, history, plans, notices>> BY DEF HandleProposal
<1>5. CASE ~eligible \/ due
  <2> DEFINE state == IF due THEN "EXPIRED" ELSE "INVALIDATED"
  <2>1. /\ Answer(e, i, state, p.approved) /\ viewings' = [viewings EXCEPT ![e] = row]
        /\ work' = [work EXCEPT ![j] = Settled(work[j], "PROCESSED")]
    BY <1>3, <1>5 DEF HandleProposal, Record, HandledWork
  <2>2. Settled(work[j], "PROCESSED") \in Action /\ ~Open(Settled(work[j], "PROCESSED"))
    BY <1>2, SettledTypes, SettledFields DEF Open
  <2>3. /\ work' \in [Jobs -> Action] /\ ~Open(work'[j])
        /\ \A k \in Jobs : k # j => work'[k] = work[k]
    BY <2>1, <2>2, OneJob
  <2>4. row \in Viewing /\ SameSchedule(row, viewings[e]) BY <1>1, OfEpisode, NextVersion
  <2>5. state \in {"REJECTED", "WITHDRAWN", "EXPIRED", "INVALIDATED"} OBVIOUS
  <2>6. ~Open(work'[Job(e, "EXPIRE_RESCHEDULE", i)])
        /\ \A k \in Jobs : k # Job(e, "EXPIRE_RESCHEDULE", i) => work'[k] = work[k]
    BY <1>1, <2>3
  <2> HIDE DEF state, row, e, i
  <2> QED BY <1>1, <1>3, <1>4, <2>1, <2>3, <2>4, <2>5, <2>6, EndProposalStep
<1>6. CASE ~(~eligible \/ due)
  <2> DEFINE action == [Released(work[j]) EXCEPT !.due = p.expires]
  <2>1. work' = [work EXCEPT ![j] = action] /\ UNCHANGED <<viewings, proposals>>
    BY <1>3, <1>6 DEF HandleProposal, HandledWork
  <2>2. Released(work[j]) \in Action /\ Alike(Released(work[j]), work[j])
    BY <1>2, SettledTypes, SettledFields DEF Released, Alike, Open
  <2>3. action = Released(work[j])
    <3>1. Released(work[j]).due = p.expires BY <1>3, <2>2 DEF Alike
    <3> QED BY <2>2, <3>1 DEF Action
  <2> HIDE DEF action
  <2> QED BY <1>2, <1>4, <2>1, <2>2, <2>3, GiveBackStep
<1> QED BY <1>5, <1>6

\* A reminder: an open one is for the schedule of a scheduled row.
LEMMA HandleReminderStep ==
  ASSUME AppointmentInv, NEW w \in Workers, NEW j \in Jobs, HandleReminder(w, j)
  PROVE  AppointmentInv'
<1> DEFINE e    == j[1]
           kind == j[2]
           n    == j[3]
           v    == viewings[e]
<1>1. e \in Episodes /\ kind \in Reminders /\ n \in Numbers /\ j = Job(e, kind, n)
  BY JobNamed DEF HandleReminder
<1>2. work[j] \in Action /\ Open(work[j]) BY DEF AppointmentInv, AppointmentTypes, HandleReminder, OwnsWork, Open
<1>3. v.state = "SCHEDULED" /\ v.schedule_version = n /\ work[j].due = Opens(kind, v.scheduled)
  <2>1. Reminding(e, viewings[e], work) BY <1>1, OfEpisode
  <2> QED BY <1>1, <1>2, <2>1 DEF Reminding
<1>4. UNCHANGED <<now, eligible, viewings, proposals, history, plans>> BY DEF HandleReminder
<1>5. /\ viewings' = [viewings EXCEPT ![e] = v] /\ proposals' = [proposals EXCEPT ![e] = proposals[e]]
      /\ history' = [history EXCEPT ![e] = history[e]] /\ plans' = [plans EXCEPT ![e] = plans[e]]
      /\ Len(proposals[e]) <= MaxProposals
  BY <1>1, <1>4 DEF AppointmentInv, AppointmentTypes
<1>6. ASSUME NEW action \in Action, work' = [work EXCEPT ![j] = action]
      PROVE  /\ work' \in [Jobs -> Action] /\ work'[Job(e, kind, n)] = action
             /\ \A o \in Episodes, type \in Types, k \in Numbers :
                  o # e \/ type # kind \/ k # n => work'[Job(o, type, k)] = work[Job(o, type, k)]
  <2>1. /\ work' \in [Jobs -> Action] /\ work'[j] = action /\ \A k \in Jobs : k # j => work'[k] = work[k]
    BY <1>6, OneJob
  <2>2. ASSUME NEW o \in Episodes, NEW type \in Types, NEW k \in Numbers, o # e \/ type # kind \/ k # n
        PROVE  Job(o, type, k) \in Jobs /\ Job(o, type, k) # j
    <3>1. /\ Job(o, type, k) \in Jobs /\ Job(o, type, k)[1] = o /\ Job(o, type, k)[2] = type
          /\ Job(o, type, k)[3] = k
      BY JobParts
    <3> QED BY <2>2, <3>1
  <2> QED BY <1>1, <2>1, <2>2
<1>7. /\ v \in Viewing /\ proposals[e] \in Seq(Proposal) /\ history[e] \in Seq(Nat) /\ plans[e] \in SUBSET Nat
      /\ notices[e] \in Seq(Notice) /\ v.scheduled \in Nat /\ v.schedule_version \in Nat /\ now \in Nat
      /\ UNCHANGED <<now, eligible>>
  BY <1>1, <1>4, OfEpisode
<1>a. Appointed(e, v, proposals[e], history[e], plans[e], notices[e], work) BY <1>1, OfEpisode
<1> HIDE DEF e, kind, n, v
<1>8. CASE ~eligible \/ Missed(kind, v.scheduled)
  <2>1. work' = [work EXCEPT ![j] = Settled(work[j], "SKIPPED")] /\ notices' = notices
    BY <1>8 DEF HandleReminder, HandledWork, e, kind, v
  <2>2. Settled(work[j], "SKIPPED") \in Action /\ Settled(work[j], "SKIPPED").state = "SKIPPED"
    BY <1>2, SettledTypes, SettledFields
  <2>3. /\ work' \in [Jobs -> Action] /\ work'[Job(e, kind, n)].state = "SKIPPED"
        /\ \A o \in Episodes, type \in Types, k \in Numbers :
             o # e \/ type # kind \/ k # n => work'[Job(o, type, k)] = work[Job(o, type, k)]
    BY <1>6, <2>1, <2>2
  <2>4. Open(work[Job(e, kind, n)]) BY <1>1, <1>2
  <2>5. \A type \in Types, k \in Numbers : type # kind \/ k # n => work'[Job(e, type, k)] = work[Job(e, type, k)]
    BY <1>1, <2>3
  <2>6. Appointed(e, v, proposals[e], history[e], plans[e], notices[e], work')
    <3>1. Settling(e, kind, n, "SKIPPED", work', work) BY <2>3, <2>4, <2>5 DEF Settling
    <3> QED BY <1>1, <1>a, <3>1, SkipKeeps
  <2>7. notices' = [notices EXCEPT ![e] = notices[e]] BY <1>1, <2>1 DEF AppointmentInv, AppointmentTypes
  <2>8. \A o \in Episodes \ {e}, type \in Types, k \in Numbers : work'[Job(o, type, k)] = work[Job(o, type, k)]
    BY <2>3
  <2> QED BY <1>1, <1>5, <1>7, <2>3, <2>6, <2>7, <2>8, EpisodeStep
<1>9. CASE ~(~eligible \/ Missed(kind, v.scheduled)) /\ Ahead(kind, v.scheduled)
  <2> DEFINE action == [Released(work[j]) EXCEPT !.due = Opens(kind, v.scheduled)]
  <2>1. work' = [work EXCEPT ![j] = action] /\ notices' = notices
    BY <1>3, <1>9 DEF HandleReminder, HandledWork, e, kind, v, n
  <2>2. Released(work[j]) \in Action /\ Alike(Released(work[j]), work[j])
    BY <1>2, SettledTypes, SettledFields DEF Released, Alike, Open
  <2>3. action = Released(work[j])
    <3>1. Released(work[j]).due = Opens(kind, v.scheduled) BY <1>3, <2>2 DEF Alike
    <3> QED BY <2>2, <3>1 DEF Action
  <2> HIDE DEF action
  <2> QED BY <1>2, <1>4, <2>1, <2>2, <2>3, GiveBackStep
<1>10. CASE ~(~eligible \/ Missed(kind, v.scheduled)) /\ ~Ahead(kind, v.scheduled)
  <2> DEFINE notice == [kind |-> kind, schedule |-> n, start |-> v.scheduled, at |-> now]
             sent   == \E i \in DOMAIN notices[e] : notices[e][i].kind = kind /\ notices[e][i].schedule = n
             more   == Append(notices[e], notice)
  <2>1. /\ work' = [work EXCEPT ![j] = Settled(work[j], "PROCESSED")]
        /\ notices' = [notices EXCEPT ![e] = IF sent THEN @ ELSE more]
    BY <1>3, <1>10 DEF HandleReminder, HandledWork, e, kind, v, n
  <2>2. Settled(work[j], "PROCESSED") \in Action /\ Settled(work[j], "PROCESSED").state = "PROCESSED"
    BY <1>2, SettledTypes, SettledFields
  <2>3. /\ work' \in [Jobs -> Action] /\ work'[Job(e, kind, n)].state = "PROCESSED"
        /\ \A o \in Episodes, type \in Types, k \in Numbers :
             o # e \/ type # kind \/ k # n => work'[Job(o, type, k)] = work[Job(o, type, k)]
    BY <1>6, <2>1, <2>2
  <2>4. Open(work[Job(e, kind, n)]) BY <1>1, <1>2
  <2>5. \A type \in Types, k \in Numbers : type # kind \/ k # n => work'[Job(e, type, k)] = work[Job(e, type, k)]
    BY <1>1, <2>3
  <2>6. notice \in Notice BY <1>1, <1>7 DEF Notice
  <2>7. Timely(notice, kind, n, v.scheduled)
    BY <1>1, <1>7, <1>10, LeadsAssumption DEF Missed, Ahead, Opens, Closes, Lead, Timely
  <2> HIDE DEF notice
  <2>8. Appointed(e, v, proposals[e], history[e], plans[e], more, work') /\ ~sent
    <3>1. Settling(e, kind, n, "PROCESSED", work', work) BY <2>3, <2>4, <2>5 DEF Settling
    <3> QED BY <1>1, <1>7, <1>a, <2>6, <2>7, <3>1, NoticeKeeps
  <2>9. notices' = [notices EXCEPT ![e] = more] /\ more \in Seq(Notice) BY <1>7, <2>1, <2>6, <2>8
  <2>10. \A o \in Episodes \ {e}, type \in Types, k \in Numbers : work'[Job(o, type, k)] = work[Job(o, type, k)]
    BY <2>3
  <2> HIDE DEF more
  <2> QED BY <1>1, <1>5, <1>7, <2>3, <2>8, <2>9, <2>10, EpisodeStep
<1> QED BY <1>8, <1>9, <1>10
-----------------------------------------------------------------------------
(* The invariant, and what it says.                                          *)

LEMMA AppointmentStart == AppointmentInit => AppointmentInv
<1> SUFFICES ASSUME AppointmentInit PROVE AppointmentInv OBVIOUS
<1>1. NoViewing \in Viewing /\ NoAction \in Action
  BY DEF NoViewing, NoAction, Viewing, Action, States
<1>2. AppointmentTypes
  BY <1>1, ProposalsAssumption DEF AppointmentInit, Init, AppointmentTypes
<1>3. ASSUME NEW e \in Episodes
      PROVE  Appointed(e, viewings[e], proposals[e], history[e], plans[e], notices[e], work)
  <2>1. /\ viewings[e] = NoViewing /\ proposals[e] = <<>> /\ history[e] = <<>> /\ plans[e] = {}
        /\ notices[e] = <<>> /\ \A j \in Jobs : work[j] = NoAction
    BY DEF AppointmentInit, Init
  <2>2. NoViewing.state = "ABSENT" /\ NoViewing.scheduled = 0 BY DEF NoViewing
  <2>3. NoAction.state = "NONE" /\ ~Open(NoAction) BY DEF NoAction, Open
  <2>4. \A type \in Types, n \in Numbers : work[Job(e, type, n)] = NoAction BY <2>1, JobParts
  <2>5. DOMAIN <<>> = {} OBVIOUS
  <2>6. Rowed(viewings[e], history[e], notices[e]) BY <2>1, <2>2 DEF Rowed
  <2>7. Proposed(e, viewings[e], proposals[e], work) BY <2>1, <2>3, <2>4, <2>5, ReminderTypes DEF Proposed
  <2>8. Chained(viewings[e], history[e], proposals[e]) BY <2>1, <2>2 DEF Chained
  <2>9. Reminding(e, viewings[e], work) BY <2>3, <2>4, ReminderTypes DEF Reminding
  <2>10. Reminded(e, viewings[e], history[e], plans[e], notices[e], work)
    BY <2>1, <2>3, <2>4, <2>5, ReminderTypes DEF Reminded
  <2> QED BY <2>6, <2>7, <2>8, <2>9, <2>10 DEF Appointed
<1> QED BY <1>2, <1>3 DEF AppointmentInv, AllAppointed

\* A step of anything else.
LEMMA ElsewhereStep ==
  ASSUME AppointmentInv, now' \in Nat, eligible' \in BOOLEAN,
         UNCHANGED <<viewings, proposals, history, plans, work, notices>>
  PROVE  AppointmentInv'
<1>1. AllAppointed'
  <2>1. \A j \in Jobs : Alike(work'[j], work[j]) BY DEF Alike
  <2> QED BY <2>1, SchedulesAlike DEF AppointmentInv
<1> QED BY <1>1 DEF AppointmentInv, AppointmentTypes

LEMMA AppointmentStep == AppointmentInv /\ [AppointmentNext]_appointmentVars => AppointmentInv'
<1> SUFFICES ASSUME AppointmentInv, [AppointmentNext]_appointmentVars PROVE AppointmentInv' OBVIOUS
<1>0. now \in Nat /\ eligible \in BOOLEAN BY DEF AppointmentInv, AppointmentTypes
<1>1. CASE Inherited
  BY <1>1, CreateStep, AcceptStep, DeclineStep, CancelStep, ConfirmStep DEF Inherited
<1>2. CASE Rescheduling
  <2>1. PICK e \in Episodes, side \in Sides :
           \/ \E start \in Starts : Propose(e, side, start)
           \/ \E i \in DOMAIN proposals[e] : \/ ApproveReschedule(e, i, side)
                                             \/ FinalizeReschedule(e, i, side)
                                             \/ RejectReschedule(e, i, side)
                                             \/ WithdrawReschedule(e, i, side)
    BY <1>2 DEF Rescheduling
  <2>2. ASSUME NEW i \in DOMAIN proposals[e], RejectReschedule(e, i, side) \/ WithdrawReschedule(e, i, side)
        PROVE  AppointmentInv'
    <3>1. \E state \in {"REJECTED", "WITHDRAWN"} : \E type : Refuse(e, i, side, state, type)
      BY <2>2 DEF RejectReschedule, WithdrawReschedule
    <3> QED BY <3>1, RefuseStep
  <2> QED BY <2>1, <2>2, ProposeStep, ApproveStep, FinalizeStep
<1>3. ASSUME NEW w \in Workers, Expiry(w) PROVE AppointmentInv'
  <2>1. CASE Lease(w) /\ taken[w] = {} /\ UNCHANGED newVars
    BY <1>0, <2>1, ElsewhereStep DEF Lease, newVars
  <2>2. ASSUME NEW e \in Episodes, SkipBusy(w, e) \/ LoseLease(w, e), UNCHANGED newVars PROVE AppointmentInv'
    BY <1>0, <2>2, ElsewhereStep DEF SkipBusy, LoseLease, newVars
  <2> QED BY <1>3, <2>1, <2>2, HandleStep DEF Expiry
<1>4. ASSUME NEW w \in Workers, Appointments(w) PROVE AppointmentInv'
  <2>1. ASSUME NEW j \in Jobs, LoseWork(w, j) PROVE AppointmentInv'
    BY <1>0, <2>1, ElsewhereStep DEF LoseWork
  <2> QED BY <1>4, <2>1, LeaseStep, SkipBusyStep, HandleProposalStep, HandleReminderStep DEF Appointments
<1>5. ASSUME NEW w \in Workers, CrashRun(w) PROVE AppointmentInv'
  BY <1>0, <1>5, ElsewhereStep DEF CrashRun
<1>6. CASE (Tick \/ EligibilityChanges) /\ UNCHANGED newVars
  <2>1. now' \in Nat BY <1>0, <1>6 DEF Tick, EligibilityChanges
  <2>3. eligible' \in BOOLEAN BY <1>0, <1>6, Zenon DEF Tick, EligibilityChanges
  <2>2. UNCHANGED <<viewings, proposals, history, plans, work, notices>>
    BY <1>6 DEF Tick, EligibilityChanges, newVars
  <2> QED BY <2>1, <2>2, <2>3, ElsewhereStep
<1>7. CASE UNCHANGED appointmentVars
  BY <1>0, <1>7, ElsewhereStep DEF appointmentVars
<1> QED BY <1>1, <1>2, <1>3, <1>4, <1>5, <1>6, <1>7 DEF AppointmentNext

LEMMA AppointmentAlways == AppointmentSafety => []AppointmentInv
BY AppointmentStart, AppointmentStep, PTL DEF AppointmentSafety

\* A pending proposal can still be agreed on and its expiry is armed; nothing
\* else of a proposal is left in the queue.
THEOREM ProposalArmedCorrect == AppointmentSafety => []ProposalArmed
<1>1. AppointmentInv => ProposalArmed
  <2> SUFFICES ASSUME AppointmentInv, NEW e \in Episodes, NEW i \in Numbers
               PROVE  IF i \in Pending(e)
                      THEN /\ i = Len(proposals[e]) /\ viewings[e].state = "SCHEDULED"
                           /\ proposals[e][i].base = viewings[e].schedule_version
                           /\ proposals[e][i].base_start = viewings[e].scheduled
                           /\ Open(work[Job(e, "EXPIRE_RESCHEDULE", i)])
                           /\ work[Job(e, "EXPIRE_RESCHEDULE", i)].due = proposals[e][i].expires
                      ELSE ~Open(work[Job(e, "EXPIRE_RESCHEDULE", i)])
    BY DEF ProposalArmed
  <2>1. Proposed(e, viewings[e], proposals[e], work) BY OfEpisode
  <2> QED BY <2>1 DEF Proposed, Pending
<1> QED BY <1>1, AppointmentAlways, PTL

\* Every schedule after the first was agreed on by both sides against the one
\* it replaced, and none is missing from the history.
THEOREM JointlyReplacedCorrect == AppointmentSafety => []JointlyReplaced
<1>1. AppointmentInv => JointlyReplaced
  <2> SUFFICES ASSUME AppointmentInv, NEW e \in Episodes, viewings[e].scheduled # 0
               PROVE  LET starts == Append(history[e], viewings[e].scheduled)
                      IN  /\ Len(starts) = viewings[e].schedule_version
                          /\ starts[1] = viewings[e].proposed
                          /\ \A n \in 2 .. Len(starts) : \E p \in {proposals[e][i] : i \in DOMAIN proposals[e]} :
                               /\ p.state = "FINALIZED" /\ p.approved = Sides
                               /\ p.base = n - 1 /\ p.base_start = starts[n - 1] /\ p.start = starts[n]
    BY DEF JointlyReplaced
  <2>1. Chained(viewings[e], history[e], proposals[e]) BY OfEpisode
  <2>2. Len(Append(history[e], viewings[e].scheduled)) = Len(history[e]) + 1 BY OfEpisode, AppendAt
  <2> QED BY <2>1, <2>2 DEF Chained
<1> QED BY <1>1, AppointmentAlways, PTL

\* Reminders are for the schedule in force, and reach the sides at most once,
\* in their window, exactly when their action says so.
THEOREM RemindersCorrect == AppointmentSafety => []RemindersOfTheSchedule
<1>1. AppointmentInv => RemindersOfTheSchedule
  <2> SUFFICES ASSUME AppointmentInv PROVE RemindersOfTheSchedule OBVIOUS
  <2>1. ASSUME NEW j \in Jobs, j[2] \in Reminders, Open(work[j])
        PROVE  /\ viewings[j[1]].state = "SCHEDULED" /\ viewings[j[1]].schedule_version = j[3]
               /\ work[j].due = Opens(j[2], viewings[j[1]].scheduled)
    <3>1. j[1] \in Episodes /\ j[3] \in Numbers /\ j = Job(j[1], j[2], j[3]) BY JobNamed
    <3>2. Reminding(j[1], viewings[j[1]], work) BY <3>1, OfEpisode
    <3> QED BY <2>1, <3>1, <3>2 DEF Reminding
  <2>2. ASSUME NEW e \in Episodes
        PROVE  Reminded(e, viewings[e], history[e], plans[e], notices[e], work)
    BY OfEpisode DEF Appointed
  <2> QED BY <2>1, <2>2 DEF RemindersOfTheSchedule, Reminded
<1> QED BY <1>1, AppointmentAlways, PTL
=============================================================================
