--------------------------- MODULE MessageReceipts ---------------------------
(***************************************************************************)
(* The receipts of the messages one user gets in a conversation: rows of   *)
(* message_receipts, which acknowledge() raises (conversation.ts), and the *)
(* page that acknowledges what it displays (conversations/[interactionId]/ *)
(* page.tsx 149-222).                                                      *)
(*                                                                         *)
(* A receipt is 0 when the message is sent, 1 delivered, 2 read; its times *)
(* are left out.  An effect of the page runs whenever its messages change, *)
(* acknowledges some, and again when the page becomes visible; the answers *)
(* of an effect that is over do not count.  Acknowledgements are executed  *)
(* late, in any order, or not at all; the same one sent twice is one here. *)
(* The user may read on another device.                                    *)
(***************************************************************************)
EXTENDS Naturals, FiniteSets

CONSTANTS AckBatch,    \* messages acknowledged at once (50)
          MaxArrived,  \* bound: messages
          MaxAcks,     \* bound: acknowledgements under way when another is caused
          MaxReadings  \* bound: loads of history under way

ASSUME ReceiptsAssumption == {AckBatch, MaxArrived, MaxAcks, MaxReadings} \subseteq Nat \ {0}

VARIABLES receipt,   \* per message of the server, its receipt
          displayed, \* messages the page displays
          known,     \* their receipts as the page has them
          visible,   \* document.visibilityState
          acks,      \* acknowledgements under way
          readings,  \* answers to loads of history under way
          trouble,   \* receiptFeedback is set
          sighted    \* messages displayed by a visible page of the user

receiptVars == <<receipt, displayed, known, visible, acks, readings, trouble, sighted>>

Arrived == DOMAIN receipt

ReceiptsInit ==
  /\ receipt = [i \in {} |-> 0] /\ known = receipt /\ displayed = {} /\ sighted = {}
  /\ visible = TRUE /\ acks = {} /\ readings = {} /\ trouble = FALSE

Arrive ==
  LET n == Cardinality(Arrived) + 1 IN
  /\ n <= MaxArrived
  /\ receipt' = [i \in 1..n |-> IF i = n THEN 0 ELSE receipt[i]]
  /\ UNCHANGED <<displayed, known, visible, acks, readings, trouble, sighted>>

(* The effect, for what is displayed: the first of those that are not yet  *)
(* read, or delivered when the page is hidden.                             *)
StateOf(sees) == IF sees THEN 2 ELSE 1
Incoming(shows, knows, state) == {i \in shows : knows[i] < state}
FirstOf(n, ids) == {i \in ids : Cardinality({j \in ids : j < i}) < n}
Acknowledge(shows, knows, state) ==
  {[ids |-> ids, state |-> state, live |-> TRUE, rows |-> [i \in {} |-> 0]] :
     ids \in {FirstOf(AckBatch, Incoming(shows, knows, state))} \ {{}}}
Retired(pool) == {[a EXCEPT !.live = FALSE] : a \in pool}

Display(shows, knows, pool) ==
  /\ displayed' = shows /\ known' = knows
  /\ acks' = Retired(pool) \cup Acknowledge(shows, knows, StateOf(visible))
  /\ sighted' = IF visible THEN sighted \cup shows ELSE sighted

Appear ==
  /\ ~visible /\ visible' = TRUE /\ Cardinality(acks) < MaxAcks
  /\ acks' = acks \cup Acknowledge(displayed, known, StateOf(TRUE))
  /\ sighted' = sighted \cup displayed
  /\ UNCHANGED <<receipt, displayed, known, readings, trouble>>

Hide ==
  /\ visible /\ visible' = FALSE
  /\ UNCHANGED <<receipt, displayed, known, acks, readings, trouble, sighted>>

(* A load of history takes the receipts of its moment, and its answer puts *)
(* them in place of those the page had.                                    *)
LoadReceipts ==
  /\ Cardinality(readings) < MaxReadings
  /\ readings' = {[r EXCEPT !.current = FALSE] : r \in readings} \cup {[rows |-> receipt, current |-> TRUE]}
  /\ UNCHANGED <<receipt, displayed, known, visible, acks, trouble, sighted>>

Over(knows, rows) == [i \in DOMAIN knows \cup DOMAIN rows |-> IF i \in DOMAIN rows THEN rows[i] ELSE knows[i]]

ReceiptsLoaded(r) ==
  /\ r.current => Cardinality(acks) < MaxAcks
  /\ readings' = readings \ {r}
  /\ IF r.current THEN Display(displayed \cup DOMAIN r.rows, Over(known, r.rows), acks)
                  ELSE UNCHANGED <<displayed, known, acks, sighted>>
  /\ UNCHANGED <<receipt, visible, trouble>>

(* Refused for good, the page displays nothing more; else what it had.     *)
ReceiptsNotLoaded(r) ==
  /\ readings' = readings \ {r}
  /\ \/ r.current /\ Display({}, [i \in {} |-> 0], acks)
     \/ UNCHANGED <<displayed, known, acks, sighted>>
  /\ UNCHANGED <<receipt, visible, trouble>>

\* Mutant of Raised: a late "delivered" takes "read" back.
RaisedTo(old, state) == state
Raised(old, state) == IF old < state THEN state ELSE old

(* acknowledge(): all the rows it names, each raised and never lowered.    *)
Acknowledged(a) ==
  /\ DOMAIN a.rows = {}
  /\ receipt' = [i \in Arrived |-> IF i \in a.ids THEN Raised(receipt[i], a.state) ELSE receipt[i]]
  /\ acks' = (acks \ {a}) \cup {[a EXCEPT !.rows = [i \in a.ids |-> Raised(receipt[i], a.state)]]}
  /\ UNCHANGED <<displayed, known, visible, readings, trouble, sighted>>

AckAnswered(a) ==
  /\ a.rows # [i \in {} |-> 0]
  /\ IF a.live THEN /\ trouble' = FALSE
                    /\ Display(displayed, Over(known, a.rows), acks \ {a})
               ELSE acks' = acks \ {a} /\ UNCHANGED <<displayed, known, trouble, sighted>>
  /\ UNCHANGED <<receipt, visible, readings>>

(* Refused, lost, or not answered within its ten seconds.                  *)
AckFails(a) ==
  /\ trouble' = (trouble \/ a.live)
  /\ acks' \in {acks \ {a}} \cup {(acks \ {a}) \cup {[a EXCEPT !.live = FALSE]}}
  /\ UNCHANGED <<receipt, displayed, known, visible, readings, sighted>>

ReadElsewhere(i) ==
  /\ receipt' = [receipt EXCEPT ![i] = 2] /\ sighted' = sighted \cup {i}
  /\ UNCHANGED <<displayed, known, visible, acks, readings, trouble>>

ReceiptsNext ==
  \/ Arrive \/ Appear \/ Hide \/ LoadReceipts
  \/ \E r \in readings : ReceiptsLoaded(r) \/ ReceiptsNotLoaded(r)
  \/ \E a \in acks : Acknowledged(a) \/ AckAnswered(a) \/ AckFails(a)
  \/ \E i \in Arrived : ReadElsewhere(i)

ReceiptsSpec == ReceiptsInit /\ [][ReceiptsNext]_receiptVars

(***************************************************************************)
(* Properties.                                                             *)
(***************************************************************************)

(* Receipts follow what the user sees, in whatever order acknowledgements  *)
(* and loads are executed and answered: a message is read only after a     *)
(* visible page displayed it, the page shows no more than the server has,  *)
(* and a visible page with nothing under way and no failure reported has   *)
(* all it displays read (page.tsx 149-222, conversation.ts 307).           *)
ReceiptsFollowSight ==
  /\ \A i \in Arrived : receipt[i] = 2 => i \in sighted
  /\ \A i \in displayed : known[i] <= receipt[i]
  /\ visible /\ ~trouble /\ (\A a \in acks : ~a.live) => \A i \in displayed : known[i] = 2
=============================================================================
