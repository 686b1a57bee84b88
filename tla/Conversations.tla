---------------------------- MODULE Conversations ----------------------------
(***************************************************************************)
(* The server of a conversation between a seeker and a provider: the       *)
(* inquiry that opens their Interaction, the messages, and the blocks that *)
(* end contact (interaction.ts, conversation.ts, conversation-access.ts,   *)
(* contact-safety.ts, block.ts).                                           *)
(*                                                                         *)
(* A send is a transaction of two steps, its checks and its commit.  Until *)
(* it ends it holds SHARE on block_relationships, which a block or unblock *)
(* takes in SHARE ROW EXCLUSIVE mode, and the row of the Interaction.      *)
(* Everything else takes effect in one step.                               *)
(*                                                                         *)
(* Abstractions.  A side whose account, phone or verification does not     *)
(* hold is refused as a blocked one is, and the rate limits fail a send as *)
(* any other error does, so neither has state of its own.  Nothing closes  *)
(* or restricts an Interaction: it is open once it exists.  Commands of    *)
(* blocks under an old version or a used key write nothing and are left    *)
(* out.  Receipts are in MessageReceipts.                                  *)
(***************************************************************************)
EXTENDS Naturals, Sequences, FiniteSets

CONSTANT MaxMessages  \* bound: messages of the conversation

ASSUME ConversationAssumption == MaxMessages \in Nat

VARIABLES blocks,    \* block_relationships not revoked, by the side of the blocker
          opened,    \* the Interaction and its conversation exist
          messages,  \* messages in the order of their sequence
          sending    \* the send that holds the Interaction, or Idle

server == <<blocks, opened, messages, sending>>

Sides == {"SEEKER", "PROVIDER"}
Idle == [side |-> "NONE", id |-> 0, text |-> 0, live |-> FALSE]

ServerInit ==
  /\ blocks = {} /\ opened = FALSE
  /\ messages = << >>
  /\ sending = Idle

Prohibited == blocks # {}

(* A second inquiry finds the Interaction of the first.                    *)
Inquire ==
  /\ ~opened /\ ~Prohibited
  /\ opened' = TRUE
  /\ UNCHANGED <<blocks, messages, sending>>

\* Mutant of StoredAs: no attempt is ever found stored.
StoredNever(side, id) == {}

(* Sending.  A side uses an id, its client_message_id, with one text.      *)
StoredAs(side, id) == {i \in DOMAIN messages : messages[i].side = side /\ messages[i].id = id}

Eligible == opened /\ ~Prohibited

(* live: the client that asked still waits for the answer.                 *)
BeginSend(side, id, text, live) ==
  /\ sending = Idle /\ Eligible /\ StoredAs(side, id) = {} /\ Len(messages) < MaxMessages
  /\ sending' = [side |-> side, id |-> id, text |-> text, live |-> live]
  /\ UNCHANGED <<blocks, opened, messages>>

CommitSend ==
  /\ sending # Idle
  /\ messages' = Append(messages, [side |-> sending.side, id |-> sending.id, text |-> sending.text])
  /\ sending' = Idle
  /\ UNCHANGED <<blocks, opened>>

(* The transaction fails, the rate limits included.                        *)
AbortSend ==
  /\ sending # Idle /\ sending' = Idle
  /\ UNCHANGED <<blocks, opened, messages>>

\* Mutant of GateFree: a block does not wait for the sends under way.
GateIgnored == TRUE

(* A block and an unblock wait for the sends that hold SHARE on the table. *)
GateFree == sending = Idle

Block(side) ==
  /\ opened /\ GateFree
  /\ blocks' = blocks \cup {side}
  /\ UNCHANGED <<opened, messages, sending>>

Unblock(side) ==
  /\ GateFree
  /\ blocks' = blocks \ {side}
  /\ UNCHANGED <<opened, messages, sending>>

(* A page of history: the last size messages before a cursor, 0 for none,  *)
(* and the cursor of the page that follows.                                *)
Before(cursor) == {i \in DOMAIN messages : cursor = 0 \/ i < cursor}
PageBefore(cursor, size) ==
  {i \in Before(cursor) : Cardinality({j \in Before(cursor) : j > i}) < size}
CursorAfter(cursor, size) ==
  LET page == PageBefore(cursor, size)
  IN  IF Cardinality(Before(cursor)) > size
        THEN CHOOSE i \in page : \A j \in page : i <= j ELSE 0

(***************************************************************************)
(* Properties.                                                             *)
(***************************************************************************)

(* No message is stored while either side blocks the other: a block that   *)
(* lands while a send is being checked waits for it, and no send, retry or *)
(* late delivery gets past a block that has landed (conversation.ts 170-   *)
(* 210, block.ts 137-147).                                                 *)
NoContactAfterBlock == [][Len(messages') > Len(messages) => ~Prohibited]_server
=============================================================================
