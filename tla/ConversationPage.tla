-------------------------- MODULE ConversationPage --------------------------
(***************************************************************************)
(* The seeker's page of a conversation in the browser, over the server of  *)
(* Conversations (conversations/[interactionId]/page.tsx and               *)
(* block-controls.tsx).                                                    *)
(*                                                                         *)
(* Requests are lost, answered late, or executed although the page stopped *)
(* waiting after its ten seconds.  A load of history reads the messages in *)
(* the step that asks for them and its answer arrives later, when it may   *)
(* no longer be of the current generation.  The provider uses the server   *)
(* directly.  A text is the number of its composition; a text typed again  *)
(* is a new one, except the pending one.                                   *)
(***************************************************************************)
EXTENDS Conversations

CONSTANTS PageSize,  \* messages in a page of history
          MaxTexts,  \* bound: texts the seeker composes
          MaxLoads,  \* bound: loads of history in flight
          MaxTurns   \* bound: blocks and reopenings

ASSUME PageAssumption == {PageSize, MaxTexts, MaxLoads, MaxTurns} \subseteq Nat \ {0}

VARIABLES draft,    \* body: the text in the form, 0 for none
          written,  \* texts composed so far
          keys,     \* client_message_ids drawn so far
          pending,  \* the attempt not confirmed, or None
          posts,    \* the sends under way to the server
          waiting,  \* sending: the page waits for the answer to a send
          shown,    \* the messages displayed
          cursor,   \* where older messages begin, 0 for nowhere
          reached,  \* the newest message there was at a load of the newest
          loads,    \* answers to loads of history under way
          loading, canSend, ownBlocked,
          asked,    \* the block or unblock the page waits for, or "NONE"
          turns     \* bound: how many of the turns of MaxTurns have come

form == <<draft, written, keys, pending>>
history == <<shown, cursor, reached, loads>>
page == <<form, posts, waiting, history, loading, canSend, ownBlocked, asked>>
vars == <<server, page, turns>>

Turn == turns < MaxTurns /\ turns' = turns + 1
NoTurn == UNCHANGED turns

None == [id |-> 0, text |-> 0]

Init ==
  /\ ServerInit
  /\ draft = 0 /\ written = 0 /\ keys = 0 /\ pending = None /\ posts = {} /\ waiting = FALSE
  /\ shown = {} /\ cursor = 0 /\ reached = 0 /\ loads = {}
  /\ loading = FALSE /\ canSend = FALSE /\ ownBlocked = FALSE /\ asked = "NONE" /\ turns = 0

(* Loading history.  Only the answer of the current generation counts.     *)
Load(from) == [before |-> from, items |-> PageBefore(from, PageSize), next |-> CursorAfter(from, PageSize),
               can |-> Eligible, total |-> Len(messages), current |-> TRUE]
Superseded(pool) == {[l EXCEPT !.current = FALSE] : l \in pool}

Ask(from) ==
  /\ loads' = Superseded(loads) \cup {Load(from)} /\ loading' = TRUE

Refresh ==
  /\ opened /\ ~loading /\ ~waiting /\ Cardinality(loads) < MaxLoads
  /\ Ask(0)
  /\ UNCHANGED <<server, form, posts, waiting, shown, cursor, reached, canSend, ownBlocked, asked>>

LoadOlder ==
  /\ opened /\ cursor # 0 /\ ~loading /\ ~waiting /\ Cardinality(loads) < MaxLoads
  /\ Ask(cursor)
  /\ UNCHANGED <<server, form, posts, waiting, shown, cursor, reached, canSend, ownBlocked, asked>>

\* Mutant of Counts: a response a newer load has superseded is shown as well.
CountsAlways(load) == TRUE
Counts(load) == load.current

Loaded(load) ==
  /\ load \in loads /\ loads' = loads \ {load}
  /\ IF Counts(load)
       THEN /\ shown' = shown \cup load.items /\ cursor' = load.next /\ canSend' = load.can
            /\ reached' = IF load.before = 0 /\ load.total > reached THEN load.total ELSE reached
            /\ loading' = FALSE
       ELSE UNCHANGED <<shown, cursor, canSend, reached, loading>>
  /\ UNCHANGED <<server, form, posts, waiting, ownBlocked, asked>>

LoadFails(load) ==
  /\ load \in loads /\ loads' = loads \ {load}
  /\ loading' = (loading /\ ~load.current)
  /\ UNCHANGED <<server, form, posts, waiting, shown, cursor, reached, canSend, ownBlocked, asked>>

(* Writing and sending.                                                    *)
FormShown == ~ownBlocked /\ canSend

Compose ==
  /\ FormShown /\ ~waiting /\ written < MaxTexts
  /\ draft' = written + 1 /\ written' = written + 1
  /\ UNCHANGED <<server, keys, pending, posts, waiting, history, loading, canSend, ownBlocked, asked>>

Retype ==
  /\ FormShown /\ ~waiting /\ pending # None /\ draft # pending.text
  /\ draft' = pending.text
  /\ UNCHANGED <<server, written, keys, pending, posts, waiting, history, loading, canSend, ownBlocked, asked>>

Attempt == IF pending.text = draft THEN pending ELSE [id |-> keys + 1, text |-> draft]

Submit ==
  /\ ~waiting /\ draft # 0
  /\ \/ FormShown /\ ~loading
     \/ ~canSend /\ pending # None
  /\ pending' = Attempt /\ keys' = IF Attempt.id > keys THEN keys + 1 ELSE keys
  /\ posts' = posts \cup {[id |-> Attempt.id, text |-> draft, live |-> TRUE]}
  /\ waiting' = TRUE
  /\ UNCHANGED <<server, draft, written, history, loading, canSend, ownBlocked, asked>>

(* The answers to a send: the message, a refusal, or anything else.        *)
Confirmed(i) ==
  /\ shown' = shown \cup {i} /\ draft' = 0 /\ pending' = None /\ waiting' = FALSE
  /\ UNCHANGED <<written, keys, cursor, reached, loads, loading, canSend>>
Refused ==
  /\ loads' = Superseded(loads) /\ loading' = FALSE /\ canSend' = FALSE /\ waiting' = FALSE
  /\ UNCHANGED <<form, shown, cursor, reached>>
NotConfirmed ==
  /\ waiting' = FALSE /\ UNCHANGED <<form, history, loading, canSend>>
Unheard == UNCHANGED <<form, waiting, history, loading, canSend>>

(* The server takes a post up: it is known, refused, or begins.            *)
Known(p) == opened /\ StoredAs("SEEKER", p.id) # {}
Executed(p) ==
  /\ p \in posts /\ sending = Idle /\ posts' = posts \ {p}
  /\ \/ /\ Known(p) /\ UNCHANGED server
        /\ \/ p.live /\ \E i \in StoredAs("SEEKER", p.id) : Confirmed(i)
           \/ Unheard
     \/ /\ ~Known(p) /\ ~Eligible /\ UNCHANGED server
        /\ IF p.live THEN Refused ELSE Unheard
     \/ BeginSend("SEEKER", p.id, p.text, p.live) /\ Unheard
  /\ UNCHANGED <<ownBlocked, asked>>

Committed ==
  /\ CommitSend
  /\ \/ sending.live /\ Confirmed(Len(messages'))
     \/ Unheard
  /\ UNCHANGED <<posts, ownBlocked, asked>>

SendFails ==
  /\ AbortSend
  /\ IF sending.live THEN NotConfirmed ELSE Unheard
  /\ UNCHANGED <<posts, ownBlocked, asked>>

(* The page stops waiting; its post is lost, still under way, or executed. *)
Forgotten(pool) == {[p EXCEPT !.live = FALSE] : p \in pool}
Unawaited ==
  /\ posts' \in {Forgotten(posts), {p \in posts : ~p.live}}
  /\ sending' = IF sending = Idle THEN Idle ELSE [sending EXCEPT !.live = FALSE]
  /\ UNCHANGED <<blocks, opened, messages>>

TimedOut ==
  /\ waiting /\ Unawaited /\ NotConfirmed
  /\ UNCHANGED <<ownBlocked, asked>>

Reopen ==
  /\ opened /\ Unawaited
  /\ draft' = 0 /\ pending' = None /\ waiting' = FALSE
  /\ shown' = {} /\ cursor' = 0 /\ reached' = 0 /\ loads' = {}
  /\ loading' = FALSE /\ canSend' = FALSE /\ ownBlocked' = FALSE /\ asked' = "NONE"
  /\ UNCHANGED <<written, keys>>

(* Blocking.  The request fails, or is executed and answered or not.  The  *)
(* control knows an own block that its read of contact-safety found.       *)
StartBlock ==
  /\ opened /\ asked = "NONE"
  /\ \/ ~ownBlocked /\ asked' = "BLOCK"
     \/ "SEEKER" \in blocks /\ asked' = "UNBLOCK"
  /\ loads' = Superseded(loads) /\ loading' = FALSE /\ canSend' = FALSE
  /\ UNCHANGED <<server, form, posts, waiting, shown, cursor, reached, ownBlocked>>

BlockExecuted ==
  /\ \/ asked = "BLOCK" /\ Block("SEEKER")
     \/ asked = "UNBLOCK" /\ Unblock("SEEKER")
  /\ asked' = "NONE"
  /\ \/ UNCHANGED <<ownBlocked, loads, loading>>
     \/ ownBlocked' = (asked = "BLOCK") /\ asked = "BLOCK" /\ UNCHANGED <<loads, loading>>
     \/ /\ asked = "UNBLOCK" /\ ownBlocked' = FALSE
        /\ loads' = Superseded(loads) \cup {[Load(0) EXCEPT !.can = (blocks' = {})]}
        /\ loading' = TRUE
  /\ UNCHANGED <<form, posts, waiting, shown, cursor, reached, canSend>>

BlockFails ==
  /\ asked # "NONE" /\ asked' = "NONE"
  /\ UNCHANGED <<server, form, posts, waiting, history, loading, canSend, ownBlocked>>

(* The inquiry, and the provider.                                          *)
ProviderSends ==
  /\ BeginSend("PROVIDER", Len(messages) + 1, 0, FALSE) /\ UNCHANGED page

Opening == Inquire /\ UNCHANGED page

ProviderBlocks == Block("PROVIDER") /\ UNCHANGED page
ProviderUnblocks == "PROVIDER" \in blocks /\ Unblock("PROVIDER") /\ UNCHANGED page

Next ==
  \/ /\ NoTurn
     /\ \/ Refresh \/ LoadOlder
        \/ \E l \in loads : Loaded(l) \/ LoadFails(l)
        \/ Compose \/ Retype \/ Submit
        \/ \E p \in posts : Executed(p)
        \/ Committed \/ SendFails \/ TimedOut
        \/ BlockExecuted \/ BlockFails
        \/ (ownBlocked /\ StartBlock) \/ Opening \/ ProviderSends \/ ProviderUnblocks
  \/ /\ Turn
     /\ (~ownBlocked /\ StartBlock) \/ Reopen \/ ProviderBlocks

Spec == Init /\ [][Next]_vars

(***************************************************************************)
(* Properties.                                                             *)
(***************************************************************************)

(* A text the seeker writes is stored once, however often its send is      *)
(* retried after a time-out and however late the first one lands: the page *)
(* repeats the attempt it has not confirmed, and the server knows it (page *)
(* 230-235, conversation.ts 184-200).                                      *)
MessagesOnce ==
  \A i, j \in DOMAIN messages :
    messages[i].side = "SEEKER" /\ messages[j].side = "SEEKER" /\ messages[i].text = messages[j].text => i = j

(* Down to the cursor of "Load older messages", the page shows every       *)
(* message there was when it last loaded the newest: no answer that comes  *)
(* after a block or a refusal moves the cursor past messages that were     *)
(* never shown (page 62-99, 298).                                          *)
HistoryComplete == \A i \in 1..reached : i >= cursor => i \in shown
=============================================================================
