----------------------------- MODULE Pages_proofs -----------------------------
(***************************************************************************)
(* Proofs about the pages of the browser and the servers they talk to, one *)
(* section per page, for any number of messages, versions, requests and    *)
(* retries.                                                                *)
(***************************************************************************)
EXTENDS ConversationPage, MessageReceipts, ViewingPage, ListingSearch,
        FiniteSetTheorems, WellFoundedInduction, TLAPS
-----------------------------------------------------------------------------
(* ConversationPage.  What is sent is known by its key: a key stands for one *)
(* text and a text for one key, wherever the attempt has got to; and what a *)
(* load of history carries reaches from its cursor to the one before it.    *)

Stored == [side : Sides, id : Nat, text : Nat]
Sends == [side : Sides, id : Nat, text : Nat, live : BOOLEAN]
LoadRows == [before : Nat, items : SUBSET Nat, next : Nat, can : BOOLEAN, total : Nat, current : BOOLEAN]

PageTypes ==
  /\ opened \in BOOLEAN /\ messages \in Seq(Stored)
  /\ sending \in Sends \cup {Idle}
  /\ draft \in Nat /\ written \in Nat /\ keys \in Nat /\ cursor \in Nat /\ reached \in Nat
  /\ pending \in [id : Nat, text : Nat]
  /\ posts \subseteq [id : Nat, text : Nat, live : BOOLEAN]
  /\ loads \subseteq LoadRows

(* A text under a key, of which the page or the server still knows.          *)
AttemptedAs(id, text) ==
  \/ pending # None /\ pending.id = id /\ pending.text = text
  \/ \E p \in posts : p.id = id /\ p.text = text
  \/ sending.side = "SEEKER" /\ sending.id = id /\ sending.text = text
  \/ \E i \in DOMAIN messages : messages[i].side = "SEEKER" /\ messages[i].id = id /\ messages[i].text = text

Keyed ==
  /\ draft <= written
  /\ \A x, s \in Nat : AttemptedAs(x, s) => x \in 1..keys /\ s \in 1..written
  /\ \A x, y, s, t \in Nat : AttemptedAs(x, s) /\ AttemptedAs(y, t) => (x = y <=> s = t)
  /\ \A x, s \in Nat : AttemptedAs(x, s) /\ s = draft => pending = [id |-> x, text |-> s]

StoredOnce ==
  /\ \A i, j \in DOMAIN messages :
       messages[i].side = "SEEKER" /\ messages[j].side = "SEEKER" /\ messages[i].id = messages[j].id => i = j
  /\ sending.side = "SEEKER" => StoredAs("SEEKER", sending.id) = {}
  /\ sending # Idle => blocks = {}

Complete ==
  /\ HistoryComplete /\ reached <= Len(messages)
  /\ \A l, k \in loads : l.current /\ k.current => l = k
  /\ \A l \in loads : l.current =>
       /\ reached <= l.total /\ l.total <= Len(messages)
       /\ l.before = 0 \/ l.before = cursor
       /\ \A i \in 1..l.total : i >= l.next /\ (l.before = 0 \/ i < l.before) => i \in l.items

PageInv == PageTypes /\ Keyed /\ StoredOnce /\ Complete
(* A page of history is the last size messages before its cursor, and all   *)
(* from its own next cursor on.                                             *)
LEMMA PageOfHistory ==
  ASSUME messages \in Seq(Stored), NEW from \in Nat, NEW size \in Nat \ {0}
  PROVE  /\ PageBefore(from, size) \subseteq Nat /\ CursorAfter(from, size) \in Nat
         /\ \A i \in 1..Len(messages) :
              i >= CursorAfter(from, size) /\ (from = 0 \/ i < from) => i \in PageBefore(from, size)
  <1> DEFINE m == IF from = 0 \/ from > Len(messages) THEN Len(messages) ELSE from - 1
  <1>1. Len(messages) \in Nat /\ m \in Nat /\ DOMAIN messages = 1..Len(messages)
    OBVIOUS
  <1>2. Before(from) = 1..m
    BY <1>1 DEF Before
  <1> HIDE DEF m
  <1>3. Cardinality(Before(from)) = m
    BY <1>1, <1>2, FS_Interval
  <1>4. \A i \in 1..m : {j \in Before(from) : j > i} = (i + 1)..m
    BY <1>1, <1>2
  <1>5. \A i \in 1..m : Cardinality((i + 1)..m) = m - i
    BY <1>1, FS_Interval
  <1>6. PageBefore(from, size) = {i \in 1..m : m - i < size}
    BY <1>2, <1>4, <1>5 DEF PageBefore
  <1>7. CASE m <= size
    <2>1. CursorAfter(from, size) = 0
      BY <1>1, <1>3, <1>7 DEF CursorAfter
    <2>2. \A i \in 1..Len(messages) : from = 0 \/ i < from => i \in 1..m
      BY <1>1 DEF m
    <2>3. \A i \in 1..m : m - i < size
      BY <1>1, <1>7
    <2>4. QED
      BY <1>1, <1>6, <2>1, <2>2, <2>3
  <1>8. CASE m > size
    <2>1. m - size + 1 \in PageBefore(from, size) /\ \A j \in PageBefore(from, size) : m - size + 1 <= j
      BY <1>1, <1>6, <1>8
    <2>2. CursorAfter(from, size) = CHOOSE i \in PageBefore(from, size) : \A j \in PageBefore(from, size) : i <= j
      BY <1>1, <1>3, <1>8 DEF CursorAfter
    <2>3. /\ CursorAfter(from, size) \in PageBefore(from, size)
          /\ \A j \in PageBefore(from, size) : CursorAfter(from, size) <= j
      BY <2>1, <2>2
    <2>4. CursorAfter(from, size) = m - size + 1
      BY <1>1, <1>6, <2>1, <2>3
    <2>5. \A i \in 1..Len(messages) : from = 0 \/ i < from => i \in 1..m
      BY <1>1 DEF m
    <2>6. QED
      BY <1>1, <1>6, <1>8, <2>4, <2>5
  <1>9. QED
    BY <1>1, <1>7, <1>8

(* A message more.                                                          *)
LEMMA MessageMore ==
  ASSUME messages \in Seq(Stored), NEW m \in Stored, messages' = Append(messages, m)
  PROVE  /\ messages' \in Seq(Stored) /\ Len(messages') = Len(messages) + 1
         /\ DOMAIN messages' = DOMAIN messages \cup {Len(messages')} /\ Len(messages') \notin DOMAIN messages
         /\ messages'[Len(messages')] = m
         /\ \A i \in DOMAIN messages : messages'[i] = messages[i]
  OBVIOUS

(* A step that starts no attempt: what is still known was known before.      *)
LEMMA NothingNew ==
  ASSUME PageTypes, Keyed, keys' = keys, written' = written,
         \A x, s \in Nat : AttemptedAs(x, s)' => AttemptedAs(x, s),
         (draft' = draft /\ pending' = pending) \/ draft' = 0
  PROVE  Keyed'
  <1>1. \A x \in Nat : ~AttemptedAs(x, 0)
    BY DEF Keyed
  <1>2. draft' <= written'
    BY DEF Keyed, PageTypes
  <1>3. QED
    BY <1>1, <1>2 DEF Keyed

(* A step that neither asks for history nor shows what was asked for.        *)
LEMMA SameHistory ==
  ASSUME PageTypes, Complete, cursor' = cursor, reached' = reached, shown \subseteq shown',
         Len(messages') \in Nat, Len(messages) <= Len(messages'), \A l \in loads' : l.current => l \in loads
  PROVE  Complete'
  <1>1. HistoryComplete'
    BY DEF Complete, HistoryComplete, PageTypes
  <1>2. \A l \in loads : l.total \in Nat
    BY DEF PageTypes, LoadRows
  <1>3. reached \in Nat /\ Len(messages) \in Nat
    BY DEF PageTypes
  <1>4. QED
    BY <1>1, <1>2, <1>3 DEF Complete

LEMMA SupersededLoads ==
  ASSUME PageTypes PROVE Superseded(loads) \subseteq LoadRows /\ \A l \in Superseded(loads) : l.current = FALSE
  <1>1. \A l \in LoadRows : [l EXCEPT !.current = FALSE] \in LoadRows /\ [l EXCEPT !.current = FALSE].current = FALSE
    BY DEF LoadRows
  <1>2. loads \subseteq LoadRows
    BY DEF PageTypes
  <1>3. QED
    BY <1>1, <1>2 DEF Superseded

LEMMA LoadRow ==
  ASSUME PageTypes, NEW from \in Nat
  PROVE  /\ Load(from) \in LoadRows /\ Load(from).before = from /\ Load(from).total = Len(messages)
         /\ Load(from).items = PageBefore(from, PageSize) /\ Load(from).next = CursorAfter(from, PageSize)
  <1>1. PageSize \in Nat \ {0} /\ messages \in Seq(Stored) /\ Len(messages) \in Nat
    BY PageAssumption DEF PageTypes
  <1>2. PageBefore(from, PageSize) \subseteq Nat /\ CursorAfter(from, PageSize) \in Nat
    BY <1>1, PageOfHistory
  <1>3. Eligible \in BOOLEAN
    BY DEF Eligible
  <1> DEFINE can == Eligible
  <1>4. Load(from) = [before |-> from, items |-> PageBefore(from, PageSize), next |-> CursorAfter(from, PageSize),
                      can |-> can, total |-> Len(messages), current |-> TRUE]
    BY DEF Load
  <1>5. can \in BOOLEAN
    BY <1>3
  <1> HIDE DEF can
  <1>6. QED
    BY <1>1, <1>2, <1>4, <1>5 DEF LoadRows

(* Asking for the newest, or for what is older than the cursor: what is on   *)
(* its way has all there is down to its own cursor.                         *)
LEMMA Asked ==
  ASSUME PageTypes, Complete, NEW from \in {0, cursor}, NEW new \in LoadRows,
         new.before = from, new.total = Len(messages), new.items = PageBefore(from, PageSize),
         new.next = CursorAfter(from, PageSize),
         loads' = Superseded(loads) \cup {new}, messages' = messages,
         cursor' = cursor, reached' = reached, shown' = shown
  PROVE  loads' \subseteq LoadRows /\ Complete'
  <1>1. from \in Nat /\ PageSize \in Nat \ {0} /\ messages \in Seq(Stored)
    BY PageAssumption DEF PageTypes
  <1>2. Len(messages) \in Nat
    BY <1>1
  <1>3. \A i \in 1..new.total : i >= new.next /\ (new.before = 0 \/ i < new.before) => i \in new.items
    <2>1. \A i \in 1..Len(messages) :
            i >= CursorAfter(from, PageSize) /\ (from = 0 \/ i < from) => i \in PageBefore(from, PageSize)
      BY <1>1, PageOfHistory
    <2>2. QED
      BY <2>1
  <1>4. \A l \in loads' : l.current => l = new
    BY SupersededLoads
  <1>5. loads' \subseteq LoadRows
    BY SupersededLoads
  <1>6. Complete'
    BY <1>2, <1>3, <1>4 DEF Complete, HistoryComplete
  <1>7. QED
    BY <1>5, <1>6
(* The three parts of the invariant from the steps' parts: what is known of  *)
(* attempts, what is stored, and history.                                   *)
LEMMA PageInitInv == Init => PageInv
  <1> SUFFICES ASSUME Init PROVE PageInv
    OBVIOUS
  <1> USE DEF Init, ServerInit
  <1>1. PageTypes
    <2>1. messages \in Seq(Stored)
      <3>1. messages = << >>
        OBVIOUS
      <3>2. QED
        BY <3>1
    <2>4. opened \in BOOLEAN
      OBVIOUS
    <2>2. sending \in Sends \cup {Idle} /\ pending \in [id : Nat, text : Nat]
      BY DEF None
    <2>3. QED
      BY <2>1, <2>2, <2>4 DEF PageTypes
  <1>2. \A x, s \in Nat : ~AttemptedAs(x, s)
    BY DEF AttemptedAs, Idle
  <1>3. Keyed
    BY <1>2 DEF Keyed
  <1>4. StoredOnce
    BY DEF StoredOnce, Idle
  <1>5. Complete
    BY DEF Complete, HistoryComplete
  <1>6. QED
    BY <1>1, <1>3, <1>4, <1>5 DEF PageInv

(* Steps of the page that leave the server and the attempts alone.           *)
LEMMA FormAlone ==
  ASSUME PageInv, UNCHANGED <<server, form, posts>>
  PROVE  Keyed' /\ StoredOnce'
  <1>1. \A x, s \in Nat : AttemptedAs(x, s)' => AttemptedAs(x, s)
    BY DEF AttemptedAs, server, form
  <1>2. Keyed'
    BY <1>1, NothingNew DEF PageInv, form
  <1>3. StoredOnce'
    BY DEF PageInv, StoredOnce, StoredAs, server
  <1>4. QED
    BY <1>2, <1>3

LEMMA HistoryAlone ==
  ASSUME PageInv, UNCHANGED <<cursor, reached, messages>>, shown \subseteq shown', loads' \subseteq loads \cup Superseded(loads)
  PROVE  Complete' /\ loads' \subseteq LoadRows
  <1>1. Len(messages') \in Nat /\ Len(messages) <= Len(messages')
    BY DEF PageInv, PageTypes
  <1>2. \A l \in loads' : l.current => l \in loads
    BY SupersededLoads DEF PageInv
  <1>3. Complete'
    BY <1>1, <1>2, SameHistory DEF PageInv
  <1>4. QED
    BY <1>3, SupersededLoads DEF PageInv, PageTypes

LEMMA AskKeeps ==
  ASSUME PageInv, NEW from \in {0, cursor}, Ask(from), UNCHANGED <<server, form, posts, shown, cursor, reached>>
  PROVE  PageInv'
  <1>1. from \in Nat
    BY DEF PageInv, PageTypes
  <1>2. loads' \subseteq LoadRows /\ Complete'
    BY <1>1, LoadRow, Asked DEF PageInv, Ask, server
  <1>3. PageTypes'
    BY <1>2 DEF PageInv, PageTypes, server, form
  <1>4. QED
    BY <1>2, <1>3, FormAlone DEF PageInv

LEMMA RefreshKeeps == PageInv /\ (Refresh \/ LoadOlder) => PageInv'
  <1>1. ASSUME PageInv, Refresh PROVE PageInv'
    BY <1>1, AskKeeps DEF Refresh
  <1>2. ASSUME PageInv, LoadOlder PROVE PageInv'
    BY <1>2, AskKeeps DEF LoadOlder
  <1>3. QED
    BY <1>1, <1>2

(* An answer: if it counts, it is the only one on its way that does, and     *)
(* goes on from the cursor of the page.                                     *)
LEMMA LoadedKeeps == ASSUME NEW load \in loads PROVE PageInv /\ Loaded(load) => PageInv'
  <1> SUFFICES ASSUME PageInv, Loaded(load) PROVE PageInv'
    OBVIOUS
  <1>1. UNCHANGED <<server, form, posts>> /\ loads' = loads \ {load}
    BY DEF Loaded
  <1>2. Keyed' /\ StoredOnce'
    BY <1>1, FormAlone
  <1>3. load \in LoadRows /\ load.total \in Nat /\ load.next \in Nat
    BY DEF PageInv, PageTypes, LoadRows
  <1>4. CASE load.current
    <2>1. /\ shown' = shown \cup load.items /\ cursor' = load.next
          /\ reached' = IF load.before = 0 /\ load.total > reached THEN load.total ELSE reached
      BY <1>4 DEF Loaded, Counts
    <2>2. /\ reached <= load.total /\ load.total <= Len(messages)
          /\ load.before = 0 \/ load.before = cursor
          /\ \A i \in 1..load.total : i >= load.next /\ (load.before = 0 \/ i < load.before) => i \in load.items
      BY <1>4 DEF PageInv, Complete
    <2>3. reached \in Nat /\ cursor \in Nat /\ Len(messages) \in Nat
      BY DEF PageInv, PageTypes
    <2>4. reached' <= load.total /\ (load.before # 0 => reached' = reached) /\ reached' \in Nat
      BY <1>3, <2>1, <2>2, <2>3
    <2>5. HistoryComplete'
      BY <1>3, <2>1, <2>2, <2>3, <2>4 DEF HistoryComplete, PageInv, Complete
    <2>6. Complete'
      <3>1. \A l \in loads' : ~l.current
        BY <1>1, <1>4 DEF Complete, PageInv
      <3>2. reached' <= Len(messages')
        BY <1>1, <1>3, <2>2, <2>3, <2>4 DEF server
      <3>3. QED
        BY <2>5, <3>1, <3>2 DEF Complete
    <2>7. PageTypes'
      BY <1>1, <1>3, <2>1, <2>4 DEF PageTypes, PageInv, server, form
    <2>8. QED
      BY <1>2, <2>6, <2>7 DEF PageInv
  <1>5. CASE ~load.current
    <2>1. UNCHANGED <<shown, cursor, reached>>
      BY <1>5 DEF Loaded, Counts
    <2>2. Complete' /\ loads' \subseteq LoadRows
      BY <1>1, <2>1, HistoryAlone DEF server
    <2>3. PageTypes'
      BY <1>1, <2>1, <2>2 DEF PageTypes, PageInv, server, form
    <2>4. QED
      BY <1>2, <2>2, <2>3 DEF PageInv
  <1>6. QED
    BY <1>4, <1>5
(* What the page does with an answer, or with none.                          *)
AnswerTaken ==
  /\ keys' = keys /\ written' = written /\ UNCHANGED <<cursor, reached>>
  /\ shown \subseteq shown' /\ loads' \subseteq loads \cup Superseded(loads)
  /\ \/ draft' = draft /\ pending' = pending
     \/ draft' = 0 /\ pending' = None

LEMMA AnswerTakenKeeps ==
  ASSUME PageInv, AnswerTaken, opened' \in BOOLEAN, messages' \in Seq(Stored), Len(messages) <= Len(messages'),
         sending' \in Sends \cup {Idle}, posts' \subseteq [id : Nat, text : Nat, live : BOOLEAN],
         \A x, s \in Nat : AttemptedAs(x, s)' => AttemptedAs(x, s), StoredOnce'
  PROVE  PageInv'
  <1>1. Keyed'
    BY NothingNew DEF PageInv, AnswerTaken
  <1>2. Len(messages') \in Nat
    OBVIOUS
  <1>3. loads' \subseteq LoadRows /\ \A l \in loads' : l.current => l \in loads
    BY SupersededLoads DEF PageInv, PageTypes, AnswerTaken
  <1>4. Complete'
    BY <1>2, <1>3, SameHistory DEF PageInv, AnswerTaken
  <1>5. draft' \in Nat /\ pending' \in [id : Nat, text : Nat]
    BY DEF AnswerTaken, PageInv, PageTypes, None
  <1>6. PageTypes'
    BY <1>3, <1>5 DEF PageTypes, PageInv, AnswerTaken
  <1>7. QED
    BY <1>1, <1>4, <1>6 DEF PageInv

LEMMA Answers ==
  ASSUME Unheard \/ NotConfirmed \/ Refused \/ \E i : Confirmed(i) PROVE AnswerTaken
  BY DEF Unheard, NotConfirmed, Refused, Confirmed, AnswerTaken, form, history

(* Steps of the page, and failures, that leave the server as it is.          *)
LEMMA LeftAlone ==
  ASSUME PageInv, AnswerTaken, UNCHANGED <<opened, messages, sending>>, posts' \subseteq posts,
         blocks' = blocks \/ sending = Idle
  PROVE  PageInv'
  <1>1. \A x, s \in Nat : AttemptedAs(x, s)' => AttemptedAs(x, s)
    BY DEF AttemptedAs, AnswerTaken
  <1>2. StoredOnce'
    BY DEF PageInv, StoredOnce, StoredAs
  <1>3. /\ opened' \in BOOLEAN /\ messages' \in Seq(Stored) /\ Len(messages) <= Len(messages')
        /\ sending' \in Sends \cup {Idle} /\ posts' \subseteq [id : Nat, text : Nat, live : BOOLEAN]
    BY DEF PageInv, PageTypes
  <1>4. QED
    BY <1>1, <1>2, <1>3, AnswerTakenKeeps

LEMMA LoadFailsKeeps == ASSUME NEW load \in loads PROVE PageInv /\ LoadFails(load) => PageInv'
  BY LeftAlone DEF LoadFails, AnswerTaken, server, form

LEMMA BlockControlKeeps == PageInv /\ (StartBlock \/ BlockFails) => PageInv'
  BY LeftAlone DEF StartBlock, BlockFails, AnswerTaken, server, form, history

LEMMA ProviderBlocksKeeps == PageInv /\ (ProviderBlocks \/ ProviderUnblocks) => PageInv'
  BY LeftAlone DEF ProviderBlocks, ProviderUnblocks, Block, Unblock, GateFree, AnswerTaken, page, form, history

LEMMA OpeningKeeps == PageInv /\ Opening => PageInv'
  <1> SUFFICES ASSUME PageInv, Opening PROVE PageInv'
    OBVIOUS
  <1>1. AnswerTaken /\ posts' = posts /\ opened' = TRUE /\ UNCHANGED <<blocks, messages, sending>>
    BY DEF Opening, Inquire, AnswerTaken, page, form, history
  <1>2. \A x, s \in Nat : AttemptedAs(x, s)' => AttemptedAs(x, s)
    BY <1>1 DEF AttemptedAs, AnswerTaken
  <1>3. StoredOnce'
    BY <1>1 DEF PageInv, StoredOnce, StoredAs
  <1>4. /\ opened' \in BOOLEAN /\ messages' \in Seq(Stored) /\ Len(messages) <= Len(messages')
        /\ sending' \in Sends \cup {Idle} /\ posts' \subseteq [id : Nat, text : Nat, live : BOOLEAN]
    BY <1>1 DEF PageInv, PageTypes
  <1>5. QED
    BY <1>1, <1>2, <1>3, <1>4, AnswerTakenKeeps

(* A send begins: with contact permitted and no message stored under its     *)
(* key.                                                                     *)
LEMMA BeginSendKeeps ==
  ASSUME PageInv, AnswerTaken, posts' \subseteq posts, NEW side \in Sides, NEW id \in Nat, NEW text \in Nat,
         NEW live \in BOOLEAN, BeginSend(side, id, text, live),
         side = "SEEKER" => AttemptedAs(id, text)
  PROVE  PageInv'
  <1>1. /\ sending' = [side |-> side, id |-> id, text |-> text, live |-> live] /\ blocks = {}
        /\ StoredAs(side, id) = {} /\ UNCHANGED <<blocks, opened, messages>>
    BY DEF BeginSend, Eligible, Prohibited
  <1>2. sending' \in Sends /\ sending'.side = side /\ sending'.id = id /\ sending'.text = text
    BY <1>1 DEF Sends
  <1>3. \A x, s \in Nat : AttemptedAs(x, s)' => AttemptedAs(x, s)
    BY <1>1, <1>2 DEF AttemptedAs, AnswerTaken
  <1>4. StoredOnce'
    BY <1>1, <1>2 DEF PageInv, StoredOnce, StoredAs
  <1>5. /\ opened' \in BOOLEAN /\ messages' \in Seq(Stored) /\ Len(messages) <= Len(messages')
        /\ sending' \in Sends \cup {Idle} /\ posts' \subseteq [id : Nat, text : Nat, live : BOOLEAN]
    BY <1>1, <1>2 DEF PageInv, PageTypes
  <1>6. QED
    BY <1>3, <1>4, <1>5, AnswerTakenKeeps

LEMMA ProviderSendsKeeps == PageInv /\ ProviderSends => PageInv'
  <1> SUFFICES ASSUME PageInv, ProviderSends PROVE PageInv'
    OBVIOUS
  <1>1. AnswerTaken /\ posts' = posts
    BY DEF ProviderSends, AnswerTaken, page, form, history
  <1>2. Len(messages) + 1 \in Nat
    BY DEF PageInv, PageTypes
  <1>3. BeginSend("PROVIDER", Len(messages) + 1, 0, FALSE) /\ "PROVIDER" \in Sides
    BY DEF ProviderSends, Sides
  <1>4. QED
    BY <1>1, <1>2, <1>3, BeginSendKeeps

LEMMA ExecutedKeeps == ASSUME NEW p \in posts PROVE PageInv /\ Executed(p) => PageInv'
  <1> SUFFICES ASSUME PageInv, Executed(p) PROVE PageInv'
    OBVIOUS
  <1>1. posts' \subseteq posts
    BY DEF Executed
  <1>2. p.id \in Nat /\ p.text \in Nat /\ p.live \in BOOLEAN
    BY DEF PageInv, PageTypes
  <1>3. CASE UNCHANGED server /\ AnswerTaken
    BY <1>1, <1>3, LeftAlone DEF server
  <1>4. CASE BeginSend("SEEKER", p.id, p.text, p.live) /\ Unheard
    <2>1. AttemptedAs(p.id, p.text) /\ "SEEKER" \in Sides
      BY DEF AttemptedAs, Sides
    <2>2. QED
      BY <1>1, <1>2, <1>4, <2>1, Answers, BeginSendKeeps
  <1>5. QED
    BY <1>3, <1>4, Answers DEF Executed

(* A send stored: its key is of no message yet.                              *)
LEMMA CommittedKeeps == PageInv /\ Committed => PageInv'
  <1> SUFFICES ASSUME PageInv, Committed PROVE PageInv'
    OBVIOUS
  <1> DEFINE m == [side |-> sending.side, id |-> sending.id, text |-> sending.text]
  <1>1. AnswerTaken /\ posts' = posts
    BY Answers DEF Committed
  <1>2. /\ sending \in Sends /\ sending' = Idle /\ UNCHANGED <<blocks, opened>>
        /\ messages' = Append(messages, m)
    BY DEF Committed, CommitSend, PageInv, PageTypes
  <1>3. m \in Stored /\ m.side = sending.side /\ m.id = sending.id /\ m.text = sending.text
    BY <1>2 DEF Sends, Stored
  <1> HIDE DEF m
  <1>4. /\ messages' \in Seq(Stored) /\ Len(messages') = Len(messages) + 1
        /\ DOMAIN messages' = DOMAIN messages \cup {Len(messages')} /\ Len(messages') \notin DOMAIN messages
        /\ messages'[Len(messages')] = m
        /\ \A i \in DOMAIN messages : messages'[i] = messages[i]
    BY <1>2, <1>3, MessageMore DEF PageInv, PageTypes
  <1>5. \A x, s \in Nat : AttemptedAs(x, s)' => AttemptedAs(x, s)
    BY <1>1, <1>2, <1>3, <1>4 DEF AttemptedAs, AnswerTaken, Idle
  <1>6. StoredOnce'
    BY <1>2, <1>3, <1>4 DEF PageInv, StoredOnce, StoredAs, Idle
  <1>7. Len(messages) <= Len(messages') /\ opened' \in BOOLEAN /\ posts' \subseteq [id : Nat, text : Nat, live : BOOLEAN]
    BY <1>1, <1>2, <1>4 DEF PageInv, PageTypes
  <1>8. QED
    BY <1>1, <1>2, <1>4, <1>5, <1>6, <1>7, AnswerTakenKeeps

LEMMA SendFailsKeeps == PageInv /\ SendFails => PageInv'
  <1> SUFFICES ASSUME PageInv, SendFails PROVE PageInv'
    OBVIOUS
  <1>1. AnswerTaken /\ posts' = posts
    BY Answers DEF SendFails
  <1>2. sending' = Idle /\ UNCHANGED <<blocks, opened, messages>>
    BY DEF SendFails, AbortSend
  <1>3. \A x, s \in Nat : AttemptedAs(x, s)' => AttemptedAs(x, s)
    BY <1>1, <1>2 DEF AttemptedAs, AnswerTaken, Idle
  <1>4. StoredOnce'
    BY <1>2 DEF PageInv, StoredOnce, Idle
  <1>5. /\ opened' \in BOOLEAN /\ messages' \in Seq(Stored) /\ Len(messages) <= Len(messages')
        /\ sending' \in Sends \cup {Idle} /\ posts' \subseteq [id : Nat, text : Nat, live : BOOLEAN]
    BY <1>1, <1>2 DEF PageInv, PageTypes
  <1>6. QED
    BY <1>1, <1>3, <1>4, <1>5, AnswerTakenKeeps
(* What the page no longer waits for keeps its key and its text.             *)
LEMMA UnawaitedKeeps ==
  ASSUME PageInv, Unawaited
  PROVE  /\ opened' \in BOOLEAN /\ messages' = messages /\ sending' \in Sends \cup {Idle}
         /\ posts' \subseteq [id : Nat, text : Nat, live : BOOLEAN]
         /\ \A q \in posts' : \E p \in posts : p.id = q.id /\ p.text = q.text
         /\ sending'.side = sending.side /\ sending'.id = sending.id /\ sending'.text = sending.text
         /\ StoredOnce'
  <1>1. opened' = opened /\ messages' = messages /\ blocks' = blocks
    BY DEF Unawaited
  <1>2. /\ sending' \in Sends \cup {Idle} /\ (sending' # Idle => sending # Idle)
        /\ sending'.side = sending.side /\ sending'.id = sending.id /\ sending'.text = sending.text
    <2>1. CASE sending = Idle
      BY <2>1 DEF Unawaited
    <2>2. CASE sending # Idle
      <3>1. sending \in Sends /\ sending' = [sending EXCEPT !.live = FALSE]
        BY <2>2 DEF Unawaited, PageInv, PageTypes
      <3>2. QED
        BY <2>2, <3>1 DEF Sends
    <2>3. QED
      BY <2>1, <2>2
  <1>3. /\ posts' \subseteq [id : Nat, text : Nat, live : BOOLEAN]
        /\ \A q \in posts' : \E p \in posts : p.id = q.id /\ p.text = q.text
    <2>1. posts \subseteq [id : Nat, text : Nat, live : BOOLEAN]
      BY DEF PageInv, PageTypes
    <2>2. \A p \in posts : LET q == [p EXCEPT !.live = FALSE]
                           IN  q \in [id : Nat, text : Nat, live : BOOLEAN] /\ q.id = p.id /\ q.text = p.text
      BY <2>1
    <2>3. CASE posts' = Forgotten(posts)
      BY <2>2, <2>3 DEF Forgotten
    <2>4. CASE posts' = {p \in posts : ~p.live}
      BY <2>1, <2>4
    <2>5. QED
      BY <2>3, <2>4 DEF Unawaited
  <1>4. StoredOnce'
    BY <1>1, <1>2 DEF PageInv, StoredOnce, StoredAs
  <1>5. opened' \in BOOLEAN
    BY <1>1 DEF PageInv, PageTypes
  <1>6. QED
    BY <1>1, <1>2, <1>3, <1>4, <1>5

LEMMA TimedOutKeeps == PageInv /\ TimedOut => PageInv'
  <1> SUFFICES ASSUME PageInv, TimedOut PROVE PageInv'
    OBVIOUS
  <1>1. AnswerTaken /\ pending' = pending /\ Unawaited
    BY Answers DEF TimedOut, NotConfirmed, form
  <1>2. \A x, s \in Nat : AttemptedAs(x, s)' => AttemptedAs(x, s)
    BY <1>1, UnawaitedKeeps DEF AttemptedAs
  <1>3. Len(messages') = Len(messages) /\ Len(messages) \in Nat /\ messages' \in Seq(Stored)
    BY <1>1, UnawaitedKeeps DEF PageInv, PageTypes
  <1>4. QED
    BY <1>1, <1>2, <1>3, UnawaitedKeeps, AnswerTakenKeeps

(* The page opened again has forgotten its attempt; its texts are new.       *)
LEMMA ReopenKeeps == PageInv /\ Reopen => PageInv'
  <1> SUFFICES ASSUME PageInv, Reopen PROVE PageInv'
    OBVIOUS
  <1>1. /\ Unawaited /\ draft' = 0 /\ pending' = None /\ keys' = keys /\ written' = written
        /\ shown' = {} /\ cursor' = 0 /\ reached' = 0 /\ loads' = {}
    BY DEF Reopen
  <1>2. \A x, s \in Nat : AttemptedAs(x, s)' => AttemptedAs(x, s)
    BY <1>1, UnawaitedKeeps DEF AttemptedAs
  <1>3. Keyed'
    BY <1>1, <1>2, NothingNew DEF PageInv
  <1>4. messages' = messages /\ Len(messages) \in Nat
    BY <1>1, UnawaitedKeeps DEF PageInv, PageTypes
  <1>5. Complete'
    BY <1>1, <1>4 DEF Complete, HistoryComplete
  <1>6. PageTypes'
    BY <1>1, <1>4, UnawaitedKeeps DEF PageInv, PageTypes, None
  <1>7. QED
    BY <1>1, <1>3, <1>5, <1>6, UnawaitedKeeps DEF PageInv

(* A text composed is of no attempt.                                        *)
LEMMA ComposeKeeps == PageInv /\ Compose => PageInv'
  <1> SUFFICES ASSUME PageInv, Compose PROVE PageInv'
    OBVIOUS
  <1>1. /\ draft' = written + 1 /\ written' = written + 1 /\ keys' = keys /\ pending' = pending
        /\ UNCHANGED <<server, posts, shown, cursor, reached, loads>>
    BY DEF Compose, history
  <1>2. \A x, s \in Nat : AttemptedAs(x, s)' <=> AttemptedAs(x, s)
    BY <1>1 DEF AttemptedAs, server
  <1>3. written \in Nat
    BY DEF PageInv, PageTypes
  <1>4. Keyed'
    BY <1>1, <1>2, <1>3 DEF PageInv, Keyed
  <1>5. StoredOnce' /\ Complete'
    BY <1>1 DEF PageInv, StoredOnce, StoredAs, Complete, HistoryComplete, server
  <1>6. PageTypes'
    BY <1>1, <1>3 DEF PageInv, PageTypes, server
  <1>7. QED
    BY <1>4, <1>5, <1>6 DEF PageInv

LEMMA RetypeKeeps == PageInv /\ Retype => PageInv'
  <1> SUFFICES ASSUME PageInv, Retype PROVE PageInv'
    OBVIOUS
  <1>1. /\ draft' = pending.text /\ written' = written /\ keys' = keys /\ pending' = pending
        /\ UNCHANGED <<server, posts, shown, cursor, reached, loads>> /\ pending # None
    BY DEF Retype, history
  <1>2. \A x, s \in Nat : AttemptedAs(x, s)' <=> AttemptedAs(x, s)
    BY <1>1 DEF AttemptedAs, server
  <1>3. /\ pending.id \in Nat /\ pending.text \in Nat /\ pending = [id |-> pending.id, text |-> pending.text]
        /\ AttemptedAs(pending.id, pending.text)
    BY <1>1 DEF PageInv, PageTypes, AttemptedAs
  <1>4. Keyed'
    BY <1>1, <1>2, <1>3 DEF PageInv, Keyed
  <1>5. StoredOnce' /\ Complete'
    BY <1>1 DEF PageInv, StoredOnce, StoredAs, Complete, HistoryComplete, server
  <1>6. PageTypes'
    BY <1>1, <1>3 DEF PageInv, PageTypes, server
  <1>7. QED
    BY <1>4, <1>5, <1>6 DEF PageInv

(* What is sent is the attempt not confirmed, under its key, or a text of no *)
(* attempt under a key of none.                                             *)
LEMMA SubmitKeeps == PageInv /\ Submit => PageInv'
  <1> SUFFICES ASSUME PageInv, Submit PROVE PageInv'
    OBVIOUS
  <1> DEFINE post == [id |-> Attempt.id, text |-> draft, live |-> TRUE]
  <1>1. /\ draft # 0 /\ draft' = draft /\ written' = written /\ pending' = Attempt
        /\ keys' = (IF Attempt.id > keys THEN keys + 1 ELSE keys) /\ posts' = posts \cup {post}
        /\ UNCHANGED <<server, shown, cursor, reached, loads>>
    BY DEF Submit, history
  <1>2. draft \in Nat /\ keys \in Nat /\ pending \in [id : Nat, text : Nat] /\ written \in Nat
    BY DEF PageInv, PageTypes
  <1>3. Attempt.text = draft /\ Attempt \in [id : Nat, text : Nat] /\ Attempt # None
    BY <1>1, <1>2 DEF Attempt, None
  <1>4. post \in [id : Nat, text : Nat, live : BOOLEAN] /\ post.id = Attempt.id /\ post.text = draft
    BY <1>2, <1>3
  <1> HIDE DEF post
  <1>5. \A x, s \in Nat : AttemptedAs(x, s)' => AttemptedAs(x, s) \/ (x = Attempt.id /\ s = draft)
    BY <1>1, <1>3, <1>4 DEF AttemptedAs, server
  <1>6. Attempt = [id |-> Attempt.id, text |-> draft]
    BY <1>3
  <1>7. Keyed'
    <2>1. CASE pending.text = draft
      <3>1. Attempt = pending /\ AttemptedAs(Attempt.id, draft)
        BY <1>1, <2>1 DEF Attempt, AttemptedAs, None
      <3>2. Attempt.id <= keys
        BY <1>2, <1>3, <3>1 DEF PageInv, Keyed
      <3>3. keys' = keys /\ pending' = pending
        BY <1>1, <1>2, <1>3, <3>1, <3>2
      <3>4. \A x, s \in Nat : AttemptedAs(x, s)' => AttemptedAs(x, s)
        BY <1>5, <3>1
      <3>5. QED
        BY <1>1, <3>3, <3>4, NothingNew DEF PageInv
    <2>2. CASE pending.text # draft
      <3>1. Attempt.id = keys + 1 /\ keys' = keys + 1
        BY <1>1, <1>2, <2>2 DEF Attempt
      <3>2. \A x, s \in Nat : AttemptedAs(x, s) => x # keys + 1 /\ s # draft
        BY <1>2, <2>2 DEF PageInv, Keyed
      <3>3. \A x, s \in Nat : AttemptedAs(x, s)' => x \in 1..(keys + 1) /\ s \in 1..written
        BY <1>1, <1>2, <1>5, <3>1 DEF PageInv, Keyed
      <3>4. \A x, y, s, t \in Nat : AttemptedAs(x, s)' /\ AttemptedAs(y, t)' => (x = y <=> s = t)
        BY <1>5, <3>1, <3>2 DEF PageInv, Keyed
      <3>5. \A x, s \in Nat : AttemptedAs(x, s)' /\ s = draft => pending' = [id |-> x, text |-> s]
        BY <1>1, <1>5, <1>6, <3>2
      <3>6. draft' <= written'
        BY <1>1 DEF PageInv, Keyed
      <3>7. QED
        BY <1>1, <3>1, <3>3, <3>4, <3>5, <3>6 DEF Keyed
    <2>3. QED
      BY <2>1, <2>2
  <1>8. StoredOnce' /\ Complete'
    BY <1>1 DEF PageInv, StoredOnce, StoredAs, Complete, HistoryComplete, server
  <1>9. keys' \in Nat /\ posts' \subseteq [id : Nat, text : Nat, live : BOOLEAN]
    BY <1>1, <1>2, <1>4 DEF PageInv, PageTypes
  <1>10. PageTypes'
    BY <1>1, <1>2, <1>3, <1>9 DEF PageInv, PageTypes, server
  <1>11. QED
    BY <1>7, <1>8, <1>10 DEF PageInv

LEMMA BlockExecutedKeeps == PageInv /\ BlockExecuted => PageInv'
  <1> SUFFICES ASSUME PageInv, BlockExecuted PROVE PageInv'
    OBVIOUS
  <1>1. /\ UNCHANGED <<opened, messages, sending, form, posts, shown, cursor, reached>> /\ sending = Idle
    BY DEF BlockExecuted, Block, Unblock, GateFree
  <1>2. CASE UNCHANGED loads
    BY <1>1, <1>2, LeftAlone DEF AnswerTaken, form
  <1>3. CASE loads' = Superseded(loads) \cup {[Load(0) EXCEPT !.can = (blocks' = {})]}
    <2> DEFINE can == (blocks' = {})
    <2> DEFINE new == [Load(0) EXCEPT !.can = can]
    <2>1. can \in BOOLEAN /\ loads' = Superseded(loads) \cup {new}
      BY <1>3
    <2> HIDE DEF can
    <2>2. /\ Load(0) \in LoadRows /\ Load(0).before = 0 /\ Load(0).total = Len(messages)
          /\ Load(0).items = PageBefore(0, PageSize) /\ Load(0).next = CursorAfter(0, PageSize)
      BY LoadRow DEF PageInv
    <2>3. /\ new \in LoadRows /\ new.before = 0 /\ new.total = Len(messages)
          /\ new.items = PageBefore(0, PageSize) /\ new.next = CursorAfter(0, PageSize)
      BY <2>1, <2>2 DEF LoadRows
    <2> HIDE DEF new
    <2>4. loads' \subseteq LoadRows /\ Complete'
      BY <1>1, <2>1, <2>3, Asked DEF PageInv
    <2>5. \A x, s \in Nat : AttemptedAs(x, s)' => AttemptedAs(x, s)
      BY <1>1 DEF AttemptedAs, form
    <2>6. Keyed'
      BY <1>1, <2>5, NothingNew DEF PageInv, form
    <2>7. StoredOnce'
      BY <1>1 DEF PageInv, StoredOnce, StoredAs
    <2>8. PageTypes'
      BY <1>1, <2>4 DEF PageInv, PageTypes, form
    <2>9. QED
      BY <2>4, <2>6, <2>7, <2>8 DEF PageInv
  <1>4. QED
    BY <1>2, <1>3 DEF BlockExecuted

LEMMA PageStep == PageInv /\ [Next]_vars => PageInv'
  <1> SUFFICES ASSUME PageInv, [Next]_vars PROVE PageInv'
    OBVIOUS
  <1>1. CASE UNCHANGED vars
    <2>1. AnswerTaken /\ UNCHANGED <<server, posts>>
      BY <1>1 DEF vars, page, form, history, AnswerTaken
    <2>2. QED
      BY <2>1, LeftAlone DEF server
  <1>2. CASE Next
    BY <1>2, RefreshKeeps, LoadedKeeps, LoadFailsKeeps, ComposeKeeps, RetypeKeeps, SubmitKeeps, ExecutedKeeps,
       CommittedKeeps, SendFailsKeeps, TimedOutKeeps, BlockExecutedKeeps, BlockControlKeeps, OpeningKeeps,
       ProviderSendsKeeps, ProviderBlocksKeeps, ReopenKeeps
    DEF Next
  <1>3. QED
    BY <1>1, <1>2
(* Only the commit of a send adds to the messages.                           *)
LEMMA MessagesByCommit == Next /\ messages' # messages => CommitSend
  BY DEF Next, Refresh, LoadOlder, Loaded, LoadFails, Compose, Retype, Submit, Executed, BeginSend, Committed,
         SendFails, AbortSend, TimedOut, Unawaited, Reopen, StartBlock, BlockExecuted, Block, Unblock, BlockFails,
         Opening, Inquire, ProviderSends, ProviderBlocks, ProviderUnblocks, server

(* A text the seeker writes is stored once, however often and however late   *)
(* its send arrives (page 230-235, conversation.ts 184-200).                *)
THEOREM MessagesOnceCorrect == Spec => []MessagesOnce
  <1>1. PageInv => MessagesOnce
    <2> SUFFICES ASSUME PageInv, NEW i \in DOMAIN messages, NEW j \in DOMAIN messages,
                        messages[i].side = "SEEKER", messages[j].side = "SEEKER", messages[i].text = messages[j].text
                 PROVE  i = j
      BY DEF MessagesOnce
    <2>1. messages[i] \in Stored /\ messages[j] \in Stored
      BY DEF PageInv, PageTypes
    <2>2. AttemptedAs(messages[i].id, messages[i].text) /\ AttemptedAs(messages[j].id, messages[j].text)
      BY DEF AttemptedAs
    <2>3. messages[i].id = messages[j].id
      BY <2>1, <2>2 DEF Stored, PageInv, Keyed
    <2>4. QED
      BY <2>3 DEF PageInv, StoredOnce
  <1>2. QED
    BY PageInitInv, PageStep, <1>1, PTL DEF Spec

(* Down to the cursor, the page shows all there was when it last loaded the  *)
(* newest, whichever answers came late (page 62-99, 298).                   *)
THEOREM HistoryCompleteCorrect == Spec => []HistoryComplete
  <1>1. PageInv => HistoryComplete
    BY DEF PageInv, Complete
  <1>2. QED
    BY PageInitInv, PageStep, <1>1, PTL DEF Spec

(* No message is stored while either side blocks the other: a send that      *)
(* began keeps a block waiting (conversation.ts 170-210, block.ts 137-147). *)
THEOREM NoContactAfterBlockCorrect == Spec => NoContactAfterBlock
  <1>1. ASSUME PageInv, [Next]_vars PROVE [Len(messages') > Len(messages) => ~Prohibited]_server
    <2> SUFFICES ASSUME Len(messages') > Len(messages) PROVE ~Prohibited
      OBVIOUS
    <2>1. Len(messages) \in Nat
      BY <1>1 DEF PageInv, PageTypes
    <2>2. messages' # messages
      BY <2>1
    <2>3. CommitSend
      <3>1. CASE UNCHANGED vars
        BY <3>1, <2>2 DEF vars, server
      <3>2. CASE Next
        BY <3>2, <2>2, MessagesByCommit
      <3>3. QED
        BY <1>1, <3>1, <3>2
    <2>4. QED
      BY <1>1, <2>3 DEF CommitSend, PageInv, StoredOnce, Prohibited
  <1>2. QED
    BY PageInitInv, PageStep, <1>1, PTL DEF Spec, NoContactAfterBlock
-----------------------------------------------------------------------------
(* MessageReceipts.  Receipts only rise, what travels is no more than the    *)
(* server has, and what is acknowledged as read was seen.                   *)

LEMMA SmallestOf == ASSUME NEW S \in SUBSET Nat, S # {} PROVE \E x \in S : \A y \in S : x <= y
  <1> DEFINE Less == {p \in Nat \X Nat : p[1] < p[2]}
  <1>1. IsWellFoundedOn(OpToRel(<, Nat), Nat)
    BY NatLessThanWellFounded
  <1>2. OpToRel(<, Nat) = Less
    BY DEF OpToRel
  <1>3. \E x \in S : \A y \in S : ~(<<y, x>> \in Less)
    BY <1>1, <1>2, WFMin
  <1>4. PICK x \in S : \A y \in S : ~(<<y, x>> \in Less)
    BY <1>3
  <1>5. \A y \in S : <<y, x>> \in Nat \X Nat /\ (<<y, x>> \in Less <=> y < x)
    OBVIOUS
  <1>6. \A y \in S : x \in Nat /\ y \in Nat /\ ~(y < x)
    BY <1>4, <1>5
  <1>7. QED
    BY <1>6
ReceiptRows == UNION {[ids -> 0..2] : ids \in SUBSET Nat}
Acks == [ids : SUBSET Nat, state : {1, 2}, live : BOOLEAN, rows : ReceiptRows]
Readings == [rows : ReceiptRows, current : BOOLEAN]

ReceiptTypes ==
  /\ \E n \in Nat : receipt \in [1..n -> 0..2]
  /\ displayed \subseteq Arrived /\ known \in [displayed -> 0..2]
  /\ visible \in BOOLEAN /\ trouble \in BOOLEAN
  /\ acks \subseteq Acks /\ readings \subseteq Readings

Below(some) == \A i \in DOMAIN some : i \in Arrived /\ some[i] <= receipt[i]

Backed(a) ==
  /\ Below(a.rows) /\ a.ids \subseteq Arrived /\ DOMAIN a.rows \subseteq a.ids
  /\ a.live => a.ids \subseteq displayed
  /\ a.state = 2 => a.ids \subseteq sighted

ReceiptInv ==
  /\ ReceiptTypes
  /\ \A a \in acks : Backed(a)
  /\ \A r \in readings : Below(r.rows)
  /\ visible => displayed \subseteq sighted
  /\ ReceiptsFollowSight

LEMMA ReceiptRow ==
  /\ \A some \in ReceiptRows : DOMAIN some \subseteq Nat /\ \A i \in DOMAIN some : some[i] \in 0..2
  /\ \A ids \in SUBSET Nat : \A some \in [ids -> 0..2] : some \in ReceiptRows
  BY DEF ReceiptRows

LEMMA ArrivedNumbers == ReceiptTypes => Arrived \subseteq Nat /\ \A i \in Arrived : receipt[i] \in 0..2
  BY DEF ReceiptTypes, Arrived

LEMMA ReceiptsInitInv == ReceiptsInit => ReceiptInv
  <1> SUFFICES ASSUME ReceiptsInit PROVE ReceiptInv
    OBVIOUS
  <1>1. receipt \in [1..0 -> 0..2] /\ Arrived = {}
    BY DEF ReceiptsInit, Arrived
  <1>2. known \in [displayed -> 0..2]
    BY DEF ReceiptsInit
  <1>3. visible \in BOOLEAN /\ trouble \in BOOLEAN
    BY DEF ReceiptsInit
  <1>4. ReceiptTypes
    BY <1>1, <1>2, <1>3 DEF ReceiptsInit, ReceiptTypes
  <1>5. QED
    BY <1>1, <1>4 DEF ReceiptsInit, ReceiptInv, ReceiptsFollowSight

(* An effect acknowledges something unless there is nothing left.            *)
LEMMA AcknowledgeRow ==
  ASSUME NEW shows \in SUBSET Nat, NEW knows, NEW state, NEW a \in Acknowledge(shows, knows, state)
  PROVE  /\ a.ids \subseteq shows /\ a.state = state /\ a.live = TRUE /\ DOMAIN a.rows = {}
         /\ state \in {1, 2} => a \in Acks
  <1>1. PICK ids \in {FirstOf(AckBatch, Incoming(shows, knows, state))} :
          a = [ids |-> ids, state |-> state, live |-> TRUE, rows |-> [i \in {} |-> 0]]
    BY DEF Acknowledge
  <1>2. ids \subseteq shows
    BY <1>1 DEF FirstOf, Incoming
  <1>3. [i \in {} |-> 0] \in ReceiptRows /\ DOMAIN [i \in {} |-> 0] = {}
    <2>1. [i \in {} |-> 0] \in [{} -> 0..2]
      OBVIOUS
    <2>2. QED
      BY <2>1 DEF ReceiptRows
  <1>4. QED
    BY <1>1, <1>2, <1>3 DEF Acks

LEMMA AcknowledgeSome ==
  ASSUME NEW shows \in SUBSET Nat, NEW knows, NEW state, Incoming(shows, knows, state) # {}
  PROVE  Acknowledge(shows, knows, state) # {}
  <1> DEFINE todo == Incoming(shows, knows, state)
  <1>1. todo \in SUBSET Nat /\ todo # {}
    BY DEF Incoming
  <1> HIDE DEF todo
  <1>2. PICK x \in todo : \A y \in todo : x <= y
    BY <1>1, SmallestOf
  <1>3. {j \in todo : j < x} = {}
    <2>1. \A j \in todo : j \in Nat /\ x \in Nat /\ x <= j
      BY <1>1, <1>2
    <2>2. QED
      BY <2>1
  <1>4. Cardinality({j \in todo : j < x}) < AckBatch
    BY <1>3, FS_EmptySet, ReceiptsAssumption
  <1>5. FirstOf(AckBatch, todo) # {}
    BY <1>4 DEF FirstOf
  <1>6. QED
    BY <1>5 DEF Acknowledge, todo

LEMMA RetiredAcks ==
  ASSUME NEW pool \in SUBSET Acks
  PROVE  \A b \in Retired(pool) :
           b \in Acks /\ b.live = FALSE /\ \E a \in pool : b.ids = a.ids /\ b.state = a.state /\ b.rows = a.rows
  BY DEF Retired, Acks

(* What a change of the messages displayed does: the acknowledgements of the *)
(* effect before are over, and a visible page has one under way, or has all *)
(* it displays read.                                                        *)
LEMMA DisplayKeeps ==
  ASSUME ReceiptInv, NEW shows \in SUBSET Arrived, NEW knows \in [shows -> 0..2], Below(knows),
         NEW pool \in SUBSET acks, Display(shows, knows, pool), receipt' = receipt, visible' = visible,
         trouble' \in BOOLEAN, readings' \subseteq readings
  PROVE  ReceiptInv'
  <1>1. /\ displayed' = shows /\ known' = knows /\ sighted \subseteq sighted' /\ (visible => shows \subseteq sighted')
        /\ acks' = Retired(pool) \cup Acknowledge(shows, knows, StateOf(visible))
    BY DEF Display
  <1>2. pool \subseteq Acks /\ Arrived' = Arrived /\ shows \subseteq Nat /\ StateOf(visible) \in {1, 2}
    BY ArrivedNumbers DEF ReceiptInv, ReceiptTypes, Arrived, StateOf
  <1>3. StateOf(visible) = 2 => visible
    BY DEF StateOf
  <1>4. \A b \in Retired(pool) :
          b \in Acks /\ b.live = FALSE /\ \E a \in acks : b.ids = a.ids /\ b.state = a.state /\ b.rows = a.rows
    BY <1>2, RetiredAcks
  <1>5. \A b \in Acknowledge(shows, knows, StateOf(visible)) :
          b \in Acks /\ b.ids \subseteq shows /\ b.state = StateOf(visible) /\ b.live = TRUE /\ DOMAIN b.rows = {}
    <2> DEFINE state == StateOf(visible)
    <2>1. shows \in SUBSET Nat
      BY <1>2
    <2>2. state \in {1, 2}
      BY <1>2
    <2> HIDE DEF state
    <2>3. ASSUME NEW b \in Acknowledge(shows, knows, state)
          PROVE  /\ b.ids \subseteq shows /\ b.state = state /\ b.live = TRUE /\ DOMAIN b.rows = {}
                 /\ state \in {1, 2} => b \in Acks
      BY <2>1, <2>3, AcknowledgeRow
    <2>4. QED
      BY <2>2, <2>3 DEF state
  <1>6. \A b \in acks' : b \in Acks /\ Backed(b)'
    <2>1. ASSUME NEW b \in Retired(pool) PROVE b \in Acks /\ Backed(b)'
      <3>1. b \in Acks /\ b.live = FALSE
        BY <1>4
      <3>2. PICK a \in acks : b.ids = a.ids /\ b.state = a.state /\ b.rows = a.rows
        BY <1>4
      <3>3. Backed(a)
        BY DEF ReceiptInv
      <3>4. QED
        BY <1>1, <1>2, <3>1, <3>2, <3>3 DEF Backed, Below
    <2>2. ASSUME NEW b \in Acknowledge(shows, knows, StateOf(visible)) PROVE b \in Acks /\ Backed(b)'
      BY <1>1, <1>2, <1>3, <1>5 DEF Backed, Below
    <2>3. QED
      BY <1>1, <2>1, <2>2
  <1>7. ReceiptTypes'
    BY <1>1, <1>2, <1>6 DEF ReceiptInv, ReceiptTypes
  <1>8. \A r \in readings' : Below(r.rows)'
    BY <1>2 DEF ReceiptInv, Below
  <1>9. ReceiptsFollowSight'
    <2>1. \A i \in Arrived' : receipt'[i] = 2 => i \in sighted'
      BY <1>1, <1>2 DEF ReceiptInv, ReceiptsFollowSight
    <2>2. \A i \in displayed' : known'[i] <= receipt'[i]
      BY <1>1, <1>2 DEF Below
    <2>3. ASSUME visible', \A a \in acks' : ~a.live PROVE \A i \in displayed' : known'[i] = 2
      <3>1. Acknowledge(shows, knows, StateOf(visible)) = {}
        BY <1>1, <1>5, <2>3
      <3>2. Incoming(shows, knows, StateOf(visible)) = {}
        BY <1>2, <3>1, AcknowledgeSome
      <3>3. StateOf(visible) = 2
        BY <2>3 DEF StateOf
      <3>4. QED
        BY <1>1, <3>2, <3>3 DEF Incoming
    <2>4. QED
      BY <2>1, <2>2, <2>3 DEF ReceiptsFollowSight
  <1>10. QED
    BY <1>1, <1>6, <1>7, <1>8, <1>9 DEF ReceiptInv
(* What comes from the server, put in place of what the page had.            *)
LEMMA OverKnown ==
  ASSUME ReceiptTypes, Below(known), NEW some \in ReceiptRows, Below(some), NEW shows,
         shows = displayed \cup DOMAIN some
  PROVE  shows \in SUBSET Arrived /\ Over(known, some) \in [shows -> 0..2] /\ Below(Over(known, some))
  <1>1. DOMAIN some \subseteq Arrived /\ displayed \subseteq Arrived /\ DOMAIN known = displayed
    BY DEF ReceiptTypes, Below
  <1>2. \A i \in DOMAIN some : some[i] \in 0..2
    BY ReceiptRow
  <1>3. \A i \in displayed : known[i] \in 0..2
    BY DEF ReceiptTypes
  <1>4. DOMAIN Over(known, some) = shows
    BY <1>1 DEF Over
  <1>5. \A i \in shows : Over(known, some)[i] = IF i \in DOMAIN some THEN some[i] ELSE known[i]
    BY <1>1 DEF Over
  <1>6. Over(known, some) = [i \in shows |-> Over(known, some)[i]]
    BY <1>1 DEF Over
  <1>7. \A i \in shows : Over(known, some)[i] \in 0..2
    BY <1>1, <1>2, <1>3, <1>5
  <1>8. Below(Over(known, some))
    BY <1>1, <1>4, <1>5 DEF Below
  <1>9. QED
    BY <1>1, <1>6, <1>7, <1>8

LEMMA KnownBelow == ReceiptInv => Below(known)
  BY DEF ReceiptInv, ReceiptTypes, ReceiptsFollowSight, Below

(* Steps that leave what is displayed and what is under way.                 *)
LEMMA AsDisplayed ==
  ASSUME ReceiptInv, UNCHANGED <<displayed, known, sighted>>, receipt' = receipt, visible' \in BOOLEAN,
         trouble' \in BOOLEAN, acks' \subseteq Acks, readings' \subseteq Readings,
         \A a \in acks' : Backed(a), \A r \in readings' : Below(r.rows), visible' => visible,
         visible' /\ ~trouble' => ~trouble /\ \A a \in acks : a.live => \E b \in acks' : b.live
  PROVE  ReceiptInv'
  <1>1. Arrived' = Arrived
    BY DEF Arrived
  <1>2. ReceiptTypes'
    BY <1>1 DEF ReceiptInv, ReceiptTypes
  <1>3. \A a \in acks' : Backed(a)'
    BY <1>1 DEF Backed, Below
  <1>4. \A r \in readings' : Below(r.rows)'
    BY <1>1 DEF Below
  <1>5. ReceiptsFollowSight'
    BY <1>1 DEF ReceiptInv, ReceiptsFollowSight
  <1>6. QED
    BY <1>2, <1>3, <1>4, <1>5 DEF ReceiptInv

LEMMA ReceiptsLoadedKeeps == ASSUME NEW r \in readings PROVE ReceiptInv /\ ReceiptsLoaded(r) => ReceiptInv'
  <1> SUFFICES ASSUME ReceiptInv, ReceiptsLoaded(r) PROVE ReceiptInv'
    OBVIOUS
  <1>1. r \in Readings /\ r.rows \in ReceiptRows /\ Below(r.rows) /\ ReceiptTypes /\ Below(known)
    BY KnownBelow DEF ReceiptInv, ReceiptTypes, Readings
  <1>2. receipt' = receipt /\ visible' = visible /\ trouble' = trouble /\ readings' \subseteq readings
    BY DEF ReceiptsLoaded
  <1>3. trouble' \in BOOLEAN /\ visible' \in BOOLEAN
    BY <1>2 DEF ReceiptInv, ReceiptTypes
  <1>4. CASE r.current
    <2> DEFINE shows == displayed \cup DOMAIN r.rows
    <2>1. Display(shows, Over(known, r.rows), acks)
      BY <1>4 DEF ReceiptsLoaded
    <2>2. shows \in SUBSET Arrived /\ Over(known, r.rows) \in [shows -> 0..2] /\ Below(Over(known, r.rows))
      BY <1>1, OverKnown
    <2> HIDE DEF shows
    <2>3. QED
      BY <1>2, <1>3, <2>1, <2>2, DisplayKeeps
  <1>5. CASE ~r.current
    <2>1. UNCHANGED <<displayed, known, sighted, acks>>
      BY <1>5 DEF ReceiptsLoaded
    <2>2. QED
      BY <1>2, <1>3, <2>1, AsDisplayed DEF ReceiptInv, ReceiptTypes
  <1>6. QED
    BY <1>4, <1>5

LEMMA ReceiptsNotLoadedKeeps == ASSUME NEW r \in readings PROVE ReceiptInv /\ ReceiptsNotLoaded(r) => ReceiptInv'
  <1> SUFFICES ASSUME ReceiptInv, ReceiptsNotLoaded(r) PROVE ReceiptInv'
    OBVIOUS
  <1>1. receipt' = receipt /\ visible' = visible /\ trouble' = trouble /\ readings' \subseteq readings
    BY DEF ReceiptsNotLoaded
  <1>2. trouble' \in BOOLEAN /\ visible' \in BOOLEAN
    BY <1>1 DEF ReceiptInv, ReceiptTypes
  <1>3. CASE Display({}, [i \in {} |-> 0], acks)
    <2> DEFINE knows == [i \in {} |-> 0]
    <2>1. knows \in [{} -> 0..2] /\ Below(knows)
      BY DEF Below
    <2>2. Display({}, knows, acks)
      BY <1>3
    <2> HIDE DEF knows
    <2>3. QED
      BY <1>1, <1>2, <2>1, <2>2, DisplayKeeps
  <1>4. CASE UNCHANGED <<displayed, known, acks, sighted>>
    BY <1>1, <1>2, <1>4, AsDisplayed DEF ReceiptInv, ReceiptTypes
  <1>5. QED
    BY <1>3, <1>4 DEF ReceiptsNotLoaded

LEMMA AckAnsweredKeeps == ASSUME NEW a \in acks PROVE ReceiptInv /\ AckAnswered(a) => ReceiptInv'
  <1> SUFFICES ASSUME ReceiptInv, AckAnswered(a) PROVE ReceiptInv'
    OBVIOUS
  <1>1. a \in Acks /\ a.rows \in ReceiptRows /\ Backed(a) /\ ReceiptTypes /\ Below(known)
    BY KnownBelow DEF ReceiptInv, ReceiptTypes, Acks
  <1>2. receipt' = receipt /\ visible' = visible /\ readings' = readings
    BY DEF AckAnswered
  <1>3. CASE a.live
    <2>1. Display(displayed, Over(known, a.rows), acks \ {a}) /\ trouble' = FALSE
      BY <1>3 DEF AckAnswered
    <2>2. displayed = displayed \cup DOMAIN a.rows /\ Below(a.rows)
      BY <1>1, <1>3 DEF Backed
    <2>3. displayed \in SUBSET Arrived /\ Over(known, a.rows) \in [displayed -> 0..2] /\ Below(Over(known, a.rows))
      BY <1>1, <2>2, OverKnown
    <2>4. QED
      BY <1>2, <2>1, <2>3, DisplayKeeps
  <1>4. CASE ~a.live
    <2>1. acks' = acks \ {a} /\ UNCHANGED <<displayed, known, trouble, sighted>>
      BY <1>4 DEF AckAnswered
    <2>2. trouble' \in BOOLEAN /\ visible' \in BOOLEAN
      BY <1>2, <2>1 DEF ReceiptInv, ReceiptTypes
    <2>3. \A b \in acks : b.live => b \in acks'
      BY <1>4, <2>1
    <2>4. QED
      BY <1>2, <2>1, <2>2, <2>3, AsDisplayed DEF ReceiptInv, ReceiptTypes
  <1>5. QED
    BY <1>3, <1>4

LEMMA AckFailsKeeps == ASSUME NEW a \in acks PROVE ReceiptInv /\ AckFails(a) => ReceiptInv'
  <1> SUFFICES ASSUME ReceiptInv, AckFails(a) PROVE ReceiptInv'
    OBVIOUS
  <1> DEFINE b == [a EXCEPT !.live = FALSE]
  <1>1. a \in Acks /\ Backed(a)
    BY DEF ReceiptInv, ReceiptTypes
  <1>2. b \in Acks /\ b.ids = a.ids /\ b.state = a.state /\ b.rows = a.rows /\ b.live = FALSE
    BY <1>1 DEF Acks
  <1>3. acks' \subseteq (acks \ {a}) \cup {b} /\ acks \ {a} \subseteq acks'
    BY DEF AckFails
  <1>4. UNCHANGED <<receipt, displayed, known, visible, readings, sighted>> /\ (trouble' <=> trouble \/ a.live)
    BY DEF AckFails
  <1>5. trouble' \in BOOLEAN
    BY DEF AckFails, ReceiptInv, ReceiptTypes
  <1> HIDE DEF b
  <1>6. Backed(b)
    BY <1>1, <1>2 DEF Backed
  <1>7. \A c \in acks' : Backed(c)
    BY <1>3, <1>6 DEF ReceiptInv
  <1>8. acks' \subseteq Acks
    BY <1>2, <1>3 DEF ReceiptInv, ReceiptTypes
  <1>9. ~trouble' => \A c \in acks : c.live => c \in acks'
    BY <1>3, <1>4
  <1>10. visible' \in BOOLEAN
    BY <1>4 DEF ReceiptInv, ReceiptTypes
  <1>11. QED
    BY <1>4, <1>5, <1>7, <1>8, <1>9, <1>10, AsDisplayed DEF ReceiptInv, ReceiptTypes

LEMMA HideKeeps == ReceiptInv /\ (Hide \/ LoadReceipts \/ UNCHANGED receiptVars) => ReceiptInv'
  <1>1. ASSUME ReceiptInv, Hide PROVE ReceiptInv'
    <2>1. visible' = FALSE /\ UNCHANGED <<receipt, displayed, known, acks, readings, trouble, sighted>>
      BY <1>1 DEF Hide
    <2>2. trouble' \in BOOLEAN
      BY <1>1, <2>1 DEF ReceiptInv, ReceiptTypes
    <2>3. QED
      BY <1>1, <2>1, <2>2, AsDisplayed DEF ReceiptInv, ReceiptTypes
  <1>2. ASSUME ReceiptInv, LoadReceipts PROVE ReceiptInv'
    <2> DEFINE new == [rows |-> receipt, current |-> TRUE]
    <2>1. /\ UNCHANGED <<receipt, displayed, known, visible, acks, trouble, sighted>>
          /\ readings' = {[r EXCEPT !.current = FALSE] : r \in readings} \cup {new}
      BY <1>2 DEF LoadReceipts
    <2>2. receipt \in ReceiptRows /\ Below(receipt)
      BY <1>2, ReceiptRow DEF ReceiptInv, ReceiptTypes, Below, Arrived
    <2>3. new \in Readings /\ Below(new.rows)
      BY <2>2 DEF Readings
    <2> HIDE DEF new
    <2>4. \A r \in readings : LET q == [r EXCEPT !.current = FALSE] IN q \in Readings /\ q.rows = r.rows
      BY <1>2 DEF ReceiptInv, ReceiptTypes, Readings
    <2>5. readings' \subseteq Readings /\ \A r \in readings' : Below(r.rows)
      BY <1>2, <2>1, <2>3, <2>4 DEF ReceiptInv
    <2>6. trouble' \in BOOLEAN /\ visible' \in BOOLEAN
      BY <1>2, <2>1 DEF ReceiptInv, ReceiptTypes
    <2>7. QED
      BY <1>2, <2>1, <2>5, <2>6, AsDisplayed DEF ReceiptInv, ReceiptTypes
  <1>3. ASSUME ReceiptInv, UNCHANGED receiptVars PROVE ReceiptInv'
    <2>1. trouble' \in BOOLEAN /\ visible' \in BOOLEAN
      BY <1>3 DEF ReceiptInv, ReceiptTypes, receiptVars
    <2>2. QED
      BY <1>3, <2>1, AsDisplayed DEF ReceiptInv, ReceiptTypes, receiptVars
  <1>4. QED
    BY <1>1, <1>2, <1>3
(* Receipts that rise, or a message more, leave what is displayed below them. *)
LEMMA Risen ==
  ASSUME ReceiptInv, \E n \in Nat : receipt' \in [1..n -> 0..2], Arrived \subseteq Arrived',
         \A i \in Arrived : receipt[i] <= receipt'[i], sighted \subseteq sighted',
         \A i \in Arrived' : receipt'[i] = 2 => i \in sighted',
         UNCHANGED <<displayed, known, visible, readings, trouble>>,
         acks' \subseteq Acks, \A a \in acks' : Backed(a)', \A a \in acks : a.live => \E b \in acks' : b.live
  PROVE  ReceiptInv'
  <1>1. \A i \in Arrived' : receipt'[i] \in Nat
    BY DEF Arrived
  <1>2. \A i \in Arrived : receipt[i] \in Nat
    BY ArrivedNumbers DEF ReceiptInv
  <1>3. trouble' \in BOOLEAN /\ visible' \in BOOLEAN
    BY DEF ReceiptInv, ReceiptTypes
  <1>4. ReceiptTypes'
    BY <1>3 DEF ReceiptInv, ReceiptTypes
  <1>5. ASSUME NEW r \in readings PROVE Below(r.rows)'
    <2>1. r.rows \in ReceiptRows /\ Below(r.rows)
      BY DEF ReceiptInv, ReceiptTypes, Readings
    <2>2. \A i \in DOMAIN r.rows : r.rows[i] \in 0..2
      BY <2>1, ReceiptRow
    <2>3. QED
      BY <1>1, <1>2, <2>1, <2>2 DEF Below
  <1>6. ReceiptsFollowSight'
    <2>1. \A i \in displayed : known[i] \in Nat /\ i \in Arrived
      BY DEF ReceiptInv, ReceiptTypes
    <2>2. \A i \in displayed' : known'[i] <= receipt'[i]
      BY <1>1, <1>2, <2>1 DEF ReceiptInv, ReceiptsFollowSight
    <2>3. QED
      BY <2>2 DEF ReceiptInv, ReceiptsFollowSight
  <1>7. QED
    BY <1>4, <1>5, <1>6 DEF ReceiptInv

LEMMA BackedStill ==
  ASSUME ReceiptInv, NEW a \in acks, Arrived \subseteq Arrived', \A i \in Arrived : receipt[i] <= receipt'[i],
         \A i \in Arrived' : receipt'[i] \in 0..2, sighted \subseteq sighted', displayed' = displayed
  PROVE  Backed(a)'
  <1>1. a.rows \in ReceiptRows /\ Backed(a)
    BY DEF ReceiptInv, ReceiptTypes, Acks
  <1>2. \A i \in DOMAIN a.rows : a.rows[i] \in 0..2
    BY <1>1, ReceiptRow
  <1>3. \A i \in Arrived : receipt[i] \in 0..2
    BY ArrivedNumbers DEF ReceiptInv
  <1>4. Below(a.rows)'
    BY <1>1, <1>2, <1>3 DEF Backed, Below
  <1>5. QED
    BY <1>1, <1>4 DEF Backed

LEMMA ArriveKeeps == ReceiptInv /\ Arrive => ReceiptInv'
  <1> SUFFICES ASSUME ReceiptInv, Arrive PROVE ReceiptInv'
    OBVIOUS
  <1>1. PICK k \in Nat : receipt \in [1..k -> 0..2]
    BY DEF ReceiptInv, ReceiptTypes
  <1>2. Arrived = 1..k /\ Cardinality(Arrived) = k
    BY <1>1, FS_Interval DEF Arrived
  <1>3. /\ receipt' = [i \in 1..(k + 1) |-> IF i = k + 1 THEN 0 ELSE receipt[i]]
        /\ UNCHANGED <<displayed, known, visible, acks, readings, trouble, sighted>>
    BY <1>2 DEF Arrive
  <1>4. receipt' \in [1..(k + 1) -> 0..2]
    BY <1>1, <1>3
  <1>5. Arrived' = 1..(k + 1)
    BY <1>4 DEF Arrived
  <1>6. /\ Arrived \subseteq Arrived' /\ \A i \in Arrived : receipt[i] <= receipt'[i]
        /\ \A i \in Arrived' : receipt'[i] = 2 => i \in Arrived /\ receipt[i] = 2
    BY <1>1, <1>2, <1>3, <1>5
  <1>7. \A i \in Arrived' : receipt'[i] = 2 => i \in sighted'
    BY <1>3, <1>6 DEF ReceiptInv, ReceiptsFollowSight
  <1>8. \A i \in Arrived' : receipt'[i] \in 0..2
    BY <1>4, <1>5
  <1>9. \A a \in acks' : Backed(a)'
    BY <1>3, <1>6, <1>8, BackedStill
  <1>10. \E n \in Nat : receipt' \in [1..n -> 0..2]
    BY <1>4
  <1>11. acks' \subseteq Acks
    BY <1>3 DEF ReceiptInv, ReceiptTypes
  <1>12. QED
    BY <1>3, <1>6, <1>7, <1>9, <1>10, <1>11, Risen

LEMMA ReadElsewhereKeeps == ASSUME NEW i \in Arrived PROVE ReceiptInv /\ ReadElsewhere(i) => ReceiptInv'
  <1> SUFFICES ASSUME ReceiptInv, ReadElsewhere(i) PROVE ReceiptInv'
    OBVIOUS
  <1>1. PICK k \in Nat : receipt \in [1..k -> 0..2]
    BY DEF ReceiptInv, ReceiptTypes
  <1>2. /\ receipt' = [receipt EXCEPT ![i] = 2] /\ sighted' = sighted \cup {i}
        /\ UNCHANGED <<displayed, known, visible, acks, readings, trouble>>
    BY DEF ReadElsewhere
  <1>3. receipt' \in [1..k -> 0..2] /\ Arrived = 1..k /\ Arrived' = 1..k
    BY <1>1, <1>2 DEF Arrived
  <1>4. \A j \in Arrived : receipt[j] <= receipt'[j] /\ (receipt'[j] = 2 => j \in sighted')
    BY <1>1, <1>2, <1>3 DEF ReceiptInv, ReceiptsFollowSight
  <1>5. \A j \in Arrived' : receipt'[j] \in 0..2
    BY <1>3
  <1>6. \A a \in acks' : Backed(a)'
    BY <1>2, <1>3, <1>4, <1>5, BackedStill
  <1>7. acks' \subseteq Acks
    BY <1>2 DEF ReceiptInv, ReceiptTypes
  <1>8. \E n \in Nat : receipt' \in [1..n -> 0..2]
    BY <1>3
  <1>9. QED
    BY <1>2, <1>3, <1>4, <1>6, <1>7, <1>8, Risen

(* The rows an acknowledgement names are raised, and come back with it.      *)
LEMMA AcknowledgedKeeps == ASSUME NEW a \in acks PROVE ReceiptInv /\ Acknowledged(a) => ReceiptInv'
  <1> SUFFICES ASSUME ReceiptInv, Acknowledged(a) PROVE ReceiptInv'
    OBVIOUS
  <1> DEFINE new == [i \in a.ids |-> Raised(receipt[i], a.state)]
  <1> DEFINE b == [a EXCEPT !.rows = new]
  <1>1. PICK k \in Nat : receipt \in [1..k -> 0..2]
    BY DEF ReceiptInv, ReceiptTypes
  <1>2. a \in Acks /\ a.state \in {1, 2} /\ a.ids \subseteq Arrived /\ Backed(a) /\ Arrived = 1..k
    BY <1>1 DEF ReceiptInv, ReceiptTypes, Backed, Acks, Arrived
  <1>3. /\ receipt' = [i \in Arrived |-> IF i \in a.ids THEN Raised(receipt[i], a.state) ELSE receipt[i]]
        /\ acks' = (acks \ {a}) \cup {b}
        /\ UNCHANGED <<displayed, known, visible, readings, trouble, sighted>>
    BY DEF Acknowledged
  <1>4. \A i \in Arrived : /\ Raised(receipt[i], a.state) \in 0..2 /\ receipt[i] <= Raised(receipt[i], a.state)
                           /\ Raised(receipt[i], a.state) = 2 => receipt[i] = 2 \/ a.state = 2
    BY <1>1, <1>2 DEF Raised
  <1>5. receipt' \in [1..k -> 0..2] /\ Arrived' = 1..k
    BY <1>1, <1>2, <1>3, <1>4 DEF Arrived
  <1>6. \A i \in Arrived : receipt[i] <= receipt'[i] /\ (i \in a.ids => new[i] = receipt'[i])
    BY <1>1, <1>2, <1>3, <1>4
  <1>7. \A i \in Arrived' : receipt'[i] = 2 => i \in sighted'
    BY <1>2, <1>3, <1>4, <1>5 DEF ReceiptInv, ReceiptsFollowSight, Backed
  <1>8. new \in ReceiptRows /\ DOMAIN new = a.ids
    <2>1. a.ids \in SUBSET Nat /\ new \in [a.ids -> 0..2]
      BY <1>2, <1>4
    <2>2. QED
      BY <2>1, ReceiptRow
  <1> HIDE DEF new
  <1>9. b \in Acks /\ b.ids = a.ids /\ b.state = a.state /\ b.live = a.live /\ b.rows = new
    BY <1>2, <1>8 DEF Acks
  <1>10. PICK row \in Acks : /\ acks' = (acks \ {a}) \cup {row}
                            /\ row.ids = a.ids /\ row.state = a.state /\ row.live = a.live
                            /\ DOMAIN row.rows = a.ids /\ \A i \in a.ids : row.rows[i] = receipt'[i]
    BY <1>2, <1>3, <1>6, <1>8, <1>9
  <1>11. \A i \in Arrived' : receipt'[i] \in 0..2
    BY <1>5
  <1>12. Backed(row)'
    <2>1. Below(row.rows)'
      BY <1>2, <1>5, <1>10, <1>11 DEF Below
    <2>2. QED
      BY <1>2, <1>3, <1>5, <1>10, <2>1 DEF Backed
  <1>13. \A c \in acks : Backed(c)'
    BY <1>2, <1>3, <1>5, <1>6, <1>11, BackedStill
  <1>14. \A c \in acks' : Backed(c)'
    BY <1>10, <1>13, <1>12
  <1>15. acks' \subseteq Acks /\ \A c \in acks : c.live => \E d \in acks' : d.live
    BY <1>10 DEF ReceiptInv, ReceiptTypes
  <1>16. \E n \in Nat : receipt' \in [1..n -> 0..2]
    BY <1>5
  <1>17. QED
    BY <1>2, <1>3, <1>5, <1>6, <1>7, <1>14, <1>15, <1>16, Risen

(* The page becomes visible: what it displays is seen, and what it has not   *)
(* read is acknowledged.                                                    *)
LEMMA AppearKeeps == ReceiptInv /\ Appear => ReceiptInv'
  <1> SUFFICES ASSUME ReceiptInv, Appear PROVE ReceiptInv'
    OBVIOUS
  <1> DEFINE state == StateOf(TRUE)
  <1> DEFINE new == Acknowledge(displayed, known, state)
  <1>1. /\ visible' = TRUE /\ acks' = acks \cup new /\ sighted' = sighted \cup displayed
        /\ UNCHANGED <<receipt, displayed, known, readings, trouble>>
    BY DEF Appear
  <1>2. state = 2
    BY DEF StateOf
  <1>3. displayed \subseteq Arrived /\ displayed \in SUBSET Nat /\ Arrived' = Arrived
    BY <1>1, ArrivedNumbers DEF ReceiptInv, ReceiptTypes, Arrived
  <1> HIDE DEF state
  <1>4. ASSUME NEW b \in new
        PROVE  /\ b.ids \subseteq displayed /\ b.state = state /\ b.live = TRUE /\ DOMAIN b.rows = {}
               /\ state \in {1, 2} => b \in Acks
    BY <1>3, <1>4, AcknowledgeRow
  <1>5. \A b \in new : b \in Acks /\ b.ids \subseteq displayed /\ b.live = TRUE /\ DOMAIN b.rows = {}
    BY <1>2, <1>4
  <1>6. new = {} => Incoming(displayed, known, 2) = {}
    BY <1>2, <1>3, AcknowledgeSome
  <1> HIDE DEF new
  <1>7. acks' \subseteq Acks
    BY <1>1, <1>5 DEF ReceiptInv, ReceiptTypes
  <1>8. \A b \in acks' : Backed(b)'
    BY <1>1, <1>3, <1>5 DEF ReceiptInv, Backed, Below
  <1>9. trouble' \in BOOLEAN /\ visible' \in BOOLEAN
    BY <1>1 DEF ReceiptInv, ReceiptTypes
  <1>10. ReceiptTypes'
    BY <1>1, <1>3, <1>7, <1>9 DEF ReceiptInv, ReceiptTypes
  <1>11. \A r \in readings' : Below(r.rows)'
    BY <1>1, <1>3 DEF ReceiptInv, Below
  <1>12. ReceiptsFollowSight'
    <2>1. ASSUME \A b \in acks' : ~b.live PROVE \A i \in displayed : known[i] = 2
      <3>1. Incoming(displayed, known, 2) = {}
        BY <1>1, <1>5, <1>6, <2>1
      <3>2. \A i \in displayed : known[i] \in 0..2
        BY DEF ReceiptInv, ReceiptTypes
      <3>3. QED
        BY <3>1, <3>2 DEF Incoming
    <2>2. QED
      BY <1>1, <1>3, <2>1 DEF ReceiptInv, ReceiptsFollowSight
  <1>13. QED
    BY <1>1, <1>8, <1>10, <1>11, <1>12 DEF ReceiptInv

LEMMA ReceiptsStep == ReceiptInv /\ [ReceiptsNext]_receiptVars => ReceiptInv'
  <1> SUFFICES ASSUME ReceiptInv, [ReceiptsNext]_receiptVars PROVE ReceiptInv'
    OBVIOUS
  <1>1. CASE UNCHANGED receiptVars
    BY <1>1, HideKeeps
  <1>2. CASE ReceiptsNext
    BY <1>2, ArriveKeeps, AppearKeeps, HideKeeps, ReceiptsLoadedKeeps, ReceiptsNotLoadedKeeps, AcknowledgedKeeps,
       AckAnsweredKeeps, AckFailsKeeps, ReadElsewhereKeeps
    DEF ReceiptsNext
  <1>3. QED
    BY <1>1, <1>2

(* A message is read only after a visible page displayed it, the page shows  *)
(* no more than the server has, and a visible page at rest has all it       *)
(* displays read (page.tsx 149-222, conversation.ts 307).                   *)
THEOREM ReceiptsFollowSightCorrect == ReceiptsSpec => []ReceiptsFollowSight
  <1>1. ReceiptInv => ReceiptsFollowSight
    BY DEF ReceiptInv
  <1>2. QED
    BY ReceiptsInitInv, ReceiptsStep, <1>1, PTL DEF ReceiptsSpec
-----------------------------------------------------------------------------
(* ViewingPage.  An attempt has one key, one version and one panel, wherever *)
(* it has got to; what the page listens for is of the attempt it holds; and *)
(* the controls report an attempt of theirs.                                *)

Attempts == [key : Nat, click : Nat, seen : Nat]
Requests == [panel : Panels, live : BOOLEAN, key : Nat, click : Nat, seen : Nat]
Replies == [kind : {"NONE", "OK", "CONFLICT"}, version : Nat]
Views ==
  [shown : [Panels -> Nat], loading : [Panels -> Nat], pending : [Panels -> Attempts],
   sending : [Panels -> BOOLEAN], stale : [{"VIEWING", "REVIEW"} -> BOOLEAN], childBusy : [Reporting -> BOOLEAN]]

ViewingTypes ==
  /\ version \in [{"VIEWING", "REVIEW"} -> Nat] /\ tries \in Nat
  /\ requests \subseteq Requests /\ answers \in [Panels -> Replies] /\ view \in Views
  /\ controls \subseteq Children
  /\ \A r \in {"VIEWING", "REVIEW"} : view.shown[r] <= version[r]

OneAttempt ==
  /\ effects = receipts /\ receipts \subseteq 1..tries /\ refused \subseteq 1..tries
  /\ \A p \in Panels : view.pending[p] # NoAttempt =>
       /\ view.pending[p].key \in 1..tries /\ view.pending[p].click = view.pending[p].key
       /\ view.pending[p].seen <= version[Row(p)]
       /\ \A q \in Panels : view.pending[q].key = view.pending[p].key => q = p
  /\ \A r \in requests :
       /\ r.key \in 1..tries /\ r.click = r.key /\ r.seen <= version[Row(r.panel)]
       /\ \A p \in Panels : view.pending[p].key = r.key => p = r.panel /\ view.pending[p].seen = r.seen
       /\ \A s \in requests : s.key = r.key => s.panel = r.panel /\ s.seen = r.seen

Listening ==
  /\ \A r \in requests : r.live => view.sending[r.panel] /\ view.pending[r.panel].key = r.key
  /\ \A p \in Panels : answers[p] # Nothing => view.sending[p] /\ answers[p].version <= version[Row(p)]
  /\ \A p \in Panels : answers[p].kind = "CONFLICT" =>
       /\ view.pending[p] # NoAttempt /\ view.pending[p].seen < version[Row(p)]
       /\ view.pending[p].key \notin receipts

TooLate ==
  /\ refused \cap receipts = {}
  /\ \A r \in requests : r.key \in refused => r.seen < version[Row(r.panel)]
  /\ \A p \in Panels : view.pending[p].key \notin refused

Alternately ==
  /\ \A p \in Reporting : view.pending[p] # NoAttempt => view.childBusy[p] /\ p \in controls
  /\ \A p, q \in Panels \ {"REVIEW"} : view.pending[p] # NoAttempt /\ view.pending[q] # NoAttempt => p = q

ViewingInv == ViewingTypes /\ OneAttempt /\ Listening /\ TooLate /\ Alternately
(* What a change of the page leaves: the panels ps are silenced, their       *)
(* attempts kept or dropped; of the others nothing changes.                 *)
Silenced(ps) ==
  /\ tries' = tries /\ requests' \subseteq Requests
  /\ answers' = [p \in Panels |-> IF p \in ps THEN Nothing ELSE answers[p]]
  /\ \A r \in requests' : \E s \in requests :
       /\ r.panel = s.panel /\ r.key = s.key /\ r.click = s.click /\ r.seen = s.seen
       /\ r.live => s.live /\ r.panel \notin ps

Kept(pg, ps) ==
  /\ pg \in Views
  /\ \A r \in {"VIEWING", "REVIEW"} : pg.shown[r] <= version[r]
  /\ \A p \in Panels : pg.pending[p] \in {view.pending[p], NoAttempt}
  /\ \A p \in Panels \ ps : pg.pending[p] = view.pending[p] /\ pg.sending[p] = view.sending[p]
  /\ \A p \in Reporting : pg.pending[p] # NoAttempt /\ p \in controls => pg.childBusy[p]

Turned(ps) == Kept(view', ps)

LEMMA PanelRows ==
  /\ \A p \in Panels : Row(p) \in {"VIEWING", "REVIEW"}
  /\ Children \subseteq Panels /\ Reporting \subseteq Children /\ "VIEWING" \in Panels /\ "REVIEW" \in Panels
  BY DEF Panels, Children, Reporting, Row

LEMMA PanelTurned ==
  ASSUME ViewingInv, NEW ps \in SUBSET Panels, Silenced(ps), Turned(ps), UNCHANGED <<version, receipts, effects, controls>>,
         \/ refused' = refused
         \/ \E p \in Panels : /\ answers[p].kind = "CONFLICT" /\ view'.pending[p] = NoAttempt
                              /\ refused' = refused \cup {view.pending[p].click}
  PROVE  ViewingInv'
  <1> USE DEF ViewingInv
  <1>1. view.pending \in [Panels -> Attempts] /\ view'.pending \in [Panels -> Attempts] /\ tries \in Nat
    BY DEF ViewingTypes, Views, Turned, Kept
  <1>2. \A p \in Panels : Row(p) \in {"VIEWING", "REVIEW"}
    BY PanelRows
  <1>3. NoAttempt.key = 0
    BY DEF NoAttempt
  <1>4. \A r \in requests' : r \in Requests /\ \E s \in requests :
          /\ s \in Requests /\ r.panel = s.panel /\ r.key = s.key /\ r.click = s.click /\ r.seen = s.seen
          /\ r.live => s.live /\ r.panel \notin ps
    BY DEF Silenced, ViewingTypes
  <1>5. ViewingTypes'
    <2>1. answers' \in [Panels -> Replies]
      BY DEF Silenced, ViewingTypes, Replies, Nothing
    <2>2. QED
      BY <2>1 DEF Silenced, Turned, Kept, ViewingTypes
  <1>6. \E q \in Panels : refused' \subseteq refused \cup {view.pending[q].click} /\
          (refused' # refused => answers[q].kind = "CONFLICT" /\ view'.pending[q] = NoAttempt)
    BY PanelRows
  <1>7. PICK q \in Panels : refused' \subseteq refused \cup {view.pending[q].click} /\
          (refused' # refused => answers[q].kind = "CONFLICT" /\ view'.pending[q] = NoAttempt)
    BY <1>6
  <1>8. refused' # refused =>
          /\ view.pending[q] # NoAttempt /\ view.pending[q].click = view.pending[q].key
          /\ view.pending[q].key \in 1..tries /\ view.pending[q].seen < version[Row(q)]
          /\ view.pending[q].key \notin receipts
    BY <1>7 DEF Listening, OneAttempt
  <1>9. /\ \A r, s \in requests : s.key = r.key => s.panel = r.panel /\ s.seen = r.seen
        /\ \A r \in requests : \A p \in Panels :
             view.pending[p].key = r.key => p = r.panel /\ view.pending[p].seen = r.seen
    BY DEF OneAttempt
  <1>10. OneAttempt'
    <2>1. effects' = receipts' /\ receipts' \subseteq 1..tries' /\ refused' \subseteq 1..tries'
      BY <1>7, <1>8 DEF OneAttempt, Silenced
    <2>2. ASSUME NEW p \in Panels, view'.pending[p] # NoAttempt
          PROVE  /\ view'.pending[p].key \in 1..tries' /\ view'.pending[p].click = view'.pending[p].key
                 /\ view'.pending[p].seen <= version'[Row(p)]
                 /\ \A d \in Panels : view'.pending[d].key = view'.pending[p].key => d = p
      <3>1. view'.pending[p] = view.pending[p] /\ view.pending[p].key \in 1..tries
        BY <2>2 DEF Turned, Kept, OneAttempt
      <3>2. \A d \in Panels : view'.pending[d].key = view.pending[p].key => view'.pending[d] = view.pending[d]
        BY <1>3, <3>1 DEF Turned, Kept
      <3>3. QED
        BY <2>2, <3>1, <3>2 DEF Turned, Kept, OneAttempt, Silenced
    <2>3. ASSUME NEW r \in requests'
          PROVE  /\ r.key \in 1..tries' /\ r.click = r.key /\ r.seen <= version'[Row(r.panel)]
                 /\ \A p \in Panels : view'.pending[p].key = r.key => p = r.panel /\ view'.pending[p].seen = r.seen
                 /\ \A s \in requests' : s.key = r.key => s.panel = r.panel /\ s.seen = r.seen
      <3>1. PICK k \in requests : r.panel = k.panel /\ r.key = k.key /\ r.click = k.click /\ r.seen = k.seen
        BY <1>4
      <3>2. r.key \in 1..tries /\ r.click = r.key /\ r.seen <= version[Row(r.panel)]
        BY <3>1 DEF OneAttempt
      <3>3. \A p \in Panels : view'.pending[p].key = r.key => p = r.panel /\ view'.pending[p].seen = r.seen
        BY <1>3, <3>1, <3>2 DEF OneAttempt, Turned, Kept
      <3>4. ASSUME NEW s \in requests', s.key = r.key PROVE s.panel = r.panel /\ s.seen = r.seen
        <4>1. PICK m \in requests : s.panel = m.panel /\ s.key = m.key /\ s.seen = m.seen
          BY <1>4
        <4>2. m.key = k.key
          BY <3>1, <3>4, <4>1
        <4>3. m.panel = k.panel /\ m.seen = k.seen
          BY <1>9, <4>2
        <4>4. QED
          BY <3>1, <4>1, <4>3
      <3>5. QED
        BY <3>2, <3>3, <3>4 DEF Silenced
    <2>4. QED
      BY <2>1, <2>2, <2>3 DEF OneAttempt
  <1>11. \A p \in Panels : answers'[p] # Nothing => p \notin ps /\ answers'[p] = answers[p]
    BY DEF Silenced
  <1>12. Listening'
    <2>1. ASSUME NEW r \in requests', r.live PROVE view'.sending[r.panel] /\ view'.pending[r.panel].key = r.key
      BY <1>4, <2>1 DEF Listening, Turned, Kept, Requests
    <2>2. \A p \in Panels : answers'[p] # Nothing => view'.sending[p] /\ answers'[p].version <= version'[Row(p)]
      BY <1>11 DEF Listening, Turned, Kept
    <2>3. \A p \in Panels : answers'[p].kind = "CONFLICT" => answers'[p] # Nothing
      BY DEF Nothing
    <2>4. \A p \in Panels : answers'[p].kind = "CONFLICT" =>
            /\ view'.pending[p] # NoAttempt /\ view'.pending[p].seen < version'[Row(p)]
            /\ view'.pending[p].key \notin receipts'
      BY <1>11, <2>3 DEF Listening, Turned, Kept
    <2>5. QED
      BY <2>1, <2>2, <2>4 DEF Listening
  <1>13. TooLate'
    <2>1. refused' \cap receipts' = {}
      BY <1>7, <1>8 DEF TooLate
    <2>2. ASSUME NEW r \in requests', r.key \in refused' PROVE r.seen < version'[Row(r.panel)]
      <3>1. PICK k \in requests : r.panel = k.panel /\ r.key = k.key /\ r.seen = k.seen
        BY <1>4
      <3>2. CASE r.key \in refused
        BY <3>1, <3>2 DEF TooLate
      <3>3. CASE r.key \notin refused
        <4>1. r.key = view.pending[q].key /\ refused' # refused
          BY <1>7, <1>8, <2>2, <3>3
        <4>2. q = k.panel /\ view.pending[q].seen = k.seen
          BY <1>9, <3>1, <4>1
        <4>3. QED
          BY <1>8, <3>1, <4>1, <4>2
      <3>4. QED
        BY <3>2, <3>3
    <2>3. ASSUME NEW p \in Panels PROVE view'.pending[p].key \notin refused'
      <3>1. CASE view'.pending[p] = NoAttempt
        BY <1>3, <1>10, <3>1, <1>1 DEF OneAttempt, Silenced
      <3>2. CASE view'.pending[p] # NoAttempt
        <4>1. view'.pending[p] = view.pending[p] /\ view.pending[p].key \notin refused
          BY <3>2 DEF Turned, Kept, TooLate
        <4>2. refused' # refused => view.pending[p].key # view.pending[q].key
          BY <1>7, <1>8, <3>2, <4>1 DEF OneAttempt
        <4>3. QED
          BY <1>7, <1>8, <4>1, <4>2
      <3>3. QED
        BY <3>1, <3>2
    <2>4. QED
      BY <2>1, <2>2, <2>3 DEF TooLate
  <1>14. Alternately'
    BY PanelRows DEF Alternately, Turned, Kept
  <1>15. QED
    BY <1>5, <1>10, <1>12, <1>13, <1>14
LEMMA ControlRows ==
  /\ Panels = {"VIEWING", "APPOINTMENT", "ATTENDANCE", "REVIEW"} /\ Reporting = {"APPOINTMENT", "ATTENDANCE"}
  /\ Children = {"APPOINTMENT", "ATTENDANCE", "REVIEW"}
  /\ NoAttempt \in Attempts /\ Nothing \in Replies
  BY DEF Panels, Children, Reporting, NoAttempt, Attempts, Nothing, Replies

LEMMA ViewKept == ViewingInv => Kept(view, {})
  BY ControlRows DEF ViewingInv, ViewingTypes, Alternately, Kept

(* The operators of the page keep what Kept says.                            *)
LEMMA ReportedKept ==
  ASSUME NEW pg, NEW ps, Kept(pg, ps), NEW p \in Panels PROVE Kept(Reported(pg, p), ps)
  <1>1. CASE p \notin Reporting
    BY <1>1 DEF Reported
  <1>2. CASE p \in Reporting
    <2> DEFINE busy == pg.sending[p] \/ pg.loading[p] # 0 \/ pg.pending[p] # NoAttempt
    <2>1. pg \in Views /\ busy \in BOOLEAN
      BY DEF Kept
    <2>2. pg.pending[p] # NoAttempt => busy
      OBVIOUS
    <2>3. Reported(pg, p) = [pg EXCEPT !.childBusy[p] = busy]
      BY <1>2 DEF Reported
    <2> HIDE DEF busy
    <2> DEFINE q == [pg EXCEPT !.childBusy[p] = busy]
    <2>4. /\ q \in Views /\ q.shown = pg.shown /\ q.pending = pg.pending /\ q.sending = pg.sending
          /\ q.childBusy = [pg.childBusy EXCEPT ![p] = busy]
      BY <1>2, <2>1 DEF Views
    <2> HIDE DEF q
    <2>5. \A c \in Reporting : q.childBusy[c] = IF c = p THEN busy ELSE pg.childBusy[c]
      BY <2>1, <2>4 DEF Views
    <2>6. Kept(q, ps)
      BY <2>2, <2>4, <2>5 DEF Kept
    <2>7. QED
      BY <2>3, <2>6 DEF q
  <1>3. QED
    BY <1>1, <1>2

LEMMA ReadingKept ==
  ASSUME NEW pg, NEW ps, Kept(pg, ps), NEW p \in Panels, NEW n \in Nat
  PROVE  Kept([pg EXCEPT !.loading[p] = n], ps)
  <1> DEFINE q == [pg EXCEPT !.loading[p] = n]
  <1>1. pg \in Views
    BY DEF Kept
  <1>2. /\ q \in Views /\ q.shown = pg.shown /\ q.pending = pg.pending /\ q.sending = pg.sending
        /\ q.childBusy = pg.childBusy
    BY <1>1 DEF Views
  <1> HIDE DEF q
  <1>3. Kept(q, ps)
    BY <1>2 DEF Kept
  <1>4. QED
    BY <1>3 DEF q

LEMMA ShownKept ==
  ASSUME NEW pg, NEW ps, Kept(pg, ps), NEW p \in Panels, NEW v \in Nat,
         p \in {"VIEWING", "REVIEW"} => v <= version[p]
  PROVE  Kept([pg EXCEPT !.loading[p] = 0, !.shown[p] = v], ps) /\ Kept([pg EXCEPT !.shown[p] = v], ps)
  <1> DEFINE q == [pg EXCEPT !.loading[p] = 0, !.shown[p] = v]
  <1> DEFINE k == [pg EXCEPT !.shown[p] = v]
  <1>1. pg \in Views
    BY DEF Kept
  <1>2. /\ q \in Views /\ q.shown = [pg.shown EXCEPT ![p] = v] /\ q.pending = pg.pending
        /\ q.sending = pg.sending /\ q.childBusy = pg.childBusy
    BY <1>1 DEF Views
  <1>3. /\ k \in Views /\ k.shown = [pg.shown EXCEPT ![p] = v] /\ k.pending = pg.pending
        /\ k.sending = pg.sending /\ k.childBusy = pg.childBusy
    BY <1>1 DEF Views
  <1>4. \A r \in {"VIEWING", "REVIEW"} : [pg.shown EXCEPT ![p] = v][r] <= version[r]
    BY <1>1, ControlRows DEF Kept, Views
  <1> HIDE DEF q, k
  <1>5. Kept(q, ps) /\ Kept(k, ps)
    BY <1>2, <1>3, <1>4 DEF Kept
  <1>6. QED
    BY <1>5 DEF q, k

LEMMA StaleKept ==
  ASSUME NEW pg, NEW ps, Kept(pg, ps), NEW r \in {"VIEWING", "REVIEW"}, NEW b \in BOOLEAN
  PROVE  Kept([pg EXCEPT !.stale[r] = b], ps)
  <1> DEFINE q == [pg EXCEPT !.stale[r] = b]
  <1>1. pg \in Views
    BY DEF Kept
  <1>2. /\ q \in Views /\ q.shown = pg.shown /\ q.pending = pg.pending /\ q.sending = pg.sending
        /\ q.childBusy = pg.childBusy
    BY <1>1 DEF Views
  <1> HIDE DEF q
  <1>3. Kept(q, ps)
    BY <1>2 DEF Kept
  <1>4. QED
    BY <1>3 DEF q

LEMMA OutdatedKept ==
  ASSUME NEW pg, NEW ps, Kept(pg, ps) PROVE Kept(Outdated(pg), ps)
  <1> DEFINE q == [pg EXCEPT !.loading["VIEWING"] = 0, !.stale["VIEWING"] = TRUE]
  <1>1. pg \in Views
    BY DEF Kept
  <1>2. /\ q \in Views /\ q.shown = pg.shown /\ q.pending = pg.pending /\ q.sending = pg.sending
        /\ q.childBusy = pg.childBusy
    BY <1>1, ControlRows DEF Views
  <1> HIDE DEF q
  <1>3. Kept(q, ps)
    BY <1>2 DEF Kept
  <1>4. QED
    BY <1>3 DEF q, Outdated

LEMMA Busied == AllBusy \in [Reporting -> BOOLEAN] /\ \A p \in Reporting : p \in controls => AllBusy[p]
  <1>1. \A p \in Reporting : (p \in controls) \in BOOLEAN
    OBVIOUS
  <1>2. AllBusy \in [Reporting -> BOOLEAN]
    BY <1>1, Zenon DEF AllBusy
  <1>3. \A p \in Reporting : p \in controls => AllBusy[p]
    BY DEF AllBusy
  <1>4. QED
    BY <1>2, <1>3

LEMMA ShowingKept ==
  ASSUME ViewingInv, NEW pg, NEW ps, Kept(pg, ps), NEW v \in Nat, v <= version["VIEWING"]
  PROVE  Kept(Showing(pg, v), ps)
  <1> DEFINE asks == [p \in Panels |-> IF p \in controls THEN Asking(p) ELSE 0]
  <1> DEFINE q == [pg EXCEPT !.shown["VIEWING"] = v, !.stale["VIEWING"] = FALSE, !.childBusy = AllBusy,
                             !.loading = asks]
  <1>1. pg \in Views
    BY DEF Kept
  <1>2. asks \in [Panels -> Nat]
    BY PanelRows DEF Asking, ViewingInv, ViewingTypes
  <1> HIDE DEF asks
  <1>3. /\ q \in Views /\ q.shown = [pg.shown EXCEPT !["VIEWING"] = v] /\ q.pending = pg.pending
        /\ q.sending = pg.sending /\ q.childBusy = AllBusy
    BY <1>1, <1>2, Busied, ControlRows DEF Views
  <1>4. \A r \in {"VIEWING", "REVIEW"} : [pg.shown EXCEPT !["VIEWING"] = v][r] <= version[r]
    BY <1>1, ControlRows DEF Kept, Views
  <1>5. Showing(pg, v) = q
    BY DEF Showing, asks
  <1> HIDE DEF q
  <1>6. Kept(q, ps)
    BY <1>3, <1>4, Busied DEF Kept
  <1>7. QED
    BY <1>5, <1>6

LEMMA EmptiedKept ==
  ASSUME ViewingInv, NEW pg, NEW ps, Kept(pg, ps) PROVE Kept(Emptied(pg), ps \cup Children)
  <1> DEFINE none == [p \in Panels |-> 0]
  <1> DEFINE left == [p \in Panels |-> IF p = "VIEWING" THEN pg.pending[p] ELSE NoAttempt]
  <1> DEFINE sent == [p \in Panels |-> p = "VIEWING" /\ pg.sending[p]]
  <1> DEFINE idle == [p \in Reporting |-> FALSE]
  <1> DEFINE q == [pg EXCEPT !.shown = none, !.loading = none, !.pending = left, !.sending = sent,
                             !.stale["REVIEW"] = FALSE, !.childBusy = idle]
  <1>1. pg \in Views
    BY DEF Kept
  <1>2. none \in [Panels -> Nat] /\ left \in [Panels -> Attempts] /\ idle \in [Reporting -> BOOLEAN]
    BY <1>1, ControlRows DEF Views
  <1>3. sent \in [Panels -> BOOLEAN]
    BY <1>1 DEF Views
  <1>4. Emptied(pg) = q
    BY DEF Emptied
  <1>5. /\ left["VIEWING"] = pg.pending["VIEWING"] /\ \A p \in Children : left[p] = NoAttempt
        /\ sent["VIEWING"] = pg.sending["VIEWING"] /\ \A r \in {"VIEWING", "REVIEW"} : none[r] = 0
    BY <1>1, ControlRows DEF Views
  <1> HIDE DEF none, left, sent, idle
  <1>6. /\ q \in Views /\ q.shown = none /\ q.pending = left /\ q.sending = sent /\ q.childBusy = idle
    BY <1>1, <1>2, <1>3 DEF Views
  <1> HIDE DEF q
  <1>7. \A r \in {"VIEWING", "REVIEW"} : q.shown[r] <= version[r]
    BY <1>5, <1>6 DEF ViewingInv, ViewingTypes
  <1>8. /\ \A p \in Panels : p = "VIEWING" \/ p \in Children
        /\ Reporting \subseteq Children /\ "VIEWING" \in Panels
    BY ControlRows
  <1>9. Kept(q, ps \cup Children)
    BY <1>5, <1>6, <1>7, <1>8 DEF Kept
  <1>10. QED
    BY <1>4, <1>9

LEMMA AnsweredKept ==
  ASSUME ViewingInv, NEW p \in Panels, NEW kind
  PROVE  /\ Kept(Answered(p, kind), {p}) /\ Answered(p, kind).pending[p] \in {view.pending[p], NoAttempt}
         /\ kind # "ERROR" => Answered(p, kind).pending[p] = NoAttempt
  <1> DEFINE left == IF kind = "ERROR" THEN view.pending[p] ELSE NoAttempt
  <1> DEFINE q == [view EXCEPT !.sending[p] = FALSE, !.pending[p] = left]
  <1>1. view \in Views /\ Kept(view, {})
    BY ViewKept DEF Kept
  <1>2. left \in Attempts /\ left \in {view.pending[p], NoAttempt}
    BY <1>1, ControlRows DEF Views
  <1>3. Answered(p, kind) = q
    BY <1>1 DEF Answered, Views
  <1> HIDE DEF left
  <1>4. /\ q \in Views /\ q.shown = view.shown /\ q.childBusy = view.childBusy
        /\ q.pending = [view.pending EXCEPT ![p] = left] /\ q.sending = [view.sending EXCEPT ![p] = FALSE]
    BY <1>1, <1>2 DEF Views
  <1> HIDE DEF q
  <1>5. /\ \A d \in Panels : q.pending[d] = IF d = p THEN left ELSE view.pending[d]
        /\ \A d \in Panels \ {p} : q.sending[d] = view.sending[d]
    BY <1>1, <1>4 DEF Views
  <1>6. Reporting \subseteq Panels
    BY ControlRows
  <1>7. Kept(q, {p})
    BY <1>1, <1>2, <1>4, <1>5, <1>6 DEF Kept
  <1>8. QED
    BY <1>3, <1>5, <1>7 DEF left
(* What the page no longer listens to keeps its attempt.                     *)
LEMMA UnheededRows ==
  ASSUME ViewingInv, NEW ps
  PROVE  \A r \in Unheeded(ps) : r \in Requests /\ \E s \in requests :
           /\ r.panel = s.panel /\ r.key = s.key /\ r.click = s.click /\ r.seen = s.seen
           /\ r.live => s.live /\ r.panel \notin ps
  <1>1. \A s \in requests : s \in Requests
    BY DEF ViewingInv, ViewingTypes
  <1>2. ASSUME NEW s \in requests
        PROVE  LET q == [s EXCEPT !.live = FALSE]
               IN  q \in Requests /\ q.panel = s.panel /\ q.key = s.key /\ q.click = s.click /\ q.seen = s.seen /\ ~q.live
    BY <1>1 DEF Requests
  <1>3. ASSUME NEW r \in Unheeded(ps)
        PROVE  r \in Requests /\ \E s \in requests :
                 /\ r.panel = s.panel /\ r.key = s.key /\ r.click = s.click /\ r.seen = s.seen
                 /\ r.live => s.live /\ r.panel \notin ps
    <2>1. PICK s \in requests : r = IF s.panel \in ps THEN [s EXCEPT !.live = FALSE] ELSE s
      BY DEF Unheeded
    <2>2. CASE s.panel \in ps
      BY <1>2, <2>1, <2>2
    <2>3. CASE s.panel \notin ps
      BY <1>1, <2>1, <2>3
    <2>4. QED
      BY <2>2, <2>3
  <1>4. QED
    BY <1>3

LEMMA Silences ==
  ASSUME ViewingInv, NEW p \in Panels, NEW ps, NEW kind
  PROVE  /\ UNCHANGED network => Silenced({})
         /\ Deaf(ps) => Silenced(ps)
         /\ Denied(p, ps) => Silenced(ps)
         /\ Unconfirmed(p, kind) => Silenced({p})
  <1>1. ASSUME UNCHANGED network PROVE Silenced({})
    BY <1>1 DEF Silenced, network, ViewingInv, ViewingTypes
  <1>2. ASSUME Deaf(ps) PROVE Silenced(ps)
    BY <1>2, UnheededRows DEF Deaf, Silenced
  <1>3. ASSUME Denied(p, ps) PROVE Silenced(ps)
    <2>1. requests' \subseteq Unheeded(ps)
      BY <1>3 DEF Denied
    <2>2. QED
      BY <1>3, <2>1, UnheededRows DEF Denied, Silenced
  <1>4. ASSUME Unconfirmed(p, kind) PROVE Silenced({p})
    <2>1. tries' = tries /\ answers' = [answers EXCEPT ![p] = Nothing]
      BY <1>4 DEF Unconfirmed
    <2>2. answers' = [d \in Panels |-> IF d \in {p} THEN Nothing ELSE answers[d]]
      BY <2>1 DEF ViewingInv, ViewingTypes
    <2>3. CASE requests' = requests \ Live(p)
      <3>1. \A r \in requests' : r \in requests /\ (r.live => r.panel \notin {p})
        BY <2>3 DEF Live
      <3>2. QED
        BY <2>1, <2>2, <3>1 DEF Silenced, ViewingInv, ViewingTypes
    <2>4. CASE requests' = Unheeded({p})
      BY <2>1, <2>2, <2>4, UnheededRows DEF Silenced
    <2>5. QED
      BY <1>4, <2>3, <2>4 DEF Unconfirmed
  <1>5. QED
    BY <1>1, <1>2, <1>3, <1>4

(* Reading.                                                                 *)
LEMMA RefreshesKeep ==
  ViewingInv /\ UNCHANGED controls /\ (RefreshViewing \/ \E p \in controls : RefreshChild(p)) => ViewingInv'
  <1>1. ASSUME ViewingInv, UNCHANGED controls, RefreshViewing PROVE ViewingInv'
    <2> DEFINE n == version["VIEWING"]
    <2> DEFINE q == [view EXCEPT !.loading["VIEWING"] = n, !.childBusy = AllBusy]
    <2>1. view \in Views /\ Kept(view, {}) /\ n \in Nat
      BY <1>1, ViewKept DEF Kept, ViewingInv, ViewingTypes
    <2>2. view' = q
      BY <1>1 DEF RefreshViewing
    <2> HIDE DEF n
    <2>3. /\ q \in Views /\ q.shown = view.shown /\ q.pending = view.pending
          /\ q.sending = view.sending /\ q.childBusy = AllBusy
      BY <2>1, Busied, ControlRows DEF Views
    <2> HIDE DEF q
    <2>4. Kept(q, {})
      BY <2>1, <2>3, Busied DEF Kept
    <2>5. Turned({}) /\ Silenced({}) /\ UNCHANGED <<version, receipts, effects, controls>> /\ refused' = refused
      BY <1>1, <2>2, <2>4, Silences, PanelRows DEF Turned, RefreshViewing, rows
    <2>6. QED
      BY <1>1, <2>5, PanelTurned
  <1>2. ASSUME ViewingInv, UNCHANGED controls, NEW p \in Panels, RefreshChild(p) PROVE ViewingInv'
    <2> DEFINE n == Asking(p)
    <2>1. Kept(view, {}) /\ n \in Nat
      BY <1>2, ViewKept, PanelRows DEF Asking, ViewingInv, ViewingTypes
    <2>2. view' = Reported([view EXCEPT !.loading[p] = n], p)
      BY <1>2 DEF RefreshChild
    <2> HIDE DEF n
    <2>3. Kept([view EXCEPT !.loading[p] = n], {})
      BY <2>1, ReadingKept
    <2>4. Turned({})
      BY <2>2, <2>3, ReportedKept DEF Turned
    <2>5. Silenced({}) /\ UNCHANGED <<version, receipts, effects, controls>> /\ refused' = refused
      BY <1>2, Silences DEF RefreshChild, rows
    <2>6. QED
      BY <1>2, <2>4, <2>5, PanelTurned
  <1>3. ViewingInv => controls \subseteq Panels
    BY PanelRows DEF ViewingInv, ViewingTypes
  <1>4. QED
    BY <1>1, <1>2, <1>3

LEMMA ViewingLoadsKeeps == ViewingInv /\ UNCHANGED controls /\ ViewingLoads => ViewingInv'
  <1> SUFFICES ASSUME ViewingInv, UNCHANGED controls, ViewingLoads PROVE ViewingInv'
    OBVIOUS
  <1>1. Kept(view, {}) /\ view \in Views /\ version["VIEWING"] \in Nat
    BY ViewKept DEF Kept, ViewingInv, ViewingTypes
  <1>2. UNCHANGED <<version, receipts, effects, controls>> /\ refused' = refused
    BY DEF ViewingLoads, rows
  <1>3. ASSUME NEW v \in view.loading["VIEWING"]..version["VIEWING"], view' = Showing(view, v), UNCHANGED network
        PROVE  ViewingInv'
    <2>1. v \in Nat /\ v <= version["VIEWING"]
      BY <1>1, ControlRows DEF Views
    <2>2. Turned({}) /\ Silenced({})
      BY <1>1, <1>3, <2>1, ShowingKept, Silences, PanelRows DEF Turned
    <2>3. QED
      BY <1>2, <2>2, PanelTurned
  <1>4. ASSUME view' = Emptied(view), Deaf(Children) PROVE ViewingInv'
    <2>1. Kept(view', {} \cup Children)
      BY <1>1, <1>4, EmptiedKept
    <2>2. {} \cup Children = Children
      OBVIOUS
    <2>3. Turned(Children) /\ Silenced(Children) /\ Children \in SUBSET Panels
      BY <1>4, <2>1, <2>2, Silences, PanelRows DEF Turned
    <2>4. QED
      BY <1>2, <2>3, PanelTurned
  <1>5. QED
    BY <1>3, <1>4 DEF ViewingLoads

LEMMA PanelLoadedKept ==
  ASSUME ViewingInv, NEW p \in Children, NEW v \in Nat, p = "REVIEW" => v <= version["REVIEW"]
  PROVE  Kept(PanelLoaded(p, v), {})
  <1>1. Kept(view, {}) /\ p \in Panels /\ p # "VIEWING"
    BY ViewKept, ControlRows
  <1>2. Kept([view EXCEPT !.loading[p] = 0, !.shown[p] = v], {})
    BY <1>1, ShownKept
  <1>3. QED
    BY <1>1, <1>2, ReportedKept DEF PanelLoaded

LEMMA LoadEndsKeep ==
  ASSUME ViewingInv, UNCHANGED <<version, receipts, effects, controls, refused>>, NEW p \in Children, PanelFails(p) \/ LoadDenied
  PROVE  ViewingInv'
  <1>1. CASE PanelFails(p)
    <2>1. 0 <= version["REVIEW"]
      BY DEF ViewingInv, ViewingTypes
    <2>2. Turned({}) /\ Silenced({})
      BY <1>1, <2>1, PanelLoadedKept, Silences, PanelRows DEF PanelFails, Turned
    <2>3. QED
      BY <2>2, PanelTurned
  <1>2. CASE LoadDenied
    <2>1. Kept(view', {} \cup Children)
      BY <1>2, ViewKept, EmptiedKept DEF LoadDenied
    <2>2. Turned(Panels)
      BY <2>1, ControlRows DEF Turned, Kept
    <2>3. Silenced(Panels)
      BY <1>2, Silences, PanelRows DEF LoadDenied
    <2>4. QED
      BY <2>2, <2>3, PanelTurned
  <1>3. QED
    BY <1>1, <1>2

LEMMA AppointmentLoadsKeeps == ViewingInv /\ UNCHANGED controls /\ AppointmentLoads => ViewingInv'
  <1> SUFFICES ASSUME ViewingInv, UNCHANGED controls, AppointmentLoads PROVE ViewingInv'
    OBVIOUS
  <1>1. UNCHANGED <<version, receipts, effects, controls, refused>> /\ "APPOINTMENT" \in Children
    BY ControlRows DEF AppointmentLoads, rows
  <1>2. ASSUME NEW shows \in {view.shown["APPOINTMENT"], 1}, view' = PanelLoaded("APPOINTMENT", shows), UNCHANGED network
        PROVE  ViewingInv'
    <2>1. shows \in Nat
      BY ControlRows DEF ViewingInv, ViewingTypes, Views
    <2>2. Turned({}) /\ Silenced({})
      BY <1>1, <1>2, <2>1, PanelLoadedKept, Silences, PanelRows DEF Turned
    <2>3. QED
      BY <1>1, <2>2, PanelTurned
  <1>3. QED
    BY <1>1, <1>2, LoadEndsKeep DEF AppointmentLoads

LEMMA AttendanceLoadsKeeps == ViewingInv /\ UNCHANGED controls /\ AttendanceLoads => ViewingInv'
  <1> SUFFICES ASSUME ViewingInv, UNCHANGED controls, AttendanceLoads PROVE ViewingInv'
    OBVIOUS
  <1>1. UNCHANGED <<version, receipts, effects, controls, refused>> /\ "ATTENDANCE" \in Children
    BY ControlRows DEF AttendanceLoads, rows
  <1>2. Kept(PanelLoaded("ATTENDANCE", 1), {})
    BY <1>1, PanelLoadedKept
  <1>3. CASE view' = PanelLoaded("ATTENDANCE", 1) /\ UNCHANGED network
    BY <1>1, <1>2, <1>3, Silences, PanelRows, PanelTurned DEF Turned
  <1>4. CASE view' = Outdated(PanelLoaded("ATTENDANCE", 1)) /\ Deaf({"VIEWING"})
    <2>1. Kept(view', {})
      BY <1>2, <1>4, OutdatedKept
    <2>2. Turned({"VIEWING"})
      BY <2>1 DEF Turned, Kept
    <2>3. Silenced({"VIEWING"}) /\ {"VIEWING"} \in SUBSET Panels
      BY <1>4, Silences, PanelRows
    <2>4. QED
      BY <1>1, <2>2, <2>3, PanelTurned
  <1>5. QED
    BY <1>1, <1>3, <1>4, LoadEndsKeep DEF AttendanceLoads

LEMMA ReviewLoadsKeeps == ViewingInv /\ UNCHANGED controls /\ ReviewLoads => ViewingInv'
  <1> SUFFICES ASSUME ViewingInv, UNCHANGED controls, ReviewLoads PROVE ViewingInv'
    OBVIOUS
  <1>1. UNCHANGED <<version, receipts, effects, controls, refused>> /\ "REVIEW" \in Children
    BY ControlRows DEF ReviewLoads, rows
  <1>2. UNCHANGED network
    BY DEF ReviewLoads
  <1>3. ASSUME NEW v \in view.loading["REVIEW"]..version["REVIEW"],
               view' = [PanelLoaded("REVIEW", v) EXCEPT !.stale["REVIEW"] = FALSE]
        PROVE  ViewingInv'
    <2>1. v \in Nat /\ v <= version["REVIEW"]
      BY ControlRows DEF ViewingInv, ViewingTypes, Views
    <2>2. Kept(PanelLoaded("REVIEW", v), {})
      BY <1>1, <2>1, PanelLoadedKept
    <2>3. Turned({})
      BY <1>3, <2>2, StaleKept DEF Turned
    <2>4. QED
      BY <1>1, <1>2, <2>3, Silences, PanelRows, PanelTurned
  <1>4. CASE view' = PanelLoaded("REVIEW", 0)
    BY <1>1, <1>2, <1>4, LoadEndsKeep DEF PanelFails
  <1>5. QED
    BY <1>3, <1>4 DEF ReviewLoads
(* Answers.  A conflict is heard of an attempt of a version gone by, which   *)
(* the panel then holds no more.                                            *)
LEMMA PendingSame ==
  ASSUME NEW pg \in Views
  PROVE  /\ \A p \in Panels : Reported(pg, p).pending = pg.pending
         /\ Outdated(pg).pending = pg.pending
         /\ \A r \in {"VIEWING", "REVIEW"} : [pg EXCEPT !.stale[r] = TRUE].pending = pg.pending
  BY DEF Reported, Outdated, Views

LEMMA HeardOf ==
  ASSUME ViewingInv, NEW p \in Panels, NEW kind, Heard(p, kind)
  PROVE  /\ kind = "CONFLICT" => answers[p].kind = "CONFLICT"
         /\ kind = "OK" => answers[p].version \in Nat /\ answers[p].version <= version[Row(p)]
  <1>1. kind \in {"OK", "CONFLICT"} => answers[p].kind = kind
    BY DEF Heard, Failures
  <1>2. kind = "OK" => answers[p] # Nothing
    BY <1>1 DEF Nothing
  <1>3. QED
    BY <1>1, <1>2 DEF ViewingInv, Listening, ViewingTypes, Replies

LEMMA AnswerKeeps ==
  ASSUME ViewingInv, NEW p \in Panels, NEW kind, NEW ps \in SUBSET Panels, Heard(p, kind), UNCHANGED <<rows, controls>>,
         Refuse(p, kind), Turned(ps), Silenced(ps), kind = "CONFLICT" => view'.pending[p] = NoAttempt
  PROVE  ViewingInv'
  <1>1. UNCHANGED <<version, receipts, effects, controls>>
    BY DEF rows
  <1>2. CASE kind = "CONFLICT"
    BY <1>1, <1>2, HeardOf, PanelTurned DEF Refuse
  <1>3. CASE kind # "CONFLICT"
    BY <1>1, <1>3, PanelTurned DEF Refuse
  <1>4. QED
    BY <1>2, <1>3

LEMMA UnconfirmedKeeps ==
  ASSUME ViewingInv, NEW p \in Panels, NEW kind, Heard(p, kind), UNCHANGED <<rows, controls>>, Refuse(p, kind),
         Unconfirmed(p, kind)
  PROVE  ViewingInv'
  <1>1. Kept(view', {p}) /\ kind # "CONFLICT"
    BY AnsweredKept, ReportedKept DEF Unconfirmed
  <1>2. Turned({p}) /\ Silenced({p}) /\ {p} \in SUBSET Panels
    BY <1>1, Silences DEF Turned
  <1>3. QED
    BY <1>1, <1>2, AnswerKeeps

LEMMA DenialKeeps ==
  ASSUME ViewingInv, NEW p \in Panels, NEW kind, Heard(p, kind), UNCHANGED <<rows, controls>>, Refuse(p, kind),
         kind = "DENIED", view' = Emptied(Answered(p, kind)), Denied(p, Panels)
  PROVE  ViewingInv'
  <1>1. Kept(Answered(p, kind), {p})
    BY AnsweredKept
  <1>2. Kept(view', {p} \cup Children)
    BY <1>1, EmptiedKept
  <1>3. Turned(Panels)
    BY <1>2, ControlRows DEF Turned, Kept
  <1>4. Silenced(Panels)
    BY Silences
  <1>5. QED
    BY <1>3, <1>4, AnswerKeeps

LEMMA ViewingAnsweredKeeps == ASSUME NEW kind PROVE ViewingInv /\ UNCHANGED controls /\ ViewingAnswered(kind) => ViewingInv'
  <1> SUFFICES ASSUME ViewingInv, UNCHANGED controls, ViewingAnswered(kind) PROVE ViewingInv'
    OBVIOUS
  <1>1. /\ Heard("VIEWING", kind) /\ UNCHANGED <<rows, controls>> /\ Refuse("VIEWING", kind)
        /\ "VIEWING" \in Panels /\ {"VIEWING"} \in SUBSET Panels /\ Row("VIEWING") = "VIEWING"
    BY ControlRows DEF ViewingAnswered, Row
  <1> DEFINE pg == Answered("VIEWING", kind)
  <1>2. Kept(pg, {"VIEWING"}) /\ (kind # "ERROR" => pg.pending["VIEWING"] = NoAttempt)
    BY <1>1, AnsweredKept
  <1> HIDE DEF pg
  <1>3. Deaf({"VIEWING"}) => Silenced({"VIEWING"})
    BY <1>1, Silences
  <1>4. CASE kind = "OK" /\ view' = Showing(pg, answers["VIEWING"].version) /\ Deaf({"VIEWING"})
    <2>1. answers["VIEWING"].version \in Nat /\ answers["VIEWING"].version <= version["VIEWING"]
      BY <1>1, <1>4, HeardOf
    <2>2. Turned({"VIEWING"})
      BY <1>2, <1>4, <2>1, ShowingKept DEF Turned
    <2>3. QED
      BY <1>1, <1>3, <1>4, <2>2, AnswerKeeps
  <1>5. CASE kind = "CONFLICT" /\ view' = [pg EXCEPT !.stale["VIEWING"] = TRUE] /\ Deaf({"VIEWING"})
    <2>1. Turned({"VIEWING"})
      BY <1>2, <1>5, StaleKept DEF Turned
    <2>2. view'.pending["VIEWING"] = NoAttempt
      BY <1>2, <1>5, PendingSame DEF Kept
    <2>3. QED
      BY <1>1, <1>3, <1>5, <2>1, <2>2, AnswerKeeps
  <1>6. CASE kind = "DENIED" /\ view' = Emptied(pg) /\ Denied("VIEWING", Panels)
    BY <1>1, <1>6, DenialKeeps DEF pg
  <1>7. CASE Unconfirmed("VIEWING", kind)
    BY <1>1, <1>7, UnconfirmedKeeps
  <1>8. QED
    BY <1>4, <1>5, <1>6, <1>7 DEF ViewingAnswered, pg

LEMMA ChildAnsweredKeeps ==
  ASSUME ViewingInv, UNCHANGED controls, NEW p \in Reporting, NEW kind, NEW shows \in Nat, ChildAnswered(p, kind, shows)
  PROVE  ViewingInv'
  <1>1. /\ Heard(p, kind) /\ UNCHANGED <<rows, controls>> /\ Refuse(p, kind)
        /\ p \in Panels /\ {"VIEWING", p} \in SUBSET Panels /\ Row(p) = "VIEWING" /\ p \notin {"VIEWING", "REVIEW"}
    BY ControlRows DEF ChildAnswered, Row
  <1> DEFINE pg == Answered(p, kind)
  <1>2. Kept(pg, {p}) /\ (kind # "ERROR" => pg.pending[p] = NoAttempt)
    BY <1>1, AnsweredKept
  <1> HIDE DEF pg
  <1>3. Deaf({"VIEWING", p}) => Silenced({"VIEWING", p})
    BY <1>1, Silences
  <1>4. CASE kind = "OK" /\ view' = Showing([pg EXCEPT !.shown[p] = shows], answers[p].version) /\ Deaf({"VIEWING", p})
    <2>1. answers[p].version \in Nat /\ answers[p].version <= version["VIEWING"]
      BY <1>1, <1>4, HeardOf
    <2>2. Kept([pg EXCEPT !.shown[p] = shows], {p})
      BY <1>1, <1>2, ShownKept
    <2>3. Kept(view', {p})
      BY <1>4, <2>1, <2>2, ShowingKept
    <2>4. Turned({"VIEWING", p})
      BY <2>3 DEF Turned, Kept
    <2>5. QED
      BY <1>1, <1>3, <1>4, <2>4, AnswerKeeps
  <1>5. CASE kind = "CONFLICT" /\ view' = Outdated(Reported(pg, p)) /\ Deaf({"VIEWING", p})
    <2>1. Kept(Reported(pg, p), {p})
      BY <1>1, <1>2, ReportedKept
    <2>2. Kept(view', {p})
      BY <1>5, <2>1, OutdatedKept
    <2>3. Turned({"VIEWING", p})
      BY <2>2 DEF Turned, Kept
    <2>4. pg \in Views /\ Reported(pg, p) \in Views
      BY <1>2, <2>1 DEF Kept
    <2>5. view'.pending[p] = NoAttempt
      BY <1>1, <1>2, <1>5, <2>4, PendingSame
    <2>6. QED
      BY <1>1, <1>3, <1>5, <2>3, <2>5, AnswerKeeps
  <1>6. CASE kind = "DENIED" /\ view' = Emptied(pg) /\ Denied(p, Panels)
    BY <1>1, <1>6, DenialKeeps DEF pg
  <1>7. CASE Unconfirmed(p, kind)
    BY <1>1, <1>7, UnconfirmedKeeps
  <1>8. QED
    BY <1>4, <1>5, <1>6, <1>7 DEF ChildAnswered, pg

LEMMA ChildrenAnsweredKeep ==
  ASSUME NEW kind PROVE ViewingInv /\ UNCHANGED controls /\ (AppointmentAnswered(kind) \/ AttendanceAnswered(kind)) => ViewingInv'
  <1>1. ViewingInv => view.shown["APPOINTMENT"] \in Nat
    BY ControlRows DEF ViewingInv, ViewingTypes, Views
  <1>2. QED
    BY <1>1, ControlRows, ChildAnsweredKeeps DEF AppointmentAnswered, AttendanceAnswered

LEMMA ReviewAnsweredKeeps == ASSUME NEW kind PROVE ViewingInv /\ UNCHANGED controls /\ ReviewAnswered(kind) => ViewingInv'
  <1> SUFFICES ASSUME ViewingInv, UNCHANGED controls, ReviewAnswered(kind) PROVE ViewingInv'
    OBVIOUS
  <1>1. /\ Heard("REVIEW", kind) /\ UNCHANGED <<rows, controls>> /\ Refuse("REVIEW", kind)
        /\ "REVIEW" \in Panels /\ {"REVIEW"} \in SUBSET Panels /\ Row("REVIEW") = "REVIEW"
    BY ControlRows DEF ReviewAnswered, Row
  <1> DEFINE pg == Answered("REVIEW", kind)
  <1>2. Kept(pg, {"REVIEW"}) /\ (kind # "ERROR" => pg.pending["REVIEW"] = NoAttempt)
    BY <1>1, AnsweredKept
  <1> HIDE DEF pg
  <1>3. Deaf({"REVIEW"}) \/ Denied("REVIEW", {"REVIEW"}) => Silenced({"REVIEW"})
    BY <1>1, Silences
  <1>4. CASE kind = "OK" /\ Deaf({"REVIEW"}) /\ view' = [pg EXCEPT !.loading["REVIEW"] = 0, !.shown["REVIEW"] = answers["REVIEW"].version]
    <2>1. answers["REVIEW"].version \in Nat /\ answers["REVIEW"].version <= version["REVIEW"]
      BY <1>1, <1>4, HeardOf
    <2>2. Turned({"REVIEW"})
      BY <1>1, <1>2, <1>4, <2>1, ShownKept DEF Turned
    <2>3. QED
      BY <1>1, <1>3, <1>4, <2>2, AnswerKeeps
  <1>5. CASE kind = "CONFLICT" /\ Deaf({"REVIEW"}) /\ view' = [pg EXCEPT !.stale["REVIEW"] = TRUE]
    <2>1. Turned({"REVIEW"})
      BY <1>2, <1>5, StaleKept DEF Turned
    <2>2. view'.pending["REVIEW"] = NoAttempt
      BY <1>2, <1>5, PendingSame DEF Kept
    <2>3. QED
      BY <1>1, <1>3, <1>5, <2>1, <2>2, AnswerKeeps
  <1>6. CASE kind = "DENIED" /\ view' = [pg EXCEPT !.shown["REVIEW"] = 0] /\ Denied("REVIEW", {"REVIEW"})
    <2>1. 0 <= version["REVIEW"]
      BY DEF ViewingInv, ViewingTypes
    <2>2. Turned({"REVIEW"})
      BY <1>1, <1>2, <1>6, <2>1, ShownKept DEF Turned
    <2>3. QED
      BY <1>1, <1>3, <1>6, <2>2, AnswerKeeps
  <1>7. CASE Unconfirmed("REVIEW", kind)
    BY <1>1, <1>7, UnconfirmedKeeps
  <1>8. QED
    BY <1>4, <1>5, <1>6, <1>7 DEF ReviewAnswered, pg
LEMMA ViewingPageInitInv == ViewingPageInit => ViewingInv
  <1> SUFFICES ASSUME ViewingPageInit PROVE ViewingInv
    OBVIOUS
  <1>1. controls \subseteq Children
    BY ControlRows DEF ViewingPageInit
  <1>2. /\ view.shown = [p \in Panels |-> 0] /\ view.pending = [p \in Panels |-> NoAttempt]
        /\ version = [r \in {"VIEWING", "REVIEW"} |-> 1] /\ receipts = {} /\ effects = {} /\ refused = {}
        /\ requests = {} /\ answers = [p \in Panels |-> Nothing] /\ tries = 0
    BY DEF ViewingPageInit
  <1>3. view \in Views
    <2> DEFINE loads0 == [p \in Panels |-> IF p = "VIEWING" THEN 1 ELSE 0]
    <2> DEFINE shown0 == [p \in Panels |-> 0]
    <2> DEFINE pending0 == [p \in Panels |-> NoAttempt]
    <2> DEFINE sending0 == [p \in Panels |-> FALSE]
    <2> DEFINE stale0 == [p \in {"VIEWING", "REVIEW"} |-> FALSE]
    <2>1. /\ loads0 \in [Panels -> Nat] /\ shown0 \in [Panels -> Nat] /\ pending0 \in [Panels -> Attempts]
          /\ sending0 \in [Panels -> BOOLEAN] /\ stale0 \in [{"VIEWING", "REVIEW"} -> BOOLEAN]
      BY ControlRows
    <2>2. view = [shown |-> shown0, loading |-> loads0, pending |-> pending0, sending |-> sending0,
                  stale |-> stale0, childBusy |-> AllBusy]
      BY DEF ViewingPageInit
    <2> HIDE DEF loads0, shown0, pending0, sending0, stale0
    <2>3. QED
      BY <2>1, <2>2, Busied DEF Views
  <1>4. ViewingTypes
    BY <1>1, <1>2, <1>3, ControlRows DEF ViewingTypes
  <1>5. OneAttempt
    BY <1>2 DEF OneAttempt
  <1>6. \A p \in Panels : answers[p] = Nothing /\ view.pending[p] = NoAttempt
    BY <1>2
  <1>7. Listening /\ TooLate
    BY <1>2, <1>6 DEF Listening, TooLate, Nothing
  <1>8. Alternately
    BY <1>6, ControlRows DEF Alternately
  <1>9. QED
    BY <1>4, <1>5, <1>7, <1>8 DEF ViewingInv

(* A panel sends: the attempt it holds again, or one of its own when no     *)
(* other panel of the viewing holds any.                                    *)
LEMMA CommandKeeps ==
  ASSUME ViewingInv, UNCHANGED controls, NEW p \in {"VIEWING"} \cup controls, Command(p) PROVE ViewingInv'
  <1> USE DEF ViewingInv
  <1>1. p \in Panels /\ view \in Views /\ tries \in Nat /\ Row(p) \in {"VIEWING", "REVIEW"}
    BY PanelRows DEF ViewingTypes
  <1> DEFINE attempt == Repeated(p)
  <1> DEFINE post == [panel |-> p, live |-> TRUE, key |-> attempt.key, click |-> attempt.click, seen |-> attempt.seen]
  <1> DEFINE pg == [view EXCEPT !.pending[p] = attempt, !.sending[p] = TRUE, !.loading[p] = 0]
  <1>2. /\ ~view.sending[p] /\ (view.pending[p] # NoAttempt \/ Free(p)) /\ tries' = tries + 1
        /\ view' = Reported(pg, p) /\ requests' = requests \cup {post} /\ UNCHANGED <<rows, answers, refused>>
    BY DEF Command
  <1>3. UNCHANGED <<version, receipts, effects>>
    BY <1>2 DEF rows
  <1>4. attempt \in Attempts /\ attempt.click = attempt.key /\ attempt.seen <= version[Row(p)]
    <2>1. /\ view.pending \in [Panels -> Attempts] /\ view.shown \in [Panels -> Nat] /\ {"VIEWING", "REVIEW"} \subseteq Panels
          /\ \A r \in {"VIEWING", "REVIEW"} : view.shown[r] <= version[r]
      BY <1>1, PanelRows DEF Views, ViewingTypes
    <2>2. CASE view.pending[p] # NoAttempt
      BY <1>1, <2>1, <2>2 DEF Repeated, OneAttempt
    <2>3. CASE view.pending[p] = NoAttempt
      <3>1. view.shown[Row(p)] \in Nat /\ view.shown[Row(p)] <= version[Row(p)]
        BY <1>1, <2>1
      <3>2. attempt = [key |-> tries + 1, click |-> tries + 1, seen |-> view.shown[Row(p)]]
        BY <2>3 DEF Repeated
      <3> HIDE DEF attempt
      <3>3. QED
        BY <1>1, <3>1, <3>2 DEF Attempts
    <2>4. QED
      BY <2>2, <2>3
  <1>5. \/ attempt = view.pending[p] /\ view.pending[p] # NoAttempt /\ attempt.key \in 1..tries
        \/ attempt.key = tries + 1 /\ view.pending[p] = NoAttempt
    BY <1>1 DEF Repeated, OneAttempt
  <1> HIDE DEF attempt
  <1>6. /\ post \in Requests /\ post.panel = p /\ post.live = TRUE /\ post.key = attempt.key
        /\ post.click = attempt.key /\ post.seen = attempt.seen
    BY <1>1, <1>4 DEF Requests, Attempts
  <1> HIDE DEF post
  <1>7. /\ pg \in Views /\ pg.shown = view.shown /\ pg.childBusy = view.childBusy
        /\ pg.pending = [view.pending EXCEPT ![p] = attempt] /\ pg.sending = [view.sending EXCEPT ![p] = TRUE]
    BY <1>1, <1>4 DEF Views
  <1> HIDE DEF pg
  <1>8. /\ view' \in Views /\ view'.shown = view.shown /\ view'.pending = pg.pending /\ view'.sending = pg.sending
        /\ \A q \in Reporting : q # p => view'.childBusy[q] = view.childBusy[q]
        /\ p \in Reporting /\ attempt # NoAttempt => view'.childBusy[p] = TRUE
    <2>1. CASE p \notin Reporting
      BY <1>2, <1>7, <2>1 DEF Reported
    <2>2. CASE p \in Reporting
      <3> DEFINE busy == pg.sending[p] \/ pg.loading[p] # 0 \/ pg.pending[p] # NoAttempt
      <3>1. busy \in BOOLEAN /\ view' = [pg EXCEPT !.childBusy[p] = busy]
        BY <1>2, <2>2 DEF Reported
      <3>2. pg.pending[p] = attempt
        BY <1>1, <1>7 DEF Views
      <3>3. attempt # NoAttempt => busy = TRUE
        BY <3>2
      <3> HIDE DEF busy
      <3>4. /\ view' \in Views /\ view'.shown = pg.shown /\ view'.pending = pg.pending /\ view'.sending = pg.sending
            /\ view'.childBusy = [pg.childBusy EXCEPT ![p] = busy]
        BY <1>7, <2>2, <3>1 DEF Views
      <3>5. QED
        BY <1>1, <1>7, <2>2, <3>3, <3>4 DEF Views
    <2>3. QED
      BY <2>1, <2>2
  <1>9. \A q \in Panels : /\ view'.pending[q] = IF q = p THEN attempt ELSE view.pending[q]
                          /\ view'.sending[q] = IF q = p THEN TRUE ELSE view.sending[q]
    <2>1. view.pending \in [Panels -> Attempts] /\ view.sending \in [Panels -> BOOLEAN]
      BY <1>1 DEF Views
    <2>2. view'.pending = [view.pending EXCEPT ![p] = attempt] /\ view'.sending = [view.sending EXCEPT ![p] = TRUE]
      BY <1>7, <1>8
    <2>3. ASSUME NEW q \in Panels PROVE view'.pending[q] = IF q = p THEN attempt ELSE view.pending[q]
      BY <2>1, <2>2
    <2>4. ASSUME NEW q \in Panels PROVE view'.sending[q] = IF q = p THEN TRUE ELSE view.sending[q]
      BY <2>1, <2>2
    <2>5. QED
      BY <2>3, <2>4
  <1>10. NoAttempt.key = 0 /\ attempt # NoAttempt /\ attempt.key \in 1..tries' /\ attempt.key \in Nat
    BY <1>1, <1>2, <1>5 DEF NoAttempt
  <1>11. ViewingTypes'
    BY <1>1, <1>2, <1>3, <1>6, <1>8 DEF ViewingTypes
  <1>12. \A q \in Panels : q # p => view.pending[q].key # attempt.key
    BY <1>1, <1>5, <1>10 DEF OneAttempt
  <1>13. \A r \in requests : r.key = attempt.key => r.panel = p /\ r.seen = attempt.seen
    BY <1>1, <1>5 DEF OneAttempt
  <1>14. OneAttempt'
    <2>1. effects' = receipts' /\ receipts' \subseteq 1..tries' /\ refused' \subseteq 1..tries'
      BY <1>1, <1>2, <1>3 DEF OneAttempt
    <2>2. ASSUME NEW q \in Panels, view'.pending[q] # NoAttempt
          PROVE  /\ view'.pending[q].key \in 1..tries' /\ view'.pending[q].click = view'.pending[q].key
                 /\ view'.pending[q].seen <= version'[Row(q)]
                 /\ \A d \in Panels : view'.pending[d].key = view'.pending[q].key => d = q
      <3>1. CASE q = p
        <4>1. view'.pending[q] = attempt
          BY <1>1, <1>9, <3>1
        <4>2. \A d \in Panels : view'.pending[d].key = attempt.key => d = q
          BY <1>9, <1>12, <3>1
        <4>3. QED
          BY <1>3, <1>4, <1>10, <3>1, <4>1, <4>2
      <3>2. CASE q # p
        <4>1. /\ view'.pending[q] = view.pending[q] /\ view.pending[q].key \in 1..tries
              /\ view.pending[q].click = view.pending[q].key /\ view.pending[q].seen <= version[Row(q)]
              /\ \A d \in Panels : view.pending[d].key = view.pending[q].key => d = q
          BY <1>9, <2>2, <3>2 DEF OneAttempt
        <4>2. view.pending[q].key \in 1..tries'
          BY <1>1, <1>2, <4>1
        <4>3. ASSUME NEW d \in Panels, view'.pending[d].key = view.pending[q].key PROVE d = q
          <5>1. CASE d = p
            <6>1. view.pending[q].key = attempt.key
              BY <1>1, <1>9, <4>3, <5>1
            <6>2. QED
              BY <1>12, <3>2, <6>1
          <5>2. CASE d # p
            BY <1>9, <4>1, <4>3, <5>2
          <5>3. QED
            BY <5>1, <5>2
        <4>4. QED
          BY <1>3, <4>1, <4>2, <4>3
      <3>3. QED
        BY <3>1, <3>2
    <2>3. ASSUME NEW r \in requests'
          PROVE  /\ r.key \in 1..tries' /\ r.click = r.key /\ r.seen <= version'[Row(r.panel)]
                 /\ \A q \in Panels : view'.pending[q].key = r.key => q = r.panel /\ view'.pending[q].seen = r.seen
                 /\ \A s \in requests' : s.key = r.key => s.panel = r.panel /\ s.seen = r.seen
      <3>1. CASE r = post
        BY <1>2, <1>3, <1>4, <1>6, <1>9, <1>10, <1>12, <1>13, <3>1
      <3>2. CASE r \in requests
        <4>1. /\ r.key \in 1..tries /\ r.click = r.key /\ r.seen <= version[Row(r.panel)]
              /\ \A q \in Panels : view.pending[q].key = r.key => q = r.panel /\ view.pending[q].seen = r.seen
              /\ \A s \in requests : s.key = r.key => s.panel = r.panel /\ s.seen = r.seen
          BY <3>2 DEF OneAttempt
        <4>2. \A s \in requests' : s.key = r.key => s.panel = r.panel /\ s.seen = r.seen
          BY <1>2, <1>6, <1>13, <3>2, <4>1
        <4>3. \A q \in Panels : view'.pending[q].key = r.key => q = r.panel /\ view'.pending[q].seen = r.seen
          BY <1>9, <1>13, <3>2, <4>1
        <4>4. QED
          BY <1>1, <1>2, <1>3, <4>1, <4>2, <4>3
      <3>3. QED
        BY <1>2, <3>1, <3>2
    <2>4. QED
      BY <2>1, <2>2, <2>3 DEF OneAttempt
  <1>15. answers[p] = Nothing /\ \A r \in requests : r.live => r.panel # p
    BY <1>1, <1>2 DEF Listening
  <1>16. Listening'
    <2>1. \A r \in requests' : r.live => view'.sending[r.panel] /\ view'.pending[r.panel].key = r.key
      <3>1. ASSUME NEW r \in requests', r.live PROVE view'.sending[r.panel] /\ view'.pending[r.panel].key = r.key
        <4>1. CASE r = post
          BY <1>1, <1>6, <1>9, <4>1
        <4>2. CASE r \in requests
          <5>1. r.panel \in Panels /\ r.panel # p /\ view.sending[r.panel] /\ view.pending[r.panel].key = r.key
            BY <1>15, <3>1, <4>2 DEF Listening, ViewingTypes, Requests
          <5>2. QED
            BY <1>9, <5>1
        <4>3. QED
          BY <1>2, <4>1, <4>2
      <3>2. QED
        BY <3>1
    <2>2. \A q \in Panels : answers'[q] # Nothing => q # p /\ view'.pending[q] = view.pending[q] /\ view'.sending[q] = view.sending[q]
      BY <1>2, <1>9, <1>15
    <2>3. \A q \in Panels : answers'[q].kind = "CONFLICT" => answers'[q] # Nothing
      BY DEF Nothing
    <2>4. QED
      BY <1>2, <1>3, <2>1, <2>2, <2>3 DEF Listening
  <1>17. TooLate'
    <2>1. attempt.key \notin refused
      BY <1>1, <1>5 DEF TooLate, OneAttempt
    <2>2. QED
      BY <1>2, <1>3, <1>6, <1>9, <2>1 DEF TooLate
  <1>18. Alternately'
    <2>1. \A q \in Reporting : view'.pending[q] # NoAttempt => view'.childBusy[q] /\ q \in controls
      BY <1>8, <1>9, <1>10, ControlRows DEF Alternately
    <2>2. view.pending[p] = NoAttempt /\ p # "REVIEW" => \A q \in Panels \ {"REVIEW"} : view.pending[q] = NoAttempt
      <3>1. ASSUME Free(p), view.pending[p] = NoAttempt, p # "REVIEW" PROVE \A q \in Panels \ {"REVIEW"} : view.pending[q] = NoAttempt
        BY <1>1, <3>1, ControlRows
        DEF Free, ViewingFree, AppointmentFree, AttendanceFree, Unavailable, Alternately
      <3>2. QED
        BY <1>2, <3>1
    <2>3. \A q, d \in Panels \ {"REVIEW"} : view'.pending[q] # NoAttempt /\ view'.pending[d] # NoAttempt => q = d
      BY <1>9, <2>2 DEF Alternately
    <2>4. QED
      BY <2>1, <2>3 DEF Alternately
  <1>19. QED
    BY <1>11, <1>14, <1>16, <1>17, <1>18
(* What the servers do: a request is answered, and if it is executed its     *)
(* key has a receipt and the row another version.                           *)
LEMMA AnswerRows ==
  ASSUME ViewingInv, NEW request \in requests, Execute(request)
  PROVE  /\ \E kind \in {"OK", "CONFLICT"} : \E v \in Nat :
              /\ Answer(request, kind, v) /\ v <= version'[Row(request.panel)]
              /\ kind = "CONFLICT" => /\ version' = version /\ receipts' = receipts
                                      /\ request.key \notin receipts /\ request.seen # version[Row(request.panel)]
         /\ version' \in [{"VIEWING", "REVIEW"} -> Nat] /\ \A r \in {"VIEWING", "REVIEW"} : version[r] <= version'[r]
         /\ effects' = receipts'
         /\ \/ receipts' = receipts
            \/ receipts' = receipts \cup {request.key} /\ request.seen = version[Row(request.panel)]
  <1> DEFINE row == Row(request.panel)
  <1>1. /\ request \in Requests /\ row \in {"VIEWING", "REVIEW"} /\ version \in [{"VIEWING", "REVIEW"} -> Nat]
        /\ version[row] \in Nat /\ request.click = request.key /\ effects = receipts
    BY PanelRows DEF ViewingInv, ViewingTypes, OneAttempt, Requests
  <1> HIDE DEF row
  <1>2. CASE request.key \in receipts /\ UNCHANGED rows /\ Answer(request, "OK", version[row])
    BY <1>1, <1>2 DEF rows, row
  <1>3. CASE /\ request.key \notin receipts /\ request.seen # version[row]
             /\ UNCHANGED rows /\ Answer(request, "CONFLICT", 0)
    BY <1>1, <1>3 DEF rows, row
  <1>4. CASE /\ request.key \notin receipts /\ request.seen = version[row]
             /\ version' = [version EXCEPT ![row] = @ + 1]
             /\ receipts' = receipts \cup {request.key} /\ effects' = effects \cup {request.click}
             /\ Answer(request, "OK", version[row] + 1)
    <2>1. /\ version' \in [{"VIEWING", "REVIEW"} -> Nat] /\ version'[row] = version[row] + 1
          /\ \A r \in {"VIEWING", "REVIEW"} : version[r] <= version'[r]
      BY <1>1, <1>4
    <2>2. effects' = receipts' /\ version[row] + 1 \in Nat /\ version[row] + 1 <= version'[row]
      BY <1>1, <1>4, <2>1
    <2>3. QED
      BY <1>4, <2>1, <2>2 DEF row
  <1>5. QED
    BY <1>2, <1>3, <1>4 DEF Execute, row

LEMMA ExecuteKeeps ==
  ASSUME ViewingInv, UNCHANGED controls, NEW request \in requests, Execute(request) PROVE ViewingInv'
  <1> USE DEF ViewingInv
  <1> DEFINE p == request.panel
  <1>1. /\ request \in Requests /\ p \in Panels /\ request.key \in 1..tries /\ tries \in Nat
        /\ request.seen \in Nat /\ request.seen <= version[Row(p)]
    BY DEF ViewingTypes, OneAttempt, Requests
  <1>2. PICK kind \in {"OK", "CONFLICT"}, v \in Nat :
          /\ Answer(request, kind, v) /\ v <= version'[Row(p)]
          /\ kind = "CONFLICT" => /\ version' = version /\ receipts' = receipts
                                  /\ request.key \notin receipts /\ request.seen # version[Row(p)]
    BY AnswerRows
  <1>3. /\ version' \in [{"VIEWING", "REVIEW"} -> Nat] /\ \A r \in {"VIEWING", "REVIEW"} : version[r] <= version'[r]
        /\ effects' = receipts'
        /\ receipts' = receipts \/ (receipts' = receipts \cup {request.key} /\ request.seen = version[Row(p)])
    BY AnswerRows
  <1> DEFINE reply == [kind |-> kind, version |-> v]
  <1>4. /\ requests' \subseteq requests /\ tries' = tries /\ view' = view /\ refused' = refused
        /\ answers' = IF request.live THEN [answers EXCEPT ![p] = reply] ELSE answers
    BY <1>2 DEF Answer
  <1>5. reply \in Replies /\ reply.kind = kind /\ reply.version = v
    BY DEF Replies
  <1> HIDE DEF reply
  <1>6. /\ answers' \in [Panels -> Replies]
        /\ \A q \in Panels : answers'[q] = IF request.live /\ q = p THEN reply ELSE answers[q]
    BY <1>1, <1>4, <1>5 DEF ViewingTypes
  <1>7. /\ \A q \in Panels : Row(q) \in {"VIEWING", "REVIEW"} /\ version[Row(q)] <= version'[Row(q)]
        /\ \A q \in Panels : version[Row(q)] \in Nat /\ version'[Row(q)] \in Nat
    BY <1>3, PanelRows DEF ViewingTypes
  <1>8. \A q \in Panels : view.pending[q] \in Attempts /\ view.pending[q].seen \in Nat
    BY DEF ViewingTypes, Views, Attempts
  <1>9. \A r \in requests : r.panel \in Panels /\ r.seen \in Nat
    BY DEF ViewingTypes, Requests
  <1> HIDE DEF p
  <1>10. ViewingTypes'
    <2>1. \A r \in {"VIEWING", "REVIEW"} : view.shown[r] \in Nat /\ view.shown[r] <= version'[r]
      <3>1. ASSUME NEW r \in {"VIEWING", "REVIEW"} PROVE view.shown[r] \in Nat /\ view.shown[r] <= version'[r]
        <4>1. view.shown[r] \in Nat /\ version[r] \in Nat /\ version'[r] \in Nat
          BY <1>3, PanelRows DEF ViewingTypes, Views
        <4>2. view.shown[r] <= version[r] /\ version[r] <= version'[r]
          BY <1>3 DEF ViewingTypes
        <4>3. QED
          BY <4>1, <4>2
      <3>2. QED
        BY <3>1
    <2>2. QED
      BY <1>3, <1>4, <1>6, <2>1 DEF ViewingTypes
  <1>11. OneAttempt'
    <2>1. effects' = receipts' /\ receipts' \subseteq 1..tries' /\ refused' \subseteq 1..tries'
      BY <1>1, <1>3, <1>4 DEF OneAttempt
    <2>2. ASSUME NEW q \in Panels, view'.pending[q] # NoAttempt
          PROVE  /\ view'.pending[q].key \in 1..tries' /\ view'.pending[q].click = view'.pending[q].key
                 /\ view'.pending[q].seen <= version'[Row(q)]
                 /\ \A d \in Panels : view'.pending[d].key = view'.pending[q].key => d = q
      <3>1. view.pending[q].seen <= version[Row(q)]
        BY <1>4, <2>2 DEF OneAttempt
      <3>2. view.pending[q].seen <= version'[Row(q)]
        BY <1>7, <1>8, <3>1
      <3>3. QED
        BY <1>4, <2>2, <3>2 DEF OneAttempt
    <2>3. ASSUME NEW r \in requests'
          PROVE  /\ r.key \in 1..tries' /\ r.click = r.key /\ r.seen <= version'[Row(r.panel)]
                 /\ \A q \in Panels : view'.pending[q].key = r.key => q = r.panel /\ view'.pending[q].seen = r.seen
                 /\ \A s \in requests' : s.key = r.key => s.panel = r.panel /\ s.seen = r.seen
      <3>1. r \in requests /\ r.seen <= version[Row(r.panel)]
        BY <1>4 DEF OneAttempt
      <3>2. r.seen <= version'[Row(r.panel)]
        BY <1>7, <1>9, <3>1
      <3>3. QED
        BY <1>4, <3>1, <3>2 DEF OneAttempt
    <2>4. QED
      BY <2>1, <2>2, <2>3 DEF OneAttempt
  <1>12. request.live => view.sending[p] /\ view.pending[p].key = request.key /\ view.pending[p].seen = request.seen
    BY <1>1 DEF Listening, OneAttempt, p
  <1>13. Listening'
    <2>1. \A r \in requests' : r.live => view'.sending[r.panel] /\ view'.pending[r.panel].key = r.key
      BY <1>4 DEF Listening
    <2>2. ASSUME NEW q \in Panels, answers'[q] # Nothing PROVE view'.sending[q] /\ answers'[q].version <= version'[Row(q)]
      <3>1. CASE request.live /\ q = p
        BY <1>2, <1>4, <1>5, <1>6, <1>12, <3>1 DEF p
      <3>2. CASE ~(request.live /\ q = p)
        <4>1. answers'[q] = answers[q] /\ view.sending[q] /\ answers[q].version <= version[Row(q)] /\ answers[q].version \in Nat
          BY <1>6, <2>2, <3>2 DEF Listening, ViewingTypes, Replies
        <4>2. QED
          BY <1>4, <1>7, <4>1
      <3>3. QED
        BY <3>1, <3>2
    <2>3. ASSUME NEW q \in Panels, answers'[q].kind = "CONFLICT"
          PROVE  /\ view'.pending[q] # NoAttempt /\ view'.pending[q].seen < version'[Row(q)]
                 /\ view'.pending[q].key \notin receipts'
      <3>1. CASE request.live /\ q = p
        <4>1. kind = "CONFLICT"
          BY <1>5, <1>6, <2>3, <3>1
        <4>2. /\ version' = version /\ receipts' = receipts
              /\ request.key \notin receipts /\ request.seen # version[Row(p)]
          BY <1>2, <4>1 DEF p
        <4>3. view.pending[q].key # 0 /\ view.pending[q].seen < version[Row(q)]
          BY <1>1, <1>7, <1>12, <3>1, <4>2
        <4>4. QED
          BY <1>4, <1>12, <3>1, <4>2, <4>3 DEF NoAttempt
      <3>2. CASE ~(request.live /\ q = p)
        <4>1. /\ view.pending[q] # NoAttempt /\ view.pending[q].seen < version[Row(q)]
              /\ view.pending[q].key \notin receipts
          BY <1>6, <2>3, <3>2 DEF Listening
        <4>2. view.pending[q].seen < version'[Row(q)]
          BY <1>7, <1>8, <4>1
        <4>3. view.pending[q].key = request.key => q = p /\ view.pending[q].seen = request.seen
          BY DEF OneAttempt, p
        <4>4. view.pending[q].key \notin receipts'
          BY <1>1, <1>3, <1>7, <4>1, <4>3 DEF p
        <4>5. QED
          BY <1>4, <4>1, <4>2, <4>4
      <3>3. QED
        BY <3>1, <3>2
    <2>4. QED
      BY <2>1, <2>2, <2>3 DEF Listening
  <1>14. TooLate'
    <2>1. request.key \in refused => request.seen < version[Row(p)]
      BY DEF TooLate, p
    <2>2. refused' \cap receipts' = {}
      BY <1>1, <1>3, <1>4, <1>7, <2>1 DEF TooLate, p
    <2>3. ASSUME NEW r \in requests', r.key \in refused' PROVE r.seen < version'[Row(r.panel)]
      <3>1. r \in requests /\ r.seen < version[Row(r.panel)]
        BY <1>4, <2>3 DEF TooLate
      <3>2. QED
        BY <1>7, <1>9, <3>1
    <2>4. \A q \in Panels : view'.pending[q].key \notin refused'
      BY <1>4 DEF TooLate
    <2>5. QED
      BY <2>2, <2>3, <2>4 DEF TooLate
  <1>15. Alternately'
    BY <1>4 DEF Alternately
  <1>16. QED
    BY <1>10, <1>11, <1>13, <1>14, <1>15
LEMMA CounterpartyKeeps == ViewingInv /\ UNCHANGED controls /\ CounterpartyChanges => ViewingInv'
  <1> SUFFICES ASSUME ViewingInv, UNCHANGED controls, CounterpartyChanges PROVE ViewingInv'
    OBVIOUS
  <1> USE DEF ViewingInv
  <1>1. /\ UNCHANGED <<receipts, effects, requests, answers, tries, view, refused>>
        /\ \E r \in {"VIEWING", "REVIEW"} : version' = [version EXCEPT ![r] = @ + 1]
    BY DEF CounterpartyChanges, network
  <1>2. /\ version' \in [{"VIEWING", "REVIEW"} -> Nat] /\ version \in [{"VIEWING", "REVIEW"} -> Nat]
        /\ \A r \in {"VIEWING", "REVIEW"} : version[r] <= version'[r]
    BY <1>1 DEF ViewingTypes
  <1>3. \A q \in Panels : /\ version[Row(q)] \in Nat /\ version'[Row(q)] \in Nat /\ version[Row(q)] <= version'[Row(q)]
                          /\ view.pending[q].seen \in Nat /\ answers[q].version \in Nat
    BY <1>2, PanelRows DEF ViewingTypes, Views, Attempts, Replies
  <1>4. \A r \in requests : r.panel \in Panels /\ r.seen \in Nat
    BY DEF ViewingTypes, Requests
  <1>5. ViewingTypes'
    <2>1. ASSUME NEW r \in {"VIEWING", "REVIEW"} PROVE view.shown[r] <= version'[r]
      <3>1. view.shown[r] \in Nat /\ view.shown[r] <= version[r]
        BY PanelRows DEF ViewingTypes, Views
      <3>2. QED
        BY <1>2, <3>1
    <2>2. QED
      BY <1>1, <1>2, <2>1 DEF ViewingTypes
  <1>6. OneAttempt'
    <2>1. \A p \in Panels : view.pending[p] # NoAttempt => view.pending[p].seen <= version'[Row(p)]
      BY <1>3 DEF OneAttempt
    <2>2. \A r \in requests : r.seen <= version'[Row(r.panel)]
      BY <1>3, <1>4 DEF OneAttempt
    <2>3. QED
      BY <1>1, <2>1, <2>2 DEF OneAttempt
  <1>7. Listening'
    <2>1. \A p \in Panels : answers[p] # Nothing => answers[p].version <= version'[Row(p)]
      BY <1>3 DEF Listening
    <2>2. \A p \in Panels : answers[p].kind = "CONFLICT" => view.pending[p].seen < version'[Row(p)]
      BY <1>3 DEF Listening
    <2>3. QED
      BY <1>1, <2>1, <2>2 DEF Listening
  <1>8. TooLate'
    <2>1. \A r \in requests : r.key \in refused => r.seen < version'[Row(r.panel)]
      BY <1>3, <1>4 DEF TooLate
    <2>2. QED
      BY <1>1, <2>1 DEF TooLate
  <1>9. Alternately'
    BY <1>1 DEF Alternately
  <1>10. QED
    BY <1>5, <1>6, <1>7, <1>8, <1>9

LEMMA ViewingStep == ViewingInv /\ [ViewingPageNext]_viewingPageVars => ViewingInv'
  <1>1. ASSUME ViewingInv, ViewingPageNext PROVE ViewingInv'
    <2>1. UNCHANGED controls
      BY <1>1 DEF ViewingPageNext
    <2>2. CASE RefreshViewing \/ \E p \in controls : RefreshChild(p)
      BY <1>1, <2>1, <2>2, RefreshesKeep
    <2>3. CASE ViewingLoads \/ AppointmentLoads \/ AttendanceLoads \/ ReviewLoads
      BY <1>1, <2>1, <2>3, ViewingLoadsKeeps, AppointmentLoadsKeeps, AttendanceLoadsKeeps, ReviewLoadsKeeps
    <2>4. CASE \E p \in {"VIEWING"} \cup controls : Command(p)
      BY <1>1, <2>1, <2>4, CommandKeeps
    <2>5. CASE \E kind \in Failures \cup {"OK", "CONFLICT"} :
                 ViewingAnswered(kind) \/ AppointmentAnswered(kind) \/ AttendanceAnswered(kind) \/ ReviewAnswered(kind)
      BY <1>1, <2>1, <2>5, ViewingAnsweredKeeps, ChildrenAnsweredKeep, ReviewAnsweredKeeps
    <2>6. CASE \E r \in requests : Execute(r)
      BY <1>1, <2>1, <2>6, ExecuteKeeps
    <2>7. CASE CounterpartyChanges
      BY <1>1, <2>1, <2>7, CounterpartyKeeps
    <2>8. QED
      BY <1>1, <2>2, <2>3, <2>4, <2>5, <2>6, <2>7 DEF ViewingPageNext
  <1>2. ASSUME ViewingInv, UNCHANGED viewingPageVars PROVE ViewingInv'
    <2>1. UNCHANGED <<version, receipts, effects, requests, answers, tries, view, refused, controls>>
      BY <1>2 DEF viewingPageVars, rows, network
    <2>2. UNCHANGED ViewingTypes /\ UNCHANGED OneAttempt /\ UNCHANGED Listening
      BY <2>1 DEF ViewingTypes, OneAttempt, Listening
    <2>3. UNCHANGED TooLate /\ UNCHANGED Alternately
      BY <2>1 DEF TooLate, Alternately
    <2>4. QED
      BY <1>2, <2>2, <2>3 DEF ViewingInv
  <1>3. QED
    BY <1>1, <1>2

(* A click the user was told came too late never takes effect, and at most   *)
(* one of the viewing and its controls has a command that is not confirmed  *)
(* (viewing-controls 197-270 and its siblings).                             *)
THEOREM RefusedIsFinalCorrect == ViewingPageSpec => []RefusedIsFinal
  <1>1. ViewingInv => RefusedIsFinal
    <2> SUFFICES ASSUME ViewingInv PROVE RefusedIsFinal
      OBVIOUS
    <2>1. effects \cap refused = {}
      BY DEF ViewingInv, OneAttempt, TooLate
    <2> DEFINE open == {p \in Panels \ {"REVIEW"} : view.pending[p] # NoAttempt}
    <2>2. \A p, q \in open : p = q
      BY DEF ViewingInv, Alternately
    <2> HIDE DEF open
    <2>3. open = {} => Cardinality(open) <= 1
      BY FS_EmptySet
    <2>4. ASSUME open # {} PROVE Cardinality(open) <= 1
      <3>1. PICK p \in open : TRUE
        BY <2>4
      <3>2. open = {p}
        BY <2>2, <3>1
      <3>3. Cardinality({p}) = 1
        BY FS_Singleton
      <3>4. QED
        BY <3>2, <3>3
    <2>5. Cardinality(open) <= 1
      BY <2>3, <2>4
    <2>6. QED
      BY <2>1, <2>5 DEF RefusedIsFinal, open
  <1>2. QED
    BY ViewingPageInitInv, ViewingStep, <1>1, PTL DEF ViewingPageSpec
-----------------------------------------------------------------------------
(* ListingSearch.  Listings as a search read them are ordered; a cursor      *)
(* parts the order in those it has passed and those that follow it.         *)

Read == [id : Nat, approved : Nat, price : Nat]
SearchCursors == [value : Nat, id : Nat, none : BOOLEAN]

LEMMA ReadOrder ==
  ASSUME NEW sort \in Sorts
  PROVE  /\ \A x \in Read : ~Precedes(sort, x, x)
         /\ \A x, y, z \in Read : Precedes(sort, x, y) /\ Precedes(sort, y, z) => Precedes(sort, x, z)
         /\ \A x, y \in Read : x.id = y.id \/ Precedes(sort, x, y) \/ Precedes(sort, y, x)
  <1>1. \A x \in Read : x.id \in Nat /\ x.approved \in Nat /\ x.price \in Nat
    BY DEF Read
  <1>2. CASE sort = "newest"
    BY <1>1, <1>2 DEF Precedes
  <1>3. CASE sort # "newest"
    BY <1>1, <1>3 DEF Precedes
  <1>4. QED
    BY <1>2, <1>3

LEMMA MillisecondOf ==
  ASSUME NEW a \in Nat, NEW b \in Nat
  PROVE  /\ Millisecond(a) \in Nat /\ Millisecond(a) <= a /\ a <= Millisecond(a) + 1
         /\ a < b /\ Millisecond(a) # Millisecond(b) => a < Millisecond(b)
  BY Z3 DEF Millisecond

(* c is past d: whatever follows c follows d.                                *)
Past(sort, c, d) ==
  /\ ~c.none
  /\ \/ d.none
     \/ sort = "newest" /\ (c.value < d.value \/ (c.value = d.value /\ c.id < d.id))
     \/ sort = "price_asc" /\ (c.value > d.value \/ (c.value = d.value /\ c.id > d.id))

LEMMA CursorTypes ==
  ASSUME NEW sort \in Sorts, NEW x \in Read
  PROVE  CursorOf(sort, x) \in SearchCursors /\ ~CursorOf(sort, x).none
  <1>1. x.id \in Nat /\ x.approved \in Nat /\ x.price \in Nat /\ Millisecond(x.approved) \in Nat
    BY MillisecondOf DEF Read
  <1>2. QED
    BY <1>1 DEF CursorOf, SearchCursors

LEMMA CursorOrder ==
  ASSUME NEW sort \in Sorts, NEW c \in SearchCursors, NEW d \in SearchCursors, NEW e \in SearchCursors, NEW x \in Read
  PROVE  /\ Past(sort, c, d) /\ Past(sort, d, e) => Past(sort, c, e)
         /\ Past(sort, c, d) => c # d
         /\ Past(sort, c, d) /\ Follows(sort, x, c) => Follows(sort, x, d)
         /\ Follows(sort, x, d) => Past(sort, CursorOf(sort, x), d)
  <1>1. x.id \in Nat /\ x.approved \in Nat /\ x.price \in Nat
    BY DEF Read
  <1>2. /\ c.value \in Nat /\ c.id \in Nat /\ c.none \in BOOLEAN
        /\ d.value \in Nat /\ d.id \in Nat /\ d.none \in BOOLEAN
        /\ e.value \in Nat /\ e.id \in Nat /\ e.none \in BOOLEAN
    BY DEF SearchCursors
  <1>3. sort = "newest" \/ sort = "price_asc"
    BY DEF Sorts
  <1>4. Past(sort, c, d) /\ Past(sort, d, e) => Past(sort, c, e)
    BY <1>2, <1>3 DEF Past
  <1>5. Past(sort, c, d) => c # d
    BY <1>2, <1>3 DEF Past
  <1>6. Past(sort, c, d) /\ Follows(sort, x, c) => Follows(sort, x, d)
    BY <1>1, <1>2, <1>3 DEF Past, Follows
  <1>7. Follows(sort, x, d) => Past(sort, CursorOf(sort, x), d)
    <2>1. CursorOf(sort, x).id = x.id /\ ~CursorOf(sort, x).none
      BY DEF CursorOf
    <2>2. CASE sort = "newest"
      <3>1. CursorOf(sort, x).value = Millisecond(x.approved) /\ Millisecond(x.approved) \in Nat /\ Millisecond(x.approved) <= x.approved
        BY <1>1, <2>2, MillisecondOf DEF CursorOf
      <3>2. QED
        BY <1>1, <1>2, <2>1, <2>2, <3>1 DEF Past, Follows
    <2>3. CASE sort # "newest"
      <3>1. CursorOf(sort, x).value = x.price
        BY <2>3 DEF CursorOf
      <3>2. QED
        BY <1>1, <1>2, <1>3, <2>1, <2>3, <3>1 DEF Past, Follows
    <2>4. QED
      BY <2>2, <2>3
  <1>8. QED
    BY <1>4, <1>5, <1>6, <1>7

(* Told apart by the cursor of one of them.                                  *)
Apart(sort, x, y) == x.id # y.id /\ (sort = "newest" => Millisecond(x.approved) # Millisecond(y.approved))

(* What follows the cursor of y comes after y; what comes after y and is    *)
(* told apart from it follows its cursor.                                   *)
LEMMA CursorParts ==
  ASSUME NEW sort \in Sorts, NEW x \in Read, NEW y \in Read
  PROVE  /\ Follows(sort, x, CursorOf(sort, y)) => Precedes(sort, y, x)
         /\ Precedes(sort, y, x) /\ Apart(sort, x, y) => Follows(sort, x, CursorOf(sort, y))
  <1>1. /\ x.id \in Nat /\ x.approved \in Nat /\ x.price \in Nat
        /\ y.id \in Nat /\ y.approved \in Nat /\ y.price \in Nat
    BY DEF Read
  <1>2. CursorOf(sort, y).id = y.id /\ ~CursorOf(sort, y).none
    BY DEF CursorOf
  <1>3. CASE sort = "newest"
    <2>1. CursorOf(sort, y).value = Millisecond(y.approved) /\ Millisecond(y.approved) \in Nat
      BY <1>1, <1>3, MillisecondOf DEF CursorOf
    <2>2. /\ Millisecond(y.approved) <= y.approved
          /\ x.approved < y.approved /\ Millisecond(x.approved) # Millisecond(y.approved) => x.approved < Millisecond(y.approved)
      BY <1>1, MillisecondOf
    <2>3. QED
      BY <1>1, <1>2, <1>3, <2>1, <2>2 DEF Follows, Precedes, Apart
  <1>4. CASE sort # "newest"
    <2>1. CursorOf(sort, y).value = y.price /\ sort = "price_asc"
      BY <1>4 DEF CursorOf, Sorts
    <2>2. QED
      BY <1>1, <1>2, <1>4, <2>1 DEF Follows, Precedes, Apart
  <1>5. QED
    BY <1>3, <1>4

(* A set of rows read at one moment: each listing once.                      *)
Snapshot(xs) == xs \subseteq Read /\ IsFiniteSet(xs) /\ \A x, y \in xs : x.id = y.id => x = y

ReadBefore(sort, xs, x) == {y \in xs : Precedes(sort, y, x)}

LEMMA BeforeGrows ==
  ASSUME NEW sort \in Sorts, NEW xs, Snapshot(xs), NEW x \in xs, NEW y \in xs, Precedes(sort, x, y)
  PROVE  /\ Cardinality(ReadBefore(sort, xs, x)) \in Nat /\ Cardinality(ReadBefore(sort, xs, y)) \in Nat
         /\ Cardinality(ReadBefore(sort, xs, x)) < Cardinality(ReadBefore(sort, xs, y))
  <1> DEFINE X == ReadBefore(sort, xs, x) Y == ReadBefore(sort, xs, y)
  <1>1. IsFiniteSet(xs) /\ X \in SUBSET xs /\ Y \in SUBSET xs
    BY DEF Snapshot, ReadBefore
  <1>2. IsFiniteSet(X) /\ IsFiniteSet(Y)
    BY <1>1, FS_Subset
  <1>3. X \subseteq Y /\ x \in Y /\ x \notin X
    BY ReadOrder DEF Snapshot, ReadBefore
  <1> HIDE DEF X, Y
  <1>4. IsFiniteSet(Y \ {x}) /\ Cardinality(Y \ {x}) = Cardinality(Y) - 1
    BY <1>2, <1>3, FS_RemoveElement
  <1>5. X \in SUBSET (Y \ {x})
    BY <1>3
  <1>6. Cardinality(X) <= Cardinality(Y \ {x})
    BY <1>4, <1>5, FS_Subset
  <1>7. Cardinality(X) \in Nat /\ Cardinality(Y) \in Nat
    BY <1>2, FS_CardinalityType
  <1>8. Cardinality(X) < Cardinality(Y)
    BY <1>4, <1>6, <1>7
  <1>9. QED
    BY <1>7, <1>8 DEF X, Y

LEMMA BeforeCounted ==
  ASSUME NEW sort \in Sorts, NEW xs, Snapshot(xs), NEW x
  PROVE  IsFiniteSet(ReadBefore(sort, xs, x)) /\ Cardinality(ReadBefore(sort, xs, x)) \in Nat
  <1>1. IsFiniteSet(xs) /\ ReadBefore(sort, xs, x) \in SUBSET xs
    BY DEF Snapshot, ReadBefore
  <1>2. QED
    BY <1>1, FS_Subset, FS_CardinalityType

(* A set of such rows that is not empty has a first one.                     *)
LEMMA FirstRead ==
  ASSUME NEW sort \in Sorts, NEW xs, Snapshot(xs), NEW some \in SUBSET xs, some # {}
  PROVE  \E x \in some : \A y \in some : ~Precedes(sort, y, x)
  <1> DEFINE Count(x) == Cardinality(ReadBefore(sort, xs, x))
             Sizes == {Count(x) : x \in some}
  <1>1. \A x \in some : Count(x) \in Nat
    BY BeforeCounted
  <1>2. Sizes \in SUBSET Nat /\ Sizes # {}
    BY <1>1
  <1>3. PICK n \in Sizes : \A m \in Sizes : n <= m
    BY <1>2, SmallestOf
  <1>4. PICK x \in some : n = Count(x)
    BY <1>3
  <1>5. ASSUME NEW y \in some, Precedes(sort, y, x) PROVE FALSE
    <2>1. Count(y) < Count(x) /\ Count(x) \in Nat /\ Count(y) \in Nat
      BY <1>5, BeforeGrows
    <2>2. Count(y) \in Sizes
      OBVIOUS
    <2>3. Count(x) <= Count(y)
      BY <1>3, <1>4, <2>2
    <2>4. QED
      BY <2>1, <2>3
  <1>6. QED
    BY <1>5

(* And a last one, which Final chooses.                                      *)
LEMMA FinalOf ==
  ASSUME NEW sort \in Sorts, NEW xs, Snapshot(xs), xs # {}
  PROVE  Final(sort, xs) \in xs /\ \A y \in xs : y = Final(sort, xs) \/ Precedes(sort, y, Final(sort, xs))
  <1> DEFINE Count(x) == Cardinality(xs) - Cardinality(ReadBefore(sort, xs, x))
             Sizes == {Count(x) : x \in xs}
  <1>1. ASSUME NEW x \in xs PROVE Count(x) \in Nat
    <2>1. IsFiniteSet(xs) /\ ReadBefore(sort, xs, x) \in SUBSET xs
      BY DEF Snapshot, ReadBefore
    <2>2. Cardinality(ReadBefore(sort, xs, x)) <= Cardinality(xs)
      BY <2>1, FS_Subset
    <2>3. Cardinality(xs) \in Nat /\ Cardinality(ReadBefore(sort, xs, x)) \in Nat
      BY <2>1, BeforeCounted, FS_CardinalityType
    <2>4. QED
      BY <2>2, <2>3
  <1>2. Sizes \in SUBSET Nat /\ Sizes # {}
    BY <1>1
  <1>3. PICK n \in Sizes : \A m \in Sizes : n <= m
    BY <1>2, SmallestOf
  <1>4. PICK x \in xs : n = Count(x)
    BY <1>3
  <1>5. ASSUME NEW y \in xs, Precedes(sort, x, y) PROVE FALSE
    <2>1. /\ Cardinality(ReadBefore(sort, xs, x)) < Cardinality(ReadBefore(sort, xs, y))
          /\ Cardinality(ReadBefore(sort, xs, x)) \in Nat /\ Cardinality(ReadBefore(sort, xs, y)) \in Nat
      BY <1>5, BeforeGrows
    <2>2. Count(y) \in Sizes /\ Cardinality(xs) \in Nat
      BY FS_CardinalityType DEF Snapshot
    <2>3. Count(x) <= Count(y)
      BY <1>3, <1>4, <2>2
    <2>4. QED
      BY <2>1, <2>2, <2>3
  <1>6. \E z \in xs : \A y \in xs : ~Precedes(sort, z, y)
    BY <1>5
  <1>7. Final(sort, xs) \in xs /\ \A y \in xs : ~Precedes(sort, Final(sort, xs), y)
    BY <1>6 DEF Final
  <1>8. QED
    BY <1>7, ReadOrder DEF Snapshot
LEMMA FirstRows ==
  ASSUME NEW sort \in Sorts, NEW xs, Snapshot(xs), NEW n \in Nat
  PROVE  LET front == First(n, sort, xs) IN
         /\ front \subseteq xs /\ Snapshot(front) /\ Cardinality(front) \in 0..n
         /\ \A y \in front : \A x \in xs \ front : Precedes(sort, y, x)
         /\ Cardinality(front) < n => front = xs
  <1> DEFINE front == First(n, sort, xs)
             Count(x) == Cardinality(ReadBefore(sort, xs, x))
  <1>1. front = {x \in xs : Count(x) < n}
    BY DEF First, ReadBefore
  <1>2. \A x \in xs : Count(x) \in Nat
    BY BeforeCounted
  <1>3. ASSUME NEW x \in xs, NEW y \in xs, Precedes(sort, x, y) PROVE Count(x) < Count(y)
    BY <1>3, BeforeGrows
  <1> HIDE DEF front, Count
  <1>4. front \subseteq xs /\ Snapshot(front)
    <2>1. front \in SUBSET xs
      BY <1>1
    <2>2. IsFiniteSet(front)
      BY <2>1, FS_Subset DEF Snapshot
    <2>3. QED
      BY <2>1, <2>2 DEF Snapshot
  <1>5. ASSUME NEW y \in front, NEW x \in xs \ front PROVE Precedes(sort, y, x)
    <2>1. y \in xs /\ Count(y) < n /\ ~(Count(x) < n) /\ x # y
      BY <1>1
    <2>2. x \in Read /\ y \in Read /\ x.id # y.id
      BY <2>1 DEF Snapshot
    <2>3. ~Precedes(sort, x, y)
      BY <1>2, <1>3, <2>1
    <2>4. QED
      BY <2>2, <2>3, ReadOrder
  <1>6. Cardinality(front) \in Nat
    BY <1>4, FS_CardinalityType DEF Snapshot
  <1>7. Cardinality(front) <= n
    <2>1. CASE front = {}
      BY <2>1, FS_EmptySet
    <2>2. CASE front # {}
      <3> DEFINE z == Final(sort, front)
      <3>1. z \in front /\ \A y \in front : y = z \/ Precedes(sort, y, z)
        BY <1>4, <2>2, FinalOf
      <3>2. z \in xs /\ Count(z) < n /\ Count(z) \in Nat
        BY <1>1, <1>2, <3>1
      <3>3. IsFiniteSet(ReadBefore(sort, xs, z)) /\ Count(z) = Cardinality(ReadBefore(sort, xs, z))
        BY BeforeCounted DEF Count
      <3>4. front \ {z} \in SUBSET ReadBefore(sort, xs, z)
        BY <1>4, <3>1 DEF ReadBefore
      <3>5. Cardinality(front \ {z}) <= Count(z)
        BY <3>3, <3>4, FS_Subset
      <3>6. IsFiniteSet(front) /\ Cardinality(front \ {z}) = Cardinality(front) - 1
        BY <1>4, <3>1, FS_RemoveElement DEF Snapshot
      <3> HIDE DEF z
      <3>7. QED
        BY <1>6, <3>2, <3>5, <3>6
    <2>3. QED
      BY <2>1, <2>2
  <1>8. ASSUME Cardinality(front) < n PROVE front = xs
    <2>1. SUFFICES ASSUME xs \ front # {} PROVE FALSE
      BY <1>4
    <2>2. PICK x \in xs \ front : \A y \in xs \ front : ~Precedes(sort, y, x)
      BY <2>1, FirstRead
    <2>3. ReadBefore(sort, xs, x) \in SUBSET front
      BY <2>2 DEF ReadBefore
    <2>4. Cardinality(ReadBefore(sort, xs, x)) <= Cardinality(front)
      BY <1>4, <2>3, FS_Subset DEF Snapshot
    <2>5. Count(x) = Cardinality(ReadBefore(sort, xs, x)) /\ ~(Count(x) < n) /\ Count(x) \in Nat
      BY <1>1, <1>2, <2>2 DEF Count
    <2>6. QED
      BY <1>6, <1>8, <2>4, <2>5
  <1>9. QED
    BY <1>4, <1>5, <1>6, <1>7, <1>8 DEF front

-----------------------------------------------------------------------------
(* What a search carries through its steps.                                  *)
At == {"NONE", "SCAN", "JUDGE", "LOOK", "JUDGE_REST", "MORE", "NO_MORE", "END"}
Searches == [at : At, sort : Sorts, from : SearchCursors, cursor : SearchCursors,
             batch : SUBSET Read, found : SUBSET Read, last : SearchCursors]
ResultPages == [sort : Sorts, shown : BOOLEAN, items : SUBSET Nat, cursor : SearchCursors, more : BOOLEAN, failed : BOOLEAN]

SearchTypes ==
  /\ listing \in [Ids -> [approved : Nat, price : Prices, visible : BOOLEAN]]
  /\ now \in Nat
  /\ search \in Searches /\ Snapshot(search.batch) /\ IsFiniteSet(search.found)
  /\ results \in ResultPages
  /\ steady \subseteq Ids

Steady == \A i \in steady :
  listing[i].approved # 0 /\ listing[i].visible /\ (results.sort = "newest" => ~SameMillisecond(i))

(* A listing that stayed is shown, found, or still to come past a cursor.    *)
ToCome(mark) == \A i \in steady : i \in results.items \cup FoundIds \/ Follows(results.sort, Candidate(i), mark)

ShownSoFar ==
  /\ ~results.shown => results.items = {}
  /\ results.shown => \A i \in steady :
       i \in results.items \/ (results.more /\ Follows(results.sort, Candidate(i), results.cursor))
  /\ results.shown /\ results.more => ~results.cursor.none

Scanning == search.at \in {"SCAN", "JUDGE"}
Looking == search.at \in {"LOOK", "JUDGE_REST"}

SearchOf ==
  search.at # "NONE" =>
    /\ search.sort = results.sort /\ search.from = results.cursor /\ (results.shown <=> ~search.from.none)
    /\ search.last.none <=> search.found = {}
    /\ ~search.last.none => Past(search.sort, search.last, search.from)

Progress ==
  /\ Scanning => /\ search.cursor = search.from \/ Past(search.sort, search.cursor, search.from)
                 /\ Cardinality(search.found) < Limit
                 /\ \A x \in search.found : ~Follows(search.sort, x, search.cursor)
  /\ Scanning \/ Looking => ToCome(search.cursor)
  /\ Looking \/ search.at = "MORE" => search.found # {} /\ ToCome(search.last)
  /\ search.at \in {"NO_MORE", "END"} => steady \subseteq results.items \cup FoundIds

(* A batch: what follows the cursor, all of it or the first of it, and the  *)
(* listings that stayed among it as they are.                               *)
Batched ==
  search.at \in {"JUDGE", "JUDGE_REST"} =>
    /\ search.batch # {}
    /\ \A x \in search.batch : Follows(search.sort, x, search.cursor)
    /\ \A i \in steady : Follows(search.sort, Candidate(i), search.cursor) =>
         \/ Candidate(i) \in search.batch
         \/ Cardinality(search.batch) >= Batch /\ \A y \in search.batch : Precedes(search.sort, y, Candidate(i))
    /\ \A i \in steady : \A y \in search.batch : y = Candidate(i) \/ Apart(search.sort, Candidate(i), y)

SearchInv == SearchTypes /\ Steady /\ ShownSoFar /\ SearchOf /\ Progress /\ Batched
LEMMA NoSearchTypes ==
  /\ NoCursor \in SearchCursors /\ NoCursor.none /\ Snapshot({}) /\ IsFiniteSet({})
  /\ NoSearch.at = "NONE" /\ NoSearch.batch = {} /\ NoSearch.found = {} /\ NoSearch.sort \in Sorts
  /\ NoSearch \in Searches
  <1>1. NoCursor \in SearchCursors /\ NoCursor.none
    BY DEF NoCursor, SearchCursors
  <1>2. Snapshot({}) /\ IsFiniteSet({})
    BY FS_EmptySet DEF Snapshot
  <1>3. QED
    BY <1>1, <1>2 DEF NoSearch, Sorts, Searches, At

LEMMA SearchStarts == ASSUME SearchInit PROVE SearchInv
  <1>1. search = NoSearch /\ steady = {} /\ search.at = "NONE"
    BY DEF SearchInit, NoSearch
  <1>2. SearchTypes
    <2>1. listing \in [Ids -> [approved : Nat, price : Prices, visible : BOOLEAN]] /\ now \in Nat
      BY DEF SearchInit
    <2>2. results \in ResultPages
      BY NoSearchTypes DEF SearchInit, Sorts, ResultPages
    <2>3. /\ search.from = NoCursor /\ search.cursor = NoCursor /\ search.last = NoCursor
      BY <1>1 DEF NoSearch
    <2>4. QED
      BY <1>1, <2>1, <2>2, <2>3, NoSearchTypes DEF SearchTypes
  <1>3. Steady /\ ShownSoFar /\ SearchOf /\ Progress /\ Batched
    BY <1>1 DEF SearchInit, Steady, ShownSoFar, SearchOf, Progress, Batched, Scanning, Looking
  <1>4. QED
    BY <1>2, <1>3 DEF SearchInv

LEMMA CandidateRead ==
  ASSUME SearchTypes, NEW i \in Ids
  PROVE  Candidate(i) \in Read /\ Candidate(i).id = i
  <1>1. listing[i].approved \in Nat /\ listing[i].price \in Nat /\ i \in Nat
    BY ListingSearchAssumption DEF SearchTypes
  <1>2. QED
    BY <1>1 DEF Candidate, Read

(* What stayed and was still to come is in the batch, or follows its last.  *)
LEMMA AfterBatch ==
  ASSUME SearchInv, search.at \in {"JUDGE", "JUDGE_REST"}, NEW i \in steady
  PROVE  /\ \A y \in search.batch : Precedes(search.sort, y, Candidate(i)) =>
              Follows(search.sort, Candidate(i), CursorOf(search.sort, y))
         /\ Follows(search.sort, Candidate(i), search.cursor) =>
              \/ Candidate(i) \in search.batch
              \/ /\ Cardinality(search.batch) >= Batch
                 /\ Follows(search.sort, Candidate(i), CursorOf(search.sort, Final(search.sort, search.batch)))
  <1>1. Candidate(i) \in Read /\ search.sort \in Sorts /\ search.batch \subseteq Read
    BY CandidateRead DEF SearchInv, SearchTypes, Snapshot, Searches
  <1>2. \A y \in search.batch : y = Candidate(i) \/ Apart(search.sort, Candidate(i), y)
    BY DEF SearchInv, Batched
  <1>3. \A y \in search.batch : Precedes(search.sort, y, Candidate(i)) =>
              Follows(search.sort, Candidate(i), CursorOf(search.sort, y))
    BY <1>1, <1>2, CursorParts, ReadOrder
  <1>4. Final(search.sort, search.batch) \in search.batch
    BY <1>1, FinalOf DEF SearchInv, SearchTypes, Batched
  <1>5. Follows(search.sort, Candidate(i), search.cursor) =>
         \/ Candidate(i) \in search.batch
         \/ Cardinality(search.batch) >= Batch /\ \A y \in search.batch : Precedes(search.sort, y, Candidate(i))
    BY DEF SearchInv, Batched
  <1>6. QED
    BY <1>3, <1>4, <1>5

LEMMA NewSearchKeeps == ASSUME SearchInv, NEW sort \in Sorts, NewSearch(sort) PROVE SearchInv'
  <1>1. /\ search' = [NoSearch EXCEPT !.at = "SCAN", !.sort = sort, !.from = NoCursor, !.cursor = NoCursor]
        /\ results' = [sort |-> sort, shown |-> FALSE, items |-> {}, cursor |-> NoCursor, more |-> FALSE, failed |-> FALSE]
        /\ steady' = {i \in Published : sort = "newest" => ~SameMillisecond(i)}
        /\ listing' = listing /\ now' = now
    BY DEF NewSearch, Begin
  <1>2. /\ search'.at = "SCAN" /\ search'.sort = sort /\ search'.from = NoCursor /\ search'.cursor = NoCursor
        /\ search'.last = NoCursor /\ search'.found = {} /\ search'.batch = {}
        /\ results'.sort = sort /\ ~results'.shown /\ results'.items = {} /\ results'.cursor = NoCursor
    BY <1>1 DEF NoSearch
  <1>3. SearchTypes'
    <2>1. steady' \subseteq Ids
      BY <1>1 DEF Published
    <2>2. results' \in ResultPages
      BY <1>1, NoSearchTypes DEF ResultPages
    <2>3. search' \in Searches
      BY <1>1, NoSearchTypes DEF Searches, At
    <2>4. QED
      BY <1>1, <1>2, <2>1, <2>2, <2>3, NoSearchTypes DEF SearchInv, SearchTypes
  <1>4. Steady'
    BY <1>1, <1>2 DEF Steady, Published, SameMillisecond
  <1>5. ShownSoFar' /\ SearchOf'
    BY <1>2, NoSearchTypes DEF ShownSoFar, SearchOf
  <1>6. Progress' /\ Batched'
    <2>1. \A x, s : Follows(s, x, NoCursor)
      BY NoSearchTypes DEF Follows
    <2>2. 0 < Limit /\ Cardinality({}) = 0
      BY ListingSearchAssumption, FS_EmptySet
    <2>3. QED
      BY <1>2, <2>1, <2>2 DEF Progress, Batched, Scanning, Looking, ToCome
  <1>7. QED
    BY <1>3, <1>4, <1>5, <1>6 DEF SearchInv

LEMMA LoadMoreKeeps == ASSUME SearchInv, LoadMore PROVE SearchInv'
  <1>1. /\ search' = [NoSearch EXCEPT !.at = "SCAN", !.sort = results.sort, !.from = results.cursor, !.cursor = results.cursor]
        /\ results' = [results EXCEPT !.failed = FALSE]
        /\ results.shown /\ results.more
        /\ listing' = listing /\ now' = now /\ steady' = steady
    BY DEF LoadMore, Begin
  <1>2. results \in ResultPages
    BY DEF SearchInv, SearchTypes
  <1>3. /\ search'.at = "SCAN" /\ search'.sort = results.sort /\ search'.from = results.cursor /\ search'.cursor = results.cursor
        /\ search'.last = NoCursor /\ search'.found = {} /\ search'.batch = {}
        /\ results'.sort = results.sort /\ results'.shown = results.shown /\ results'.items = results.items
        /\ results'.cursor = results.cursor /\ results'.more = results.more
    BY <1>1, <1>2 DEF NoSearch, ResultPages, Searches
  <1>4. SearchTypes'
    <2>1. results' \in ResultPages
      BY <1>1, <1>2 DEF ResultPages
    <2>2. search' \in Searches
      BY <1>1, <1>2, NoSearchTypes DEF Searches, At, ResultPages
    <2>3. results.sort \in Sorts /\ results.cursor \in SearchCursors
      BY <1>2 DEF ResultPages
    <2>4. QED
      BY <1>1, <1>3, <2>1, <2>2, <2>3, NoSearchTypes DEF SearchInv, SearchTypes
  <1>5. Steady'
    BY <1>1, <1>3 DEF SearchInv, Steady, SameMillisecond
  <1>6. ShownSoFar' /\ SearchOf'
    <2>1. ShownSoFar'
      BY <1>1, <1>3 DEF SearchInv, ShownSoFar, Candidate
    <2>2. ~results.cursor.none
      BY <1>1 DEF SearchInv, ShownSoFar
    <2>3. QED
      BY <1>1, <1>3, <2>1, <2>2, NoSearchTypes DEF SearchOf
  <1>7. Progress' /\ Batched'
    <2>1. 0 < Limit /\ Cardinality({}) = 0
      BY ListingSearchAssumption, FS_EmptySet
    <2>2. ToCome(search.cursor)'
      BY <1>1, <1>3 DEF SearchInv, ShownSoFar, ToCome, Candidate
    <2>3. QED
      BY <1>3, <2>1, <2>2 DEF Progress, Batched, Scanning, Looking
  <1>8. QED
    BY <1>4, <1>5, <1>6, <1>7 DEF SearchInv
(* Nothing but the search changes.                                           *)
LEMMA PageStands ==
  ASSUME SearchInv, UNCHANGED <<listing, results, steady>>
  PROVE  /\ Steady' /\ ShownSoFar'
         /\ \A i : Candidate(i)' = Candidate(i)
  <1>1. \A i : Candidate(i)' = Candidate(i)
    BY DEF Candidate
  <1>2. Steady'
    BY DEF SearchInv, Steady, SameMillisecond
  <1>3. ShownSoFar'
    BY <1>1 DEF SearchInv, ShownSoFar
  <1>4. QED
    BY <1>1, <1>2, <1>3

LEMMA CandidatesSnapshot ==
  ASSUME SearchInv
  PROVE  LET all == {x \in {Candidate(i) : i \in {j \in Ids : listing[j].approved # 0}} : Follows(search.sort, x, search.cursor)} IN
         /\ Snapshot(all) /\ Candidates(search.sort, search.cursor) = First(Batch, search.sort, all)
         /\ \A i \in steady : Follows(search.sort, Candidate(i), search.cursor) => Candidate(i) \in all
         /\ \A x \in all : Follows(search.sort, x, search.cursor) /\ x.id \in Ids /\ x = Candidate(x.id)
  <1> DEFINE all == {x \in {Candidate(i) : i \in {j \in Ids : listing[j].approved # 0}} : Follows(search.sort, x, search.cursor)}
  <1>1. \A x \in all : \E i \in Ids : x = Candidate(i) /\ Follows(search.sort, x, search.cursor)
    OBVIOUS
  <1>2. \A i \in Ids : Candidate(i) \in Read /\ Candidate(i).id = i
    BY CandidateRead DEF SearchInv
  <1>3. \A i \in steady : i \in Ids /\ listing[i].approved # 0
    BY DEF SearchInv, SearchTypes, Steady
  <1>4. \A i \in steady : Follows(search.sort, Candidate(i), search.cursor) => Candidate(i) \in all
    BY <1>3
  <1>5. Candidates(search.sort, search.cursor) = First(Batch, search.sort, all)
    BY DEF Candidates
  <1> HIDE DEF all
  <1>6. \A x \in all : Follows(search.sort, x, search.cursor) /\ x \in Read /\ x.id \in Ids /\ x = Candidate(x.id)
    BY <1>1, <1>2
  <1>7. IsFiniteSet(all)
    <2> DEFINE f == [x \in all |-> x.id]
               ids == {x.id : x \in all}
    <2>1. IsFiniteSet(ids)
      BY <1>6, FS_Subset, ListingSearchAssumption
    <2>2. f \in Injection(all, ids)
      BY <1>6 DEF Injection, IsInjective
    <2>3. QED
      BY <2>1, <2>2, FS_Injection
  <1>8. Snapshot(all)
    BY <1>6, <1>7 DEF Snapshot
  <1>9. QED
    BY <1>4, <1>5, <1>6, <1>8 DEF all

LEMMA ScanKeeps == ASSUME SearchInv, Scan PROVE SearchInv'
  <1> DEFINE found == Candidates(search.sort, search.cursor)
             all == {x \in {Candidate(i) : i \in {j \in Ids : listing[j].approved # 0}} : Follows(search.sort, x, search.cursor)}
             scan == search.at = "SCAN"
  <1>1. /\ search.at \in {"SCAN", "LOOK"} /\ UNCHANGED <<listing, now, results, steady>>
        /\ found = {} => search' = [search EXCEPT !.at = IF scan THEN "END" ELSE "NO_MORE"]
        /\ found # {} => search' = [search EXCEPT !.at = IF scan THEN "JUDGE" ELSE "JUDGE_REST", !.batch = found]
    BY DEF Scan
  <1>2. search \in Searches /\ search.sort \in Sorts /\ Batch \in Nat \ {0} /\ Limit \in Nat \ {0} /\ search.sort = results.sort
    BY <1>1, ListingSearchAssumption DEF SearchInv, SearchTypes, Searches, SearchOf
  <1>3. /\ Snapshot(all) /\ found = First(Batch, search.sort, all)
        /\ \A i \in steady : Follows(search.sort, Candidate(i), search.cursor) => Candidate(i) \in all
        /\ \A x \in all : Follows(search.sort, x, search.cursor) /\ x.id \in Ids /\ x = Candidate(x.id)
    BY CandidatesSnapshot
  <1> HIDE DEF found, all, scan
  <1>4. /\ found \subseteq all /\ Snapshot(found) /\ Cardinality(found) \in 0..Batch
        /\ \A y \in found : \A x \in all \ found : Precedes(search.sort, y, x)
        /\ Cardinality(found) < Batch => found = all
    BY <1>2, <1>3, FirstRows
  <1>5. /\ search'.sort = search.sort /\ search'.from = search.from /\ search'.cursor = search.cursor
        /\ search'.last = search.last /\ search'.found = search.found /\ FoundIds' = FoundIds
        /\ search'.batch = IF found = {} THEN search.batch ELSE found
        /\ search'.at = IF found = {} THEN IF scan THEN "END" ELSE "NO_MORE" ELSE IF scan THEN "JUDGE" ELSE "JUDGE_REST"
    BY <1>1, <1>2 DEF Searches, FoundIds
  <1>6. Steady' /\ ShownSoFar' /\ \A i : Candidate(i)' = Candidate(i)
    BY <1>1, PageStands
  <1>7. SearchTypes'
    <2>1. search' \in Searches
      BY <1>1, <1>2, <1>4 DEF Searches, At, Snapshot
    <2>2. QED
      BY <1>1, <1>4, <1>5, <2>1 DEF SearchInv, SearchTypes
  <1>8. SearchOf'
    BY <1>1, <1>5 DEF SearchInv, SearchOf
  <1>9. ToCome(search.cursor)
    BY <1>1 DEF SearchInv, Progress, Scanning, Looking
  <1>10. Progress'
    <2>1. CASE found = {}
      <3>1. all = {}
        BY <1>2, <1>4, <2>1, FS_EmptySet
      <3>2. steady \subseteq results.items \cup FoundIds
        BY <1>2, <1>3, <1>9, <3>1 DEF ToCome
      <3>3. QED
        BY <1>1, <1>5, <2>1, <3>2 DEF Progress, Scanning, Looking
    <2>2. CASE found # {}
      <3>1. ToCome(search.cursor)'
        BY <1>1, <1>5, <1>6, <1>9 DEF ToCome
      <3>2. CASE scan
        <4>1. search'.at = "JUDGE" /\ search.at = "SCAN"
          BY <1>5, <2>2, <3>2 DEF scan
        <4>2. QED
          BY <1>1, <1>5, <3>1, <4>1 DEF SearchInv, Progress, Scanning, Looking
      <3>3. CASE ~scan
        <4>1. search'.at = "JUDGE_REST" /\ search.at = "LOOK"
          BY <1>1, <1>5, <2>2, <3>3 DEF scan
        <4>2. ToCome(search.last)'
          BY <1>1, <1>5, <1>6, <4>1 DEF SearchInv, Progress, Looking, ToCome
        <4>3. search.found # {}
          BY <4>1 DEF SearchInv, Progress, Looking
        <4>4. QED
          BY <1>5, <3>1, <4>1, <4>2, <4>3 DEF Progress, Scanning, Looking
      <3>4. QED
        BY <3>2, <3>3
    <2>3. QED
      BY <2>1, <2>2
  <1>11. Batched'
    <2>1. SUFFICES ASSUME found # {} PROVE Batched'
      BY <1>5 DEF Batched
    <2>2. search'.batch = found
      BY <1>5, <2>1
    <2>3. \A x \in found : Follows(search.sort, x, search.cursor)
      BY <1>3, <1>4
    <2>4. \A i \in steady : Follows(search.sort, Candidate(i), search.cursor) =>
            Candidate(i) \in found \/ (Cardinality(found) >= Batch /\ \A y \in found : Precedes(search.sort, y, Candidate(i)))
      BY <1>2, <1>3, <1>4
    <2>5. ASSUME NEW i \in steady, NEW y \in found PROVE y = Candidate(i) \/ Apart(search.sort, Candidate(i), y)
      <3>1. y.id \in Ids /\ y = Candidate(y.id) /\ i \in Ids
        BY <1>3, <1>4 DEF SearchInv, SearchTypes
      <3>2. CASE y.id = i
        BY <3>1, <3>2
      <3>3. CASE y.id # i
        <4>1. Candidate(i).id = i /\ Candidate(i).approved = listing[i].approved /\ y.approved = listing[y.id].approved
          BY <3>1 DEF Candidate
        <4>2. search.sort = "newest" => Millisecond(listing[i].approved) # Millisecond(listing[y.id].approved)
          BY <1>2, <3>1, <3>3 DEF SearchInv, Steady, SameMillisecond
        <4>3. QED
          BY <3>3, <4>1, <4>2 DEF Apart
      <3>4. QED
        BY <3>2, <3>3
    <2>6. QED
      BY <1>1, <1>5, <1>6, <2>1, <2>2, <2>3, <2>4, <2>5 DEF Batched
  <1>12. QED
    BY <1>6, <1>7, <1>8, <1>10, <1>11 DEF SearchInv

LEMMA JudgeRestKeeps == ASSUME SearchInv, JudgeRest PROVE SearchInv'
  <1> DEFINE last == CursorOf(search.sort, Final(search.sort, search.batch))
             next == IF Visible # {} THEN "MORE" ELSE IF Cardinality(search.batch) < Batch THEN "NO_MORE" ELSE "LOOK"
  <1>1. /\ search.at = "JUDGE_REST" /\ UNCHANGED <<listing, now, results, steady>>
        /\ search' = [search EXCEPT !.batch = {}, !.at = next, !.cursor = last]
    BY DEF JudgeRest
  <1>2. search \in Searches /\ search.sort \in Sorts /\ search.sort = results.sort /\ Snapshot(search.batch) /\ search.batch # {}
    BY <1>1 DEF SearchInv, SearchTypes, Searches, SearchOf, Batched
  <1>3. last \in SearchCursors
    BY <1>2, FinalOf, CursorTypes DEF Snapshot
  <1> HIDE DEF last
  <1>4. next \in {"MORE", "NO_MORE", "LOOK"}
    OBVIOUS
  <1>5. /\ search'.sort = search.sort /\ search'.from = search.from /\ search'.cursor = last
        /\ search'.last = search.last /\ search'.found = search.found /\ FoundIds' = FoundIds
        /\ search'.batch = {} /\ search'.at = next
    BY <1>1, <1>2 DEF Searches, FoundIds
  <1>6. Steady' /\ ShownSoFar' /\ \A i : Candidate(i)' = Candidate(i)
    BY <1>1, PageStands
  <1>7. SearchTypes'
    <2>1. search' \in Searches
      BY <1>1, <1>2, <1>3, <1>4 DEF Searches, At
    <2>2. QED
      BY <1>1, <1>5, <2>1, NoSearchTypes DEF SearchInv, SearchTypes
  <1>8. SearchOf'
    BY <1>1, <1>5 DEF SearchInv, SearchOf
  <1>9. ToCome(search.cursor) /\ ToCome(search.last) /\ search.found # {}
    BY <1>1 DEF SearchInv, Progress, Scanning, Looking
  <1>10. ToCome(search.last)'
    BY <1>1, <1>5, <1>6, <1>9 DEF ToCome
  <1>11. ASSUME NEW i \in steady, Visible = {}
         PROVE  \/ i \in results.items \cup FoundIds
                \/ Cardinality(search.batch) >= Batch /\ Follows(search.sort, Candidate(i), last)
    <2>1. Candidate(i) \notin search.batch
      <3>1. Candidate(i).id = i /\ listing[i].visible
        BY DEF SearchInv, Steady, Candidate
      <3>2. QED
        BY <1>11, <3>1 DEF Visible
    <2>2. QED
      BY <1>1, <1>2, <1>9, <2>1, AfterBatch DEF ToCome, last
  <1>12. Progress'
    <2>1. CASE Visible # {}
      BY <1>5, <1>9, <1>10, <2>1 DEF Progress, Scanning, Looking
    <2>2. CASE Visible = {} /\ Cardinality(search.batch) < Batch
      <3>1. Cardinality(search.batch) \in Nat /\ Batch \in Nat
        BY <1>2, FS_CardinalityType, ListingSearchAssumption DEF Snapshot
      <3>2. steady \subseteq results.items \cup FoundIds
        BY <1>11, <2>2, <3>1
      <3>3. QED
        BY <1>1, <1>5, <2>2, <3>2 DEF Progress, Scanning, Looking
    <2>3. CASE Visible = {} /\ ~(Cardinality(search.batch) < Batch)
      <3>1. ToCome(search.cursor)'
        BY <1>1, <1>2, <1>5, <1>6, <1>11, <2>3 DEF ToCome
      <3>2. QED
        BY <1>5, <1>9, <1>10, <2>3, <3>1 DEF Progress, Scanning, Looking
    <2>4. QED
      BY <2>1, <2>2, <2>3
  <1>13. Batched'
    BY <1>4, <1>5 DEF Batched
  <1>14. QED
    BY <1>6, <1>7, <1>8, <1>12, <1>13 DEF SearchInv
(* What Judge makes of a batch: the rows it shows, and how far it got.      *)
Shows == First(Limit - Cardinality(search.found), search.sort, Visible)

LEMMA JudgeShows ==
  ASSUME SearchInv, search.at = "JUDGE"
  PROVE  /\ Shows \subseteq Visible /\ Visible \subseteq search.batch /\ Snapshot(Shows)
         /\ IsFiniteSet(search.found \cup Shows)
         /\ Cardinality(search.found \cup Shows) <= Limit
         /\ Cardinality(search.found \cup Shows) < Limit => Shows = Visible
         /\ \A y \in Shows : \A x \in Visible \ Shows : Precedes(search.sort, y, x)
         /\ Cardinality(search.found \cup Shows) = Limit => Shows # {}
  <1> DEFINE n == Limit - Cardinality(search.found)
  <1>1. /\ search.sort \in Sorts /\ Snapshot(search.batch) /\ IsFiniteSet(search.found)
        /\ Cardinality(search.found) < Limit /\ Limit \in Nat
        /\ \A x \in search.found : ~Follows(search.sort, x, search.cursor)
        /\ \A x \in search.batch : Follows(search.sort, x, search.cursor)
    BY ListingSearchAssumption DEF SearchInv, SearchTypes, Searches, Progress, Batched, Scanning
  <1>2. Cardinality(search.found) \in Nat /\ n \in Nat
    BY <1>1, FS_CardinalityType
  <1>3. Visible \in SUBSET search.batch /\ Snapshot(Visible)
    BY <1>1, FS_Subset DEF Visible, Snapshot
  <1>4. /\ Shows \subseteq Visible /\ Snapshot(Shows) /\ Cardinality(Shows) \in 0..n
        /\ \A y \in Shows : \A x \in Visible \ Shows : Precedes(search.sort, y, x)
        /\ Cardinality(Shows) < n => Shows = Visible
    BY <1>1, <1>2, <1>3, FirstRows DEF Shows
  <1>5. search.found \cap Shows = {}
    BY <1>1, <1>3, <1>4
  <1>6. /\ IsFiniteSet(search.found \cup Shows)
        /\ Cardinality(search.found \cup Shows) = Cardinality(search.found) + Cardinality(Shows) - Cardinality({})
    BY <1>1, <1>4, <1>5, FS_Union DEF Snapshot
  <1>7. Cardinality({}) = 0
    BY FS_EmptySet
  <1> HIDE DEF Shows
  <1>8. Shows = {} => Cardinality(Shows) = 0
    BY <1>7
  <1>9. QED
    BY <1>1, <1>2, <1>3, <1>4, <1>6, <1>7, <1>8

LEMMA JudgeKeeps == ASSUME SearchInv, Judge PROVE SearchInv'
  <1> DEFINE found == search.found \cup Shows
             last == IF Shows = {} THEN search.last ELSE CursorOf(search.sort, Final(search.sort, Shows))
             end == CursorOf(search.sort, Final(search.sort, search.batch))
             full == Cardinality(found) = Limit
             next == IF full THEN "LOOK" ELSE IF Cardinality(search.batch) < Batch THEN "END" ELSE "SCAN"
             mark == IF full THEN last ELSE end
  <1>1. /\ search.at = "JUDGE" /\ UNCHANGED <<listing, now, results, steady>>
        /\ search' = [search EXCEPT !.found = found, !.last = last, !.batch = {}, !.at = next, !.cursor = mark]
    BY DEF Judge, Shows
  <1>2. /\ search \in Searches /\ search.sort \in Sorts /\ search.sort = results.sort /\ Snapshot(search.batch) /\ search.batch # {}
        /\ search.cursor \in SearchCursors /\ search.from \in SearchCursors /\ search.last \in SearchCursors
    BY <1>1 DEF SearchInv, SearchTypes, Searches, SearchOf, Batched
  <1>3. /\ Shows \subseteq Visible /\ Visible \subseteq search.batch /\ Snapshot(Shows)
        /\ IsFiniteSet(found) /\ Cardinality(found) <= Limit
        /\ Cardinality(found) < Limit => Shows = Visible
        /\ \A y \in Shows : \A x \in Visible \ Shows : Precedes(search.sort, y, x)
        /\ full => Shows # {}
    BY <1>1, JudgeShows
  <1>4. /\ Cardinality(found) \in Nat /\ Limit \in Nat /\ Cardinality(search.batch) \in Nat /\ Batch \in Nat
    BY <1>2, <1>3, FS_CardinalityType, ListingSearchAssumption DEF Snapshot
  <1>5. /\ Final(search.sort, search.batch) \in search.batch
        /\ \A y \in search.batch : y = Final(search.sort, search.batch) \/ Precedes(search.sort, y, Final(search.sort, search.batch))
        /\ end \in SearchCursors /\ ~end.none
    BY <1>2, FinalOf, CursorTypes DEF Snapshot
  <1>6. Shows # {} =>
          /\ Final(search.sort, Shows) \in Shows
          /\ last = CursorOf(search.sort, Final(search.sort, Shows)) /\ last \in SearchCursors /\ ~last.none
    BY <1>2, <1>3, FinalOf, CursorTypes DEF Snapshot
  <1>7. \A y \in search.batch : y \in Read /\ Follows(search.sort, y, search.cursor)
    BY <1>1, <1>2 DEF SearchInv, Batched, Snapshot
  <1>8. last \in SearchCursors /\ (Shows = {} => last = search.last)
    BY <1>2, <1>6
  <1> HIDE DEF last, end, full, next, found
  <1>9. next \in {"LOOK", "END", "SCAN"} /\ mark \in SearchCursors
    BY <1>5, <1>8 DEF next
  <1> HIDE DEF mark
  <1>10. /\ search'.sort = search.sort /\ search'.from = search.from /\ search'.cursor = mark
         /\ search'.last = last /\ search'.found = found
         /\ search'.batch = {} /\ search'.at = next
    BY <1>1, <1>2 DEF Searches
  <1>11. Steady' /\ ShownSoFar' /\ \A i : Candidate(i)' = Candidate(i)
    BY <1>1, PageStands
  <1>12. found \subseteq Read
    BY <1>2, <1>3, <1>7 DEF Searches, found
  <1>13. SearchTypes'
    <2>1. search' \in Searches
      BY <1>1, <1>2, <1>8, <1>9, <1>12 DEF Searches, At
    <2>2. QED
      BY <1>1, <1>3, <1>10, <2>1, NoSearchTypes DEF SearchInv, SearchTypes
  <1>14. search.cursor = search.from \/ Past(search.sort, search.cursor, search.from)
    BY <1>1 DEF SearchInv, Progress, Scanning
  <1>15. ASSUME NEW y \in search.batch PROVE Past(search.sort, CursorOf(search.sort, y), search.from)
    <2>1. CursorOf(search.sort, y) \in SearchCursors /\ Past(search.sort, CursorOf(search.sort, y), search.cursor)
      BY <1>2, <1>7, CursorTypes, CursorOrder
    <2>2. QED
      BY <1>2, <1>7, <1>14, <2>1, CursorOrder
  <1>16. SearchOf'
    <2>1. (search.last.none <=> search.found = {}) /\ (~search.last.none => Past(search.sort, search.last, search.from))
      BY <1>1 DEF SearchInv, SearchOf
    <2>2. (last.none <=> found = {}) /\ (~last.none => Past(search.sort, last, search.from))
      <3>1. CASE Shows = {}
        BY <1>8, <2>1, <3>1 DEF found
      <3>2. CASE Shows # {}
        BY <1>3, <1>6, <1>15, <3>2 DEF found
      <3>3. QED
        BY <3>1, <3>2
    <2>3. search.sort = results.sort /\ search.from = results.cursor /\ (results.shown <=> ~search.from.none)
      BY <1>1 DEF SearchInv, SearchOf
    <2>4. QED
      BY <1>1, <1>10, <2>2, <2>3 DEF SearchOf
  <1>17. \A i : i \in FoundIds \/ (\E x \in Shows : x.id = i) => i \in FoundIds'
    BY <1>10 DEF FoundIds, found
  <1>18. ASSUME NEW i \in steady
         PROVE  \/ i \in results.items \cup FoundIds
                \/ /\ Follows(search.sort, Candidate(i), search.cursor)
                   /\ \/ Candidate(i) \in Visible
                      \/ /\ Cardinality(search.batch) >= Batch
                         /\ Follows(search.sort, Candidate(i), end)
                         /\ \A y \in search.batch : Precedes(search.sort, y, Candidate(i))
    <2>1. Candidate(i).id = i /\ listing[i].visible
      BY DEF SearchInv, Steady, Candidate
    <2>2. i \in results.items \cup FoundIds \/ Follows(search.sort, Candidate(i), search.cursor)
      BY <1>1, <1>2 DEF SearchInv, Progress, Scanning, ToCome
    <2>3. Follows(search.sort, Candidate(i), search.cursor) =>
           \/ Candidate(i) \in search.batch
           \/ Cardinality(search.batch) >= Batch /\ \A y \in search.batch : Precedes(search.sort, y, Candidate(i))
      BY <1>1 DEF SearchInv, Batched
    <2>4. \A y \in search.batch : Precedes(search.sort, y, Candidate(i)) => Follows(search.sort, Candidate(i), CursorOf(search.sort, y))
      BY <1>1, AfterBatch
    <2>5. QED
      BY <1>5, <2>1, <2>2, <2>3, <2>4 DEF Visible, end
  <1>19. Progress'
    <2>1. CASE full
      <3>1. next = "LOOK" /\ mark = last /\ Shows # {}
        BY <1>3, <2>1 DEF next, mark
      <3>2. ASSUME NEW i \in steady PROVE i \in results.items \cup FoundIds' \/ Follows(search.sort, Candidate(i), last)
        <4>1. CASE i \in results.items \cup FoundIds
          BY <1>17, <4>1
        <4>2. CASE Candidate(i) \in Shows
          <5>1. Candidate(i).id = i
            BY DEF Candidate
          <5>2. QED
            BY <1>17, <4>2, <5>1
        <4>3. CASE i \notin results.items \cup FoundIds /\ Candidate(i) \notin Shows
          <5>1. Final(search.sort, Shows) \in Shows /\ Final(search.sort, Shows) \in search.batch
            BY <1>3, <1>6, <3>1
          <5>2. Precedes(search.sort, Final(search.sort, Shows), Candidate(i))
            BY <1>3, <1>18, <4>3, <5>1
          <5>3. QED
            BY <1>1, <1>6, <3>1, <5>1, <5>2, AfterBatch
        <4>4. QED
          BY <4>1, <4>2, <4>3
      <3>3. found # {}
        BY <3>1 DEF found
      <3>4. ToCome(search.last)' /\ ToCome(search.cursor)'
        BY <1>1, <1>2, <1>10, <1>11, <3>1, <3>2 DEF ToCome
      <3>5. QED
        BY <1>10, <3>1, <3>3, <3>4 DEF Progress, Scanning, Looking
    <2>2. CASE ~full
      <3>1. mark = end /\ Cardinality(found) < Limit /\ Shows = Visible
        BY <1>3, <1>4, <2>2 DEF full, mark
      <3>2. ASSUME NEW i \in steady
            PROVE  \/ i \in results.items \cup FoundIds'
                   \/ Cardinality(search.batch) >= Batch /\ Follows(search.sort, Candidate(i), end)
        <4>1. Candidate(i).id = i
          BY DEF Candidate
        <4>2. QED
          BY <1>17, <1>18, <3>1, <4>1
      <3>3. CASE Cardinality(search.batch) < Batch
        <4>1. next = "END"
          BY <2>2, <3>3 DEF next
        <4>2. steady \subseteq results.items \cup FoundIds'
          BY <1>4, <3>2, <3>3
        <4>3. QED
          BY <1>1, <1>10, <4>1, <4>2 DEF Progress, Scanning, Looking
      <3>4. CASE ~(Cardinality(search.batch) < Batch)
        <4>1. next = "SCAN"
          BY <2>2, <3>4 DEF next
        <4>2. ToCome(search.cursor)'
          BY <1>1, <1>2, <1>10, <1>11, <3>1, <3>2 DEF ToCome
        <4>3. Past(search.sort, end, search.from)
          BY <1>5, <1>15 DEF end
        <4>4. ASSUME NEW x \in found PROVE ~Follows(search.sort, x, end)
          <5>1. x \in Read
            BY <1>12
          <5>2. CASE x \in search.found
            <6>1. ~Follows(search.sort, x, search.cursor)
              BY <1>1, <5>2 DEF SearchInv, Progress, Scanning
            <6>2. Past(search.sort, end, search.cursor)
              BY <1>2, <1>5, <1>7, CursorOrder DEF end
            <6>3. QED
              BY <1>2, <1>5, <5>1, <6>1, <6>2, CursorOrder
          <5>3. CASE x \in Shows
            <6> DEFINE f == Final(search.sort, search.batch)
            <6>1. x \in search.batch /\ f \in search.batch /\ f \in Read
              BY <1>3, <1>5, <1>7, <5>3
            <6>2. x = f \/ Precedes(search.sort, x, f)
              BY <1>5, <6>1
            <6>3. ~Precedes(search.sort, f, x)
              BY <1>2, <5>1, <6>1, <6>2, ReadOrder
            <6>4. QED
              BY <1>2, <5>1, <6>1, <6>3, CursorParts DEF end
          <5>4. QED
            BY <4>4, <5>2, <5>3 DEF found
        <4>5. QED
          BY <1>10, <3>1, <4>1, <4>2, <4>3, <4>4 DEF Progress, Scanning, Looking
      <3>5. QED
        BY <3>3, <3>4
    <2>3. QED
      BY <2>1, <2>2
  <1>20. Batched'
    BY <1>9, <1>10 DEF Batched
  <1>21. QED
    BY <1>11, <1>13, <1>16, <1>19, <1>20 DEF SearchInv

LEMMA ResultsArriveKeeps == ASSUME SearchInv, ResultsArrive PROVE SearchInv'
  <1> DEFINE mark == IF search.at = "MORE" THEN search.last ELSE NoCursor
             items == IF search.from.none THEN FoundIds ELSE results.items \cup FoundIds
             more == ~mark.none /\ mark # search.from
  <1>1. /\ search.at \in {"END", "MORE", "NO_MORE"} /\ search' = NoSearch
        /\ results' = [results EXCEPT !.shown = TRUE, !.cursor = mark, !.more = more, !.items = items]
        /\ listing' = listing /\ now' = now /\ steady' = steady
    BY DEF ResultsArrive
  <1>2. results \in ResultPages /\ search \in Searches /\ search.from \in SearchCursors /\ search.last \in SearchCursors /\ search.sort \in Sorts
    BY DEF SearchInv, SearchTypes, Searches
  <1>3. /\ search.sort = results.sort /\ search.from = results.cursor /\ (results.shown <=> ~search.from.none)
        /\ search.last.none <=> search.found = {}
        /\ ~search.last.none => Past(search.sort, search.last, search.from)
        /\ ~results.shown => results.items = {}
    BY <1>1 DEF SearchInv, SearchOf, ShownSoFar
  <1>4. items = results.items \cup FoundIds
    BY <1>3
  <1>5. mark \in SearchCursors /\ more \in BOOLEAN /\ items \in SUBSET Nat
    <2>1. FoundIds \subseteq Nat
      BY <1>2 DEF FoundIds, Searches, Read
    <2>2. QED
      BY <1>2, <1>4, <2>1, NoSearchTypes DEF ResultPages
  <1>6. search.at = "MORE" => mark = search.last /\ more /\ ~mark.none
    <2>1. SUFFICES ASSUME search.at = "MORE" PROVE mark = search.last /\ more /\ ~mark.none
      OBVIOUS
    <2>2. search.found # {} /\ mark = search.last
      BY <2>1 DEF SearchInv, Progress
    <2>3. ~search.last.none /\ Past(search.sort, search.last, search.from) /\ search.last \in SearchCursors
      BY <1>2, <1>3, <2>2
    <2>4. PICK x \in search.found : x \in Read
      BY <1>2, <2>2 DEF Searches
    <2>5. search.last # search.from
      BY <1>2, <2>3, <2>4, CursorOrder
    <2>6. QED
      BY <2>2, <2>3, <2>5
  <1>7. search.at # "MORE" => ~more /\ steady \subseteq items
    <2>1. NoCursor.none
      BY NoSearchTypes
    <2>2. search.at # "MORE" => steady \subseteq results.items \cup FoundIds
      BY <1>1 DEF SearchInv, Progress
    <2>3. QED
      BY <1>4, <2>1, <2>2
  <1>8. \A i \in steady : i \in items \/ (more /\ Follows(results.sort, Candidate(i), mark))
    <2>1. search.at = "MORE" => \A i \in steady : i \in items \/ Follows(results.sort, Candidate(i), search.last)
      BY <1>4 DEF SearchInv, Progress, ToCome
    <2>2. QED
      BY <1>6, <1>7, <2>1
  <1>9. more => ~mark.none
    OBVIOUS
  <1> HIDE DEF mark, items, more
  <1>10. /\ results'.sort = results.sort /\ results'.shown /\ results'.items = items
         /\ results'.cursor = mark /\ results'.more = more
    BY <1>1, <1>2 DEF ResultPages
  <1>11. SearchTypes'
    <2>1. results' \in ResultPages
      BY <1>1, <1>2, <1>5 DEF ResultPages
    <2>2. QED
      BY <1>1, <2>1, NoSearchTypes DEF SearchInv, SearchTypes
  <1>12. Steady'
    BY <1>1, <1>10 DEF SearchInv, Steady, SameMillisecond
  <1>13. ShownSoFar'
    BY <1>1, <1>8, <1>9, <1>10 DEF ShownSoFar, Candidate
  <1>14. SearchOf' /\ Progress' /\ Batched'
    BY <1>1, NoSearchTypes DEF SearchOf, Progress, Batched, Scanning, Looking
  <1>15. QED
    BY <1>11, <1>12, <1>13, <1>14 DEF SearchInv

LEMMA SearchFailsKeeps == ASSUME SearchInv, SearchFails PROVE SearchInv'
  <1>1. /\ search' = NoSearch /\ results' = [results EXCEPT !.failed = TRUE]
        /\ listing' = listing /\ now' = now /\ steady' = steady
    BY DEF SearchFails
  <1>2. results \in ResultPages
    BY DEF SearchInv, SearchTypes
  <1>3. /\ results'.sort = results.sort /\ results'.shown = results.shown /\ results'.items = results.items
        /\ results'.cursor = results.cursor /\ results'.more = results.more /\ results' \in ResultPages
    BY <1>1, <1>2 DEF ResultPages
  <1>4. SearchTypes'
    BY <1>1, <1>3, NoSearchTypes DEF SearchInv, SearchTypes
  <1>5. Steady'
    BY <1>1, <1>3 DEF SearchInv, Steady, SameMillisecond
  <1>6. ShownSoFar'
    BY <1>1, <1>3 DEF SearchInv, ShownSoFar, Candidate
  <1>7. SearchOf' /\ Progress' /\ Batched'
    BY <1>1, NoSearchTypes DEF SearchOf, Progress, Batched, Scanning, Looking
  <1>8. QED
    BY <1>4, <1>5, <1>6, <1>7 DEF SearchInv
(* A change of one listing: what stayed is another, told apart from it.     *)
LEMMA ChangesKeep ==
  ASSUME SearchInv, NEW i \in Ids, NEW new \in [approved : Nat, price : Prices, visible : BOOLEAN],
         Changes(i, new), now' \in Nat
  PROVE  SearchInv'
  <1>1. /\ listing' = [listing EXCEPT ![i] = new] /\ search' = search /\ results' = results
        /\ steady' = {j \in steady \ {i} : results.sort = "newest" => ~SameMillisecond(j)'}
    BY DEF Changes
  <1>2. listing \in [Ids -> [approved : Nat, price : Prices, visible : BOOLEAN]] /\ steady \subseteq Ids
    BY DEF SearchInv, SearchTypes
  <1>3. SearchTypes'
    BY <1>1, <1>2 DEF SearchInv, SearchTypes
  <1>4. \A j \in steady' : /\ j \in steady /\ listing'[j] = listing[j] /\ Candidate(j)' = Candidate(j)
                           /\ (results.sort = "newest" => ~SameMillisecond(j)')
    BY <1>1, <1>2 DEF Candidate
  <1>5. Steady'
    BY <1>1, <1>4 DEF SearchInv, Steady
  <1>6. FoundIds' = FoundIds
    BY <1>1 DEF FoundIds
  <1>7. ShownSoFar' /\ SearchOf'
    BY <1>1, <1>4 DEF SearchInv, ShownSoFar, SearchOf
  <1>8. \A c : ToCome(c) => \A j \in steady' : j \in results.items \cup FoundIds \/ Follows(results.sort, Candidate(j)', c)
    BY <1>4 DEF ToCome
  <1>9. (ToCome(search.cursor) => ToCome(search.cursor)') /\ (ToCome(search.last) => ToCome(search.last)')
    BY <1>1, <1>4, <1>6 DEF ToCome
  <1>10. Progress'
    BY <1>1, <1>4, <1>6, <1>9 DEF SearchInv, Progress, Scanning, Looking
  <1>11. Batched'
    BY <1>1, <1>4 DEF SearchInv, Batched
  <1>12. QED
    BY <1>3, <1>5, <1>7, <1>10, <1>11 DEF SearchInv

LEMMA ListingsChange ==
  ASSUME SearchInv, NEW i \in Ids, Approve(i) \/ HideOrShow(i) \/ Reprice(i)
  PROVE  SearchInv'
  <1>1. /\ listing[i].approved \in Nat /\ listing[i].price \in Prices /\ listing[i].visible \in BOOLEAN
        /\ listing[i] \in [approved : Nat, price : Prices, visible : BOOLEAN] /\ now \in Nat
    BY DEF SearchInv, SearchTypes
  <1>2. CASE Approve(i)
    <2>1. PICK later \in {0, 1} : now' = now + later /\ Changes(i, [listing[i] EXCEPT !.approved = now + later, !.visible = TRUE])
      BY <1>2 DEF Approve
    <2>2. now + later \in Nat
      BY <1>1
    <2> DEFINE at == now + later
    <2>3. at \in Nat
      BY <2>2
    <2> HIDE DEF at
    <2>4. [listing[i] EXCEPT !.approved = at, !.visible = TRUE] \in [approved : Nat, price : Prices, visible : BOOLEAN]
      BY <1>1, <2>3
    <2>5. now' \in Nat /\ Changes(i, [listing[i] EXCEPT !.approved = at, !.visible = TRUE])
      BY <2>1, <2>3 DEF at
    <2>6. QED
      BY <2>4, <2>5, ChangesKeep
  <1>3. CASE HideOrShow(i)
    <2>1. now' \in Nat
      BY <1>1, <1>3 DEF HideOrShow
    <2>2. /\ [listing[i] EXCEPT !.visible = ~@] \in [approved : Nat, price : Prices, visible : BOOLEAN]
          /\ [listing[i] EXCEPT !.approved = 0] \in [approved : Nat, price : Prices, visible : BOOLEAN]
      BY <1>1
    <2>3. \/ Changes(i, [listing[i] EXCEPT !.visible = ~@])
          \/ Changes(i, [listing[i] EXCEPT !.approved = 0])
      BY <1>3 DEF HideOrShow
    <2>4. QED
      BY <2>1, <2>2, <2>3, ChangesKeep
  <1>4. CASE Reprice(i)
    <2>1. PICK price \in Prices \ {listing[i].price} : Changes(i, [listing[i] EXCEPT !.price = price])
      BY <1>4 DEF Reprice
    <2>2. now' \in Nat /\ [listing[i] EXCEPT !.price = price] \in [approved : Nat, price : Prices, visible : BOOLEAN]
      BY <1>1, <1>4 DEF Reprice
    <2>3. QED
      BY <2>1, <2>2, ChangesKeep
  <1>5. QED
    BY <1>2, <1>3, <1>4

LEMMA SearchStep == ASSUME SearchInv, [SearchNext]_searchVars PROVE SearchInv'
  <1>1. CASE UNCHANGED searchVars
    <2>1. UNCHANGED <<listing, now, search, results, steady>>
      BY <1>1 DEF searchVars
    <2>2. \A i : Candidate(i)' = Candidate(i)
      BY <2>1 DEF Candidate
    <2>3. FoundIds' = FoundIds /\ (\A c : ToCome(c)' <=> ToCome(c)) /\ \A i : SameMillisecond(i)' <=> SameMillisecond(i)
      BY <2>1, <2>2 DEF FoundIds, ToCome, SameMillisecond
    <2>4. QED
      BY <2>1, <2>2, <2>3 DEF SearchInv, SearchTypes, Steady, ShownSoFar, SearchOf, Progress, Batched, Scanning, Looking, ToCome
  <1>2. CASE SearchNext
    BY <1>2, NewSearchKeeps, LoadMoreKeeps, ScanKeeps, JudgeKeeps, JudgeRestKeeps, ResultsArriveKeeps,
       SearchFailsKeeps, ListingsChange DEF SearchNext
  <1>3. QED
    BY <1>1, <1>2

(* Whoever loads more until there is no more has seen every listing that    *)
(* stayed as it was, however many listings and pages there are and whatever *)
(* became of the others on the way.                                         *)
THEOREM FoundAllCorrect == SearchSpec => []FoundAll
  <1>1. SearchInit => SearchInv
    BY SearchStarts
  <1>2. SearchInv /\ [SearchNext]_searchVars => SearchInv'
    BY SearchStep
  <1>3. SearchInv => FoundAll
    BY DEF SearchInv, ShownSoFar, FoundAll
  <1>4. QED
    BY <1>1, <1>2, <1>3, PTL DEF SearchSpec
=============================================================================
