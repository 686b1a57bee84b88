----------------------------- MODULE ListingSearch -----------------------------
(***************************************************************************)
(* The search page (web app/listings/page.tsx) over the public search      *)
(* (public-listing.ts): a page of results is gathered batch by batch, each *)
(* batch read in one snapshot and judged visible in a later one, and the   *)
(* next page starts after the cursor of the last listing shown, while      *)
(* listings are approved, hidden and given new prices.                     *)
(*                                                                         *)
(* Approval times have two instants to the millisecond, of which a cursor  *)
(* keeps the millisecond alone.  A search that another one supersedes is   *)
(* aborted and leaves no trace; filters that do not order are left out.    *)
(***************************************************************************)
EXTENDS Naturals, FiniteSets

CONSTANTS Ids,       \* of listings, numbers
          Prices,    \* amounts
          Limit,     \* listings on a page of results (12)
          Batch,     \* listings in a snapshot (100)
          MaxEvents  \* bound: changes of listings while the page is open

ASSUME ListingSearchAssumption ==
  Ids \subseteq Nat /\ IsFiniteSet(Ids) /\ Prices \subseteq Nat /\ {Limit, Batch} \subseteq Nat \ {0} /\ MaxEvents \in Nat

VARIABLES listing,  \* [approved, price, visible], approved 0 while unpublished
          now,      \* instants
          events,   \* changes so far
          search,   \* the request under way, see NoSearch
          results,  \* what the page shows
          steady    \* listings visible, unchanged and told apart since the search began

searchVars == <<listing, now, events, search, results, steady>>

Sorts == {"newest", "price_asc"}
NoCursor == [value |-> 0, id |-> 0, none |-> TRUE]

\* at: what it does next; sort, from: of the request; cursor: where it scans on;
\* batch: candidates read; found: those shown; last: cursor of the last of them.
\* A listing that moves behind the cursor is found again, and counts again.
NoSearch == [at |-> "NONE", sort |-> "newest", from |-> NoCursor, cursor |-> NoCursor, batch |-> {}, found |-> {}, last |-> NoCursor]

SearchInit ==
  /\ listing \in [Ids -> [approved : {0, 2, 4}, price : Prices, visible : BOOLEAN]]
  /\ now = 4 /\ events = 0 /\ search = NoSearch /\ steady = {}
  /\ results = [sort |-> "newest", shown |-> FALSE, items |-> {}, cursor |-> NoCursor, more |-> FALSE, failed |-> FALSE]

(* Order and cursors.  The newest come first, or the lowest price; the id  *)
(* decides between equals.                                                 *)
Candidate(i) == [id |-> i, approved |-> listing[i].approved, price |-> listing[i].price]
Precedes(sort, x, y) ==
  IF sort = "newest" THEN x.approved > y.approved \/ (x.approved = y.approved /\ x.id > y.id)
  ELSE x.price < y.price \/ (x.price = y.price /\ x.id < y.id)

Millisecond(instant) == 2 * (instant \div 2)
CursorOf(sort, x) ==
  [value |-> IF sort = "newest" THEN Millisecond(x.approved) ELSE x.price, id |-> x.id, none |-> FALSE]

\* Mutant of Follows: the cursor has no tie-break.
FollowsByValue(sort, x, cursor) ==
  \/ cursor.none
  \/ sort = "newest" /\ x.approved < cursor.value
  \/ sort = "price_asc" /\ x.price > cursor.value
Follows(sort, x, cursor) ==
  \/ cursor.none
  \/ sort = "newest" /\ (x.approved < cursor.value \/ (x.approved = cursor.value /\ x.id < cursor.id))
  \/ sort = "price_asc" /\ (x.price > cursor.value \/ (x.price = cursor.value /\ x.id > cursor.id))

First(n, sort, xs) == {x \in xs : Cardinality({y \in xs : Precedes(sort, y, x)}) < n}
Final(sort, xs) == CHOOSE x \in xs : \A y \in xs : ~Precedes(sort, x, y)

Candidates(sort, cursor) ==
  First(Batch, sort, {x \in {Candidate(i) : i \in {j \in Ids : listing[j].approved # 0}} : Follows(sort, x, cursor)})

(* The page: a new search, the next page, the same search again.           *)
Begin(sort, from) ==
  search' = [NoSearch EXCEPT !.at = "SCAN", !.sort = sort, !.from = from, !.cursor = from]

\* The newest of one millisecond: the cursor passes over those approved earlier in it.
SameMillisecond(i) == \E j \in Ids \ {i} : Millisecond(listing[i].approved) = Millisecond(listing[j].approved)

Published == {i \in Ids : listing[i].approved # 0 /\ listing[i].visible}

NewSearch(sort) ==
  /\ Begin(sort, NoCursor) /\ steady' = {i \in Published : sort = "newest" => ~SameMillisecond(i)}
  /\ results' = [sort |-> sort, shown |-> FALSE, items |-> {}, cursor |-> NoCursor, more |-> FALSE, failed |-> FALSE]
  /\ UNCHANGED <<listing, now, events>>

LoadMore ==
  /\ results.shown /\ results.more /\ search.at = "NONE"
  /\ Begin(results.sort, results.cursor)
  /\ results' = [results EXCEPT !.failed = FALSE]
  /\ UNCHANGED <<listing, now, events, steady>>

(* search(): candidates in one snapshot, their visibility in another.      *)
Scan ==
  LET found == Candidates(search.sort, search.cursor) IN
  /\ search.at \in {"SCAN", "LOOK"}
  /\ search' = IF found = {} THEN [search EXCEPT !.at = IF @ = "SCAN" THEN "END" ELSE "NO_MORE"]
               ELSE [search EXCEPT !.at = IF @ = "SCAN" THEN "JUDGE" ELSE "JUDGE_REST", !.batch = found]
  /\ UNCHANGED <<listing, now, events, results, steady>>

Visible == {x \in search.batch : listing[x.id].visible}

Judge ==
  LET shows == First(Limit - Cardinality(search.found), search.sort, Visible)
      found == search.found \cup shows
      last == IF shows = {} THEN search.last ELSE CursorOf(search.sort, Final(search.sort, shows)) IN
  /\ search.at = "JUDGE"
  /\ search' = [search EXCEPT !.found = found, !.last = last, !.batch = {},
                  !.at = IF Cardinality(found) = Limit THEN "LOOK"
                         ELSE IF Cardinality(search.batch) < Batch THEN "END" ELSE "SCAN",
                  !.cursor = IF Cardinality(found) = Limit THEN last ELSE CursorOf(search.sort, Final(search.sort, search.batch))]
  /\ UNCHANGED <<listing, now, events, results, steady>>

(* hasEligibleAfter(): whether the last one found is followed by another.  *)
JudgeRest ==
  /\ search.at = "JUDGE_REST"
  /\ search' = [search EXCEPT !.batch = {},
                  !.at = IF Visible # {} THEN "MORE" ELSE IF Cardinality(search.batch) < Batch THEN "NO_MORE" ELSE "LOOK",
                  !.cursor = CursorOf(search.sort, Final(search.sort, search.batch))]
  /\ UNCHANGED <<listing, now, events, results, steady>>

(* The answer; items of further pages are added, without repeats.          *)
FoundIds == {x.id : x \in search.found}

ResultsArrive ==
  LET cursor == IF search.at = "MORE" THEN search.last ELSE NoCursor IN
  /\ search.at \in {"END", "MORE", "NO_MORE"}
  /\ results' = [results EXCEPT !.shown = TRUE, !.cursor = cursor, !.more = ~cursor.none /\ cursor # search.from,
                               !.items = IF search.from.none THEN FoundIds ELSE @ \cup FoundIds]
  /\ search' = NoSearch
  /\ UNCHANGED <<listing, now, events, steady>>

SearchFails ==
  /\ search.at # "NONE"
  /\ results' = [results EXCEPT !.failed = TRUE] /\ search' = NoSearch
  /\ UNCHANGED <<listing, now, events, steady>>

(* What becomes of the listings meanwhile.                                 *)
Changes(i, new) ==
  /\ events < MaxEvents /\ events' = events + 1
  /\ listing' = [listing EXCEPT ![i] = new]
  /\ steady' = {j \in steady \ {i} : results.sort = "newest" => ~SameMillisecond(j)'}
  /\ UNCHANGED <<search, results>>

Approve(i) ==
  /\ \E later \in {0, 1} : now' = now + later /\ Changes(i, [listing[i] EXCEPT !.approved = now + later, !.visible = TRUE])

HideOrShow(i) ==
  /\ listing[i].approved # 0 /\ UNCHANGED now
  /\ \/ Changes(i, [listing[i] EXCEPT !.visible = ~@])
     \/ Changes(i, [listing[i] EXCEPT !.approved = 0])

Reprice(i) ==
  /\ UNCHANGED now
  /\ \E price \in Prices \ {listing[i].price} : Changes(i, [listing[i] EXCEPT !.price = price])

SearchNext ==
  \/ \E sort \in Sorts : NewSearch(sort)
  \/ LoadMore \/ Scan \/ Judge \/ JudgeRest \/ ResultsArrive \/ SearchFails
  \/ \E i \in Ids : Approve(i) \/ HideOrShow(i) \/ Reprice(i)

SearchSpec == SearchInit /\ [][SearchNext]_searchVars

(***************************************************************************)
(* Properties.                                                             *)
(***************************************************************************)

(* Whoever loads more until there is no more has seen every listing that   *)
(* was visible and the same all along, whatever became of the others on    *)
(* the way (public-listing.ts 50-71, page.tsx 59-67), but for the newest   *)
(* that were ever approved in the millisecond of another one (steady).     *)
FoundAll == results.shown /\ search.at = "NONE" /\ ~results.more => steady \subseteq results.items
=============================================================================
