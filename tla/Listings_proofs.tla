---------------------------- MODULE Listings_proofs ----------------------------
(***************************************************************************)
(* Proofs about Listings, for any market, windows and bounds: what the     *)
(* public sees is what a moderator opened, a listing in review can be      *)
(* decided, and nothing is published with other content than the approved. *)
(*                                                                         *)
(* A decision compares revisions, not contents.  That this is enough rests *)
(* on the drafts: a revision that was looked at cannot be sent again, so   *)
(* what is in review under the revision that was looked at is what was     *)
(* looked at (Seen).                                                       *)
(***************************************************************************)
EXTENDS Listings, TLAPS

Content == [revision : Nat, terms : Nat, specs : Nat, photos : Nat]
States == {"DRAFT", "PENDING_REVIEW", "REJECTED", "PUBLISHED", "EXPIRED"}
Moderations == {"NOT_REVIEWED", "IN_REVIEW", "APPROVED", "CHANGES_REQUIRED", "REJECTED"}
Rows == [publication : States, moderation : Moderations, market : Market \cup {"AVAILABLE"},
         approved : Nat, material : Content, expires : Nat]

TypeInv ==
  /\ listing \in Rows
  /\ content \in Content /\ content.revision \in Revisions /\ content.terms > 0
  /\ submissions \in [Revisions -> [terms : Nat, photos : Nat]]
  /\ seen \in Content /\ now \in Nat

(* What a moderator looked at, by where the listing is.                     *)
Seen ==
  /\ seen.revision <= content.revision
  /\ listing.publication = "DRAFT" /\ seen.revision = content.revision
       => submissions[content.revision] # None
  /\ listing.publication = "PENDING_REVIEW" /\ seen.revision = content.revision => content = seen
  /\ listing.publication \in {"PUBLISHED", "EXPIRED"} => listing.material = seen

LInv == TypeInv /\ Seen /\ Decidable

LEMMA InitLInv == Init => LInv
  <1>. SUFFICES ASSUME Init PROVE LInv
    OBVIOUS
  <1>1. TypeInv
    <2>1. listing \in Rows
      BY DEF Init, Rows, Content, NoContent, States, Moderations
    <2>2. content \in Content /\ content.revision \in Revisions /\ content.terms > 0
      BY ListingAssumption DEF Init, Content, Revisions
    <2>3. submissions \in [Revisions -> [terms : Nat, photos : Nat]]
      BY DEF Init, None
    <2>4. seen \in Content /\ now \in Nat
      BY DEF Init, NoContent, Content
    <2>5. QED
      BY <2>1, <2>2, <2>3, <2>4 DEF TypeInv
  <1>2. Seen /\ Decidable
    BY DEF Init, Seen, Decidable, NoContent
  <1>3. QED
    BY <1>1, <1>2 DEF LInv

(* The draft.                                                               *)
LEMMA UpdateDraftKeeps == ASSUME LInv, UpdateDraft PROVE LInv'
  <1>1. /\ content' = [content EXCEPT !.revision = content.revision + 1, !.terms = content.terms + 1]
        /\ content.revision + 1 \in Revisions /\ UNCHANGED <<listing, submissions, seen, now>>
        /\ listing.publication = "DRAFT"
    BY ListingAssumption DEF UpdateDraft, Editable, LInv, TypeInv, Revisions
  <1>2. /\ content' \in Content /\ content'.revision = content.revision + 1
        /\ content'.terms = content.terms + 1
    <2>1. content \in Content
      BY DEF LInv, TypeInv
    <2>2. content.revision + 1 \in Nat /\ content.terms + 1 \in Nat
      BY <2>1 DEF Content
    <2>3. QED
      BY <1>1, <2>1, <2>2 DEF Content
  <1>3. TypeInv'
    BY <1>1, <1>2 DEF LInv, TypeInv, Content
  <1>4. Seen' /\ Decidable'
    BY <1>1, <1>2 DEF LInv, TypeInv, Content, Seen, Decidable
  <1>5. QED
    BY <1>3, <1>4 DEF LInv

LEMMA SpecsOrPhotosKeep == ASSUME LInv, UpdateSpecifications \/ ChangePhotos PROVE LInv'
  <1>1. /\ \/ content' = [content EXCEPT !.specs = content.specs + 1]
           \/ content' = [content EXCEPT !.photos = content.photos + 1]
        /\ UNCHANGED <<listing, submissions, seen, now>> /\ listing.publication = "DRAFT"
    BY DEF UpdateSpecifications, ChangePhotos
  <1>2. /\ content' \in Content /\ content'.revision = content.revision /\ content'.terms = content.terms
    BY <1>1 DEF LInv, TypeInv, Content
  <1>3. TypeInv' /\ Seen' /\ Decidable'
    BY <1>1, <1>2 DEF LInv, TypeInv, Seen, Decidable
  <1>4. QED
    BY <1>3 DEF LInv

LEMMA SnapshotOfTerms == ASSUME LInv PROVE Snapshot \in [terms : Nat, photos : Nat] /\ Snapshot # None
  BY DEF LInv, TypeInv, Content, Snapshot, None

(* A revision is sent once, so the one that is sent was not looked at.      *)
LEMMA SubmitKeeps == ASSUME LInv, Submit PROVE LInv'
  <1>1. /\ submissions' = [submissions EXCEPT ![content.revision] = Snapshot]
        /\ listing' = [listing EXCEPT !.publication = "PENDING_REVIEW", !.moderation = "IN_REVIEW"]
        /\ listing.publication = "DRAFT" /\ submissions[content.revision] = None
        /\ UNCHANGED <<content, seen, now>>
    BY DEF Submit
  <1>2. listing'.publication = "PENDING_REVIEW" /\ listing' \in Rows
    BY <1>1 DEF LInv, TypeInv, Rows, States, Moderations
  <1>3. submissions'[content.revision] = Snapshot /\ submissions' \in [Revisions -> [terms : Nat, photos : Nat]]
    BY <1>1, SnapshotOfTerms DEF LInv, TypeInv
  <1>4. TypeInv'
    BY <1>1, <1>2, <1>3 DEF LInv, TypeInv
  <1>5. Seen' /\ Decidable'
    BY <1>1, <1>2, <1>3 DEF LInv, Seen, Decidable, Snapshot
  <1>6. QED
    BY <1>4, <1>5 DEF LInv

(* Steps that write the row of the listing alone.                           *)
LEMMA ListingAlone ==
  ASSUME LInv, UNCHANGED <<content, submissions, seen, now>>,
         listing' \in Rows,
         listing'.publication # listing.publication =>
           \/ listing'.publication = "REJECTED"
           \/ listing'.publication = "DRAFT" /\ submissions[content.revision] # None
           \/ listing.publication = "PENDING_REVIEW" /\ listing'.publication = "PUBLISHED"
              /\ seen.revision = content.revision
           \/ {listing.publication, listing'.publication} \subseteq {"PUBLISHED", "EXPIRED"},
         IF listing.publication = "PENDING_REVIEW" /\ listing'.publication = "PUBLISHED"
         THEN listing'.material = content ELSE listing'.material = listing.material
  PROVE  LInv'
  <1>1. TypeInv'
    BY DEF LInv, TypeInv
  <1>2. Seen'
    BY DEF LInv, Seen
  <1>3. Decidable'
    BY DEF LInv, Decidable, Snapshot
  <1>4. QED
    BY <1>1, <1>2, <1>3 DEF LInv

LEMMA StepLInv == LInv /\ [Next]_vars => LInv'
  <1>. SUFFICES ASSUME LInv, [Next]_vars PROVE LInv'
    OBVIOUS
  <1>0. /\ listing \in Rows
        /\ content \in Content /\ now \in Nat /\ Fresh \in Nat
    BY ListingAssumption DEF LInv, TypeInv
  <1>a. ASSUME UNCHANGED <<listing, content, submissions, seen, now>> PROVE LInv'
    BY <1>a DEF LInv, TypeInv, Seen, Decidable, Snapshot
  <1>1. CASE UpdateDraft
    BY <1>1, UpdateDraftKeeps
  <1>2. CASE UpdateSpecifications \/ ChangePhotos
    BY <1>2, SpecsOrPhotosKeep
  <1>3. CASE Submit
    BY <1>3, SubmitKeeps
  <1>4. CASE PreviewPhotos \/ (\E o \in {"APPROVED", "CHANGES_REQUIRED", "REJECTED"} : DecidePhotos(o))
               \/ Configure \/ PrepareReminders
    BY <1>a, <1>4 DEF PreviewPhotos, DecidePhotos, Configure, PrepareReminders, PrepareReminder
  <1>5. CASE OpenSubmission
    BY <1>5 DEF OpenSubmission, LInv, TypeInv, Seen, Decidable, Snapshot, Content
  <1>6. CASE RequestChanges
    <2>1. submissions[content.revision] # None
      BY <1>6, SnapshotOfTerms DEF RequestChanges, Current
    <2>2. listing' = [listing EXCEPT !.publication = "DRAFT", !.moderation = "CHANGES_REQUIRED"]
          /\ listing.publication = "PENDING_REVIEW" /\ UNCHANGED <<content, submissions, seen, now>>
      BY <1>6 DEF RequestChanges, Current
    <2>3. QED
      BY <1>0, <2>1, <2>2, ListingAlone DEF Rows, States, Moderations
  <1>7. CASE Reject
    <2>1. listing' = [listing EXCEPT !.publication = "REJECTED", !.moderation = "REJECTED"]
          /\ UNCHANGED <<content, submissions, seen, now>>
      BY <1>7 DEF Reject
    <2>2. QED
      BY <1>0, <2>1, ListingAlone DEF Rows, States, Moderations
  <1>8. CASE ApproveAndPublish
    <2>1. /\ listing' = [listing EXCEPT !.publication = "PUBLISHED", !.moderation = "APPROVED",
                                        !.approved = content.revision, !.material = content,
                                        !.expires = now + Fresh]
          /\ listing.publication = "PENDING_REVIEW" /\ seen.revision = content.revision
          /\ UNCHANGED <<content, submissions, seen, now>>
      BY <1>8 DEF ApproveAndPublish, Current
    <2>2. content.revision \in Nat /\ now + Fresh \in Nat
      BY <1>0 DEF Content
    <2>3. QED
      BY <1>0, <2>1, <2>2, ListingAlone DEF Rows, States, Moderations
  <1>9. ASSUME NEW m \in Market, ChangeMarket(m) PROVE LInv'
    <2>1. listing' = [listing EXCEPT !.market = m] /\ UNCHANGED <<content, submissions, seen, now>>
      BY <1>9 DEF ChangeMarket
    <2>2. QED
      BY <1>0, <2>1, ListingAlone DEF Rows
  <1>10. ASSUME NEW m \in Market, Confirm(m) PROVE LInv'
    <2>1. /\ listing' = [listing EXCEPT !.market = m, !.publication = "PUBLISHED", !.expires = now + Fresh]
          /\ listing.publication \in {"PUBLISHED", "EXPIRED"}
          /\ UNCHANGED <<content, submissions, seen, now>>
      BY <1>10 DEF Confirm, Operable
    <2>2. listing' \in Rows /\ listing'.publication = "PUBLISHED" /\ listing'.material = listing.material
      <3>1. now + Fresh \in Nat
        BY <1>0
      <3>2. QED
        BY <1>0, <2>1, <3>1 DEF Rows, States
    <2>3. QED
      BY <2>1, <2>2, ListingAlone
  <1>11. CASE RenewForReview
    <2>1. /\ content' = [content EXCEPT !.revision = Cloned] /\ Cloned \in Revisions
          /\ submissions' = [submissions EXCEPT ![Cloned] = Snapshot]
          /\ listing' = [listing EXCEPT !.publication = "PENDING_REVIEW", !.moderation = "IN_REVIEW", !.approved = 0]
          /\ UNCHANGED <<seen, now>>
      BY <1>11, ListingAssumption DEF RenewForReview, Cloned, LInv, TypeInv, Revisions
    <2>2. /\ content' \in Content /\ content'.revision = Cloned /\ content'.terms = content.terms
          /\ content'.photos = content.photos /\ Snapshot' = Snapshot
      BY <1>0, <2>1 DEF Content, Cloned, Snapshot
    <2>3. Cloned = content.revision + 1 /\ seen.revision < Cloned
      BY <1>0 DEF Cloned, LInv, TypeInv, Seen, Content
    <2>4. listing'.publication = "PENDING_REVIEW" /\ listing' \in Rows
      BY <1>0, <2>1 DEF Rows, States, Moderations
    <2>5. submissions'[Cloned] = Snapshot /\ submissions' \in [Revisions -> [terms : Nat, photos : Nat]]
      BY <2>1, SnapshotOfTerms DEF LInv, TypeInv
    <2>6. TypeInv'
      BY <2>1, <2>2, <2>4, <2>5 DEF LInv, TypeInv
    <2>7. Seen' /\ Decidable'
      BY <2>1, <2>2, <2>3, <2>4, <2>5 DEF LInv, TypeInv, Content, Seen, Decidable
    <2>8. QED
      BY <2>6, <2>7 DEF LInv
  <1>12. CASE Expire
    <2>1. listing' = [listing EXCEPT !.publication = "EXPIRED"] /\ listing.publication = "PUBLISHED"
          /\ UNCHANGED <<content, submissions, seen, now>>
      BY <1>12 DEF Expire, Overdue
    <2>2. QED
      BY <1>0, <2>1, ListingAlone DEF Rows, States, Moderations
  <1>13. CASE ReplaceTerms
    <2>1. /\ content' = [content EXCEPT !.terms = content.terms + 1]
          /\ listing.publication \in {"PUBLISHED", "EXPIRED"}
          /\ UNCHANGED <<listing, submissions, seen, now>>
      BY <1>13 DEF ReplaceTerms, Operable
    <2>2. content' \in Content /\ content'.revision = content.revision /\ content'.terms = content.terms + 1
      BY <1>0, <2>1 DEF Content
    <2>3. QED
      BY <2>1, <2>2 DEF LInv, TypeInv, Content, Seen, Decidable
  <1>14. CASE Tick
    BY <1>14 DEF Tick, LInv, TypeInv, Seen, Decidable, Snapshot
  <1>15. CASE UNCHANGED vars
    BY <1>a, <1>15 DEF vars
  <1>16. QED
    BY <1>1, <1>2, <1>3, <1>4, <1>5, <1>6, <1>7, <1>8, <1>9, <1>10, <1>11, <1>12, <1>13, <1>14, <1>15 DEF Next

(* What the public sees is, to the last photo, what the moderator had       *)
(* opened when it was approved, through every expiry, renewal, change and   *)
(* further review (listing-moderation.ts 179-193, listing-lifecycle.ts 173).*)
THEOREM VisibleAsSeenCorrect == Spec => []VisibleAsSeen
  <1>1. LInv => VisibleAsSeen
    BY DEF LInv, Seen, VisibleAsSeen, Visible, VisibleAs, Renewable
  <1>2. QED
    BY InitLInv, StepLInv, <1>1, PTL DEF Spec

(* A listing in review holds what its submission recorded, so that a        *)
(* decision about it is never refused for that (listing-moderation.ts       *)
(* 179-193).                                                                *)
THEOREM DecidableCorrect == Spec => []Decidable
  <1>1. LInv => Decidable
    BY DEF LInv
  <1>2. QED
    BY InitLInv, StepLInv, <1>1, PTL DEF Spec

(* What makes a listing public, or keeps it so, finds the approved content  *)
(* (listing-moderation.ts 179-193, listing-lifecycle.ts 173).               *)
THEOREM PublishedCorrect == Spec => PublishedAsApproved
  <1>. DEFINE Approved == listing'.publication = "PUBLISHED" /\ listing'.expires # listing.expires
                            => listing'.material = content'
  <1>1. ASSUME LInv, [Next]_vars PROVE [Approved]_vars
    <2>0. /\ listing \in Rows
      BY <1>1 DEF LInv, TypeInv
    <2>1. CASE ApproveAndPublish
      BY <2>0, <2>1 DEF ApproveAndPublish, Rows
    <2>2. ASSUME NEW m \in Market, Confirm(m) PROVE Approved
      BY <2>0, <2>2 DEF Confirm, Unchanged, Renewable, Rows
    <2>3. CASE UNCHANGED vars
      BY <2>3 DEF vars
    <2>4. CASE ~ApproveAndPublish /\ ~(\E m \in Market : Confirm(m)) /\ Next
      <3>1. listing'.expires = listing.expires
        BY <2>0, <2>4 DEF Rows, Next, UpdateDraft, UpdateSpecifications, ChangePhotos, Submit, PreviewPhotos,
             DecidePhotos, OpenSubmission, RequestChanges, Reject, Configure, ChangeMarket,
             RenewForReview, Expire, PrepareReminders, PrepareReminder, ReplaceTerms, Tick
      <3>2. QED
        BY <3>1
    <2>5. QED
      BY <1>1, <2>1, <2>2, <2>3, <2>4
  <1>2. QED
    BY InitLInv, StepLInv, <1>1, PTL DEF Spec, PublishedAsApproved
=============================================================================
