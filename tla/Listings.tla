------------------------------- MODULE Listings -------------------------------
(***************************************************************************)
(* One listing from its draft to its expiry: PropertyDraftStore            *)
(* (property.ts), ListingSubmissionStore, ListingPhotoReviewStore,         *)
(* ListingModerationStore, ListingLifecycleStore, the visibility that the  *)
(* public reads (listing-visibility.ts), the switch of the region and the  *)
(* triggers of migration 0032.                                             *)
(*                                                                         *)
(* Abstractions.  The listing is the only one of its property and its      *)
(* provider an individual.  Content is counted: revision, terms (the       *)
(* offering version), specs (the property) and photos (the attached set    *)
(* with one review).  What readiness and visibility ask of provider,       *)
(* identity and authority comes and goes like the switch of the region and *)
(* is one with it.  Every operation holds the lock of the listing; a       *)
(* version a client sends was read earlier and is either still the current *)
(* one or refused, so only what staff have seen is kept.  A freshness      *)
(* episode is known by its expiry.                                         *)
(***************************************************************************)
EXTENDS Integers

CONSTANTS Market, Discoverable,  \* market states of the purpose, those that are shown
          Fresh,                 \* how long a confirmation lasts
          Leads,                 \* when reminders are meant: time before the expiry
          MaxRevision,           \* bound: revisions of the listing
          MaxTerms, MaxSpecs, MaxPhotos,  \* bounds: versions of the other content
          MaxTime                \* bound: the clock stops here

ASSUME ListingAssumption ==
  /\ {"AVAILABLE"} \subseteq Discoverable /\ Discoverable \subseteq Market
  /\ {Fresh, MaxTerms, MaxSpecs, MaxPhotos, MaxTime} \subseteq Nat /\ MaxRevision \in Nat \ {0}
  /\ Leads \subseteq 1..Fresh

VARIABLES now,
          enabled,      \* region_publication_controls.enabled, and the rest of eligibility
          listing,      \* the row of listings
          content,      \* current revision, terms, specs and photos
          photoReview,  \* listing_media.review_status of the attached set
          submissions,  \* listing_submissions: what each revision was submitted with
          reminders,    \* listing_freshness_reminders, by expiry and lead
          previewed,    \* the photos the reviewer has looked at
          seen          \* what the moderator has looked at: submission and content

vars == <<now, enabled, listing, content, photoReview, submissions,
          reminders, previewed, seen>>

Revisions == 1..MaxRevision
Expiries == 1..(MaxTime + Fresh)
None == [terms |-> 0, photos |-> 0]
NoContent == [revision |-> 0, terms |-> 0, specs |-> 0, photos |-> 0]

Init ==
  /\ now = 0 /\ enabled = TRUE
  /\ listing = [publication |-> "DRAFT", moderation |-> "NOT_REVIEWED", market |-> "AVAILABLE",
                approved |-> 0, material |-> NoContent, expires |-> 0]
  /\ content = [revision |-> 1, terms |-> 1, specs |-> 1, photos |-> 0]
  /\ photoReview = "NOT_REVIEWED"
  /\ submissions = [r \in Revisions |-> None]
  /\ reminders = [e \in Expiries |-> [l \in Leads |-> "NONE"]]
  /\ previewed = 0 /\ seen = NoContent
-----------------------------------------------------------------------------
(* What is asked of a listing.                                               *)

Ready == enabled /\ content.photos > 0 /\ photoReview = "APPROVED"

Snapshot == [terms |-> content.terms, photos |-> content.photos]

\* The approved submission is of this revision, with these terms.
ApprovedExact == /\ listing.approved = content.revision
                 /\ submissions[listing.approved].terms = content.terms

\* evaluateVisibility of a listing taken as published and fresh, as a renewal asks.
Renewable(market) ==
  /\ listing.moderation = "APPROVED" /\ ApprovedExact
  /\ Ready /\ submissions[listing.approved].photos = content.photos
  /\ listing.material = content
  /\ market \in Discoverable

VisibleAs(market) ==
  listing.publication = "PUBLISHED" /\ now < listing.expires /\ Renewable(market)

Visible == VisibleAs(listing.market)

\* The trigger listing_freshness_schedule for an episode that ends at e.
Scheduled(e) ==
  reminders' = [reminders EXCEPT ![e] = [l \in Leads |-> IF @[l] = "NONE" THEN "PENDING" ELSE @[l]]]
-----------------------------------------------------------------------------
(* The provider's draft.                                                     *)

\* Mutant of Editable: a draft may be edited until somebody has decided about it.
EditableInReview == listing.publication \in {"DRAFT", "PENDING_REVIEW"}

Editable == listing.publication = "DRAFT"

\* Every edit makes a revision and an offering version, whatever it changed.
UpdateDraft ==
  /\ Editable /\ content.revision < MaxRevision /\ content.terms < MaxTerms
  /\ content' = [content EXCEPT !.revision = @ + 1, !.terms = @ + 1]
  /\ UNCHANGED <<now, enabled, listing, photoReview, submissions, reminders, previewed, seen>>

UpdateSpecifications ==
  /\ listing.publication = "DRAFT" /\ content.specs < MaxSpecs
  /\ content' = [content EXCEPT !.specs = @ + 1]
  /\ UNCHANGED <<now, enabled, listing, photoReview, submissions, reminders, previewed, seen>>

\* Attaching or replacing photos (module MediaPipeline) asks for a new review.
ChangePhotos ==
  /\ listing.publication = "DRAFT" /\ content.photos < MaxPhotos
  /\ content' = [content EXCEPT !.photos = @ + 1] /\ photoReview' = "NOT_REVIEWED"
  /\ UNCHANGED <<now, enabled, listing, submissions, reminders, previewed, seen>>

\* A revision that was submitted before returns that submission and changes nothing.
Submit ==
  /\ listing.publication = "DRAFT" /\ submissions[content.revision] = None /\ Ready
  /\ submissions' = [submissions EXCEPT ![content.revision] = Snapshot]
  /\ listing' = [listing EXCEPT !.publication = "PENDING_REVIEW", !.moderation = "IN_REVIEW"]
  /\ UNCHANGED <<now, enabled, content, photoReview, reminders, previewed, seen>>
-----------------------------------------------------------------------------
(* Staff.                                                                    *)

Reviewing == /\ listing.publication = "DRAFT" /\ content.photos > 0
             /\ photoReview = "NOT_REVIEWED"

PreviewPhotos ==
  /\ Reviewing /\ previewed' = content.photos
  /\ UNCHANGED <<now, enabled, listing, content, photoReview, submissions, reminders, seen>>

\* The decision names the photos by asset and version; only after a preview of them.
DecidePhotos(outcome) ==
  /\ Reviewing /\ previewed = content.photos
  /\ photoReview' = outcome
  /\ UNCHANGED <<now, enabled, listing, content, submissions, reminders, previewed, seen>>

\* The queue and the preview of one submission.
OpenSubmission ==
  /\ listing.publication = "PENDING_REVIEW" /\ seen' = content
  /\ UNCHANGED <<now, enabled, listing, content, photoReview, submissions, reminders, previewed>>

\* Mutant of Current: the decision is about whatever is in review.
CurrentAnyRevision == listing.publication = "PENDING_REVIEW" /\ listing.moderation = "IN_REVIEW"

\* The submission the decision names is the one in review, with what it was sent with.
Current == /\ listing.publication = "PENDING_REVIEW" /\ listing.moderation = "IN_REVIEW"
           /\ content.revision = seen.revision
           /\ submissions[seen.revision] = Snapshot

RequestChanges ==
  /\ seen # NoContent /\ Current
  /\ listing' = [listing EXCEPT !.publication = "DRAFT", !.moderation = "CHANGES_REQUIRED"]
  /\ UNCHANGED <<now, enabled, content, photoReview, submissions, reminders, previewed, seen>>

Reject ==
  /\ seen # NoContent /\ Current
  /\ listing' = [listing EXCEPT !.publication = "REJECTED", !.moderation = "REJECTED"]
  /\ UNCHANGED <<now, enabled, content, photoReview, submissions, reminders, previewed, seen>>

\* Approval binds the revision, the submission and, by trigger, all that is material.
ApproveAndPublish ==
  /\ seen # NoContent /\ Current /\ Ready /\ listing.market \in Discoverable
  /\ listing' = [listing EXCEPT !.publication = "PUBLISHED", !.moderation = "APPROVED",
                                !.approved = content.revision, !.material = content,
                                !.expires = now + Fresh]
  /\ Scheduled(now + Fresh)
  /\ UNCHANGED <<now, enabled, content, photoReview, submissions, previewed, seen>>

Configure == /\ enabled' = ~enabled
             /\ UNCHANGED <<now, listing, content, photoReview, submissions, reminders, previewed, seen>>
-----------------------------------------------------------------------------
(* ListingLifecycleStore.execute: MARKET and FRESHNESS.                      *)

Operable == listing.publication \in {"PUBLISHED", "EXPIRED"} /\ listing.moderation = "APPROVED"

\* A change of the market that confirms nothing; hiding the listing is always allowed.
ChangeMarket(market) ==
  /\ Operable /\ ~(market = "AVAILABLE" /\ listing.market \in {"RENTED", "SOLD"})
  /\ market \in Discoverable => VisibleAs(market)
  /\ listing' = [listing EXCEPT !.market = market]
  /\ UNCHANGED <<now, enabled, content, photoReview, submissions, reminders, previewed, seen>>

\* What FRESHNESS confirms, and the market that comes back from RENTED or SOLD.
Confirmed == {listing.market} \cup
             (IF listing.market \in {"RENTED", "SOLD"} THEN {"AVAILABLE"} ELSE {})

\* Mutant of Unchanged: only an expired listing is compared with what was approved.
UnchangedIfExpired(market) ==
  \/ Renewable(market)
  \/ listing.publication = "PUBLISHED" /\ Ready /\ market \in Discoverable

Unchanged(market) == Renewable(market)

Confirm(market) ==
  /\ Operable /\ market \in Confirmed /\ Unchanged(market)
  /\ listing' = [listing EXCEPT !.market = market, !.publication = "PUBLISHED", !.expires = now + Fresh]
  /\ Scheduled(now + Fresh)
  /\ UNCHANGED <<now, enabled, content, photoReview, submissions, previewed, seen>>

Cloned == content.revision + 1

\* Content that is no longer what was approved goes back to review as a copy of the
\* revision; the market state that was asked for is not set.
RenewForReview ==
  /\ Operable /\ Ready /\ ~(ApprovedExact /\ listing.material = content)
  /\ content.revision < MaxRevision /\ submissions[Cloned] = None
  /\ content' = [content EXCEPT !.revision = Cloned]
  /\ submissions' = [submissions EXCEPT ![Cloned] = Snapshot]
  /\ listing' = [listing EXCEPT !.publication = "PENDING_REVIEW", !.moderation = "IN_REVIEW", !.approved = 0]
  /\ UNCHANGED <<now, enabled, photoReview, reminders, previewed, seen>>
-----------------------------------------------------------------------------
(* The worker.                                                               *)

\* Mutant of Overdue: what cannot be seen anyway is left alone.
OverdueVisible == listing.publication = "PUBLISHED" /\ listing.expires <= now /\ Ready

Overdue == listing.publication = "PUBLISHED" /\ listing.expires <= now

Expire ==
  /\ Overdue
  /\ listing' = [listing EXCEPT !.publication = "EXPIRED"]
  /\ UNCHANGED <<now, enabled, content, photoReview, submissions, reminders, previewed, seen>>

\* A reminder is prepared for the future, for the episode in force, or skipped for good.
PrepareReminder(e, l) ==
  /\ reminders[e][l] = "PENDING"
  /\ LET ok == now <= e - l /\ e = listing.expires /\ Visible
     IN  reminders' = [reminders EXCEPT ![e][l] = IF ok THEN "ELIGIBLE" ELSE "SKIPPED"]
  /\ UNCHANGED <<now, enabled, listing, content, photoReview, submissions, previewed, seen>>

PrepareReminders == \E e \in Expiries, l \in Leads : PrepareReminder(e, l)
-----------------------------------------------------------------------------
\* The offering of a listing is replaced outside the draft: no operation of the
\* stores does it; the renewal is written, and tested, for the case.
ReplaceTerms ==
  /\ Operable /\ content.terms < MaxTerms
  /\ content' = [content EXCEPT !.terms = @ + 1]
  /\ UNCHANGED <<now, enabled, listing, photoReview, submissions, reminders, previewed, seen>>

Tick == /\ now < MaxTime /\ now' = now + 1
        /\ UNCHANGED <<enabled, listing, content, photoReview, submissions, reminders, previewed, seen>>

Next ==
  \/ UpdateDraft \/ UpdateSpecifications \/ ChangePhotos \/ Submit
  \/ PreviewPhotos \/ \E o \in {"APPROVED", "CHANGES_REQUIRED", "REJECTED"} : DecidePhotos(o)
  \/ OpenSubmission \/ RequestChanges \/ Reject \/ ApproveAndPublish \/ Configure
  \/ \E m \in Market : ChangeMarket(m) \/ Confirm(m)
  \/ RenewForReview \/ Expire \/ PrepareReminders
  \/ ReplaceTerms \/ Tick

\* expireOnce runs every few seconds (main.ts:26).
Spec == Init /\ [][Next]_vars /\ WF_vars(Expire) /\ WF_vars(PrepareReminders)
-----------------------------------------------------------------------------
(* Properties.                                                               *)

\* What the public sees is, to the last photo, what the moderator had opened when
\* the listing was approved, however often it expired, was renewed, or changed and
\* went back to review since (listing-moderation.ts:179-193, listing-lifecycle.ts:173).
VisibleAsSeen == Visible => content = seen

\* What makes a listing public, and keeps it so, is a look at its content: nothing is
\* published, or confirmed, with content other than the approved one.
PublishedAsApproved ==
  [][listing'.publication = "PUBLISHED" /\ listing'.expires # listing.expires =>
       listing'.material = content']_vars

\* A listing in review can be decided: its submission is what it holds now
\* (listing-moderation.ts:179-193 refuses every decision about any other).
Decidable ==
  listing.publication = "PENDING_REVIEW" => submissions[content.revision] = Snapshot

\* A published listing does not stay so past its expiry, visible or not: the worker
\* expires it, unless it is confirmed or reviewed first (listing-lifecycle.ts:415).
ExpiryHonoured ==
  listing.publication = "PUBLISHED" /\ listing.expires <= now
    ~> listing.publication # "PUBLISHED" \/ now < listing.expires
=============================================================================
