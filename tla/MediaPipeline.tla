--------------------------- MODULE MediaPipeline ---------------------------
(***************************************************************************)
(* The photos of one listing draft: the API that uploads them, the         *)
(* provider that arranges them, ListingMediaStore (listing-media.ts), the  *)
(* media worker (processOneMediaJob) and the storage they share.           *)
(*                                                                         *)
(* Every call of the store is one transaction and one step; what API and   *)
(* worker do between two calls (write a file, scan it, die) are steps of   *)
(* their own, so all of these interleave.  Time is not counted: each       *)
(* deadline (upload and cleanup, lease, backoff) is a flag that a step of  *)
(* its own raises, so that any deadline may pass before any other.         *)
(*                                                                         *)
(* Abstractions.  Images are good or bad when the worker looks.  The       *)
(* quotas per provider over bytes, assets and hours are left out.  The     *)
(* decision of the photo reviewer and everything else submit() asks is     *)
(* whether Submit happens.  A commit is not reported as an error, and a    *)
(* file is written whole or not at all.                                    *)
(***************************************************************************)
EXTENDS Integers, FiniteSets

CONSTANTS Assets,           \* identifiers for media_assets
          Workers,          \* media worker processes
          MaxPhotos,        \* MAX_LISTING_MEDIA, 20
          MaxInFlight,      \* MAX_PROVIDER_MEDIA_UPLOADS_IN_FLIGHT, 5
          MaxAttempts,      \* attempts of a processing job, 5
          None              \* no cover, no asset in hand

ASSUME LimitsAssumption == MaxPhotos \in Nat /\ MaxInFlight \in Nat /\ MaxAttempts \in Nat \ {0}
ASSUME AssetsAssumption == IsFiniteSet(Assets) /\ None \notin Assets

VARIABLES asset,            \* media_assets; the row of media_upload_intents exists
                            \* exactly while an asset is UPLOAD_AUTHORIZED
          job,              \* media_processing_jobs
          photos, order,    \* listing_media: attached assets and display_order
          cover,            \* listing_media.is_cover
          draft,            \* listings.publication_status = 'DRAFT'
          files,            \* what the storage holds under the asset's reference
          uploads,          \* how far the API is with the upload request
          worker            \* what each worker has in hand

listing == <<photos, order, cover>>
vars == <<asset, job, photos, order, cover, draft, files, uploads, worker>>

Lifecycle == INSTANCE PhotoLifecycle WITH lifecycle <- [a \in Assets |-> asset[a].lifecycle]

\* due: upload_expires_at or cleanup_after has passed.
Asset == [lifecycle : Lifecycle!Lifecycles, retryable : BOOLEAN, due : BOOLEAN]

\* due: next_attempt_at of a PENDING job, the lease of a PROCESSING one, has passed.
Job == [state : {"NONE", "PENDING", "PROCESSING", "COMPLETED", "FAILED"},
        attempts : 0..MaxAttempts, due : BOOLEAN]

Worker == [phase : {"idle", "cleaning", "cleaned", "working", "read", "written", "failing",
                    "discarding", "discarded"},
           asset : Assets \cup {None}, attempt : 0..MaxAttempts, retryable : BOOLEAN]

Idle == [phase |-> "idle", asset |-> None, attempt |-> 0, retryable |-> FALSE]

\* "keeping": cancelling, but the file could not be removed; "lost": nobody will.
Phases == {"none", "authorized", "stored", "committing", "withdrawing", "cancelling", "keeping",
           "over", "lost"}

\* Rows, files, requests and workers are typed, and the cover is one of the
\* photos: taking a photo off must not leave it behind as the cover.
MediaTypeOK == /\ asset \in [Assets -> Asset]
               /\ job \in [Assets -> Job]
               /\ photos \subseteq Assets
               /\ order \in [Assets -> Nat]
               /\ cover \in photos \cup {None}
               /\ draft \in BOOLEAN
               /\ files \in [Assets -> SUBSET {"ORIGINAL", "VARIANTS"}]
               /\ uploads \in [Assets -> Phases]
               /\ worker \in [Workers -> Worker]

Init == /\ asset = [a \in Assets |-> [lifecycle |-> "ABSENT", retryable |-> FALSE, due |-> FALSE]]
        /\ job = [a \in Assets |-> [state |-> "NONE", attempts |-> 0, due |-> FALSE]]
        /\ photos = {} /\ order = [a \in Assets |-> 0] /\ cover = None
        /\ draft = TRUE
        /\ files = [a \in Assets |-> {}]
        /\ uploads = [a \in Assets |-> "none"]
        /\ worker = [w \in Workers |-> Idle]
-----------------------------------------------------------------------------
(* Rows.                                                                     *)

In(a, states) == asset[a].lifecycle \in states

SetAsset(a, state, retryable) ==
  asset' = [asset EXCEPT ![a] = [lifecycle |-> state, retryable |-> retryable, due |-> FALSE]]

SetJob(a, state, due) == job' = [job EXCEPT ![a].state = state, ![a].due = due]

Renumbered(rest) ==
  [a \in Assets |-> IF a \in rest THEN Cardinality({b \in rest : order[b] < order[a]}) ELSE 0]

\* The first of the photos that are left, if it is READY.
FirstReady(rest) ==
  {a \in rest : In(a, {"READY"}) /\ \A b \in rest : order[a] <= order[b]}

NewCover(rest) == IF FirstReady(rest) = {} THEN None ELSE CHOOSE f \in FirstReady(rest) : TRUE

\* Taking a photo off renumbers the others and chooses the cover anew, whatever
\* the provider chose before.
Detach(a) == LET rest == photos \ {a} IN
  /\ photos' = rest
  /\ order' = Renumbered(rest)
  /\ cover' = NewCover(rest)

Enqueue(a) == SetJob(a, "PENDING", TRUE)

Removed(held) == {}         \* removeAsset
-----------------------------------------------------------------------------
(* The upload request: createUploadIntent, putQuarantine, completeUpload,    *)
(* and the way back when one of them fails.                                  *)

Live == {a \in photos : ~In(a, {"DELETED", "DELETION_PENDING"})}
Reserved == {a \in Assets : In(a, {"UPLOAD_AUTHORIZED"}) /\ ~asset[a].due}

Authorize(a) ==
  /\ In(a, {"ABSENT"}) /\ draft
  /\ Cardinality(Live) + Cardinality(Reserved) < MaxPhotos
  /\ Cardinality(Reserved) < MaxInFlight
  /\ SetAsset(a, "UPLOAD_AUTHORIZED", FALSE)
  /\ uploads' = [uploads EXCEPT ![a] = "authorized"]
  /\ UNCHANGED <<job, listing, draft, files, worker>>

Store(a) ==
  /\ uploads[a] = "authorized"
  /\ files' = [files EXCEPT ![a] = @ \cup {"ORIGINAL"}]
  /\ uploads' = [uploads EXCEPT ![a] = "stored"]
  /\ UNCHANGED <<asset, job, listing, draft, worker>>

\* completeUpload judges the expiry by now(), the start of its transaction, and
\* then waits for the row of the listing.
BeginComplete(a) ==
  /\ uploads[a] = "stored" /\ ~asset[a].due
  /\ uploads' = [uploads EXCEPT ![a] = "committing"]
  /\ UNCHANGED <<asset, job, listing, draft, files, worker>>

\* The orders of n photos are 0 .. n - 1, so max(display_order) + 1 is n.
Complete(a) ==
  /\ uploads[a] = "committing" /\ In(a, {"UPLOAD_AUTHORIZED"}) /\ draft
  /\ SetAsset(a, "UPLOADED_QUARANTINED", FALSE)
  /\ photos' = photos \cup {a}
  /\ order' = [order EXCEPT ![a] = Cardinality(photos)]
  /\ Enqueue(a)
  /\ uploads' = [uploads EXCEPT ![a] = "over"]
  /\ UNCHANGED <<cover, draft, files, worker>>

\* The body is no photo, or cannot be stored.
StoreFails(a) ==
  /\ uploads[a] = "authorized"
  /\ uploads' = [uploads EXCEPT ![a] = "cancelling"]
  /\ UNCHANGED <<asset, job, listing, draft, files, worker>>

\* completeUpload throws: the authorization is no longer valid, or the database failed.
Refuse(a) ==
  /\ uploads[a] \in {"stored", "committing"}
  /\ uploads' = [uploads EXCEPT ![a] = "withdrawing"]
  /\ UNCHANGED <<asset, job, listing, draft, files, worker>>

Withdraw(a) ==
  /\ uploads[a] = "withdrawing"
  /\ files' = [files EXCEPT ![a] = Removed(@)]
  /\ uploads' = [uploads EXCEPT ![a] = "cancelling"]
  /\ UNCHANGED <<asset, job, listing, draft, worker>>

\* The error of removeAsset is swallowed.
WithdrawFails(a) ==
  /\ uploads[a] = "withdrawing"
  /\ uploads' = [uploads EXCEPT ![a] = "keeping"]
  /\ UNCHANGED <<asset, job, listing, draft, files, worker>>

CancelUpload(a) ==
  /\ uploads[a] \in {"cancelling", "keeping"}
  /\ IF In(a, {"UPLOAD_AUTHORIZED"}) THEN SetAsset(a, "REJECTED", FALSE) ELSE UNCHANGED asset
  /\ uploads' = [uploads EXCEPT ![a] = IF @ = "keeping" THEN "lost" ELSE "over"]
  /\ UNCHANGED <<job, listing, draft, files, worker>>

\* The API process dies during the request.
ApiDies(a) ==
  /\ uploads[a] \notin {"none", "over", "lost"}
  /\ uploads' = [uploads EXCEPT ![a] = "lost"]
  /\ UNCHANGED <<asset, job, listing, draft, files, worker>>
-----------------------------------------------------------------------------
(* The provider's commands; each locks the listing and needs a draft.        *)

Reorder(position, chosen) ==
  /\ draft /\ chosen \in photos /\ In(chosen, {"READY"})
  /\ order' = [a \in Assets |-> IF a \in photos THEN position[a] ELSE 0]
  /\ cover' = chosen
  /\ UNCHANGED <<asset, job, photos, draft, files, uploads, worker>>

Removable(a) == draft /\ a \in photos

Remove(a) ==
  /\ Removable(a)
  /\ SetAsset(a, "DELETION_PENDING", asset[a].retryable)
  /\ Detach(a)
  /\ UNCHANGED <<job, draft, files, uploads, worker>>

\* cleanup_after stays as it was: it is not read before the next failure sets it.
Retry(a) ==
  /\ Removable(a)
  /\ In(a, {"FAILED"}) /\ asset[a].retryable /\ ~asset[a].due
  /\ job[a].state = "PENDING" /\ job[a].attempts < MaxAttempts
  /\ SetAsset(a, "UPLOADED_QUARANTINED", FALSE)
  /\ Enqueue(a)
  /\ UNCHANGED <<listing, draft, files, uploads, worker>>

AllReady == photos # {} /\ \A a \in photos : In(a, {"READY"})

\* submit: every photo processed, one of them the cover.
Submit ==
  /\ draft /\ AllReady /\ cover # None
  /\ draft' = FALSE
  /\ UNCHANGED <<asset, job, listing, files, uploads, worker>>

\* REQUEST_CHANGES of the moderator, or a later edit of the provider.
ReturnToDraft == ~draft /\ draft' = TRUE
                 /\ UNCHANGED <<asset, job, listing, files, uploads, worker>>
-----------------------------------------------------------------------------
(* The media worker.  A pass claims one asset to clean up or one to process. *)
(* The two claims are transactions of their own and skip locked rows, so a   *)
(* pass may process although some asset waits for its cleanup.               *)

Idling(w) == worker[w].phase = "idle"
Has(w, a, phases) == worker[w].asset = a /\ worker[w].phase \in phases
Turns(w, phase) == worker' = [worker EXCEPT ![w].phase = phase]

\* Mutants of Unwanted, each without one of its cases: what a run left half done,
\* uploads that never ended, photos that failed.
UnwantedUntouched(a) == In(a, {"UPLOAD_AUTHORIZED", "REJECTED", "FAILED"}) /\ asset[a].due

Unwanted(a) == \/ In(a, {"DELETION_PENDING"})
               \/ In(a, {"UPLOAD_AUTHORIZED", "REJECTED", "FAILED"}) /\ asset[a].due

Mark(a) == SetAsset(a, "DELETION_PENDING", FALSE)

ClaimCleanup(w, a) ==
  /\ Idling(w) /\ Unwanted(a)
  /\ Mark(a)
  /\ worker' = [worker EXCEPT ![w] = [Idle EXCEPT !.phase = "cleaning", !.asset = a]]
  /\ UNCHANGED <<job, listing, draft, files, uploads>>

\* removeAsset, in a cleanup or after a photo was processed in vain.
RemoveFiles(w, a) ==
  /\ Has(w, a, {"cleaning", "discarding"})
  /\ files' = [files EXCEPT ![a] = Removed(@)]
  /\ Turns(w, IF worker[w].phase = "cleaning" THEN "cleaned" ELSE "discarded")
  /\ UNCHANGED <<asset, job, listing, draft, uploads>>

\* The row only goes from DELETION_PENDING to DELETED; job and photo end anyway.
MarkDeleted(w, a) ==
  /\ Has(w, a, {"cleaned", "discarded"})
  /\ IF In(a, {"DELETION_PENDING"})
     THEN SetAsset(a, "DELETED", asset[a].retryable) ELSE UNCHANGED asset
  /\ IF job[a].state = "NONE" THEN UNCHANGED job ELSE SetJob(a, "FAILED", FALSE)
  /\ IF a \in photos THEN Detach(a) ELSE UNCHANGED listing
  /\ worker' = [worker EXCEPT ![w] = Idle]
  /\ UNCHANGED <<draft, files, uploads>>

ClaimProcessing(w, a) ==
  /\ Idling(w)
  /\ job[a].state \in {"PENDING", "PROCESSING"} /\ job[a].due /\ job[a].attempts < MaxAttempts
  /\ In(a, {"UPLOADED_QUARANTINED", "PROCESSING", "FAILED"})
  /\ asset' = [asset EXCEPT ![a].lifecycle = "PROCESSING"]
  /\ job' = [job EXCEPT ![a] = [state |-> "PROCESSING", attempts |-> @.attempts + 1, due |-> FALSE]]
  /\ worker' = [worker EXCEPT ![w] = [phase |-> "working", asset |-> a, retryable |-> FALSE,
                                      attempt |-> job[a].attempts + 1]]
  /\ UNCHANGED <<listing, draft, files, uploads>>

\* The original is read, matches its upload, is clean and can be converted.
Read(w, a) ==
  /\ Has(w, a, {"working"}) /\ "ORIGINAL" \in files[a]
  /\ Turns(w, "read")
  /\ UNCHANGED <<asset, job, listing, draft, files, uploads>>

WriteVariants(w, a) ==
  /\ Has(w, a, {"read"})
  /\ files' = [files EXCEPT ![a] = @ \cup {"VARIANTS"}]
  /\ Turns(w, "written")
  /\ UNCHANGED <<asset, job, listing, draft, uploads>>

\* Mutant of StillProcessing: the state of the asset is not asked.
ProcessingOnce(a) == TRUE

StillProcessing(a) == In(a, {"PROCESSING"})

\* The job is completed whatever became of the asset.
MarkReady(w, a) ==
  /\ Has(w, a, {"written"})
  /\ SetJob(a, "COMPLETED", FALSE)
  /\ IF StillProcessing(a)
     THEN /\ SetAsset(a, "READY", FALSE)
          /\ cover' = IF cover = None /\ a \in photos THEN a ELSE cover
          /\ worker' = [worker EXCEPT ![w] = Idle]
     ELSE Turns(w, "discarding") /\ UNCHANGED <<asset, cover>>
  /\ UNCHANGED <<photos, order, draft, files, uploads>>

\* markReady and a remove() at the same time: it still reads the old cover, and
\* remove() still reads this photo unprocessed.
ReadyDuringRemove(w, a, b) ==
  /\ Has(w, a, {"written"}) /\ StillProcessing(a)
  /\ b # a /\ Removable(b) /\ cover # None
  /\ asset' = [asset EXCEPT ![a] = [lifecycle |-> "READY", retryable |-> FALSE, due |-> FALSE],
                            ![b].lifecycle = "DELETION_PENDING"]
  /\ SetJob(a, "COMPLETED", FALSE)
  /\ Detach(b)
  /\ worker' = [worker EXCEPT ![w] = Idle]
  /\ UNCHANGED <<draft, files, uploads>>

\* The original is missing, is not what was uploaded, or is infected.
Unusable(w, a) ==
  /\ Has(w, a, {"working"})
  /\ worker' = [worker EXCEPT ![w].phase = "failing", ![w].retryable = FALSE]
  /\ UNCHANGED <<asset, job, listing, draft, files, uploads>>

\* The scanner, the storage or the database fails.
Unavailable(w, a) ==
  /\ \/ Has(w, a, {"working"}) /\ "ORIGINAL" \in files[a]
     \/ Has(w, a, {"read", "written", "discarding", "discarded"})
  /\ worker' = [worker EXCEPT ![w].phase = "failing", ![w].retryable = TRUE]
  /\ UNCHANGED <<asset, job, listing, draft, files, uploads>>

\* Mutant of CanRetry: the attempts are not counted.
CanRetryAlways(w) == worker[w].retryable

CanRetry(w) == worker[w].retryable /\ worker[w].attempt < MaxAttempts

\* The asset fails only if it is PROCESSING, the job in any case.
MarkFailure(w, a) ==
  /\ Has(w, a, {"failing"})
  /\ IF StillProcessing(a)
     THEN SetAsset(a, IF worker[w].retryable THEN "FAILED" ELSE "REJECTED", CanRetry(w))
     ELSE UNCHANGED asset
  /\ SetJob(a, IF CanRetry(w) THEN "PENDING" ELSE "FAILED", FALSE)
  /\ worker' = [worker EXCEPT ![w] = Idle]
  /\ UNCHANGED <<listing, draft, files, uploads>>

\* The process dies and starts again, or an error ends the pass.
Crash(w) == /\ ~Idling(w)
            /\ worker' = [worker EXCEPT ![w] = Idle]
            /\ UNCHANGED <<asset, job, listing, draft, files, uploads>>
-----------------------------------------------------------------------------
(* Time.                                                                     *)

\* upload_expires_at or cleanup_after passes.
CleanupDue(a) ==
  /\ In(a, {"UPLOAD_AUTHORIZED", "REJECTED", "FAILED"}) /\ ~asset[a].due
  /\ asset' = [asset EXCEPT ![a].due = TRUE]
  /\ UNCHANGED <<job, listing, draft, files, uploads, worker>>

\* The backoff or the lease of a job passes.
JobDue(a) ==
  /\ job[a].state \in {"PENDING", "PROCESSING"} /\ ~job[a].due
  /\ job' = [job EXCEPT ![a].due = TRUE]
  /\ UNCHANGED <<asset, listing, draft, files, uploads, worker>>
-----------------------------------------------------------------------------
Positions == {p \in [photos -> 0..(Cardinality(photos) - 1)] : \A a, b \in photos : p[a] = p[b] => a = b}

Api == \E a \in Assets : \/ Authorize(a) \/ Store(a) \/ BeginComplete(a) \/ Complete(a)
                         \/ StoreFails(a) \/ Refuse(a) \/ Withdraw(a) \/ WithdrawFails(a)
                         \/ CancelUpload(a) \/ ApiDies(a)

Provider == \/ \E chosen \in Assets, position \in Positions : Reorder(position, chosen)
            \/ \E a \in Assets : Remove(a) \/ Retry(a)
            \/ Submit \/ ReturnToDraft

Process(w, a) == \/ Read(w, a) \/ WriteVariants(w, a) \/ MarkReady(w, a)
                 \/ Unusable(w, a) \/ Unavailable(w, a) \/ MarkFailure(w, a)

Media(w) == \/ Crash(w)
            \/ \E a \in Assets : \/ ClaimCleanup(w, a) \/ RemoveFiles(w, a) \/ MarkDeleted(w, a)
                                \/ ClaimProcessing(w, a) \/ Process(w, a)
                                \/ \E b \in Assets : ReadyDuringRemove(w, a, b)

Time == \E a \in Assets : CleanupDue(a) \/ JobDue(a)

Next == Api \/ Provider \/ (\E w \in Workers : Media(w)) \/ Time

Safety == Init /\ [][Next]_vars

\* Deadlines pass and workers run: a pass goes on or dies, and whatever can be
\* claimed, removed or recorded again and again is so in the end, because claims
\* take the oldest first and processes do not always die at the same point.
\* Nothing is assumed of provider or API.
Spec == /\ Safety
        /\ \A a \in Assets : WF_vars(CleanupDue(a)) /\ WF_vars(JobDue(a))
        /\ \A w \in Workers, a \in Assets :
             /\ WF_vars(Process(w, a))
             /\ SF_vars(ClaimCleanup(w, a)) /\ SF_vars(ClaimProcessing(w, a))
             /\ SF_vars(RemoveFiles(w, a)) /\ SF_vars(MarkDeleted(w, a))
-----------------------------------------------------------------------------
(* What any number of workers keeps.                                         *)

\* Assets follow their lifecycle, are attached once and leave the listing before
\* they are deleted, and the cover can always be shown.
ImplementsLifecycle == Lifecycle!Promise
-----------------------------------------------------------------------------
(* What one worker at a time keeps.                                          *)

\* While an asset may still be processed or shown, the files this takes are there,
\* and the queue follows the assets: what is to be processed, or promised to be
\* retried, has a job that a worker may still claim, and nothing else has.
FilesAndJobsFollow == \A a \in Assets :
  /\ In(a, {"UPLOADED_QUARANTINED", "PROCESSING"}) \/ (In(a, {"FAILED"}) /\ asset[a].retryable)
       => "ORIGINAL" \in files[a]
  /\ In(a, {"READY"}) => {"ORIGINAL", "VARIANTS"} \subseteq files[a]
  /\ In(a, {"UPLOADED_QUARANTINED"}) \/ (In(a, {"FAILED"}) /\ asset[a].retryable)
       => job[a].state = "PENDING" /\ job[a].attempts < MaxAttempts
  /\ In(a, {"PROCESSING"}) => job[a].state = "PROCESSING"
  /\ In(a, {"READY"}) => job[a].state = "COMPLETED"

\* What is to be deleted is deleted, although runs die in the middle of it.
DeletionCompletes == \A a \in Assets : In(a, {"DELETION_PENDING"}) ~> In(a, {"DELETED"})

-----------------------------------------------------------------------------
(* What documents say and the code does not keep.                            *)

\* Jobs are idempotent (ADR 0005): a photo that is READY keeps its derivatives.
ReadyKept == \A a \in Assets : In(a, {"READY"}) => "VARIANTS" \in files[a]

=============================================================================
