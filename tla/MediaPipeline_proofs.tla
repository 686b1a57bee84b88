------------------------ MODULE MediaPipeline_proofs ------------------------
(***************************************************************************)
(* For any number of assets and workers and any limits: the rows keep      *)
(* their types, and every step of the pipeline is one that PhotoLifecycle  *)
(* allows.  For one worker at a time: the files that a photo needs are     *)
(* there, and the jobs follow the photos.                                  *)
(***************************************************************************)
EXTENDS MediaPipeline, FiniteSetTheorems, TLAPS

\* Assets can be counted.
LEMMA Counts ==
  ASSUME NEW S \in SUBSET Assets
  PROVE  Cardinality(S) \in Nat
BY AssetsAssumption, FS_Subset, FS_CardinalityType

\* Renumbering gives every asset a natural number.
LEMMA RenumberedTypes ==
  ASSUME NEW rest \in SUBSET Assets
  PROVE  Renumbered(rest) \in [Assets -> Nat]
<1>1. \A a \in Assets : Cardinality({b \in rest : order[b] < order[a]}) \in Nat
  BY Counts
<1> QED BY <1>1 DEF Renumbered

\* A cover chosen anew is READY and one of the photos that are left.
LEMMA NewCoverReady ==
  ASSUME NEW rest \in SUBSET Assets, NewCover(rest) # None
  PROVE  NewCover(rest) \in rest /\ In(NewCover(rest), {"READY"})
<1>1. PICK f : f \in FirstReady(rest)
  BY DEF NewCover
<1>2. NewCover(rest) \in FirstReady(rest)
  BY <1>1 DEF NewCover
<1> QED BY <1>2 DEF FirstReady

\* What taking a photo off does to the listing.
LEMMA DetachTypes ==
  ASSUME MediaTypeOK, NEW a \in Assets, Detach(a)
  PROVE  /\ photos' = photos \ {a}
         /\ order' \in [Assets -> Nat]
         /\ cover' # None => cover' \in photos' /\ In(cover', {"READY"})
<1>1. photos \ {a} \in SUBSET Assets
  BY DEF MediaTypeOK
<1>2. photos' = photos \ {a} /\ order' = Renumbered(photos \ {a}) /\ cover' = NewCover(photos \ {a})
  BY DEF Detach
<1> QED BY <1>1, <1>2, RenumberedTypes, NewCoverReady

\* The rows that the operations write are typed.
LEMMA SetAssetTypes ==
  ASSUME MediaTypeOK, NEW a \in Assets, NEW state \in Lifecycle!Lifecycles,
         NEW retryable \in BOOLEAN, SetAsset(a, state, retryable)
  PROVE  asset' \in [Assets -> Asset]
<1>1. [lifecycle |-> state, retryable |-> retryable, due |-> FALSE] \in Asset
  BY DEF Asset
<1> QED BY <1>1 DEF SetAsset, MediaTypeOK

\* So are the jobs.
LEMMA SetJobTypes ==
  ASSUME MediaTypeOK, NEW a \in Assets, NEW due \in BOOLEAN,
         NEW state \in {"NONE", "PENDING", "PROCESSING", "COMPLETED", "FAILED"}, SetJob(a, state, due)
  PROVE  job' \in [Assets -> Job]
<1>1. job[a] \in Job
  BY DEF MediaTypeOK
<1>2. [job[a] EXCEPT !.state = state, !.due = due] \in Job
  BY <1>1 DEF Job
<1>3. job' = [job EXCEPT ![a] = [job[a] EXCEPT !.state = state, !.due = due]]
  BY <1>1 DEF SetJob, MediaTypeOK, Job
<1> QED BY <1>2, <1>3 DEF MediaTypeOK

\* So is what a worker has in hand.
LEMMA WorkerTypes ==
  ASSUME MediaTypeOK, NEW w \in Workers
  PROVE  /\ Idle \in Worker /\ worker[w] \in Worker
         /\ \A row \in Worker : [worker EXCEPT ![w] = row] \in [Workers -> Worker]
BY LimitsAssumption DEF MediaTypeOK, Worker, Idle

\* And what it has after it turned to another phase.
LEMMA TurnsTypes ==
  ASSUME MediaTypeOK, NEW w \in Workers,
         NEW phase \in {"cleaned", "read", "written", "discarding", "discarded"}, Turns(w, phase)
  PROVE  worker' \in [Workers -> Worker]
<1>1. worker[w] \in Worker
  BY WorkerTypes
<1>2. [worker[w] EXCEPT !.phase = phase] \in Worker
  BY <1>1 DEF Worker
<1>3. worker' = [worker EXCEPT ![w] = [worker[w] EXCEPT !.phase = phase]]
  BY <1>1 DEF Turns, MediaTypeOK, Worker
<1> QED BY <1>2, <1>3, WorkerTypes
-----------------------------------------------------------------------------
(* One step keeps the types, action by action.                               *)

\* Names that the type facts below are stated with.
LEMMA StateNames ==
  /\ \A l \in {"ABSENT", "UPLOAD_AUTHORIZED", "UPLOADED_QUARANTINED", "PROCESSING", "READY",
               "FAILED", "REJECTED", "DELETION_PENDING", "DELETED"} : l \in Lifecycle!Lifecycles
BY DEF Lifecycle!Lifecycles

\* The phases of an upload that a request step writes.
LEMMA UploadTypes ==
  ASSUME MediaTypeOK, NEW a \in Assets, NEW phase \in Phases
  PROVE  [uploads EXCEPT ![a] = phase] \in [Assets -> Phases]
BY DEF MediaTypeOK

\* The request steps of the API.
LEMMA ApiTypes ==
  ASSUME MediaTypeOK, Api
  PROVE  MediaTypeOK'
<1> PICK a \in Assets : \/ Authorize(a) \/ Store(a) \/ BeginComplete(a) \/ Complete(a)
                       \/ StoreFails(a) \/ Refuse(a) \/ Withdraw(a) \/ WithdrawFails(a)
                       \/ CancelUpload(a) \/ ApiDies(a)
  BY DEF Api
<1>1. CASE Authorize(a)
  <2>1. asset' \in [Assets -> Asset]
    BY <1>1, SetAssetTypes, StateNames DEF Authorize
  <2> QED BY <1>1, <2>1, UploadTypes DEF Authorize, MediaTypeOK, listing, Phases
<1>2. CASE Complete(a)
  <2>1. asset' \in [Assets -> Asset]
    BY <1>2, SetAssetTypes, StateNames DEF Complete
  <2>2. job' \in [Assets -> Job]
    BY <1>2, SetJobTypes DEF Complete, Enqueue
  <2>3. order' \in [Assets -> Nat]
    BY <1>2, Counts DEF Complete, MediaTypeOK
  <2> QED BY <1>2, <2>1, <2>2, <2>3, UploadTypes DEF Complete, MediaTypeOK, Phases
<1>3. CASE CancelUpload(a)
  <2>1. asset' \in [Assets -> Asset]
    BY <1>3, SetAssetTypes, StateNames DEF CancelUpload, MediaTypeOK
  <2>2. uploads' \in [Assets -> Phases]
    BY <1>3 DEF CancelUpload, MediaTypeOK, Phases
  <2> QED BY <1>3, <2>1, <2>2 DEF CancelUpload, MediaTypeOK, listing
<1>4. CASE Store(a)
  BY <1>4, UploadTypes DEF Store, MediaTypeOK, listing, Phases
<1>5. CASE Withdraw(a)
  BY <1>5, UploadTypes DEF Withdraw, Removed, MediaTypeOK, listing, Phases
<1>6. CASE BeginComplete(a) \/ StoreFails(a) \/ Refuse(a) \/ WithdrawFails(a) \/ ApiDies(a)
  BY <1>6, UploadTypes DEF BeginComplete, StoreFails, Refuse, WithdrawFails, ApiDies, MediaTypeOK,
       listing, Phases
<1> QED BY <1>1, <1>2, <1>3, <1>4, <1>5, <1>6

\* The commands of the provider.
LEMMA ProviderTypes ==
  ASSUME MediaTypeOK, Provider
  PROVE  MediaTypeOK'
<1>1. ASSUME NEW chosen \in Assets, NEW position \in Positions, Reorder(position, chosen)
      PROVE  MediaTypeOK'
  <2>1. Cardinality(photos) \in Nat
    BY Counts DEF MediaTypeOK
  <2>2. \A b \in photos : position[b] \in Nat
    BY <2>1 DEF Positions
  <2>3. order' \in [Assets -> Nat]
    BY <1>1, <2>2 DEF Reorder
  <2> QED BY <1>1, <2>3 DEF Reorder, MediaTypeOK
<1>2. ASSUME NEW a \in Assets, Remove(a) PROVE MediaTypeOK'
  <2>1. asset' \in [Assets -> Asset]
    BY <1>2, SetAssetTypes, StateNames DEF Remove, MediaTypeOK, Asset
  <2>2. Detach(a) BY <1>2 DEF Remove
  <2> QED BY <1>2, <2>1, <2>2, DetachTypes DEF Remove, MediaTypeOK
<1>3. ASSUME NEW a \in Assets, Retry(a) PROVE MediaTypeOK'
  <2>1. asset' \in [Assets -> Asset]
    BY <1>3, SetAssetTypes, StateNames DEF Retry
  <2>2. job' \in [Assets -> Job]
    BY <1>3, SetJobTypes DEF Retry, Enqueue
  <2> QED BY <1>3, <2>1, <2>2 DEF Retry, MediaTypeOK, listing
<1>4. CASE Submit \/ ReturnToDraft
  BY <1>4 DEF Submit, ReturnToDraft, MediaTypeOK, listing
<1> QED BY <1>1, <1>2, <1>3, <1>4 DEF Provider

\* Cleaning up: the claim, the files, the row.
LEMMA CleanupTypes ==
  ASSUME MediaTypeOK, NEW w \in Workers, NEW a \in Assets,
         ClaimCleanup(w, a) \/ RemoveFiles(w, a) \/ MarkDeleted(w, a)
  PROVE  MediaTypeOK'
<1>1. CASE ClaimCleanup(w, a)
  <2>1. asset' \in [Assets -> Asset]
    BY <1>1, SetAssetTypes, StateNames DEF ClaimCleanup, Mark
  <2>2. [Idle EXCEPT !.phase = "cleaning", !.asset = a] \in Worker
    <3>1. Idle \in Worker BY WorkerTypes
    <3> QED BY <3>1 DEF Worker
  <2> QED BY <1>1, <2>1, <2>2, WorkerTypes DEF ClaimCleanup, MediaTypeOK, listing
<1>2. CASE RemoveFiles(w, a)
  <2>1. worker' \in [Workers -> Worker]
    BY <1>2, TurnsTypes DEF RemoveFiles
  <2> QED BY <1>2, <2>1 DEF RemoveFiles, Removed, MediaTypeOK, listing
<1>3. CASE MarkDeleted(w, a)
  <2>1. asset' \in [Assets -> Asset]
    BY <1>3, SetAssetTypes, StateNames DEF MarkDeleted, MediaTypeOK, Asset
  <2>2. job' \in [Assets -> Job]
    BY <1>3, SetJobTypes DEF MarkDeleted, MediaTypeOK
  <2>3. photos' \subseteq Assets /\ order' \in [Assets -> Nat] /\ cover' \in photos' \cup {None}
    BY <1>3, DetachTypes DEF MarkDeleted, MediaTypeOK, listing
  <2> QED BY <1>3, <2>1, <2>2, <2>3, WorkerTypes DEF MarkDeleted, MediaTypeOK
<1> QED BY <1>1, <1>2, <1>3

\* Processing a photo, from the claim to its outcome.
LEMMA ProcessTypes ==
  ASSUME MediaTypeOK, NEW w \in Workers, NEW a \in Assets,
         ClaimProcessing(w, a) \/ Process(w, a)
  PROVE  MediaTypeOK'
<1>1. CASE ClaimProcessing(w, a)
  <2>1. job[a].attempts + 1 \in 0..MaxAttempts
    BY <1>1, LimitsAssumption DEF ClaimProcessing, MediaTypeOK, Job
  <2>2. [state |-> "PROCESSING", attempts |-> job[a].attempts + 1, due |-> FALSE] \in Job
    BY <2>1 DEF Job
  <2>3. job' \in [Assets -> Job]
    BY <1>1, <2>2 DEF ClaimProcessing, MediaTypeOK
  <2>4. [phase |-> "working", asset |-> a, retryable |-> FALSE, attempt |-> job[a].attempts + 1] \in Worker
    BY <2>1 DEF Worker
  <2>5. asset' \in [Assets -> Asset]
    BY <1>1, StateNames DEF ClaimProcessing, MediaTypeOK, Asset
  <2> QED BY <1>1, <2>3, <2>4, <2>5, WorkerTypes DEF ClaimProcessing, MediaTypeOK, listing
<1>2. CASE Read(w, a)
  BY <1>2, TurnsTypes DEF Read, MediaTypeOK, listing
<1>3. CASE WriteVariants(w, a)
  <2>1. worker' \in [Workers -> Worker]
    BY <1>3, TurnsTypes DEF WriteVariants
  <2> QED BY <1>3, <2>1 DEF WriteVariants, MediaTypeOK, listing
<1>4. CASE MarkReady(w, a)
  <2>1. asset' \in [Assets -> Asset]
    BY <1>4, SetAssetTypes, StateNames DEF MarkReady, MediaTypeOK
  <2>2. job' \in [Assets -> Job]
    BY <1>4, SetJobTypes DEF MarkReady
  <2>3. worker' \in [Workers -> Worker]
    BY <1>4, TurnsTypes, WorkerTypes DEF MarkReady
  <2> QED BY <1>4, <2>1, <2>2, <2>3 DEF MarkReady, MediaTypeOK
<1>5. CASE Unusable(w, a) \/ Unavailable(w, a)
  <2>1. \A r \in BOOLEAN : [worker[w] EXCEPT !.phase = "failing", !.retryable = r] \in Worker
    BY WorkerTypes DEF Worker
  <2>2. worker' \in [Workers -> Worker]
    BY <1>5, <2>1 DEF Unusable, Unavailable, MediaTypeOK
  <2> QED BY <1>5, <2>2 DEF Unusable, Unavailable, MediaTypeOK, listing
<1>6. CASE MarkFailure(w, a)
  <2>1. CanRetry(w) \in BOOLEAN
    BY WorkerTypes DEF CanRetry, Worker
  <2>2. asset' \in [Assets -> Asset]
    BY <1>6, <2>1, SetAssetTypes, StateNames DEF MarkFailure, MediaTypeOK
  <2>3. job' \in [Assets -> Job]
    BY <1>6, SetJobTypes DEF MarkFailure
  <2> QED BY <1>6, <2>2, <2>3, WorkerTypes DEF MarkFailure, MediaTypeOK, listing
<1> QED BY <1>1, <1>2, <1>3, <1>4, <1>5, <1>6 DEF Process
\* A photo that becomes READY while another is taken off.
LEMMA OverlapTypes ==
  ASSUME MediaTypeOK, NEW w \in Workers, NEW a \in Assets, NEW b \in Assets, ReadyDuringRemove(w, a, b)
  PROVE  MediaTypeOK'
<1>1. asset' \in [Assets -> Asset]
  <2>1. [lifecycle |-> "READY", retryable |-> FALSE, due |-> FALSE] \in Asset
    BY StateNames DEF Asset
  <2>2. [asset[b] EXCEPT !.lifecycle = "DELETION_PENDING"] \in Asset
    BY StateNames DEF MediaTypeOK, Asset
  <2>3. asset' = [[asset EXCEPT ![a] = [lifecycle |-> "READY", retryable |-> FALSE, due |-> FALSE]]
                    EXCEPT ![b] = [asset[b] EXCEPT !.lifecycle = "DELETION_PENDING"]]
    BY DEF ReadyDuringRemove, MediaTypeOK, Asset
  <2> QED BY <2>1, <2>2, <2>3 DEF MediaTypeOK
<1>2. job' \in [Assets -> Job]
  BY SetJobTypes DEF ReadyDuringRemove
<1>3. Detach(b)
  BY DEF ReadyDuringRemove
<1> QED BY <1>1, <1>2, <1>3, DetachTypes, WorkerTypes DEF ReadyDuringRemove, MediaTypeOK

\* Deadlines.
LEMMA TimeTypes ==
  ASSUME MediaTypeOK, Time
  PROVE  MediaTypeOK'
<1>1. ASSUME NEW a \in Assets, CleanupDue(a) PROVE MediaTypeOK'
  <2>1. asset' \in [Assets -> Asset]
    BY <1>1 DEF CleanupDue, MediaTypeOK, Asset
  <2> QED BY <1>1, <2>1 DEF CleanupDue, MediaTypeOK, listing
<1>2. ASSUME NEW a \in Assets, JobDue(a) PROVE MediaTypeOK'
  <2>1. job' \in [Assets -> Job]
    BY <1>2 DEF JobDue, MediaTypeOK, Job
  <2> QED BY <1>2, <2>1 DEF JobDue, MediaTypeOK, listing
<1> QED BY <1>1, <1>2 DEF Time

\* Every row of the pipeline keeps its type, and the cover is one of the photos.
THEOREM MediaTypeCorrect == Safety => []MediaTypeOK
<1>1. Init => MediaTypeOK
  <2>1. \A a \in Assets : [lifecycle |-> "ABSENT", retryable |-> FALSE, due |-> FALSE] \in Asset
    BY StateNames DEF Asset
  <2>2. [state |-> "NONE", attempts |-> 0, due |-> FALSE] \in Job
    BY LimitsAssumption DEF Job
  <2>3. Idle \in Worker
    BY LimitsAssumption DEF Idle, Worker
  <2> QED BY <2>1, <2>2, <2>3 DEF Init, MediaTypeOK, Phases
<1>2. MediaTypeOK /\ [Next]_vars => MediaTypeOK'
  <2> SUFFICES ASSUME MediaTypeOK, [Next]_vars PROVE MediaTypeOK'
    OBVIOUS
  <2>1. ASSUME NEW w \in Workers, Crash(w) PROVE MediaTypeOK'
    BY <2>1, WorkerTypes DEF Crash, MediaTypeOK, listing
  <2>2. ASSUME NEW w \in Workers, Media(w) PROVE MediaTypeOK'
    BY <2>1, <2>2, CleanupTypes, ProcessTypes, OverlapTypes DEF Media
  <2>3. CASE UNCHANGED vars
    BY <2>3 DEF vars, listing, MediaTypeOK
  <2> QED BY <2>2, <2>3, ApiTypes, ProviderTypes, TimeTypes DEF Next
<1> QED BY <1>1, <1>2, PTL DEF Safety
-----------------------------------------------------------------------------
(* The refinement.  That a photo is only ever shown when it is READY, and    *)
(* never attached when its asset is gone, has to be known of the state a     *)
(* step starts from.                                                         *)

State(a) == asset[a].lifecycle

Shown == /\ cover # None => State(cover) = "READY"
         /\ \A a \in photos : State(a) \notin {"ABSENT", "DELETED"}

MediaInv == MediaTypeOK /\ Shown

\* The lifecycles after a step that wrote at most one row.
Moved(a, new) == \A b \in Assets : State(b)' = IF b = a THEN new ELSE State(b)

\* The moves the steps make are moves of the lifecycle.
LEMMA MovesKnown ==
  /\ <<"ABSENT", "UPLOAD_AUTHORIZED">> \in Lifecycle!Moves
  /\ \A s \in {"UPLOADED_QUARANTINED", "REJECTED"} : <<"UPLOAD_AUTHORIZED", s>> \in Lifecycle!Moves
  /\ \A s \in {"UPLOADED_QUARANTINED", "FAILED"} : <<s, "PROCESSING">> \in Lifecycle!Moves
  /\ \A s \in {"READY", "FAILED", "REJECTED"} : <<"PROCESSING", s>> \in Lifecycle!Moves
  /\ <<"FAILED", "UPLOADED_QUARANTINED">> \in Lifecycle!Moves
  /\ <<"DELETION_PENDING", "DELETED">> \in Lifecycle!Moves
  /\ \A s \in Lifecycle!Lifecycles \ {"ABSENT", "DELETED"} : <<s, "DELETION_PENDING">> \in Lifecycle!Moves
BY DEF Lifecycle!Moves

\* A step of the abstract specification, without its mapping.
LEMMA StepByState ==
  ASSUME \A a \in Assets : State(a)' = State(a) \/ <<State(a), State(a)'>> \in Lifecycle!Moves,
         \A a \in Assets : /\ a \in photos' \ photos => /\ State(a) = "UPLOAD_AUTHORIZED"
                                                       /\ State(a)' = "UPLOADED_QUARANTINED"
                           /\ State(a)' = "DELETED" => a \notin photos'
                           /\ State(a) = "READY" /\ State(a)' # "READY" => a \notin photos',
         MediaTypeOK', Shown'
  PROVE  Lifecycle!Step
BY AssetsAssumption DEF Lifecycle!Step, Lifecycle!Follows, Lifecycle!Attached, Lifecycle!Covered, State,
   Shown, MediaTypeOK
\* Writing a row moves its asset and no other.
LEMMA SetAssetMoves ==
  ASSUME MediaTypeOK, NEW a \in Assets, NEW state, NEW retryable, SetAsset(a, state, retryable)
  PROVE  Moved(a, state)
BY DEF SetAsset, Moved, State, MediaTypeOK

\* Steps that neither move an asset nor touch the listing.
LEMMA QuietStep ==
  ASSUME MediaInv, MediaTypeOK', \A b \in Assets : State(b)' = State(b),
         photos' = photos, cover' = cover
  PROVE  Shown' /\ Lifecycle!Step
<1>1. Shown'
  BY DEF MediaInv, MediaTypeOK, Shown, State
<1> QED BY <1>1, StepByState DEF MediaInv, MediaTypeOK, Shown

\* Steps that move one asset which is not shown, and take none off.
LEMMA OneMove ==
  ASSUME MediaInv, MediaTypeOK', NEW a \in Assets, NEW new, Moved(a, new),
         new = State(a) \/ <<State(a), new>> \in Lifecycle!Moves,
         State(a) # "READY", new \notin {"ABSENT", "DELETED"},
         photos' = photos, cover' = cover \/ (cover' = a /\ new = "READY")
  PROVE  Shown' /\ Lifecycle!Step
<1>1. \A b \in Assets : State(b)' = IF b = a THEN new ELSE State(b)
  BY DEF Moved
<1>2. cover' # None => State(cover)' = "READY"
  <2>1. CASE cover' = a /\ new = "READY"
    BY <1>1, <2>1 DEF State
  <2>2. CASE cover' = cover
    BY <1>1, <2>2 DEF MediaInv, MediaTypeOK, Shown, State
  <2> QED BY <2>1, <2>2
<1>3. Shown'
  BY <1>1, <1>2 DEF MediaInv, MediaTypeOK, Shown, State
<1> QED BY <1>1, <1>3, StepByState DEF MediaInv, MediaTypeOK, Shown

\* How assets move when photo a is taken off.
OffMoves(a) == \A b \in Assets : \/ State(b)' = State(b)
                                 \/ State(b) = "PROCESSING" /\ State(b)' = "READY"
                                 \/ b = a /\ <<State(b), State(b)'>> \in Lifecycle!Moves

\* Steps that take photo a off and choose the cover anew; with it, another photo
\* may have become READY.
LEMMA OneOff ==
  ASSUME MediaInv, MediaTypeOK', NEW a \in Assets, OffMoves(a), Detach(a)
  PROVE  Shown' /\ Lifecycle!Step
<1>1. photos' = photos \ {a} /\ (cover' # None => cover' \in photos' /\ State(cover') = "READY")
  BY DetachTypes DEF MediaInv, In, State
<1>2. cover' # None => State(cover)' = "READY"
  <2> SUFFICES ASSUME cover' # None PROVE State(cover)' = "READY"
    OBVIOUS
  <2>1. cover' \in Assets \ {a} /\ State(cover') = "READY"
    BY <1>1 DEF MediaInv, MediaTypeOK
  <2>2. asset'[cover'].lifecycle = "READY"
    BY <2>1 DEF State, OffMoves
  <2> QED BY <2>2 DEF State
<1>3. \A b \in photos' : State(b)' \notin {"ABSENT", "DELETED"}
  BY <1>1 DEF MediaInv, MediaTypeOK, Shown, OffMoves
<1>4. Shown'
  BY <1>2, <1>3 DEF Shown, State
<1> QED BY <1>1, <1>4, MovesKnown, StepByState DEF MediaInv, MediaTypeOK, Shown, OffMoves

\* The upload request.
LEMMA ApiSteps ==
  ASSUME MediaInv, MediaTypeOK', Api
  PROVE  Shown' /\ Lifecycle!Step
<1> PICK a \in Assets : \/ Authorize(a) \/ Store(a) \/ BeginComplete(a) \/ Complete(a)
                       \/ StoreFails(a) \/ Refuse(a) \/ Withdraw(a) \/ WithdrawFails(a)
                       \/ CancelUpload(a) \/ ApiDies(a)
  BY DEF Api
<1> USE DEF MediaInv
<1>1. CASE Authorize(a)
  <2>1. State(a) = "ABSENT" /\ Moved(a, "UPLOAD_AUTHORIZED") /\ UNCHANGED <<photos, cover>>
    BY <1>1, SetAssetMoves DEF Authorize, In, State, listing
  <2> QED BY <2>1, OneMove, MovesKnown
<1>2. CASE Complete(a)
  <2>1. State(a) = "UPLOAD_AUTHORIZED" /\ Moved(a, "UPLOADED_QUARANTINED")
    BY <1>2, SetAssetMoves DEF Complete, In, State
  <2>2. \A b \in Assets : State(b)' = IF b = a THEN "UPLOADED_QUARANTINED" ELSE State(b)
    BY <2>1 DEF Moved
  <2>3. photos' = photos \cup {a} /\ cover' = cover
    BY <1>2 DEF Complete
  <2>4. cover' # None => State(cover)' = "READY"
    BY <2>1, <2>2, <2>3 DEF MediaTypeOK, Shown, State
  <2>5. Shown'
    BY <2>2, <2>3, <2>4 DEF MediaTypeOK, Shown, State
  <2> QED BY <2>1, <2>2, <2>3, <2>5, MovesKnown, StepByState DEF MediaTypeOK, Shown
<1>3. CASE CancelUpload(a)
  <2>1. CASE In(a, {"UPLOAD_AUTHORIZED"})
    <3>1. State(a) = "UPLOAD_AUTHORIZED" /\ Moved(a, "REJECTED") /\ UNCHANGED <<photos, cover>>
      BY <1>3, <2>1, SetAssetMoves DEF CancelUpload, In, State, listing
    <3> QED BY <3>1, OneMove, MovesKnown
  <2>2. CASE ~In(a, {"UPLOAD_AUTHORIZED"})
    BY <1>3, <2>2, QuietStep DEF CancelUpload, State, listing
  <2> QED BY <2>1, <2>2
<1>4. CASE Store(a) \/ BeginComplete(a) \/ StoreFails(a) \/ Refuse(a) \/ Withdraw(a)
           \/ WithdrawFails(a) \/ ApiDies(a)
  BY <1>4, QuietStep DEF Store, BeginComplete, StoreFails, Refuse, Withdraw, WithdrawFails, ApiDies,
       State, listing
<1> QED BY <1>1, <1>2, <1>3, <1>4

\* The provider's commands.
LEMMA ProviderSteps ==
  ASSUME MediaInv, MediaTypeOK', Provider
  PROVE  Shown' /\ Lifecycle!Step
<1> USE DEF MediaInv
<1>1. ASSUME NEW chosen \in Assets, NEW position \in Positions, Reorder(position, chosen)
      PROVE  Shown' /\ Lifecycle!Step
  <2>1. \A b \in Assets : State(b)' = State(b)
    BY <1>1 DEF Reorder, State
  <2>2. photos' = photos /\ cover' = chosen /\ State(chosen) = "READY"
    BY <1>1 DEF Reorder, In, State
  <2>3. State(cover)' = "READY"
    BY <2>1, <2>2 DEF State
  <2>4. Shown'
    BY <2>1, <2>2, <2>3 DEF MediaTypeOK, Shown
  <2> QED BY <2>1, <2>2, <2>4, StepByState DEF MediaTypeOK, Shown
<1>2. ASSUME NEW a \in Assets, Remove(a)
      PROVE  Shown' /\ Lifecycle!Step
  <2>1. Moved(a, "DELETION_PENDING") /\ Detach(a) /\ a \in photos
    BY <1>2, SetAssetMoves DEF Remove, Removable
  <2>2. State(a) \in Lifecycle!Lifecycles \ {"ABSENT", "DELETED"}
    BY <2>1 DEF MediaTypeOK, Shown, State, Asset
  <2>3. <<State(a), State(a)'>> \in Lifecycle!Moves
    BY <2>1, <2>2, MovesKnown DEF Moved
  <2>4. OffMoves(a)
    BY <2>1, <2>3 DEF Moved, OffMoves
  <2> QED BY <2>1, <2>4, OneOff
<1>3. ASSUME NEW a \in Assets, Retry(a)
      PROVE  Shown' /\ Lifecycle!Step
  <2>1. State(a) = "FAILED" /\ Moved(a, "UPLOADED_QUARANTINED") /\ UNCHANGED <<photos, cover>>
    BY <1>3, SetAssetMoves DEF Retry, In, State, listing
  <2> QED BY <2>1, OneMove, MovesKnown
<1>4. CASE Submit \/ ReturnToDraft
  BY <1>4, QuietStep DEF Submit, ReturnToDraft, State, listing
<1> QED BY <1>1, <1>2, <1>3, <1>4 DEF Provider

\* The media worker.
LEMMA MediaSteps ==
  ASSUME MediaInv, MediaTypeOK', NEW w \in Workers, Media(w)
  PROVE  Shown' /\ Lifecycle!Step
<1> USE DEF MediaInv
<1>1. ASSUME NEW a \in Assets, ClaimCleanup(w, a)
      PROVE  Shown' /\ Lifecycle!Step
  <2>1. /\ State(a) \in {"DELETION_PENDING", "UPLOAD_AUTHORIZED", "REJECTED", "FAILED"}
        /\ Moved(a, "DELETION_PENDING") /\ UNCHANGED <<photos, cover>>
    BY <1>1, SetAssetMoves DEF ClaimCleanup, Mark, Unwanted, In, State, listing
  <2>2. State(a) \in Lifecycle!Lifecycles \ {"ABSENT", "DELETED"}
    BY <2>1, StateNames
  <2> QED BY <2>1, <2>2, OneMove, MovesKnown
<1>2. ASSUME NEW a \in Assets, MarkDeleted(w, a)
      PROVE  Shown' /\ Lifecycle!Step
  <2>1. CASE State(a) = "DELETION_PENDING"
    <3>1. Moved(a, "DELETED")
      BY <1>2, <2>1, SetAssetMoves DEF MarkDeleted, In, State
    <3>2. \A b \in Assets : State(b)' = IF b = a THEN "DELETED" ELSE State(b)
      BY <3>1 DEF Moved
    <3>3. CASE a \in photos
      <4>1. Detach(a) BY <1>2, <3>3 DEF MarkDeleted
      <4>2. <<State(a), State(a)'>> \in Lifecycle!Moves BY <2>1, <3>2, MovesKnown
      <4>3. OffMoves(a) BY <3>2, <4>2 DEF OffMoves
      <4> QED BY <4>1, <4>3, OneOff
    <3>4. CASE a \notin photos
      <4>1. photos' = photos /\ cover' = cover
        BY <1>2, <3>4 DEF MarkDeleted, listing
      <4>2. cover' # None => State(cover)' = "READY"
        BY <3>2, <3>4, <4>1 DEF MediaTypeOK, Shown, State
      <4>3. Shown'
        BY <3>2, <3>4, <4>1, <4>2 DEF MediaTypeOK, Shown, State
      <4> QED BY <2>1, <3>2, <3>4, <4>1, <4>3, MovesKnown, StepByState DEF MediaTypeOK, Shown
    <3> QED BY <3>3, <3>4
  <2>2. CASE State(a) # "DELETION_PENDING"
    <3>1. \A b \in Assets : State(b)' = State(b)
      BY <1>2, <2>2 DEF MarkDeleted, In, State
    <3>2. CASE a \in photos
      <4>1. Detach(a) BY <1>2, <3>2 DEF MarkDeleted
      <4>2. OffMoves(a) BY <3>1 DEF OffMoves
      <4> QED BY <4>1, <4>2, OneOff
    <3>3. CASE a \notin photos
      BY <1>2, <3>1, <3>3, QuietStep DEF MarkDeleted, listing
    <3> QED BY <3>2, <3>3
  <2> QED BY <2>1, <2>2
<1>3. ASSUME NEW a \in Assets, ClaimProcessing(w, a)
      PROVE  Shown' /\ Lifecycle!Step
  <2>1. /\ State(a) \in {"UPLOADED_QUARANTINED", "PROCESSING", "FAILED"}
        /\ Moved(a, "PROCESSING") /\ UNCHANGED <<photos, cover>>
    BY <1>3 DEF ClaimProcessing, In, Moved, State, listing, MediaTypeOK, Asset
  <2> QED BY <2>1, OneMove, MovesKnown
<1>4. ASSUME NEW a \in Assets, MarkReady(w, a)
      PROVE  Shown' /\ Lifecycle!Step
  <2>1. CASE State(a) = "PROCESSING"
    <3>1. Moved(a, "READY") /\ photos' = photos /\ cover' \in {cover, a}
      BY <1>4, <2>1, SetAssetMoves DEF MarkReady, StillProcessing, In, State
    <3> QED BY <2>1, <3>1, OneMove, MovesKnown
  <2>2. CASE State(a) # "PROCESSING"
    BY <1>4, <2>2, QuietStep DEF MarkReady, StillProcessing, In, State
  <2> QED BY <2>1, <2>2
<1>5. ASSUME NEW a \in Assets, MarkFailure(w, a)
      PROVE  Shown' /\ Lifecycle!Step
  <2>1. CASE State(a) = "PROCESSING"
    <3>1. PICK new \in {"FAILED", "REJECTED"} : Moved(a, new)
      BY <1>5, <2>1, SetAssetMoves DEF MarkFailure, StillProcessing, In, State
    <3>2. UNCHANGED <<photos, cover>>
      BY <1>5 DEF MarkFailure, listing
    <3> QED BY <2>1, <3>1, <3>2, OneMove, MovesKnown
  <2>2. CASE State(a) # "PROCESSING"
    BY <1>5, <2>2, QuietStep DEF MarkFailure, StillProcessing, In, State, listing
  <2> QED BY <2>1, <2>2
<1>6. ASSUME NEW a \in Assets, NEW b \in Assets, ReadyDuringRemove(w, a, b)
      PROVE  Shown' /\ Lifecycle!Step
  <2>1. Detach(b) /\ b # a /\ b \in photos /\ State(a) = "PROCESSING"
    BY <1>6 DEF ReadyDuringRemove, Removable, StillProcessing, In, State
  <2>2. \A c \in Assets : State(c)' = IF c = b THEN "DELETION_PENDING" ELSE IF c = a THEN "READY" ELSE State(c)
    BY <1>6, <2>1 DEF ReadyDuringRemove, State, MediaTypeOK, Asset
  <2>3. State(b) \in Lifecycle!Lifecycles \ {"ABSENT", "DELETED"}
    BY <2>1 DEF MediaTypeOK, Shown, State, Asset
  <2>4. <<State(b), State(b)'>> \in Lifecycle!Moves
    BY <2>2, <2>3, MovesKnown
  <2>5. OffMoves(b)
    BY <2>1, <2>2, <2>4 DEF OffMoves
  <2> QED BY <2>1, <2>5, OneOff
<1>7. ASSUME NEW a \in Assets, RemoveFiles(w, a) \/ Read(w, a) \/ WriteVariants(w, a)
                               \/ Unusable(w, a) \/ Unavailable(w, a)
      PROVE  Shown' /\ Lifecycle!Step
  BY <1>7, QuietStep DEF RemoveFiles, Read, WriteVariants, Unusable, Unavailable, State, listing
<1>8. CASE Crash(w)
  BY <1>8, QuietStep DEF Crash, State, listing
<1> QED BY <1>1, <1>2, <1>3, <1>4, <1>5, <1>6, <1>7, <1>8 DEF Media, Process

\* However many workers there are, photos follow the lifecycle of their assets,
\* are attached once, and the cover can always be shown.
THEOREM LifecycleCorrect == Safety => ImplementsLifecycle
<1>1. Init => Shown /\ Lifecycle!Init
  BY DEF Init, Shown, Lifecycle!Init
<1>2. MediaInv /\ MediaTypeOK' /\ [Next]_vars => Shown' /\ Lifecycle!Step
  <2> SUFFICES ASSUME MediaInv, MediaTypeOK', [Next]_vars PROVE Shown' /\ Lifecycle!Step
    OBVIOUS
  <2>1. CASE Time
    <3>1. PICK a \in Assets : CleanupDue(a) \/ JobDue(a)
      BY <2>1 DEF Time
    <3> QED BY <3>1, QuietStep DEF CleanupDue, JobDue, State, listing, MediaInv, MediaTypeOK, Asset
  <2>2. CASE UNCHANGED vars
    BY <2>2, QuietStep DEF vars, listing, State
  <2> QED BY <2>1, <2>2, ApiSteps, ProviderSteps, MediaSteps DEF Next
<1>3. Safety => []MediaTypeOK
  BY MediaTypeCorrect
<1>4. Lifecycle!Step => [Lifecycle!Step]_(Lifecycle!rows)
  OBVIOUS
<1> QED BY <1>1, <1>2, <1>3, <1>4, PTL DEF Safety, MediaInv, ImplementsLifecycle, Lifecycle!Promise
-----------------------------------------------------------------------------
(* One worker at a time.  What the rows of an asset, its files and its       *)
(* upload request say of one another, and what the worker may have in hand. *)

InProgress == {"authorized", "stored", "committing", "withdrawing", "cancelling", "keeping"}
Doomed == {"DELETION_PENDING", "DELETED"}
ToBeRetried(row) == row.lifecycle = "FAILED" /\ row.retryable

Matched(row, task, held, upload) ==
  /\ row.lifecycle \in {"ABSENT", "UPLOAD_AUTHORIZED"} => task.attempts = 0
  /\ upload \in InProgress => row.lifecycle \in {"UPLOAD_AUTHORIZED"} \cup Doomed
  /\ row.lifecycle = "UPLOAD_AUTHORIZED" /\ upload \in {"stored", "committing"} => "ORIGINAL" \in held
  /\ row.lifecycle \in {"UPLOADED_QUARANTINED", "PROCESSING", "FAILED", "READY"} => "ORIGINAL" \in held
  /\ row.lifecycle = "READY" => "VARIANTS" \in held /\ task.state = "COMPLETED"
  /\ row.lifecycle = "PROCESSING" => task.state = "PROCESSING"
  /\ row.lifecycle = "UPLOADED_QUARANTINED" \/ ToBeRetried(row) => task.state = "PENDING" /\ task.attempts < MaxAttempts

InHand(hand, row, task, held) ==
  /\ hand.phase # "idle" => row.lifecycle \in {"PROCESSING"} \cup Doomed
  /\ hand.phase \in {"cleaning", "cleaned", "discarding", "discarded"} => row.lifecycle \in Doomed
  /\ row.lifecycle = "PROCESSING" => hand.attempt = task.attempts
  /\ row.lifecycle = "PROCESSING" /\ hand.phase = "written" => "VARIANTS" \in held

Followed(a) ==
  /\ Matched(asset[a], job[a], files[a], uploads[a])
  /\ \A w \in Workers : worker[w].asset = a => worker[w].phase # "idle" /\ InHand(worker[w], asset[a], job[a], files[a])

Follow == \A a \in Assets : Followed(a)
Alone == \A v, w \in Workers : v = w

\* A step that touches one asset leaves what is said of the others.
LEMMA OneTouched ==
  ASSUME Follow, NEW a \in Assets, Followed(a)',
         \A b \in Assets \ {a} : /\ asset'[b] = asset[b] /\ job'[b] = job[b]
                                 /\ files'[b] = files[b] /\ uploads'[b] = uploads[b],
         \A w \in Workers : worker'[w] = worker[w] \/ worker'[w].asset \in {a, None}
  PROVE  Follow'
<1> SUFFICES ASSUME NEW b \in Assets, b # a PROVE Followed(b)'
  BY DEF Follow
<1>1. Followed(b) /\ b # None
  BY AssetsAssumption DEF Follow
<1>2. \A w \in Workers : worker'[w].asset = b => worker'[w] = worker[w]
  BY <1>1
<1> QED BY <1>1, <1>2 DEF Followed

\* The rows of one asset, with what was said of them.
LEMMA RowsTyped ==
  ASSUME MediaTypeOK, NEW a \in Assets
  PROVE  /\ asset[a] \in Asset /\ job[a] \in Job /\ files[a] \subseteq {"ORIGINAL", "VARIANTS"}
         /\ uploads[a] \in Phases
         /\ job[a].attempts \in Nat /\ MaxAttempts \in Nat \ {0}
         /\ \A w \in Workers : worker[w] \in Worker
BY LimitsAssumption DEF MediaTypeOK, Job

\* A worker that has an asset in hand found it as it was when it has not changed.
LEMMA HandKept ==
  ASSUME Follow, NEW a \in Assets, worker' = worker, job'[a].attempts = job[a].attempts,
         files[a] \subseteq files'[a],
         asset'[a].lifecycle = asset[a].lifecycle \/ asset'[a].lifecycle \in Doomed
           \/ asset[a].lifecycle \notin {"PROCESSING"} \cup Doomed
  PROVE  \A w \in Workers : worker'[w].asset = a => worker'[w].phase # "idle" /\ InHand(worker'[w], asset'[a], job'[a], files'[a])
<1> SUFFICES ASSUME NEW w \in Workers, worker[w].asset = a
             PROVE  worker[w].phase # "idle" /\ InHand(worker[w], asset'[a], job'[a], files'[a])
  OBVIOUS
<1>1. worker[w].phase # "idle" /\ InHand(worker[w], asset[a], job[a], files[a])
  BY DEF Follow, Followed
<1> QED BY <1>1 DEF InHand, Doomed

LEMMA ApiFollows ==
  ASSUME Follow, MediaTypeOK, MediaTypeOK', Api
  PROVE  Follow'
<1> PICK a \in Assets : \/ Authorize(a) \/ Store(a) \/ BeginComplete(a) \/ Complete(a)
                       \/ StoreFails(a) \/ Refuse(a) \/ Withdraw(a) \/ WithdrawFails(a)
                       \/ CancelUpload(a) \/ ApiDies(a)
  BY DEF Api
<1> DEFINE Row(l) == asset'[a].lifecycle = l
           Same == asset'[a] = asset[a] /\ job'[a] = job[a]
<1>1. Matched(asset[a], job[a], files[a], uploads[a])
  BY DEF Follow, Followed
<1>2. asset[a] \in Asset /\ job[a] \in Job /\ files[a] \subseteq {"ORIGINAL", "VARIANTS"} /\ MaxAttempts \in Nat \ {0}
  BY RowsTyped
<1>3. worker' = worker /\ \A b \in Assets \ {a} : /\ asset'[b] = asset[b] /\ job'[b] = job[b]
                                                  /\ files'[b] = files[b] /\ uploads'[b] = uploads[b]
  BY DEF Authorize, Store, BeginComplete, Complete, StoreFails, Refuse, Withdraw, WithdrawFails, CancelUpload, ApiDies,
         SetAsset, Enqueue, SetJob, MediaTypeOK
<1>4. CASE Authorize(a)
  <2>1. /\ asset[a].lifecycle = "ABSENT" /\ asset'[a].lifecycle = "UPLOAD_AUTHORIZED" /\ job'[a] = job[a] /\ files'[a] = files[a]
        /\ uploads'[a] = "authorized"
    BY <1>4 DEF Authorize, In, SetAsset, MediaTypeOK
  <2>2. Matched(asset'[a], job'[a], files'[a], uploads'[a])
    BY <1>1, <2>1 DEF Matched, ToBeRetried
  <2>3. Followed(a)'
    BY <1>3, <2>1, <2>2, HandKept DEF Followed, Doomed
  <2> QED BY <1>3, <2>3, OneTouched
<1>5. CASE Complete(a)
  <2>1. /\ asset[a].lifecycle = "UPLOAD_AUTHORIZED" /\ asset'[a].lifecycle = "UPLOADED_QUARANTINED" /\ files'[a] = files[a]
        /\ job'[a].state = "PENDING" /\ job'[a].attempts = job[a].attempts
        /\ uploads[a] = "committing" /\ uploads'[a] = "over"
    BY <1>2, <1>5 DEF Complete, In, SetAsset, Enqueue, SetJob, MediaTypeOK, Job
  <2>2. Matched(asset'[a], job'[a], files'[a], uploads'[a])
    BY <1>1, <1>2, <2>1 DEF Matched, ToBeRetried, InProgress
  <2>3. Followed(a)'
    BY <1>3, <2>1, <2>2, HandKept DEF Followed, Doomed
  <2> QED BY <1>3, <2>3, OneTouched
<1>6. CASE CancelUpload(a)
  <2>1. /\ asset'[a] = asset[a] \/ (asset[a].lifecycle = "UPLOAD_AUTHORIZED" /\ asset'[a].lifecycle = "REJECTED")
        /\ job'[a] = job[a] /\ files'[a] = files[a] /\ uploads'[a] \in {"lost", "over"}
    BY <1>6 DEF CancelUpload, In, SetAsset, MediaTypeOK
  <2>2. Matched(asset'[a], job'[a], files'[a], uploads'[a])
    BY <1>1, <2>1 DEF Matched, ToBeRetried, InProgress
  <2>3. Followed(a)'
    BY <1>3, <2>1, <2>2, HandKept DEF Followed, Doomed
  <2> QED BY <1>3, <2>3, OneTouched
<1>7. CASE Withdraw(a)
  <2>1. /\ asset'[a] = asset[a] /\ job'[a] = job[a] /\ uploads[a] = "withdrawing" /\ uploads'[a] = "cancelling"
    BY <1>7 DEF Withdraw, MediaTypeOK
  <2>2. asset[a].lifecycle \in {"UPLOAD_AUTHORIZED"} \cup Doomed
    BY <1>1, <2>1 DEF Matched, InProgress
  <2>3. Matched(asset'[a], job'[a], files'[a], uploads'[a])
    BY <1>1, <2>1, <2>2 DEF Matched, ToBeRetried, InProgress, Doomed
  <2>4. \A w \in Workers : worker[w].asset = a => InHand(worker[w], asset[a], job[a], files'[a]) /\ worker[w].phase # "idle"
    BY <2>2 DEF Follow, Followed, InHand, Doomed
  <2>5. Followed(a)'
    BY <1>3, <2>1, <2>3, <2>4 DEF Followed
  <2> QED BY <1>3, <2>5, OneTouched
<1>8. CASE Store(a) \/ BeginComplete(a) \/ StoreFails(a) \/ Refuse(a) \/ WithdrawFails(a) \/ ApiDies(a)
  <2>1. /\ asset'[a] = asset[a] /\ job'[a] = job[a] /\ files[a] \subseteq files'[a]
        /\ uploads'[a] \in InProgress \cup {"lost"}
        /\ uploads'[a] \in InProgress => uploads[a] \in InProgress
        /\ uploads'[a] \in {"stored", "committing"} => "ORIGINAL" \in files'[a] \/ uploads[a] \in {"stored", "committing"}
    BY <1>8 DEF Store, BeginComplete, StoreFails, Refuse, WithdrawFails, ApiDies, InProgress, MediaTypeOK
  <2>2. Matched(asset'[a], job'[a], files'[a], uploads'[a])
    BY <1>1, <2>1 DEF Matched, InProgress
  <2>3. Followed(a)'
    BY <1>3, <2>1, <2>2, HandKept DEF Followed
  <2> QED BY <1>3, <2>3, OneTouched
<1> QED BY <1>4, <1>5, <1>6, <1>7, <1>8

LEMMA ProviderFollows ==
  ASSUME Follow, MediaTypeOK, MediaTypeOK', Provider
  PROVE  Follow'
<1>1. ASSUME UNCHANGED <<asset, job, files, uploads, worker>> PROVE Follow'
  BY <1>1 DEF Follow, Followed
<1>2. CASE (\E chosen \in Assets, position \in Positions : Reorder(position, chosen)) \/ Submit \/ ReturnToDraft
  BY <1>1, <1>2 DEF Reorder, Submit, ReturnToDraft
<1>3. ASSUME NEW a \in Assets, Remove(a) PROVE Follow'
  <2>1. /\ asset'[a].lifecycle = "DELETION_PENDING" /\ job' = job /\ files' = files /\ uploads' = uploads /\ worker' = worker
        /\ \A b \in Assets \ {a} : asset'[b] = asset[b]
    BY <1>3 DEF Remove, SetAsset, MediaTypeOK
  <2>2. Matched(asset'[a], job'[a], files'[a], uploads'[a])
    BY <2>1 DEF Matched, ToBeRetried, Doomed
  <2>3. Followed(a)'
    BY <2>1, <2>2, HandKept DEF Followed, Doomed
  <2> QED BY <2>1, <2>3, OneTouched
<1>4. ASSUME NEW a \in Assets, Retry(a) PROVE Follow'
  <2>1. /\ asset[a].lifecycle = "FAILED" /\ asset'[a].lifecycle = "UPLOADED_QUARANTINED"
        /\ job[a].attempts < MaxAttempts /\ job'[a].state = "PENDING" /\ job'[a].attempts = job[a].attempts
        /\ files' = files /\ uploads' = uploads /\ worker' = worker
        /\ \A b \in Assets \ {a} : asset'[b] = asset[b] /\ job'[b] = job[b]
    BY <1>4 DEF Retry, In, Enqueue, SetJob, SetAsset, MediaTypeOK, Job
  <2>2. Matched(asset[a], job[a], files[a], uploads[a])
    BY DEF Follow, Followed
  <2>3. Matched(asset'[a], job'[a], files'[a], uploads'[a])
    BY <2>1, <2>2 DEF Matched, ToBeRetried, Doomed
  <2>4. Followed(a)'
    BY <2>1, <2>3, HandKept DEF Followed, Doomed
  <2> QED BY <2>1, <2>4, OneTouched
<1> QED BY <1>2, <1>3, <1>4 DEF Provider
\* A step of the only worker: what it has in hand afterwards is what matters.
LEMMA WorkerFollows ==
  ASSUME Alone, Follow, NEW w \in Workers, NEW a \in Assets,
         worker'[w].asset \in {a, None}, uploads' = uploads,
         \A b \in Assets \ {a} : asset'[b] = asset[b] /\ job'[b] = job[b] /\ files'[b] = files[b],
         Matched(asset'[a], job'[a], files'[a], uploads[a]),
         worker'[w].asset = a => worker'[w].phase # "idle" /\ InHand(worker'[w], asset'[a], job'[a], files'[a])
  PROVE  Follow'
<1>1. \A v \in Workers : v = w
  BY DEF Alone
<1>2. Followed(a)'
  BY <1>1 DEF Followed
<1> QED BY <1>1, <1>2, OneTouched

LEMMA CleanupFollows ==
  ASSUME Alone, Follow, MediaTypeOK, NEW w \in Workers, NEW a \in Assets,
         ClaimCleanup(w, a) \/ RemoveFiles(w, a) \/ MarkDeleted(w, a)
  PROVE  Follow'
<1>1. Matched(asset[a], job[a], files[a], uploads[a])
      /\ (worker[w].asset = a => InHand(worker[w], asset[a], job[a], files[a]))
  BY DEF Follow, Followed
<1>2. worker \in [Workers -> Worker] /\ Idle.asset = None /\ a # None
  BY AssetsAssumption DEF MediaTypeOK, Idle
<1>3. CASE ClaimCleanup(w, a)
  <2>1. /\ asset'[a].lifecycle = "DELETION_PENDING" /\ job' = job /\ files' = files /\ uploads' = uploads
        /\ \A b \in Assets \ {a} : asset'[b] = asset[b]
    BY <1>3 DEF ClaimCleanup, Mark, SetAsset, MediaTypeOK
  <2>2. worker'[w].asset = a /\ worker'[w].phase = "cleaning"
    BY <1>2, <1>3 DEF ClaimCleanup, Idle
  <2>3. Matched(asset'[a], job'[a], files'[a], uploads[a])
    BY <2>1 DEF Matched, ToBeRetried, Doomed
  <2>4. InHand(worker'[w], asset'[a], job'[a], files'[a])
    BY <2>1, <2>2 DEF InHand, Doomed
  <2> QED BY <2>1, <2>2, <2>3, <2>4, WorkerFollows
<1>4. CASE RemoveFiles(w, a)
  <2>1. /\ asset' = asset /\ job' = job /\ uploads' = uploads /\ \A b \in Assets \ {a} : files'[b] = files[b]
        /\ worker[w].asset = a /\ worker[w].phase \in {"cleaning", "discarding"}
    BY <1>4 DEF RemoveFiles, Has, MediaTypeOK
  <2>2. worker'[w].asset = a /\ worker'[w].phase \in {"cleaned", "discarded"}
    BY <1>2, <1>4, <2>1 DEF RemoveFiles, Turns, Worker
  <2>3. asset[a].lifecycle \in Doomed
    BY <1>1, <2>1 DEF InHand
  <2>4. Matched(asset'[a], job'[a], files'[a], uploads[a])
    BY <1>1, <2>1, <2>3 DEF Matched, ToBeRetried, Doomed
  <2>5. InHand(worker'[w], asset'[a], job'[a], files'[a])
    BY <2>1, <2>2, <2>3 DEF InHand, Doomed
  <2> QED BY <2>1, <2>2, <2>4, <2>5, WorkerFollows
<1>5. CASE MarkDeleted(w, a)
  <2>1. worker[w].asset = a /\ worker[w].phase \in {"cleaned", "discarded"} /\ uploads' = uploads /\ files' = files
    BY <1>5 DEF MarkDeleted, Has
  <2>2. asset[a].lifecycle \in Doomed
    BY <1>1, <2>1 DEF InHand
  <2>3. /\ asset'[a].lifecycle \in Doomed /\ worker'[w] = Idle
        /\ \A b \in Assets \ {a} : asset'[b] = asset[b] /\ job'[b] = job[b]
    <3>1. worker'[w] = Idle
      BY <1>2, <1>5 DEF MarkDeleted
    <3>2. asset'[a].lifecycle \in Doomed /\ \A b \in Assets \ {a} : asset'[b] = asset[b]
      BY <1>5, <2>2 DEF MarkDeleted, SetAsset, MediaTypeOK, Doomed
    <3>3. \A b \in Assets \ {a} : job'[b] = job[b]
      BY <1>5 DEF MarkDeleted, SetJob, MediaTypeOK
    <3> QED BY <3>1, <3>2, <3>3
  <2>4. Matched(asset'[a], job'[a], files'[a], uploads[a])
    BY <2>3 DEF Matched, ToBeRetried, Doomed
  <2> QED BY <1>2, <2>1, <2>3, <2>4, WorkerFollows
<1> QED BY <1>3, <1>4, <1>5

LEMMA ProcessFollows ==
  ASSUME Alone, Follow, MediaTypeOK, NEW w \in Workers, NEW a \in Assets,
         ClaimProcessing(w, a) \/ Read(w, a) \/ WriteVariants(w, a) \/ MarkReady(w, a)
           \/ Unusable(w, a) \/ Unavailable(w, a) \/ MarkFailure(w, a)
  PROVE  Follow'
<1>1. Matched(asset[a], job[a], files[a], uploads[a])
      /\ (worker[w].asset = a => worker[w].phase # "idle" /\ InHand(worker[w], asset[a], job[a], files[a]))
  BY DEF Follow, Followed
<1>2. /\ worker \in [Workers -> Worker] /\ worker[w] \in Worker /\ Idle.asset = None /\ a # None
      /\ job[a].attempts \in Nat /\ MaxAttempts \in Nat /\ job[a] \in Job /\ asset[a] \in Asset
  BY AssetsAssumption, RowsTyped DEF MediaTypeOK, Idle
<1>3. CASE ClaimProcessing(w, a)
  <2>1. /\ asset'[a].lifecycle = "PROCESSING" /\ files' = files /\ uploads' = uploads
        /\ asset[a].lifecycle \in {"UPLOADED_QUARANTINED", "PROCESSING", "FAILED"}
        /\ \A b \in Assets \ {a} : asset'[b] = asset[b] /\ job'[b] = job[b]
    BY <1>2, <1>3 DEF ClaimProcessing, In, MediaTypeOK, Asset
  <2>2. job'[a].state = "PROCESSING" /\ job'[a].attempts = job[a].attempts + 1
    BY <1>2, <1>3 DEF ClaimProcessing, MediaTypeOK, Job
  <2>3. worker'[w].asset = a /\ worker'[w].phase = "working" /\ worker'[w].attempt = job[a].attempts + 1
    BY <1>2, <1>3 DEF ClaimProcessing
  <2>4. Matched(asset'[a], job'[a], files'[a], uploads[a])
    BY <1>1, <2>1, <2>2 DEF Matched, ToBeRetried, Doomed
  <2>5. InHand(worker'[w], asset'[a], job'[a], files'[a])
    BY <2>1, <2>2, <2>3 DEF InHand, Doomed
  <2> QED BY <2>1, <2>3, <2>4, <2>5, WorkerFollows
<1>4. CASE Read(w, a) \/ WriteVariants(w, a) \/ Unusable(w, a) \/ Unavailable(w, a)
  <2>1. /\ asset' = asset /\ job' = job /\ uploads' = uploads /\ files[a] \subseteq files'[a]
        /\ \A b \in Assets \ {a} : files'[b] = files[b]
        /\ worker[w].asset = a
    BY <1>4 DEF Read, WriteVariants, Unusable, Unavailable, Has, MediaTypeOK
  <2>2. /\ worker'[w].asset = a /\ worker'[w].attempt = worker[w].attempt
        /\ worker'[w].phase \in {"read", "written", "failing"}
        /\ worker'[w].phase = "written" => "VARIANTS" \in files'[a]
    <3>1. CASE Read(w, a) \/ WriteVariants(w, a)
      BY <1>2, <2>1, <3>1 DEF Read, WriteVariants, Turns, Worker, MediaTypeOK
    <3>2. CASE Unusable(w, a) \/ Unavailable(w, a)
      BY <1>2, <2>1, <3>2 DEF Unusable, Unavailable, Worker
    <3> QED BY <1>4, <3>1, <3>2
  <2>3. Matched(asset'[a], job'[a], files'[a], uploads[a])
    BY <1>1, <2>1 DEF Matched
  <2>4. InHand(worker'[w], asset'[a], job'[a], files'[a])
    BY <1>1, <2>1, <2>2 DEF InHand, Doomed
  <2> QED BY <2>1, <2>2, <2>3, <2>4, WorkerFollows
<1>5. CASE MarkReady(w, a)
  <2>1. /\ worker[w].asset = a /\ worker[w].phase = "written" /\ uploads' = uploads /\ files' = files
        /\ job'[a].state = "COMPLETED" /\ job'[a].attempts = job[a].attempts
        /\ \A b \in Assets \ {a} : asset'[b] = asset[b] /\ job'[b] = job[b]
    BY <1>2, <1>5 DEF MarkReady, Has, SetJob, SetAsset, MediaTypeOK, Job
  <2>2. CASE asset[a].lifecycle = "PROCESSING"
    <3>1. asset'[a].lifecycle = "READY" /\ worker'[w] = Idle
      BY <1>2, <1>5, <2>2 DEF MarkReady, StillProcessing, In, SetAsset, MediaTypeOK
    <3>2. Matched(asset'[a], job'[a], files'[a], uploads[a])
      BY <1>1, <2>1, <2>2, <3>1 DEF Matched, InHand, ToBeRetried, Doomed
    <3> QED BY <1>2, <2>1, <3>1, <3>2, WorkerFollows
  <2>3. CASE asset[a].lifecycle # "PROCESSING"
    <3>1. asset[a].lifecycle \in Doomed
      BY <1>1, <2>1, <2>3 DEF InHand, Doomed
    <3>2. asset' = asset /\ worker'[w].asset = a /\ worker'[w].phase = "discarding"
      BY <1>2, <1>5, <2>1, <2>3 DEF MarkReady, StillProcessing, In, Turns, Worker
    <3>3. Matched(asset'[a], job'[a], files'[a], uploads[a])
      BY <1>1, <2>1, <3>1, <3>2 DEF Matched, ToBeRetried, Doomed
    <3>4. InHand(worker'[w], asset'[a], job'[a], files'[a])
      BY <3>1, <3>2 DEF InHand, Doomed
    <3> QED BY <2>1, <3>2, <3>3, <3>4, WorkerFollows
  <2> QED BY <2>2, <2>3
<1>6. CASE MarkFailure(w, a)
  <2>1. /\ worker[w].asset = a /\ worker[w].phase = "failing" /\ uploads' = uploads /\ files' = files
        /\ job'[a].state = (IF CanRetry(w) THEN "PENDING" ELSE "FAILED") /\ job'[a].attempts = job[a].attempts
        /\ \A b \in Assets \ {a} : asset'[b] = asset[b] /\ job'[b] = job[b]
        /\ worker'[w] = Idle
    BY <1>2, <1>6 DEF MarkFailure, Has, SetJob, SetAsset, MediaTypeOK, Job
  <2>2. CASE asset[a].lifecycle = "PROCESSING"
    <3>1. asset'[a].lifecycle \in {"FAILED", "REJECTED"} /\ asset'[a].retryable = CanRetry(w)
      BY <1>6, <2>2 DEF MarkFailure, StillProcessing, In, SetAsset, MediaTypeOK
    <3>2. CanRetry(w) => job[a].attempts < MaxAttempts
      BY <1>1, <2>1, <2>2 DEF InHand, CanRetry
    <3>3. uploads[a] \notin InProgress /\ "ORIGINAL" \in files[a]
      BY <1>1, <2>2 DEF Matched, Doomed
    <3>4. ToBeRetried(asset'[a]) => job'[a].state = "PENDING" /\ job'[a].attempts < MaxAttempts
      BY <2>1, <3>1, <3>2 DEF ToBeRetried
    <3>5. Matched(asset'[a], job'[a], files'[a], uploads[a])
      BY <2>1, <3>1, <3>3, <3>4 DEF Matched, Doomed
    <3> QED BY <1>2, <2>1, <3>5, WorkerFollows
  <2>3. CASE asset[a].lifecycle # "PROCESSING"
    <3>1. asset[a].lifecycle \in Doomed /\ asset' = asset
      BY <1>1, <1>6, <2>1, <2>3 DEF InHand, Doomed, MarkFailure, StillProcessing, In
    <3>2. Matched(asset'[a], job'[a], files'[a], uploads[a])
      BY <1>1, <2>1, <3>1 DEF Matched, ToBeRetried, Doomed
    <3> QED BY <1>2, <2>1, <3>2, WorkerFollows
  <2> QED BY <2>2, <2>3
<1> QED BY <1>3, <1>4, <1>5, <1>6

\* The one step that touches two assets; the worker has none of them afterwards.
LEMMA OverlapFollows ==
  ASSUME Alone, Follow, MediaTypeOK, NEW w \in Workers, NEW a \in Assets, NEW b \in Assets, ReadyDuringRemove(w, a, b)
  PROVE  Follow'
<1>1. /\ Matched(asset[a], job[a], files[a], uploads[a]) /\ Matched(asset[b], job[b], files[b], uploads[b])
      /\ worker[w].asset = a => InHand(worker[w], asset[a], job[a], files[a])
  BY DEF Follow, Followed
<1>2. /\ worker[w].asset = a /\ worker[w].phase = "written" /\ asset[a].lifecycle = "PROCESSING" /\ a # b
      /\ files' = files /\ uploads' = uploads
  BY DEF ReadyDuringRemove, Has, StillProcessing, In
<1>3. asset'[a].lifecycle = "READY" /\ asset'[b].lifecycle = "DELETION_PENDING"
      /\ \A c \in Assets \ {a, b} : asset'[c] = asset[c]
  BY <1>2 DEF ReadyDuringRemove, MediaTypeOK, Asset
<1>4. job'[a].state = "COMPLETED" /\ job'[a].attempts = job[a].attempts /\ \A c \in Assets \ {a} : job'[c] = job[c]
  BY DEF ReadyDuringRemove, SetJob, MediaTypeOK, Job
<1>5. \A v \in Workers : worker'[v].asset \notin Assets
  BY AssetsAssumption DEF ReadyDuringRemove, Alone, MediaTypeOK, Idle
<1>6. Matched(asset'[a], job'[a], files'[a], uploads'[a])
  BY <1>1, <1>2, <1>3, <1>4 DEF Matched, InHand, ToBeRetried, Doomed
<1>7. Matched(asset'[b], job'[b], files'[b], uploads'[b])
  BY <1>1, <1>2, <1>3, <1>4 DEF Matched, ToBeRetried, Doomed
<1>8. ASSUME NEW c \in Assets PROVE Followed(c)'
  <2>1. Matched(asset[c], job[c], files[c], uploads[c])
    BY DEF Follow, Followed
  <2>2. Matched(asset'[c], job'[c], files'[c], uploads'[c])
    BY <1>2, <1>3, <1>4, <1>6, <1>7, <2>1
  <2> QED BY <1>5, <2>2 DEF Followed
<1> QED BY <1>8 DEF Follow

LEMMA TimeFollows ==
  ASSUME Follow, MediaTypeOK, Time
  PROVE  Follow'
<1> PICK a \in Assets : CleanupDue(a) \/ JobDue(a)
  BY DEF Time
<1>1. Matched(asset[a], job[a], files[a], uploads[a])
  BY DEF Follow, Followed
<1>2. /\ files' = files /\ uploads' = uploads /\ worker' = worker
      /\ \A b \in Assets \ {a} : asset'[b] = asset[b] /\ job'[b] = job[b]
      /\ asset'[a].lifecycle = asset[a].lifecycle /\ asset'[a].retryable = asset[a].retryable
      /\ job'[a].state = job[a].state /\ job'[a].attempts = job[a].attempts
  <2>1. CASE CleanupDue(a)
    BY <2>1 DEF CleanupDue, MediaTypeOK, Asset
  <2>2. CASE JobDue(a)
    BY <2>2 DEF JobDue, MediaTypeOK, Job
  <2> QED BY <2>1, <2>2
<1>3. Matched(asset'[a], job'[a], files'[a], uploads'[a])
  BY <1>1, <1>2 DEF Matched, ToBeRetried
<1>4. Followed(a)'
  BY <1>2, <1>3, HandKept DEF Followed
<1> QED BY <1>2, <1>4, OneTouched

\* With one worker process at a time, however often it dies, the files a photo
\* needs are there and the queue of jobs follows the assets, for any number of
\* photos and attempts.
THEOREM FilesAndJobsCorrect ==
  ASSUME \A v, w \in Workers : v = w
  PROVE  Safety => []FilesAndJobsFollow
<1>1. Init => Follow
  <2> SUFFICES ASSUME Init, NEW a \in Assets PROVE Followed(a)
    BY DEF Follow
  <2>1. asset[a].lifecycle = "ABSENT" /\ job[a].attempts = 0 /\ uploads[a] = "none" /\ \A w \in Workers : worker[w].asset = None
    BY DEF Init, Idle
  <2>2. a # None
    BY AssetsAssumption
  <2> QED BY <2>1, <2>2 DEF Followed, Matched, InProgress, ToBeRetried
<1>2. MediaTypeOK /\ MediaTypeOK' /\ Follow /\ [Next]_vars => Follow'
  <2> SUFFICES ASSUME MediaTypeOK, MediaTypeOK', Follow, [Next]_vars PROVE Follow'
    OBVIOUS
  <2>1. Alone
    BY DEF Alone
  <2>2. ASSUME NEW w \in Workers, Media(w) PROVE Follow'
    <3>1. CASE Crash(w)
      <4>1. asset' = asset /\ job' = job /\ files' = files /\ uploads' = uploads
            /\ \A v \in Workers : worker'[v] = worker[v] \/ worker'[v].asset = None
        BY <3>1 DEF Crash, MediaTypeOK, Idle
      <4>2. \A a \in Assets : a # None
        BY AssetsAssumption
      <4> QED BY <4>1, <4>2 DEF Follow, Followed
    <3> QED BY <2>1, <2>2, <3>1, CleanupFollows, ProcessFollows, OverlapFollows DEF Media, Process
  <2>3. CASE UNCHANGED vars
    BY <2>3 DEF vars, Follow, Followed
  <2> QED BY <2>2, <2>3, ApiFollows, ProviderFollows, TimeFollows DEF Next
<1>3. MediaTypeOK /\ Follow => FilesAndJobsFollow
  BY DEF Follow, Followed, Matched, ToBeRetried, FilesAndJobsFollow, In
<1>4. Safety => []MediaTypeOK
  BY MediaTypeCorrect
<1> QED BY <1>1, <1>2, <1>3, <1>4, PTL DEF Safety
=============================================================================
