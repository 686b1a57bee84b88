--------------------------- MODULE PhotoLifecycle ---------------------------
(***************************************************************************)
(* What the photos of a listing promise to everyone who reads them,        *)
(* however uploads, the provider's commands and any number of media        *)
(* workers interleave: the lifecycle of an asset, written as what one step *)
(* may do.  MediaPipeline implements it.                                   *)
(***************************************************************************)
CONSTANTS Assets,           \* media_assets of one listing
          None

VARIABLES lifecycle,        \* media_assets.lifecycle, "ABSENT" before the insert
          photos,           \* assets attached to the listing and not removed
          cover             \* the photo with is_cover, or None

rows == <<lifecycle, photos, cover>>

Lifecycles == {"ABSENT", "UPLOAD_AUTHORIZED", "UPLOADED_QUARANTINED", "PROCESSING", "READY",
               "FAILED", "REJECTED", "DELETION_PENDING", "DELETED"}

\* The moves an asset can make; DELETED is the end.
Moves == {<<"ABSENT", "UPLOAD_AUTHORIZED">>,
          <<"UPLOAD_AUTHORIZED", "UPLOADED_QUARANTINED">>, <<"UPLOAD_AUTHORIZED", "REJECTED">>,
          <<"UPLOADED_QUARANTINED", "PROCESSING">>, <<"FAILED", "PROCESSING">>,
          <<"PROCESSING", "READY">>, <<"PROCESSING", "FAILED">>, <<"PROCESSING", "REJECTED">>,
          <<"FAILED", "UPLOADED_QUARANTINED">>, <<"DELETION_PENDING", "DELETED">>}
         \cup ((Lifecycles \ {"ABSENT", "DELETED"}) \X {"DELETION_PENDING"})

Init == /\ lifecycle = [a \in Assets |-> "ABSENT"]
        /\ photos = {}
        /\ cover = None

\* Every asset follows its lifecycle ...
Follows == \A a \in Assets : \/ lifecycle'[a] = lifecycle[a]
                             \/ <<lifecycle[a], lifecycle'[a]>> \in Moves

\* ... is attached once, by the completion of its upload, and detached before
\* it is deleted; a READY photo leaves its state only by being taken off ...
Attached == \A a \in Assets :
  /\ a \in photos' \ photos => /\ lifecycle[a] = "UPLOAD_AUTHORIZED"
                               /\ lifecycle'[a] = "UPLOADED_QUARANTINED"
  /\ lifecycle'[a] = "DELETED" => a \notin photos'
  /\ lifecycle[a] = "READY" /\ lifecycle'[a] # "READY" => a \notin photos'

\* ... and the cover is always a photo that can be shown.
Covered == cover' # None => cover' \in photos' /\ lifecycle'[cover'] = "READY"

Step == Follows /\ Attached /\ Covered

Promise == Init /\ [][Step]_rows
=============================================================================
