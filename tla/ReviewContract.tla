---------------------------- MODULE ReviewContract ----------------------------
(***************************************************************************)
(* What Legible promises of submitting a review, whatever GitHub answers,  *)
(* which saves fail and whenever the daemon stops: the draft is the user's *)
(* until it is sent; a revision is posted at most once, as it was sent;    *)
(* what may have been posted is neither edited, sent again nor forgotten   *)
(* until it is known; and what was posted is kept.                         *)
(***************************************************************************)
EXTENDS Naturals, Sequences

CONSTANTS
  CommentIds,  (* identities of comments                                   *)
  Absent       (* a comment that is not there                              *)

VARIABLES
  revision,    (* the revision under review                                *)
  comments,    (* its comments                                             *)
  stand,       (* draft, attempted, confirmed, or deleted                  *)
  attempt,     (* the marker of the attempt, 0 in a draft                  *)
  past,        (* the posted reviews of earlier revisions                  *)
  github       (* the reviews GitHub holds                                 *)

vars == <<revision, comments, stand, attempt, past, github>>

Review == [marker |-> attempt, rev |-> revision, comments |-> comments]
Unposted == \A r \in github : r.rev # revision

NoComments == [id \in CommentIds |-> Absent]

Init ==
  /\ revision = 0 /\ comments = NoComments
  /\ stand = "draft" /\ attempt = 0 /\ past = <<>> /\ github = {}

(* One comment of a draft is written, changed or removed.                  *)
Edit ==
  /\ stand = "draft"
  /\ \E id \in CommentIds :
       \A other \in CommentIds \ {id} : comments'[other] = comments[other]
  /\ UNCHANGED <<revision, stand, attempt, past, github>>

(* The draft is to be sent, under a marker GitHub has not seen.            *)
Attempt ==
  /\ stand = "draft" /\ stand' = "attempted"
  /\ Unposted /\ \A r \in github : r.marker # attempt'
  /\ UNCHANGED <<revision, comments, past, github>>

(* GitHub creates the review, whether or not its answer arrives.           *)
Post ==
  /\ stand = "attempted" /\ Unposted
  /\ github' = github \cup {Review}
  /\ UNCHANGED <<revision, comments, stand, attempt, past>>

(* What is called posted has been posted, as it is in the record.          *)
Confirm ==
  /\ stand = "attempted" /\ stand' = "confirmed"
  /\ Review \in github
  /\ UNCHANGED <<revision, comments, attempt, past, github>>

(* A confirmed review may have to be looked for again, not sent again.     *)
Doubt ==
  /\ stand = "confirmed" /\ stand' = "attempted"
  /\ UNCHANGED <<revision, comments, attempt, past, github>>

(* It is a draft again only when nothing of it was posted.                 *)
GiveUp ==
  /\ stand = "attempted" /\ stand' = "draft"
  /\ Unposted /\ attempt' = 0
  /\ UNCHANGED <<revision, comments, past, github>>

(* The next revision takes the comments of a draft along.                  *)
Carry ==
  /\ stand = "draft" /\ revision' = revision + 1
  /\ \A id \in CommentIds :
       /\ comments'[id] = Absent <=> comments[id] = Absent
       /\ comments[id] # Absent => comments'[id].body = comments[id].body
  /\ UNCHANGED <<stand, attempt, past, github>>

(* After a posted review it starts afresh, and that one is kept.           *)
Archive ==
  /\ stand = "confirmed" /\ stand' = "draft" /\ attempt' = 0
  /\ revision' = revision + 1 /\ comments' = NoComments
  /\ past' = Append(past, Review)
  /\ UNCHANGED github

(* Only a review with nothing in doubt is deleted.                         *)
Delete ==
  /\ stand \in {"draft", "confirmed"} /\ stand' = "deleted"
  /\ revision' = 0 /\ comments' = NoComments /\ attempt' = 0 /\ past' = <<>>
  /\ UNCHANGED github

Next ==
  \/ Edit \/ Attempt \/ Post \/ Confirm \/ Doubt \/ GiveUp
  \/ Carry \/ Archive \/ Delete

Spec == Init /\ [][Next]_vars
=============================================================================
