----------------------------- MODULE ChatContract -----------------------------
(***************************************************************************)
(* What the chat of a review promises its user, whatever the agent does:   *)
(* turns run one at a time and each ends once; what a failed or cut turn   *)
(* was asked stays there to retry, until it is asked again, something else *)
(* is asked, or the review moves on.                                       *)
(***************************************************************************)
EXTENDS Naturals

CONSTANT MaxTurns   (* bound: turns                                        *)

VARIABLES
  turns,      (* how many turns have begun                                 *)
  current,    (* the turn that runs, or 0                                  *)
  asked,      (* the request each turn carries: the turn it was first      *)
              (* asked in                                                  *)
  ends,       (* how each turn ended                                       *)
  retryable   (* the request a retry would repeat, or 0                    *)

vars == <<turns, current, asked, ends, retryable>>

Init ==
  /\ turns = 0 /\ current = 0 /\ retryable = 0
  /\ asked = [t \in 1..MaxTurns |-> 0]
  /\ ends = [t \in 1..MaxTurns |-> {}]

(* A new request, or the one that failed.                                  *)
Begin ==
  /\ current = 0
  /\ turns < MaxTurns
  /\ \E r \in {turns + 1, retryable} \ {0} : asked' = [asked EXCEPT ![turns + 1] = r]
  /\ turns' = turns + 1
  /\ current' = turns + 1
  /\ retryable' = 0
  /\ UNCHANGED ends

Ends(o) == current' = 0 /\ ends' = [ends EXCEPT ![current] = {o}]

(* The turn completed, or its user stopped it.                             *)
End ==
  /\ current # 0
  /\ Ends("completed") \/ Ends("stopped")
  /\ UNCHANGED <<turns, asked, retryable>>

(* The turn failed, or the daemon stopped during it.                       *)
Fail ==
  /\ current # 0
  /\ Ends("failed")
  /\ retryable' = asked[current]
  /\ UNCHANGED <<turns, asked>>

(* The review was submitted or refreshed: old requests are discarded.      *)
MoveOn ==
  /\ current = 0
  /\ retryable' = 0
  /\ UNCHANGED <<turns, current, asked, ends>>

Next == Begin \/ End \/ Fail \/ MoveOn

Spec == Init /\ [][Next]_vars
=============================================================================
