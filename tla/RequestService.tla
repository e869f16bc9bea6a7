--------------------------- MODULE RequestService ---------------------------
(***************************************************************************)
(* What the CoAP layer promises to who sends a confirmable request: one    *)
(* result and no other, which is                                           *)
(*   - an answer only if the Server gave one to that very request, or to   *)
(*     an earlier one that had the same token and has ended;               *)
(*   - a failure only while nobody has acknowledged the request, when the  *)
(*     peer is deleted, or in the place of an earlier request that has     *)
(*     ended while its message was still being sent again.                 *)
(* The second alternative of each is not what a sender would like, but no  *)
(* more is kept: tokens are drawn again and addresses given again.         *)
(***************************************************************************)
CONSTANTS Request, Token, NULL

VARIABLES
  phase,   \* where each request is
  token,   \* what the answer to it is known by
  served,  \* the requests the Server has answered
  open     \* whether the peer exists

Phase == {"none", "refused", "sent", "acknowledged", "response", "failure"}

Init ==
  /\ phase = [r \in Request |-> "none"]
  /\ token = [r \in Request |-> NULL]
  /\ served = {}
  /\ open = TRUE

Waits(r) == phase[r] \in {"sent", "acknowledged"}
Ended(r) == phase[r] \in {"refused", "response", "failure"}

Moves(r, from, to) ==
  /\ open
  /\ phase[r] \in from
  /\ phase' = [phase EXCEPT ![r] = to]
  /\ UNCHANGED <<served, open>>

\* A token that nobody waits for.
Draws(r) ==
  \E t \in Token :
    /\ \A q \in Request : Waits(q) => token[q] # t
    /\ token' = [token EXCEPT ![r] = t]

Accept(r) == Moves(r, {"none"}, "sent") /\ Draws(r)

\* A refused request may have been sent all the same.
Refuse(r) == Moves(r, {"none"}, "refused") /\ (Draws(r) \/ UNCHANGED token)

Acknowledge(r) == Moves(r, {"sent"}, "acknowledged") /\ UNCHANGED token

Answer(r) ==
  /\ \E q \in served : token[q] = token[r] /\ (q = r \/ Ended(q))
  /\ Moves(r, {"sent", "acknowledged"}, "response")
  /\ UNCHANGED token

Fail(r) == Moves(r, {"sent"}, "failure") /\ UNCHANGED token

FailForAnother(r) ==
  /\ \E q \in Request \ {r} : phase[q] \in {"response", "failure"}
  /\ Moves(r, {"sent", "acknowledged"}, "failure")
  /\ UNCHANGED token

Serve(r) ==
  /\ token[r] # NULL
  /\ served' = served \cup {r}
  /\ UNCHANGED <<phase, token, open>>

Close ==
  /\ open
  /\ open' = FALSE
  /\ phase' = [r \in Request |-> IF Waits(r) THEN "failure" ELSE phase[r]]
  /\ UNCHANGED <<token, served>>

Next ==
  \/ Close
  \/ \E r \in Request :
       \/ Accept(r) \/ Refuse(r) \/ Acknowledge(r) \/ Answer(r)
       \/ Fail(r) \/ FailForAnother(r) \/ Serve(r)

Spec == Init /\ [][Next]_<<phase, token, served, open>>

=============================================================================
