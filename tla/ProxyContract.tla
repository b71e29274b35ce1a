---------------------------- MODULE ProxyContract ----------------------------
(***************************************************************************)
(* What forwarding promises for each HTTP request, without gateways, locks *)
(* or channels: a request for an unknown service is refused and leaves no  *)
(* trace; an accepted one reaches the service at most once, is charged at  *)
(* most once, and is answered only after both have happened.  A request    *)
(* that was given up (the user went away, the handler panicked) may still  *)
(* be served and charged later: nothing calls it back.                     *)
(***************************************************************************)
EXTENDS Naturals

CONSTANTS
    Requests,
    Metered     \* TRUE when usage is submitted to the statistics contract

VARIABLES
    status,     \* status[r]: where the user of r stands
    served,     \* served[r]: calls made to the service for r
    billed      \* billed[r]: usage records submitted for r

vars == <<status, served, billed>>

Init ==
    /\ status = [r \in Requests |-> "new"]
    /\ served = [r \in Requests |-> 0]
    /\ billed = [r \in Requests |-> 0]

Moves(r, from, to) ==
    /\ status[r] = from
    /\ status' = [status EXCEPT ![r] = to]
    /\ UNCHANGED <<served, billed>>

Refuse(r) == Moves(r, "new", "refused")
Accept(r) == Moves(r, "new", "accepted")
Abandon(r) == Moves(r, "accepted", "abandoned")

Answer(r) ==
    /\ served[r] = 1
    /\ billed[r] = (IF Metered THEN 1 ELSE 0)
    /\ Moves(r, "accepted", "answered")

Serve(r) ==
    /\ status[r] \in {"accepted", "abandoned"}
    /\ served[r] = 0
    /\ served' = [served EXCEPT ![r] = 1]
    /\ UNCHANGED <<status, billed>>

Bill(r) ==
    /\ Metered
    /\ status[r] \in {"accepted", "abandoned"}
    /\ billed[r] = 0
    /\ billed' = [billed EXCEPT ![r] = 1]
    /\ UNCHANGED <<status, served>>

Next ==
    \E r \in Requests :
        Refuse(r) \/ Accept(r) \/ Abandon(r) \/ Answer(r) \/ Serve(r) \/ Bill(r)

Spec == Init /\ [][Next]_vars
=============================================================================
