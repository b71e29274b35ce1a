----------------------------- MODULE LossyPipe -----------------------------
(***************************************************************************)
(* What websocket forwarding promises for one direction of each session,   *)
(* whatever is lost on the way: the frames that come out were put in, each *)
(* comes out once, and in the order in which they were put in.             *)
(***************************************************************************)
EXTENDS Naturals, Sequences

CONSTANT Sessions

VARIABLES
    put,    \* put[s]: number of frames put in; they are named 1, 2, ...
    out     \* out[s]: the frames that came out

vars == <<put, out>>

Init ==
    /\ put = [s \in Sessions |-> 0]
    /\ out = [s \in Sessions |-> <<>>]

Put(s) ==
    /\ put' = [put EXCEPT ![s] = @ + 1]
    /\ UNCHANGED out

Latest(s) == IF out[s] = <<>> THEN 0 ELSE out[s][Len(out[s])]

Get(s) ==
    /\ \E n \in (Latest(s) + 1)..put[s] : out' = [out EXCEPT ![s] = Append(@, n)]
    /\ UNCHANGED put

Next == \E s \in Sessions : Put(s) \/ Get(s)

Spec == Init /\ [][Next]_vars
=============================================================================
