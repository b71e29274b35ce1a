------------------------- MODULE DataExchangeHistory -------------------------
(***************************************************************************)
(* DataExchange with two history variables, which no action reads, for the *)
(* properties that relate a state to what happened before it.              *)
(***************************************************************************)
EXTENDS DataExchange

VARIABLES
    faulty,     \* TRUE when a connection broke, a timer fired or a loop crashed
    parted      \* pairs whose connection was closed before

historyVars == <<vars, faulty, parted>>

HistoryInit == Init /\ faulty = FALSE /\ parted = {}

HistoryNext ==
    /\ \/ Protocol /\ UNCHANGED faulty
       \/ Disturbance /\ faulty' = TRUE
    /\ parted' = parted \cup (conn \ conn')

HistorySpec == HistoryInit /\ [][HistoryNext]_historyVars

FairHistorySpec == HistorySpec /\ Fairness

-----------------------------------------------------------------------------
(* Properties. *)

\* Requests go to the peer of the option --peer, responses the other way.
Star ==
    \A x \in Exchanges :
        (\A y \in Exchanges : Reply[y] # x) =>
            From[x] # To[x] /\ Bootstrap[From[x]] = To[x]

\* Without such a fault exchanges fail, and loops die, only because of a message
\* that is too large (or empty), on its own connection or at a gateway whose
\* loop died of the closed connection; a message of exactly the limit is fine.
FailureExplained ==
    ~faulty =>
        LET refused == {x \in Exchanges : inbound[x] = "refused"}
            tooLarge == {x \in refused : Size[x] > MaxSize \/ Size[x] = 0}
        IN  /\ refused = tooLarge
            /\ \A g \in Gateways : ~Alive(g) => tooLarge # {}
            /\ \A x \in Exchanges :
                  outbound[x] = "failed" =>
                      \E y \in tooLarge :
                          Pair(y) = Pair(x) \/ \E g \in Pair(x) : ~Alive(g)

\* ConnectionClosed removes the only address at which the peer could be dialled:
\* two gateways that lost their connection never get it back.
LostForGood == conn \cap parted = {}
=============================================================================
