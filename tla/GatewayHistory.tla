--------------------------- MODULE GatewayHistory ---------------------------
(***************************************************************************)
(* Gateway with a history variable, which no action reads: whether the     *)
(* operators make one change at a time and wait until it has spread.       *)
(***************************************************************************)
EXTENDS Gateway

VARIABLE serial     \* TRUE while they have

historyVars == <<vars, serial>>

\* A change begins only when nothing is under way.
SerialStart ==
    \A o \in Ops : mgmt[o] = "idle" /\ mgmt'[o] # "idle" => Mgmt!Quiescent

HistoryInit == Init /\ serial = TRUE

HistoryNext == Next /\ serial' = (serial /\ SerialStart)

HistorySpec == HistoryInit /\ [][HistoryNext]_historyVars

FairHistorySpec == HistorySpec /\ Fairness

-----------------------------------------------------------------------------
(* Properties. *)

\* No body says is_deleted: true, which the gateway called stores and all others
\* take for a deletion.
PlainBodies == \A o \in Ops : Info[o].deleted # "true"

\* When nothing is under way, changes were made one at a time and no bus was put
\* out of use, all gateways show the same services.
ConvergedIfSerial ==
    /\ serial /\ Mgmt!Quiescent
    /\ \A g \in Gateways : BusWorks(g)
    => \A g, h \in Gateways : registry[g] = registry[h]
=============================================================================
