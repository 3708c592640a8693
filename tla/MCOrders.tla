------------------------------- MODULE MCOrders -------------------------------
(***************************************************************************)
(* The order plane and the audit tail in one instance.  They share no      *)
(* variable and no property speaks of both: each moves while the other is  *)
(* where it starts.  No fair action of either is enabled there, so its     *)
(* fairness asks nothing of the other's behaviours.                        *)
(***************************************************************************)
EXTENDS MCOrderPlane, MCAuditTail

OrdersInit == Init /\ FollowInit
OrdersNext ==
  \/ FollowInit /\ Next /\ UNCHANGED followVars
  \/ Init /\ holder = 1 /\ FollowNext /\ UNCHANGED vars

OrdersSpec ==
  OrdersInit /\ [][OrdersNext]_<<vars, followVars>> /\ ShutdownFairness /\ TailFairness
=============================================================================
