----------------------------- MODULE MCAdmission -----------------------------
(***************************************************************************)
(* The decisions, the serial tables, the binary slots and the admin UI in  *)
(* one instance.  They share no variable and no property speaks of two of  *)
(* them, so interleaving them would only multiply the states: each moves   *)
(* while the others are where they start.                                  *)
(***************************************************************************)
EXTENDS MCAlgorithms, MCAllowlist, MCBinaryUpdate, MCAdminUI

AdmissionInit == CaseInit /\ AllowlistInit /\ BinInit /\ Init

\* One of the admin UI's starts is enough beside the others.
NoBrokers == Init /\ file = [n \in Names |-> None]

AdmissionNext ==
  \/ /\ AllowlistInit /\ BinInit /\ NoBrokers /\ CaseNext
     /\ UNCHANGED <<allowlistVars, binVars, vars>>
  \/ /\ CaseInit /\ BinInit /\ NoBrokers /\ AllowlistNext
     /\ UNCHANGED <<case, binVars, vars>>
  \/ /\ CaseInit /\ AllowlistInit /\ NoBrokers /\ BinNext
     /\ UNCHANGED <<case, allowlistVars, vars>>
  \/ /\ CaseInit /\ AllowlistInit /\ BinInit /\ Next
     /\ UNCHANGED <<case, allowlistVars, binVars>>

AdmissionSpec == AdmissionInit /\ [][AdmissionNext]_<<case, allowlistVars, binVars, vars>>
=============================================================================
