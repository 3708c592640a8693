------------------------------- MODULE MCEgress -------------------------------
(***************************************************************************)
(* Small instances of Egress: two broker hosts, two addresses.             *)
(***************************************************************************)
EXTENDS Egress

CONSTANTS h1, h2, a1, a2

\* Every bundle enables the first host, both, or none.
MCHostSets == {{}, {h1}, {h1, h2}}
MCHostSetsUp == {{h1}, {h1, h2}}
MCAnswers == {{}, {a1}, {a2}}
=============================================================================
