---------------------------- MODULE BundleService ----------------------------
(***************************************************************************)
(* What the bundle pipeline promises its clients, without files, fetches,  *)
(* ETags or staging: the process serves one verified bundle; a running     *)
(* process only ever moves to a strictly newer one, taken from the CDN     *)
(* feed; the egress generator is told the hosts of the bundle being        *)
(* served, after the swap and never before it.                             *)
(***************************************************************************)
EXTENDS Naturals

CONSTANTS
  Good,      \* bundles that are signed, valid and not too new for this proxy
  Feed,      \* bundles the CDN serves
  Version,   \* rank of bundle_version
  None       \* no bundle: the process is down

VARIABLES
  up,        \* the process is serving
  live,      \* the bundle orders are routed with
  hosts      \* the bundle whose hosts the egress generator works from

vars == <<up, live, hosts>>

Init == up = FALSE /\ live = None /\ hosts = None

\* The process comes up with whatever verified bundle is installed.
Boot == ~ up /\ up' = TRUE /\ live' \in Good /\ hosts' = live'

\* The live router is replaced by a newer one from the feed.
Swap ==
  /\ up /\ up' = TRUE
  /\ live' \in Good \cap Feed /\ Version[live'] > Version[live]
  /\ hosts' = hosts

\* The egress generator learns of the swap.
Announce == up /\ up' = TRUE /\ live' = live /\ hosts' = live

Halt == up /\ up' = FALSE /\ live' = None /\ hosts' = None

Next == Boot \/ Swap \/ Announce \/ Halt

Spec == Init /\ [][Next]_vars
=============================================================================
