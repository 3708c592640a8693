----------------------------- MODULE MCOrderPlane -----------------------------
(* Three versions: the second moves k1 to another host and enables k2, the   *)
(* third disables k1.                                                        *)
EXTENDS OrderPlane, TLC
P(h, on, rs) == [host |-> h, enabled |-> on, routes |-> rs]
MCProfile ==
  << "k1" :> P("h1", TRUE, {"buy"}) @@ "k2" :> P("h2", FALSE, {"buy", "get"}),
     "k1" :> P("h3", TRUE, {"buy", "get"}) @@ "k2" :> P("h2", TRUE, {"buy"}),
     "k1" :> P("h3", FALSE, {"buy"}) >>
=============================================================================
