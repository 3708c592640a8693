--------------------------- MODULE MCBundleUpdater ---------------------------
(***************************************************************************)
(* Small instances of BundleUpdater.  The bundles are b1 < b2 < b3 by      *)
(* bundle_version; x is one that is neither signed nor loadable, with a    *)
(* version above all others.                                               *)
(***************************************************************************)
EXTENDS BundleUpdater

CONSTANTS b1, b2, b3, x, Admin, Admin2

MCVersion == [b \in Bundles |-> CASE b = b1 -> 1 [] b = b2 -> 2 [] b = b3 -> 3 [] b = x -> 4]
=============================================================================
