----------------------------- MODULE MCAlgorithms -----------------------------
(***************************************************************************)
(* Bounds for Algorithms: templates of up to four pieces, good and bad,    *)
(* against paths of up to five characters; bundles of up to two brokers    *)
(* with up to two endpoints each; files of up to five lines.               *)
(***************************************************************************)
EXTENDS Algorithms

MCPieces == {<<"/">>, <<"a">>, <<".">>, <<"{", "a", "}">>, <<"{">>, <<"}">>, <<"*">>, <<"{", "1", "}">>}
\* Release numbers 2, 9, 10, 11, 50 and 100.
MCTags == {<<2>>, <<9>>, <<1, 0>>, <<1, 1>>, <<5, 0>>, <<1, 0, 0>>}
MCTemplates == {<<<<"/">>, <<"a">>>>, <<<<"/">>, <<"{", "a", "}">>>>, <<<<"a">>>>}
=============================================================================
