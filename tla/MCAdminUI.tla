------------------------------ MODULE MCAdminUI ------------------------------
(* One broker, two documents, two saves and two publishes at once.  The     *)
(* requests and the documents are interchangeable.                          *)
EXTENDS AdminUI, TLC

Sym == Permutations(Contents) \cup Permutations(Savers) \cup Permutations(Publishers)
=============================================================================
