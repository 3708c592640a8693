----------------------------- MODULE MCAuditTail -----------------------------
(***************************************************************************)
(* Small instances of AuditTail: request goroutines c1 and c2, one or two  *)
(* SSE clients.                                                            *)
(***************************************************************************)
EXTENDS AuditTail

CONSTANTS c1, c2, k1, k2
=============================================================================
