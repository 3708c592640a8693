----------------------------- MODULE MCAuditFile -----------------------------
(***************************************************************************)
(* Small instances of AuditFile with a reader: the constants are numbers,  *)
(* but for the windows of the time queries.                                *)
(***************************************************************************)
EXTENDS AuditQuery

\* Everything, and a window both ends of which cut records off.
MCWindows == {<<0, 0>>, <<1, 2>>}
=============================================================================
