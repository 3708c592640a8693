----------------------------- MODULE MCAllowlist -----------------------------
(* Small tables: serial 1 an order client, 2 a client that rotates, 3 admin. *)
EXTENDS Allowlist

T(o, a) == [order |-> o, admin |-> a]
MCConfig == T({1}, {3})
MCEdits == {T({1, 2}, {3})}
\* Requests that leave 1 and 3 where they are, and one that forgets the admin.
Rotations == {T({1, 2}, {3}), T({1}, {2, 3}), T({1}, {3}), T({1}, {})}
\* Serial 2 is promoted to admin and back, and never taken off the list.
MCBefore == T({1, 2}, {3})
Promotions == {MCBefore, T({1}, {2, 3})}
=============================================================================
