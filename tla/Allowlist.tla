------------------------------ MODULE Allowlist ------------------------------
(***************************************************************************)
(* mtls.Allowlist: the two serial tables, Classify in VerifyConnection and *)
(* in the admin guard, Replace behind POST /admin/client-serials, and the  *)
(* configuration the tables are built from at start.                       *)
(*                                                                         *)
(* The tables are two atomic pointers.  Replace stores one and then the    *)
(* other, Classify loads one and then the other, so each access is an      *)
(* action.  The order plane asks nothing of the tables after the handshake.*)
(***************************************************************************)
EXTENDS Naturals

CONSTANTS
  Serials,    \* serial numbers of certificates the client CA has signed
  Conns,      \* client connections
  Config,     \* mtls.allowed_*_serials the process first starts with
  Edits,      \* what the operator may write there later
  Requests    \* bodies of POST /admin/client-serials that parse

Tables == [order : SUBSET Serials, admin : SUBSET Serials]
Listed(t) == t.order \cup t.admin

\* config.Validate: at least one serial.
ASSUME ConfigAssumption ==
  /\ Config \in Tables /\ Edits \subseteq Tables /\ Requests \subseteq Tables
  /\ \A t \in Edits \cup {Config} : Listed(t) # {}

VARIABLES
  order, admin,   \* the serial sets the two atomic pointers lead to
  conn,           \* per connection: serial, position, request in progress
  config,         \* the configuration file
  hup,            \* hupCh holds a SIGHUP
  refused         \* history: serials whose handshake was refused

allowlistVars == <<order, admin, conn, config, hup, refused>>

NoTable == [order |-> {}, admin |-> {}]
\* listed is history: a table has listed the serial at some moment since the
\* handshake began.
Closed == [st |-> "closed", serial |-> 0, req |-> NoTable, listed |-> FALSE]
Arriving(s) == [Closed EXCEPT !.serial = s, !.listed = s \in order \cup admin]
ConnAt(st, k) == [k EXCEPT !.st = st, !.req = NoTable]

\* The connections once the tables are o and a: those in a handshake remember.
Remember(o, a) ==
  [c \in Conns |-> IF conn[c].st = "handshake" /\ conn[c].serial \in o \cup a
                   THEN [conn[c] EXCEPT !.listed = TRUE] ELSE conn[c]]

\* The type invariant.
AllowlistTypeOK ==
  /\ order \subseteq Serials /\ admin \subseteq Serials /\ refused \subseteq Serials
  /\ conn \in [Conns -> [st : {"closed", "handshake", "open", "storeOrder", "storeAdmin"},
                         serial : Serials \cup {0}, req : Tables, listed : BOOLEAN]]
  /\ config \in Tables /\ hup \in BOOLEAN

-----------------------------------------------------------------------------
(* VerifyConnection calls Classify *)

\* Mutant: only the admin table is consulted.
ClassifyAdminOnly(c, s) ==
  /\ conn[c].st = "closed"
  /\ \/ s \in admin /\ conn' = [conn EXCEPT ![c] = ConnAt("open", Arriving(s))] /\ UNCHANGED refused
     \/ s \notin admin /\ refused' = refused \cup {s} /\ UNCHANGED conn
  /\ UNCHANGED <<order, admin, config, hup>>

\* The admin table is loaded first; a hit settles it.
ClassifyAdmin(c, s) ==
  /\ conn[c].st = "closed"
  /\ conn' = [conn EXCEPT ![c] = ConnAt(IF s \in admin THEN "open" ELSE "handshake", Arriving(s))]
  /\ UNCHANGED <<order, admin, config, hup, refused>>

\* Mutant: the callback closes over the serials the configuration gave.
ClassifyConfigured(c) ==
  /\ conn[c].st = "handshake"
  /\ \/ /\ conn[c].serial \in config.order
        /\ conn' = [conn EXCEPT ![c] = ConnAt("open", @)] /\ UNCHANGED refused
     \/ /\ conn[c].serial \notin config.order
        /\ conn' = [conn EXCEPT ![c] = Closed] /\ refused' = refused \cup {conn[c].serial}
  /\ UNCHANGED <<order, admin, config, hup>>

\* Then the order table; in neither, the handshake is aborted.
ClassifyOrder(c) ==
  /\ conn[c].st = "handshake"
  /\ \/ /\ conn[c].serial \in order
        /\ conn' = [conn EXCEPT ![c] = ConnAt("open", @)] /\ UNCHANGED refused
     \/ /\ conn[c].serial \notin order
        /\ conn' = [conn EXCEPT ![c] = Closed] /\ refused' = refused \cup {conn[c].serial}
  /\ UNCHANGED <<order, admin, config, hup>>

Disconnect(c) ==
  /\ conn[c].st = "open" /\ conn' = [conn EXCEPT ![c] = Closed]
  /\ UNCHANGED <<order, admin, config, hup, refused>>

-----------------------------------------------------------------------------
(* POST /admin/client-serials *)

Replacing == {c \in Conns : conn[c].st \in {"storeOrder", "storeAdmin"}}

\* Mutant: the guard lets every verified peer through.
ClientSerialsUnguarded(c, q) ==
  /\ conn[c].st = "open"
  /\ conn' = [conn EXCEPT ![c].st = "storeOrder", ![c].req = q]
  /\ UNCHANGED <<order, admin, config, hup, refused>>

\* guard classifies the peer again; then the body is decoded and parsed.  A
\* 403 or a 400 changes nothing.
ClientSerials(c, q) ==
  /\ conn[c].st = "open" /\ conn[c].serial \in admin
  /\ conn' = [conn EXCEPT ![c].st = "storeOrder", ![c].req = q]
  /\ UNCHANGED <<order, admin, config, hup, refused>>

StoreOrder(c) ==
  /\ conn[c].st = "storeOrder"
  /\ order' = conn[c].req.order
  /\ conn' = [Remember(conn[c].req.order, admin) EXCEPT ![c].st = "storeAdmin"]
  /\ UNCHANGED <<admin, config, hup, refused>>

StoreAdmin(c) ==
  /\ conn[c].st = "storeAdmin"
  /\ admin' = conn[c].req.admin
  /\ conn' = [Remember(order, conn[c].req.admin) EXCEPT ![c] = ConnAt("open", @)]
  /\ UNCHANGED <<order, config, hup, refused>>

-----------------------------------------------------------------------------
(* The operator *)

\* The operator edits the configuration file.
EditConfig(t) ==
  /\ config # t /\ config' = t
  /\ UNCHANGED <<order, admin, conn, hup, refused>>

\* systemctl reload.
Sighup ==
  /\ ~ hup /\ hup' = TRUE
  /\ UNCHANGED <<order, admin, conn, config, refused>>

\* The signal goroutine loads the file, compares the listen address and drops
\* the result; the tables are not touched.
HupReceived ==
  /\ hup /\ hup' = FALSE
  /\ UNCHANGED <<order, admin, conn, config, refused>>

\* A restart drops every connection and builds the tables from the file: what
\* Replace had stored is gone.
Restart ==
  /\ order' = config.order /\ admin' = config.admin
  /\ conn' = [c \in Conns |-> Closed] /\ hup' = FALSE
  /\ refused' = {}
  /\ UNCHANGED config

-----------------------------------------------------------------------------
AllowlistInit ==
  /\ order = Config.order /\ admin = Config.admin /\ config = Config
  /\ conn = [c \in Conns |-> Closed] /\ refused = {} /\ hup = FALSE

AllowlistNext ==
  \/ \E c \in Conns, s \in Serials : ClassifyAdmin(c, s)
  \/ \E c \in Conns, q \in Requests : ClientSerials(c, q)
  \/ \E c \in Conns : ClassifyOrder(c) \/ Disconnect(c) \/ StoreOrder(c) \/ StoreAdmin(c)
  \/ \E t \in Edits : EditConfig(t)
  \/ Sighup \/ HupReceived \/ Restart

AllowlistSpec == AllowlistInit /\ [][AllowlistNext]_allowlistVars

-----------------------------------------------------------------------------
(* Properties *)

\* Serials that every set of tables in play lists in the same table.
Everywhere == Edits \cup Requests \cup {Config}
Keeping == {s \in Serials : \/ \A t \in Everywhere : s \in t.admin
                            \/ \A t \in Everywhere : s \in t.order}

\* Rotation of other clients' certificates is invisible to a client whose
\* serial stays where it is: no interleaving of Classify's two loads with
\* Replace's two stores refuses its handshake.
KeptNeverRefused == refused \cap Keeping = {}

\* "Replace atomically swaps in new order/admin serial sets": a client whose serial
\* every set of tables in play lists, in whichever of the two, is never refused.
\* Replace's two stores and Classify's two loads break it for a serial that moves
\* from the order to the admin table.
InBoth == {s \in Serials : \A t \in Everywhere : s \in Listed(t)}
ListedNeverRefused == refused \cap InBoth = {}

\* A revoked serial gets in nowhere new: a connection that is being served has
\* been listed by a table at some moment since its handshake began, whatever
\* the two loads of Classify and the two stores of Replace did in between.
\* (Connections that were open when the serial was taken out stay open: the
\* order plane asks nothing more.)
ServedWasListed == \A c \in Conns : conn[c].st \notin {"closed", "handshake"} => conn[c].listed

\* Replace does not refuse what NewAllowlist refuses: a request may leave the
\* proxy without an admin serial.  Then nothing short of a restart changes a
\* table: no request gets past the guard again, and a reload after an edit of the
\* configuration loads the new serials and drops them (release/README.md:140
\* tells the operator that this reload is enough to let a client in).
LockedOut == admin = {} /\ Replacing = {}
LockoutNeedsRestart ==
  [][LockedOut => \/ LockedOut' /\ UNCHANGED order
                  \/ order' = config.order /\ admin' = config.admin
                     /\ \A c \in Conns : conn'[c] = Closed]_allowlistVars
=============================================================================
