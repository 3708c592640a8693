--------------------------- MODULE AdmissionProofs ---------------------------
(***************************************************************************)
(* Proofs about what the proxy admits.  First its clients: Allowlist, for  *)
(* every set of serials, any number of client connections and requests,    *)
(* and every configuration.                                                *)
(*                                                                         *)
(* Then the decisions that keep no state, the operators of Configuration   *)
(* and BundleRules, on inputs of any size: which configurations start the  *)
(* process, how versions are ordered, which templates pass, which requests *)
(* the route table of a bundle lets through, and which label a refusal is  *)
(* counted under.                                                          *)
(***************************************************************************)
EXTENDS Allowlist, Algorithms, SequenceTheorems, WellFoundedInduction, TLAPS

-----------------------------------------------------------------------------
(* The inductive invariants *)

\* A handshake under way has a certificate.
Certified == \A c \in Conns : conn[c].st = "handshake" => conn[c].serial \in Serials

\* The serial of a handshake under way has been listed if a table lists it now.
HandshakesRemember ==
  \A c \in Conns : conn[c].st = "handshake" /\ conn[c].serial \in order \cup admin
                     => conn[c].listed

\* The tables, and whatever will become the tables, are of the set in play.
FromPlay ==
  /\ \E t \in Everywhere : order = t.order
  /\ \E t \in Everywhere : admin = t.admin
  /\ config \in Everywhere
  /\ \A c \in Replacing : conn[c].req \in Requests

\* Past the admin table a handshake's serial is not one that every admin table
\* lists.
PastAdmin ==
  \A c \in Conns : conn[c].st = "handshake"
                     => \E t \in Everywhere : conn[c].serial \notin t.admin

AllowlistParts ==
  /\ HandshakesRemember /\ ServedWasListed
  /\ FromPlay /\ PastAdmin /\ KeptNeverRefused
AllowlistInv == AllowlistTypeOK /\ Certified /\ AllowlistParts

-----------------------------------------------------------------------------
(* Types *)

States == {"closed", "handshake", "open", "storeOrder", "storeAdmin"}
ConnType == [st : States, serial : Serials \cup {0}, req : Tables, listed : BOOLEAN]

LEMMA ClosedType == Closed \in ConnType
  BY DEF Closed, ConnType, States, NoTable, Tables

LEMMA AtType ==
  ASSUME NEW st \in States, NEW k \in ConnType
  PROVE  ConnAt(st, k) \in ConnType /\ ConnAt(st, k).st = st /\ ConnAt(st, k).serial = k.serial
         /\ ConnAt(st, k).listed = k.listed
  BY DEF ConnAt, ConnType, NoTable, Tables

LEMMA ArrivingType ==
  ASSUME NEW s \in Serials
  PROVE  Arriving(s) \in ConnType /\ Arriving(s).serial = s
         /\ (Arriving(s).listed <=> s \in order \cup admin)
<1>1. ASSUME NEW b \in BOOLEAN
      PROVE  LET k == [Closed EXCEPT !.serial = s, !.listed = b]
             IN  k \in ConnType /\ k.serial = s /\ k.listed = b
  BY DEF Closed, ConnType, States, NoTable, Tables
<1>2. (s \in order \cup admin) \in BOOLEAN
  OBVIOUS
<1> QED
  BY <1>1, <1>2, Zenon DEF Arriving

LEMMA RememberType ==
  ASSUME NEW o, NEW a, conn \in [Conns -> ConnType]
  PROVE  /\ Remember(o, a) \in [Conns -> ConnType]
         /\ \A c \in Conns :
              /\ Remember(o, a)[c].st = conn[c].st
              /\ Remember(o, a)[c].serial = conn[c].serial
              /\ Remember(o, a)[c].req = conn[c].req
              /\ conn[c].listed => Remember(o, a)[c].listed
              /\ conn[c].st = "handshake" /\ conn[c].serial \in o \cup a
                   => Remember(o, a)[c].listed
  BY DEF Remember, ConnType

LEMMA InitType == AllowlistInit => AllowlistTypeOK /\ Certified
<1> SUFFICES ASSUME AllowlistInit PROVE AllowlistTypeOK /\ Certified
  OBVIOUS
<1>1. conn \in [Conns -> ConnType]
  BY ClosedType DEF AllowlistInit
<1>2. Certified
  BY DEF AllowlistInit, Certified, Closed
<1> QED
  BY <1>1, <1>2, ConfigAssumption DEF AllowlistInit, AllowlistTypeOK, ConnType, States, Tables

-----------------------------------------------------------------------------
(* What each step leaves in conn: one connection changes, and at a store those *)
(* in a handshake remember.                                                    *)

Others(c) == \A d \in Conns \ {c} : conn'[d] = conn[d]
Rest(c) ==
  \A d \in Conns \ {c} :
    /\ conn'[d].st = conn[d].st /\ conn'[d].serial = conn[d].serial
    /\ conn'[d].req = conn[d].req /\ (conn[d].listed => conn'[d].listed)
    /\ conn[d].st = "handshake" /\ conn[d].serial \in order' \cup admin' => conn'[d].listed

LEMMA ClassifyAdminDoes ==
  ASSUME conn \in [Conns -> ConnType], NEW c \in Conns, NEW s \in Serials, ClassifyAdmin(c, s)
  PROVE  /\ conn' \in [Conns -> ConnType] /\ Others(c) /\ conn'[c].serial = s
         /\ \/ s \in admin /\ conn'[c].st = "open"
            \/ s \notin admin /\ conn'[c].st = "handshake"
         /\ conn'[c].listed <=> s \in order \cup admin
<1> DEFINE k == ConnAt(IF s \in admin THEN "open" ELSE "handshake", Arriving(s))
<1>1. /\ Arriving(s) \in ConnType /\ Arriving(s).serial = s
      /\ Arriving(s).listed <=> s \in order \cup admin
  BY ArrivingType
<1>2. /\ k \in ConnType /\ k.serial = s /\ k.listed = Arriving(s).listed
      /\ k.st = IF s \in admin THEN "open" ELSE "handshake"
  BY <1>1, AtType DEF States
<1>3. conn' = [conn EXCEPT ![c] = k]
  BY DEF ClassifyAdmin
<1> HIDE DEF k
<1>4. conn'[c] = k /\ conn' \in [Conns -> ConnType] /\ Others(c)
  BY <1>2, <1>3 DEF Others
<1> QED
  BY <1>1, <1>2, <1>4

LEMMA ClassifyOrderDoes ==
  ASSUME conn \in [Conns -> ConnType], NEW c \in Conns, ClassifyOrder(c)
  PROVE  /\ conn' \in [Conns -> ConnType] /\ Others(c)
         /\ \/ /\ conn[c].serial \in order /\ conn'[c].st = "open"
               /\ conn'[c].listed = conn[c].listed /\ UNCHANGED refused
            \/ /\ conn[c].serial \notin order /\ conn'[c].st = "closed"
               /\ refused' = refused \cup {conn[c].serial}
<1>1. ConnAt("open", conn[c]) \in ConnType /\ ConnAt("open", conn[c]).st = "open"
      /\ ConnAt("open", conn[c]).listed = conn[c].listed
  BY AtType DEF States
<1>2. Closed \in ConnType /\ Closed.st = "closed"
  BY ClosedType DEF Closed
<1> QED
  BY <1>1, <1>2 DEF ClassifyOrder, Others

LEMMA DisconnectDoes ==
  ASSUME conn \in [Conns -> ConnType], NEW c \in Conns, Disconnect(c)
  PROVE  conn' \in [Conns -> ConnType] /\ Others(c) /\ conn'[c].st = "closed"
<1>1. Closed \in ConnType /\ Closed.st = "closed"
  BY ClosedType DEF Closed
<1> QED
  BY <1>1 DEF Disconnect, Others

LEMMA ClientSerialsDoes ==
  ASSUME conn \in [Conns -> ConnType], NEW c \in Conns, NEW q \in Requests, ClientSerials(c, q)
  PROVE  /\ conn' \in [Conns -> ConnType] /\ Others(c) /\ conn'[c].st = "storeOrder"
         /\ conn'[c].req = q /\ conn'[c].listed = conn[c].listed
<1> DEFINE k == [conn[c] EXCEPT !.st = "storeOrder", !.req = q]
<1>1. k \in ConnType /\ k.st = "storeOrder" /\ k.req = q /\ k.listed = conn[c].listed
  BY ConfigAssumption DEF ConnType, States
<1>2. conn' = [conn EXCEPT ![c] = k]
  BY DEF ClientSerials
<1> QED
  BY <1>1, <1>2 DEF Others

LEMMA StoreOrderDoes ==
  ASSUME conn \in [Conns -> ConnType], NEW c \in Conns, StoreOrder(c)
  PROVE  /\ conn' \in [Conns -> ConnType] /\ Rest(c)
         /\ conn'[c].st = "storeAdmin" /\ conn'[c].req = conn[c].req
         /\ conn'[c].listed = conn[c].listed
<1> DEFINE m == Remember(conn[c].req.order, admin)
<1>1. m \in [Conns -> ConnType] /\ m[c].req = conn[c].req
  BY RememberType
<1>2. m[c].listed = conn[c].listed
  BY DEF Remember, StoreOrder
<1>3. conn' = [m EXCEPT ![c].st = "storeAdmin"] /\ m = Remember(order', admin')
  BY DEF StoreOrder
<1>4. ASSUME NEW d \in Conns \ {c}, conn'[d] = m[d]
      PROVE  /\ conn'[d].st = conn[d].st /\ conn'[d].serial = conn[d].serial
             /\ conn'[d].req = conn[d].req /\ (conn[d].listed => conn'[d].listed)
             /\ conn[d].st = "handshake" /\ conn[d].serial \in order' \cup admin'
                  => conn'[d].listed
  BY <1>3, <1>4, RememberType
<1> HIDE DEF m
<1>5. Rest(c)
  BY <1>1, <1>3, <1>4 DEF Rest
<1> QED
  BY <1>1, <1>2, <1>3, <1>5 DEF ConnType, States

LEMMA StoreAdminDoes ==
  ASSUME conn \in [Conns -> ConnType], NEW c \in Conns, StoreAdmin(c)
  PROVE  /\ conn' \in [Conns -> ConnType] /\ Rest(c)
         /\ conn'[c].st = "open" /\ conn'[c].listed = conn[c].listed
<1> DEFINE m == Remember(order, conn[c].req.admin)
<1>1. m \in [Conns -> ConnType]
  BY RememberType
<1>2. m[c].listed = conn[c].listed
  BY DEF Remember, StoreAdmin
<1>3. conn' = [m EXCEPT ![c] = ConnAt("open", m[c])] /\ m = Remember(order', admin')
  BY DEF StoreAdmin
<1>4. ASSUME NEW d \in Conns \ {c}, conn'[d] = m[d]
      PROVE  /\ conn'[d].st = conn[d].st /\ conn'[d].serial = conn[d].serial
             /\ conn'[d].req = conn[d].req /\ (conn[d].listed => conn'[d].listed)
             /\ conn[d].st = "handshake" /\ conn[d].serial \in order' \cup admin'
                  => conn'[d].listed
  BY <1>3, <1>4, RememberType
<1> HIDE DEF m
<1>5. ConnAt("open", m[c]) \in ConnType /\ ConnAt("open", m[c]).st = "open"
      /\ ConnAt("open", m[c]).listed = m[c].listed
  BY <1>1, AtType DEF States
<1>6. Rest(c)
  BY <1>1, <1>3, <1>4, <1>5 DEF Rest
<1> QED
  BY <1>1, <1>2, <1>3, <1>5, <1>6

LEMMA RestartDoes ==
  ASSUME Restart
  PROVE  conn' \in [Conns -> ConnType] /\ \A c \in Conns : conn'[c].st = "closed"
<1>1. Closed \in ConnType /\ Closed.st = "closed"
  BY ClosedType DEF Closed
<1> QED
  BY <1>1 DEF Restart

LEMMA NextConn ==
  AllowlistTypeOK /\ Certified /\ [AllowlistNext]_allowlistVars
    => conn' \in [Conns -> ConnType] /\ Certified'
<1> SUFFICES ASSUME AllowlistTypeOK, Certified, [AllowlistNext]_allowlistVars
             PROVE  conn' \in [Conns -> ConnType] /\ Certified'
  OBVIOUS
<1>0. conn \in [Conns -> ConnType]
  BY DEF AllowlistTypeOK, ConnType, States
<1> USE <1>0 DEF Certified, Others, Rest
<1>1. ASSUME NEW c \in Conns, NEW s \in Serials, ClassifyAdmin(c, s)
      PROVE conn' \in [Conns -> ConnType] /\ Certified'
  BY <1>1, ClassifyAdminDoes
<1>2. ASSUME NEW c \in Conns, NEW q \in Requests, ClientSerials(c, q)
      PROVE conn' \in [Conns -> ConnType] /\ Certified'
  BY <1>2, ClientSerialsDoes
<1>3. ASSUME NEW c \in Conns, ClassifyOrder(c)
      PROVE conn' \in [Conns -> ConnType] /\ Certified'
  BY <1>3, ClassifyOrderDoes
<1>4. ASSUME NEW c \in Conns, Disconnect(c)
      PROVE conn' \in [Conns -> ConnType] /\ Certified'
  BY <1>4, DisconnectDoes
<1>5. ASSUME NEW c \in Conns, StoreOrder(c)
      PROVE conn' \in [Conns -> ConnType] /\ Certified'
  BY <1>5, StoreOrderDoes
<1>6. ASSUME NEW c \in Conns, StoreAdmin(c)
      PROVE conn' \in [Conns -> ConnType] /\ Certified'
  BY <1>6, StoreAdminDoes
<1>7. CASE Restart
  BY <1>7, RestartDoes
<1>8. CASE UNCHANGED conn
  BY <1>8
<1> QED
  BY <1>1, <1>2, <1>3, <1>4, <1>5, <1>6, <1>7, <1>8
  DEF AllowlistNext, EditConfig, Sighup, HupReceived, allowlistVars

LEMMA NextType ==
  AllowlistTypeOK /\ Certified /\ [AllowlistNext]_allowlistVars => AllowlistTypeOK' /\ Certified'
<1> SUFFICES ASSUME AllowlistTypeOK, Certified, [AllowlistNext]_allowlistVars PROVE AllowlistTypeOK'
  BY NextConn
<1>0. conn \in [Conns -> ConnType] /\ conn' \in [Conns -> ConnType]
  BY NextConn DEF AllowlistTypeOK, ConnType, States
<1> USE ConfigAssumption
<1>1. config' \in Tables
  BY <1>0 DEF AllowlistTypeOK, ConnType, AllowlistNext, allowlistVars, ClassifyAdmin,
         ClientSerials, ClassifyOrder,
       Disconnect, StoreOrder, StoreAdmin, EditConfig, Sighup, HupReceived, Restart
<1>2. order' \subseteq Serials /\ admin' \subseteq Serials
  BY <1>0 DEF AllowlistTypeOK, ConnType, Tables, AllowlistNext, allowlistVars, ClassifyAdmin,
         ClientSerials,
       ClassifyOrder, Disconnect, StoreOrder, StoreAdmin, EditConfig, Sighup, HupReceived,
       Restart
<1>3. refused' \subseteq Serials
  <2>1. ASSUME NEW c \in Conns, ClassifyOrder(c) PROVE refused' \subseteq Serials
    BY <2>1 DEF AllowlistTypeOK, Certified, ClassifyOrder
  <2> QED
    BY <2>1 DEF AllowlistTypeOK, AllowlistNext, allowlistVars, ClassifyAdmin, ClientSerials,
       Disconnect, StoreOrder, StoreAdmin, EditConfig, Sighup, HupReceived, Restart
<1>4. hup' \in BOOLEAN
  BY DEF AllowlistTypeOK, AllowlistNext, allowlistVars, ClassifyAdmin, ClientSerials,
     ClassifyOrder,
       Disconnect, StoreOrder, StoreAdmin, EditConfig, Sighup, HupReceived, Restart
<1> QED
  BY <1>0, <1>1, <1>2, <1>3, <1>4 DEF AllowlistTypeOK, ConnType, States

-----------------------------------------------------------------------------
(* Served connections *)

ListedParts == HandshakesRemember /\ ServedWasListed

LEMMA NextListed == AllowlistTypeOK /\ ListedParts /\ [AllowlistNext]_allowlistVars => ListedParts'
<1> SUFFICES ASSUME AllowlistTypeOK, ListedParts, [AllowlistNext]_allowlistVars PROVE ListedParts'
  OBVIOUS
<1>0. conn \in [Conns -> ConnType]
  BY DEF AllowlistTypeOK, ConnType, States
<1> USE <1>0 DEF ListedParts, HandshakesRemember, ServedWasListed, Others, Rest
<1>1. ASSUME NEW c \in Conns, NEW s \in Serials, ClassifyAdmin(c, s) PROVE ListedParts'
  BY <1>1, ClassifyAdminDoes DEF ClassifyAdmin
<1>2. ASSUME NEW c \in Conns, NEW q \in Requests, ClientSerials(c, q) PROVE ListedParts'
  BY <1>2, ClientSerialsDoes DEF ClientSerials
<1>3. ASSUME NEW c \in Conns, ClassifyOrder(c) PROVE ListedParts'
  BY <1>3, ClassifyOrderDoes DEF ClassifyOrder
<1>4. ASSUME NEW c \in Conns, Disconnect(c) PROVE ListedParts'
  BY <1>4, DisconnectDoes DEF Disconnect
<1>5. ASSUME NEW c \in Conns, StoreOrder(c) PROVE ListedParts'
  BY <1>5, StoreOrderDoes DEF StoreOrder
<1>6. ASSUME NEW c \in Conns, StoreAdmin(c) PROVE ListedParts'
  BY <1>6, StoreAdminDoes DEF StoreAdmin
<1>7. ASSUME NEW t \in Edits, EditConfig(t) PROVE ListedParts'
  BY <1>7 DEF EditConfig
<1>8. CASE Sighup \/ HupReceived
  BY <1>8 DEF Sighup, HupReceived
<1>9. CASE Restart
  BY <1>9, RestartDoes DEF Restart
<1>10. CASE UNCHANGED allowlistVars
  BY <1>10 DEF allowlistVars
<1> QED
  BY <1>1, <1>2, <1>3, <1>4, <1>5, <1>6, <1>7, <1>8, <1>9, <1>10 DEF AllowlistNext

-----------------------------------------------------------------------------
(* Clients whose serial stays where it is *)

KeepingParts == FromPlay /\ PastAdmin /\ KeptNeverRefused

LEMMA NextKeeping ==
  AllowlistTypeOK /\ KeepingParts /\ [AllowlistNext]_allowlistVars => KeepingParts'
<1> SUFFICES ASSUME AllowlistTypeOK, KeepingParts, [AllowlistNext]_allowlistVars PROVE KeepingParts'
  OBVIOUS
<1>0. conn \in [Conns -> ConnType]
  BY DEF AllowlistTypeOK, ConnType, States
<1> USE <1>0
    DEF KeepingParts, FromPlay, PastAdmin, KeptNeverRefused, Keeping, Everywhere, Replacing,
        Others, Rest
<1>1. ASSUME NEW c \in Conns, NEW s \in Serials, ClassifyAdmin(c, s) PROVE KeepingParts'
  <2>1. /\ Others(c) /\ conn'[c].serial = s /\ conn[c].st = "closed"
        /\ \/ s \in admin /\ conn'[c].st = "open"
           \/ s \notin admin /\ conn'[c].st = "handshake"
    BY <1>1, ClassifyAdminDoes DEF ClassifyAdmin
  <2>2. FromPlay'
    BY <1>1, <2>1 DEF ClassifyAdmin
  <2>3. PastAdmin'
    BY <1>1, <2>1 DEF ClassifyAdmin
  <2> QED
    BY <1>1, <2>2, <2>3 DEF ClassifyAdmin
<1>2. ASSUME NEW c \in Conns, NEW q \in Requests, ClientSerials(c, q) PROVE KeepingParts'
  BY <1>2, ClientSerialsDoes DEF ClientSerials
<1>3. ASSUME NEW c \in Conns, ClassifyOrder(c) PROVE KeepingParts'
  BY <1>3, ClassifyOrderDoes DEF ClassifyOrder
<1>4. ASSUME NEW c \in Conns, Disconnect(c) PROVE KeepingParts'
  BY <1>4, DisconnectDoes DEF Disconnect
<1>5. ASSUME NEW c \in Conns, StoreOrder(c) PROVE KeepingParts'
  <2>1. FromPlay'
    BY <1>5, StoreOrderDoes DEF StoreOrder
  <2>2. PastAdmin'
    BY <1>5, StoreOrderDoes DEF StoreOrder
  <2>3. KeptNeverRefused'
    BY <1>5 DEF StoreOrder
  <2> QED
    BY <2>1, <2>2, <2>3
<1>6. ASSUME NEW c \in Conns, StoreAdmin(c) PROVE KeepingParts'
  BY <1>6, StoreAdminDoes DEF StoreAdmin
<1>7. ASSUME NEW t \in Edits, EditConfig(t) PROVE KeepingParts'
  BY <1>7 DEF EditConfig
<1>8. CASE Sighup \/ HupReceived
  BY <1>8 DEF Sighup, HupReceived
<1>9. CASE Restart
  BY <1>9, RestartDoes DEF Restart
<1>10. CASE UNCHANGED allowlistVars
  BY <1>10 DEF allowlistVars
<1> QED
  BY <1>1, <1>2, <1>3, <1>4, <1>5, <1>6, <1>7, <1>8, <1>9, <1>10 DEF AllowlistNext

-----------------------------------------------------------------------------
(* The theorems *)

LEMMA InitAllowlist == AllowlistInit => AllowlistInv
<1> SUFFICES ASSUME AllowlistInit PROVE AllowlistInv
  OBVIOUS
<1>1. \A c \in Conns : conn[c].st = "closed"
  BY DEF AllowlistInit, Closed
<1>2. ListedParts
  BY <1>1 DEF AllowlistInit, ListedParts, HandshakesRemember, ServedWasListed
<1>3. KeepingParts
  BY <1>1 DEF AllowlistInit, KeepingParts, FromPlay, PastAdmin, KeptNeverRefused, Everywhere,
         Replacing
<1> QED
  BY <1>2, <1>3, InitType DEF AllowlistInv, AllowlistParts, ListedParts, KeepingParts

LEMMA NextAllowlist == AllowlistInv /\ [AllowlistNext]_allowlistVars => AllowlistInv'
  BY NextType, NextListed, NextKeeping
  DEF AllowlistInv, AllowlistParts, ListedParts, KeepingParts

LEMMA AlwaysAllowlist == AllowlistSpec => []AllowlistInv
  BY InitAllowlist, NextAllowlist, PTL DEF AllowlistSpec

\* No client is served whose serial was in no table at every moment of its
\* handshake, however Classify's two loads interleave with Replace's stores.
THEOREM ServedAlwaysListed == AllowlistSpec => []ServedWasListed
<1>1. AllowlistInv => ServedWasListed
  BY DEF AllowlistInv, AllowlistParts
<1> QED
  BY <1>1, AlwaysAllowlist, PTL

\* A client whose serial every configuration and every request keeps in the same
\* table is never refused while the others are rotated.
THEOREM KeptAlwaysServed == AllowlistSpec => []KeptNeverRefused
<1>1. AllowlistInv => KeptNeverRefused
  BY DEF AllowlistInv, AllowlistParts
<1> QED
  BY <1>1, AlwaysAllowlist, PTL

\* Without an admin serial no step but a restart changes the tables: neither a
\* request, which the guard refuses, nor SIGHUP, which drops the configuration.
THEOREM LockoutOnlyRestart == AllowlistSpec => LockoutNeedsRestart
<1> DEFINE Lockout ==
             LockedOut => \/ LockedOut' /\ UNCHANGED order
                          \/ order' = config.order /\ admin' = config.admin
                             /\ \A c \in Conns : conn'[c] = Closed
<1>1. AllowlistInv /\ [AllowlistNext]_allowlistVars => [Lockout]_allowlistVars
  <2> SUFFICES ASSUME AllowlistInv, AllowlistNext, LockedOut PROVE Lockout
    OBVIOUS
  <2>0. conn \in [Conns -> ConnType]
    BY DEF AllowlistInv, AllowlistTypeOK, ConnType, States
  <2> USE <2>0 DEF LockedOut, Replacing, Others
  <2>1. ASSUME NEW c \in Conns, NEW s \in Serials, ClassifyAdmin(c, s) PROVE Lockout
    <3>1. Others(c) /\ conn'[c].st \in {"open", "handshake"}
      BY <2>1, ClassifyAdminDoes
    <3>2. Replacing' = {}
      BY <3>1
    <3> QED
      BY <2>1, <3>2 DEF ClassifyAdmin
  <2>2. ASSUME NEW c \in Conns, NEW q \in Requests, ClientSerials(c, q) PROVE Lockout
    BY <2>2 DEF ClientSerials
  <2>3. ASSUME NEW c \in Conns, ClassifyOrder(c) PROVE Lockout
    <3>1. Replacing' = {}
      BY <2>3, ClassifyOrderDoes
    <3> QED
      BY <2>3, <3>1 DEF ClassifyOrder
  <2>4. ASSUME NEW c \in Conns, Disconnect(c) PROVE Lockout
    <3>1. Replacing' = {}
      BY <2>4, DisconnectDoes
    <3> QED
      BY <2>4, <3>1 DEF Disconnect
  <2>5. ASSUME NEW c \in Conns, StoreOrder(c) \/ StoreAdmin(c) PROVE Lockout
    BY <2>5 DEF StoreOrder, StoreAdmin
  <2>6. CASE (\E t \in Edits : EditConfig(t)) \/ Sighup \/ HupReceived
    <3>1. UNCHANGED <<order, admin, conn>>
      BY <2>6 DEF EditConfig, Sighup, HupReceived
    <3> QED
      BY <3>1
  <2>7. CASE Restart
    BY <2>7 DEF Restart
  <2> QED
    BY <2>1, <2>2, <2>3, <2>4, <2>5, <2>6, <2>7 DEF AllowlistNext
<1> QED
  BY <1>1, AlwaysAllowlist, PTL DEF AllowlistSpec, LockoutNeedsRestart

-----------------------------------------------------------------------------
(* The decisions that keep no state *)

\* The one step of Algorithms picks a case of the kind it says.
LEMMA CasePicked ==
  ASSUME CaseNext
  PROVE  /\ case'.kind = "template" => PickTemplate
         /\ case'.kind = "path" => PickPath
         /\ case'.kind = "bundle" => PickBundle
         /\ case'.kind = "semver" => PickSemver
         /\ case'.kind = "version" => PickVersion
         /\ case'.kind = "config" => PickConfig
         /\ case'.kind = "handshake" => PickFailures
<1>1. PickTemplate => case'.kind = "template"
  BY DEF PickTemplate
<1>2. PickPath => case'.kind = "path"
  BY DEF PickPath
<1>3. PickBundle => case'.kind = "bundle"
  BY DEF PickBundle
<1>4. PickFiles => case'.kind = "diff"
  BY DEF PickFiles
<1>5. PickSemver => case'.kind = "semver"
  BY DEF PickSemver
<1>6. PickVersion => case'.kind = "version"
  BY DEF PickVersion
<1>7. PickConfig => case'.kind = "config"
  <2> SUFFICES ASSUME PickConfig PROVE case'.kind = "config"
    OBVIOUS
  <2>1. PICK c : case' = [kind |-> "config", config |-> c]
    BY Zenon DEF PickConfig
  <2> QED
    BY <2>1
<1>8. PickFailures => case'.kind = "handshake"
  <2> SUFFICES ASSUME PickFailures PROVE case'.kind = "handshake"
    OBVIOUS
  <2>1. PICK c, e : case' = [kind |-> "handshake", causes |-> c, extra |-> e]
    BY Zenon DEF PickFailures
  <2> QED
    BY <2>1
<1> QED
  BY <1>1, <1>2, <1>3, <1>4, <1>5, <1>6, <1>7, <1>8 DEF CaseNext

-----------------------------------------------------------------------------
(* Why a client was turned away *)

\* handshakeWriter.Write: what is counted for each cause.
LEMMA LabelOf ==
  /\ Hook!Counted(Hook!LineFor("unknown serial")) = {"unknown_serial"}
  /\ Hook!Counted(Hook!LineFor("no certificate")) = {"no_client_cert"}
  /\ Hook!Counted(Hook!LineFor("foreign CA")) = {"wrong_ca"}
  /\ Hook!Counted(Hook!LineFor("expired")) = {"wrong_ca"}
  /\ Hook!Counted(Hook!LineFor("old TLS")) = {"tls_version"}
  /\ Hook!Counted(Hook!LineFor("cut off")) = {"other"}
<1>1. /\ Hook!LineFor("unknown serial") = {"TLS handshake error"} \cup {"not in allowlist"}
      /\ Hook!LineFor("no certificate") = {"TLS handshake error"} \cup {"didn't provide a certificate"}
      /\ Hook!LineFor("foreign CA") = {"TLS handshake error"} \cup {"verify certificate"}
      /\ Hook!LineFor("expired") = {"TLS handshake error"} \cup {"verify certificate", "expired"}
      /\ Hook!LineFor("old TLS") = {"TLS handshake error"} \cup {"unsupported versions"}
      /\ Hook!LineFor("cut off") = {"TLS handshake error"} \cup {}
  BY DEF Hook!LineFor
<1> QED
  BY <1>1 DEF Hook!Counted, Hook!ClassifyHandshakeError

\* mtls.ClassifyHandshakeError: a line that is no handshake error is not counted,
\* whatever else it says, a failed handshake is counted under one label, an expired
\* certificate as wrong_ca, and no two other causes share a label.
THEOREM EveryFailureLabelled ==
  ASSUME NEW c \in Hook!Causes, NEW d \in Hook!Causes, NEW extra,
         "TLS handshake error" \notin extra
  PROVE  Hook!Labelled(c, d, extra)
<1>1. Hook!Counted(extra) = {}
  BY DEF Hook!Counted
<1>2. /\ c \in {"unknown serial", "no certificate", "foreign CA", "expired", "old TLS", "cut off"}
      /\ d \in {"unknown serial", "no certificate", "foreign CA", "expired", "old TLS", "cut off"}
  BY DEF Hook!Causes
<1>3. Hook!Counted(Hook!LineFor(c)) # {}
  BY <1>2, LabelOf
<1>4. Hook!Counted(Hook!LineFor(c)) = Hook!Counted(Hook!LineFor(d))
        => c = d \/ {c, d} = {"foreign CA", "expired"}
  <2>1. PICK x : /\ Hook!Counted(Hook!LineFor(c)) = {x}
                 /\ \/ c = "unknown serial" /\ x = "unknown_serial"
                    \/ c = "no certificate" /\ x = "no_client_cert"
                    \/ c \in {"foreign CA", "expired"} /\ x = "wrong_ca"
                    \/ c = "old TLS" /\ x = "tls_version"
                    \/ c = "cut off" /\ x = "other"
    BY <1>2, LabelOf
  <2>2. PICK y : /\ Hook!Counted(Hook!LineFor(d)) = {y}
                 /\ \/ d = "unknown serial" /\ y = "unknown_serial"
                    \/ d = "no certificate" /\ y = "no_client_cert"
                    \/ d \in {"foreign CA", "expired"} /\ y = "wrong_ca"
                    \/ d = "old TLS" /\ y = "tls_version"
                    \/ d = "cut off" /\ y = "other"
    BY <1>2, LabelOf
  <2>3. SUFFICES ASSUME {x} = {y} PROVE c = d \/ {c, d} = {"foreign CA", "expired"}
    BY <2>1, <2>2, Zenon
  <2>4. x = y
    BY <2>3
  <2>5. CASE c = "unknown serial"
    <3>1. d = "unknown serial"
      BY <2>1, <2>2, <2>4, <2>5, Zenon
    <3> QED
      BY <2>5, <3>1, Zenon
  <2>6. CASE c = "no certificate"
    <3>1. d = "no certificate"
      BY <2>1, <2>2, <2>4, <2>6, Zenon
    <3> QED
      BY <2>6, <3>1, Zenon
  <2>7. CASE c \in {"foreign CA", "expired"}
    <3>1. x = "wrong_ca"
      BY <2>1, <2>7, Zenon
    <3>2. d \in {"foreign CA", "expired"}
      BY <2>2, <2>4, <3>1, Zenon
    <3>3. c # d => {c, d} = {"foreign CA", "expired"}
      <4>1. PICK r, s : r = "foreign CA" /\ s = "expired"
        OBVIOUS
      <4>2. c \in {r, s} /\ d \in {r, s}
        BY <2>7, <3>2, <4>1, Zenon
      <4>3. c # d => \A w : w \in {c, d} <=> w \in {r, s}
        BY <4>2
      <4>4. c # d => {c, d} = {r, s}
        BY <4>3
      <4> QED
        BY <4>1, <4>4, Zenon
    <3> QED
      BY <3>3, Zenon
  <2>8. CASE c = "old TLS"
    <3>1. d = "old TLS"
      BY <2>1, <2>2, <2>4, <2>8, Zenon
    <3> QED
      BY <2>8, <3>1, Zenon
  <2>9. CASE c = "cut off"
    <3>1. d = "cut off"
      BY <2>1, <2>2, <2>4, <2>9, Zenon
    <3> QED
      BY <2>9, <3>1, Zenon
  <2> QED
    BY <2>1, <2>5, <2>6, <2>7, <2>8, <2>9, Zenon
<1>5. Hook!Counted(Hook!LineFor("expired")) = {"wrong_ca"}
  BY LabelOf, Zenon
<1> QED
  BY <1>1, <1>3, <1>4, <1>5, Zenon DEF Hook!Labelled

\* FailuresLabelled: the lines tried are such lines.
THEOREM FailuresAlwaysLabelled == CaseSpec => []FailuresLabelled
<1>1. CaseInit => FailuresLabelled
  BY DEF CaseInit, FailuresLabelled
<1>2. FailuresLabelled /\ [CaseNext]_case => FailuresLabelled'
  <2>1. ASSUME CaseNext PROVE FailuresLabelled'
    <3> SUFFICES ASSUME case'.kind = "handshake" PROVE FailuresLabelled'
      BY DEF FailuresLabelled
    <3>1. PICK c \in Hook!Causes, d \in Hook!Causes,
               extra \in SUBSET {"expired", "verify certificate"} :
            case' = [kind |-> "handshake", causes |-> <<c, d>>, extra |-> extra]
      BY <2>1, CasePicked, Zenon DEF PickFailures
    <3>2. case'.causes[1] = c /\ case'.causes[2] = d /\ case'.extra = extra
      BY <3>1
    <3>3. "TLS handshake error" \notin extra
      BY <3>1
    <3>4. Hook!Labelled(c, d, extra)
      BY <3>3, EveryFailureLabelled
    <3> QED
      BY <3>2, <3>4, Zenon DEF FailuresLabelled
  <2>2. ASSUME UNCHANGED case, FailuresLabelled PROVE FailuresLabelled'
    BY <2>2 DEF FailuresLabelled
  <2> QED
    BY <2>1, <2>2
<1> QED
  BY <1>1, <1>2, PTL DEF CaseSpec

-----------------------------------------------------------------------------
(* Which configurations start *)

\* A configuration as the YAML decoder leaves it: texts are empty, blank or usable,
\* the listen address may be no address or have a port that is none.
Readable(c) ==
  /\ \A f \in Conf!TextFields : c[f] \in Conf!Texts
  /\ c["order_plane"] \in {"", "junk", "badport", "ok"}

\* "Callers receive a fully-formed Config or an error": any configuration that
\* Validate passes, all its fields free at once, is refused by a constructor of
\* serve only for a serial that does not parse or a port that is no port; an
\* enabled refresh loop has its URL and an enabled egress generator its applier.
THEOREM EveryConfigurationStarts == ASSUME NEW c, Readable(c) PROVE Conf!Starts(c)
<1> SUFFICES ASSUME Conf!Validate(c)
             PROVE  /\ Conf!Refused(c) \subseteq {"mtls", "listen"}
                    /\ "mtls" \in Conf!Refused(c) =>
                         "junk" \in c["order_serials"] \cup c["admin_serials"]
                    /\ "listen" \in Conf!Refused(c) => c["order_plane"] = "badport"
                    /\ c["egress_enabled"] => Conf!Applier(c) # ""
                    /\ c["refresh_enabled"] => c["refresh_url"] = "ok"
  BY DEF Conf!Starts
<1>0. /\ Conf!ValidateListen(c) /\ Conf!ValidateMTLS(c) /\ Conf!ValidateBundle(c)
      /\ Conf!ValidateAudit(c) /\ Conf!ValidateLog(c) /\ Conf!ValidateBinary(c)
      /\ Conf!ValidateEgress(c)
  BY DEF Conf!Validate
\* A text that is there is usable.
<1>1. ASSUME NEW F, F \subseteq Conf!BinaryFields \cup Conf!BundleFields \cup
                        Conf!TLSFields \cup {"audit_path"}, Conf!Present(c, F)
      PROVE  \A f \in F : c[f] = "ok"
  BY <1>1 DEF Conf!Present, Readable, Conf!Texts, Conf!TextFields
<1>2. Conf!LogOK(c)
  BY <1>0 DEF Conf!ValidateLog, Conf!LogOK
<1>3. Conf!AuditOK(c)
  BY <1>0, <1>1 DEF Conf!ValidateAudit, Conf!AuditOK
<1>4. Conf!BundleOK(c) /\ Conf!UpdaterOK(c)
  BY <1>0, <1>1 DEF Conf!ValidateBundle, Conf!BundleOK, Conf!UpdaterOK
<1>5. ~ Conf!TLSOK(c) => "junk" \in c["order_serials"] \cup c["admin_serials"]
  BY <1>0, <1>1 DEF Conf!ValidateMTLS, Conf!TLSOK
<1>6. Conf!BinaryOK(c)
  <2>1. CASE Conf!BinaryIsZero(c)
    BY <2>1 DEF Conf!BinaryOK
  <2>2. CASE Conf!Present(c, Conf!BinaryFields)
    <3>1. \A f \in Conf!BinaryFields : c[f] = "ok"
      BY <1>1, <2>2
    <3> QED
      BY <3>1 DEF Conf!BinaryOK, Conf!BinaryFields
  <2> QED
    BY <1>0, <2>1, <2>2 DEF Conf!ValidateBinary
<1>7. Conf!EgressOK(c) /\ (c["egress_enabled"] => Conf!Applier(c) # "")
  BY <1>0 DEF Conf!ValidateEgress, Conf!EgressOK, Conf!Applier
<1>8. ~ Conf!ListenOK(c) => c["order_plane"] = "badport"
  BY <1>0 DEF Conf!ValidateListen, Conf!HostPort, Conf!ListenOK
<1>9. c["refresh_enabled"] => c["refresh_url"] = "ok"
  BY <1>0 DEF Conf!ValidateBundle
<1>10. ASSUME NEW s \in Conf!Refused(c)
       PROVE  \/ s = "mtls" /\ ~ Conf!TLSOK(c)
              \/ s = "listen" /\ ~ Conf!ListenOK(c)
  <2>1. s \in DOMAIN Conf!StageOK(c) /\ ~ Conf!StageOK(c)[s]
    BY DEF Conf!Refused
  <2>2. s \in {"log", "audit", "bundle", "mtls", "binupd", "egress", "updater", "listen"}
    BY <2>1 DEF Conf!StageOK
  <2>3. CASE s = "log"
    BY <1>2, <2>1, <2>3 DEF Conf!StageOK
  <2>4. CASE s = "audit"
    BY <1>3, <2>1, <2>4 DEF Conf!StageOK
  <2>5. CASE s \in {"bundle", "updater"}
    BY <1>4, <2>1, <2>5 DEF Conf!StageOK
  <2>6. CASE s = "binupd"
    BY <1>6, <2>1, <2>6 DEF Conf!StageOK
  <2>7. CASE s = "egress"
    BY <1>7, <2>1, <2>7 DEF Conf!StageOK
  <2>8. CASE s = "mtls"
    BY <2>1, <2>8 DEF Conf!StageOK
  <2>9. CASE s = "listen"
    BY <2>1, <2>9 DEF Conf!StageOK
  <2> QED
    BY <2>2, <2>3, <2>4, <2>5, <2>6, <2>7, <2>8, <2>9
<1> QED
  BY <1>5, <1>7, <1>8, <1>9, <1>10

\* The configurations that Algorithms picks are of that kind.
LEMMA TriedAreReadable ==
  ASSUME NEW f \in DOMAIN Conf!Domain, NEW v \in Conf!Domain[f],
         NEW g \in DOMAIN Conf!Domain, NEW w \in Conf!Domain[g]
  PROVE  Readable([Good EXCEPT ![f] = v, ![g] = w])
<1> DEFINE D == DOMAIN Conf!Domain
<1>1. /\ Conf!TextFields \subseteq D /\ "order_plane" \in D
      /\ \A x \in Conf!TextFields : Conf!Domain[x] = Conf!Texts
      /\ Conf!Domain["order_plane"] = {"", "junk", "badport", "ok"}
  BY DEF Conf!Domain, Conf!TextFields, Conf!AddressFields, Conf!SerialFields,
         Conf!SwitchFields, Conf!NumberFields, Conf!ChoiceFields,
         Conf!BinaryFields, Conf!BundleFields, Conf!TLSFields
<1>2. /\ Good = [x \in D |-> Good[x]]
      /\ \A x \in Conf!TextFields \cup {"order_plane"} : Good[x] = "ok"
  BY <1>1 DEF Good, Conf!TextFields, Conf!SerialFields, Conf!SwitchFields,
         Conf!NumberFields, Conf!BinaryFields, Conf!BundleFields, Conf!TLSFields
<1> HIDE DEF D
<1>3. PICK c : c = [Good EXCEPT ![f] = v, ![g] = w]
  OBVIOUS
<1>4. \A x \in D : \/ c[x] = Good[x]
                   \/ x = f /\ c[x] = v
                   \/ x = g /\ c[x] = w
  BY <1>2, <1>3
<1>5. \A x \in Conf!TextFields : c[x] \in Conf!Texts
  BY <1>1, <1>2, <1>4 DEF Conf!Texts
<1>6. c["order_plane"] \in {"", "junk", "badport", "ok"}
  BY <1>1, <1>2, <1>4
<1> QED
  BY <1>3, <1>5, <1>6 DEF Readable

\* A configuration that validates brings the process up, in every case that the
\* specification picks.
THEOREM AlwaysStarts == CaseSpec => []ValidatedStarts
<1>1. CaseInit => ValidatedStarts
  BY DEF CaseInit, ValidatedStarts
<1>2. ValidatedStarts /\ [CaseNext]_case => ValidatedStarts'
  <2>1. ASSUME CaseNext, case'.kind = "config" PROVE Conf!Starts(case'.config)
    <3>1. PICK f \in DOMAIN Conf!Domain, g \in DOMAIN Conf!Domain :
            \E v \in Conf!Domain[f], w \in Conf!Domain[g] :
              case' = [kind |-> "config", config |-> [Good EXCEPT ![f] = v, ![g] = w]]
      BY <2>1, CasePicked, Zenon DEF PickConfig
    <3>2. PICK c : Readable(c) /\ case' = [kind |-> "config", config |-> c]
      BY <3>1, TriedAreReadable, Zenon
    <3>3. case'.config = c
      BY <3>2
    <3> QED
      BY <3>2, <3>3, EveryConfigurationStarts
  <2> QED
    BY <2>1 DEF ValidatedStarts
<1> QED
  BY <1>1, <1>2, PTL DEF CaseSpec

-----------------------------------------------------------------------------
(* How versions are ordered *)

\* s comes before t: t goes on after n common bytes, with a greater one or where s ends.
Parts(s, t, n) ==
  /\ n \in 0..Len(s) /\ n < Len(t)
  /\ \A i \in 1..n : s[i] = t[i]
  /\ n = Len(s) \/ s[n + 1] < t[n + 1]

\* Two prefixes are equal if they agree byte by byte.
LEMMA PrefixIs ==
  ASSUME NEW s \in Seq(Nat), NEW t \in Seq(Nat), NEW n \in 0..Len(s), n <= Len(t)
  PROVE  SubSeq(s, 1, n) = SubSeq(t, 1, n) <=> \A i \in 1..n : s[i] = t[i]
<1>0. Len(s) \in Nat /\ Len(t) \in Nat /\ n \in Nat
  OBVIOUS
<1>1. SubSeq(s, 1, n) = [i \in 1..n |-> s[i]]
  <2>1. SubSeq(s, 1, n) = [i \in 1..n - 1 + 1 |-> s[1 + i - 1]]
    OBVIOUS
  <2>2. n - 1 + 1 = n /\ \A i \in 1..n : 1 + i - 1 = i
    BY <1>0
  <2> QED
    BY <2>1, <2>2
<1>2. SubSeq(t, 1, n) = [i \in 1..n |-> t[i]]
  <2>1. SubSeq(t, 1, n) = [i \in 1..n - 1 + 1 |-> t[1 + i - 1]]
    OBVIOUS
  <2>2. n - 1 + 1 = n /\ \A i \in 1..n : 1 + i - 1 = i
    BY <1>0
  <2> QED
    BY <2>1, <2>2
<1> QED
  BY <1>1, <1>2

\* StringLess in terms of Parts.
LEMMA LessIs ==
  ASSUME NEW s \in Seq(Nat), NEW t \in Seq(Nat)
  PROVE  Rules!StringLess(s, t) <=> \E n \in 0..Len(s) : Parts(s, t, n)
<1>1. ASSUME NEW n \in 0..Len(s), n < Len(t)
      PROVE  SubSeq(s, 1, n) = SubSeq(t, 1, n) <=> \A i \in 1..n : s[i] = t[i]
  <2>1. n <= Len(t)
    BY <1>1
  <2> QED
    BY <2>1, PrefixIs
<1> QED
  BY <1>1 DEF Rules!StringLess, Parts

\* A set of numbers has a least one.
LEMMA LeastIs ==
  ASSUME NEW S, S \subseteq Nat, S # {}
  PROVE  \E x \in S : \A y \in S : x <= y
<1>1. \E R : IsWellFoundedOn(R, Nat) /\ \A x, y \in Nat : <<y, x>> \in R <=> y < x
  <2>1. IsWellFoundedOn(OpToRel(<, Nat), Nat)
    BY NatLessThanWellFounded
  <2>2. \A x, y \in Nat : <<y, x>> \in OpToRel(<, Nat) <=> y < x
    BY DEF OpToRel
  <2> QED
    BY <2>1, <2>2, Zenon
<1>2. PICK R : IsWellFoundedOn(R, Nat) /\ \A x, y \in Nat : <<y, x>> \in R <=> y < x
  BY <1>1
<1>3. PICK x \in S : \A y \in S : ~ (<<y, x>> \in R)
  BY <1>2, WFMin
<1>4. \A y \in S : ~ (y < x)
  BY <1>2, <1>3
<1> QED
  BY <1>3, <1>4

\* enforceVersionGates compares bundle_version with Go's < on strings.  It is a
\* strict total order: any two versions that differ are ordered one way and a
\* chain of accepted bundles never comes back to an earlier one, which is why
\* BundleUpdater may give a version by its rank.
THEOREM StringsAreOrdered ==
  \A s, t, u \in Seq(Nat) :
    /\ ~ Rules!StringLess(s, s)
    /\ Rules!StringLess(s, t) /\ Rules!StringLess(t, u) => Rules!StringLess(s, u)
    /\ s # t => Rules!StringLess(s, t) \/ Rules!StringLess(t, s)
<1> SUFFICES ASSUME NEW s \in Seq(Nat), NEW t \in Seq(Nat), NEW u \in Seq(Nat)
             PROVE  /\ ~ Rules!StringLess(s, s)
                    /\ (Rules!StringLess(s, t) /\ Rules!StringLess(t, u)) =>
                         Rules!StringLess(s, u)
                    /\ s # t => Rules!StringLess(s, t) \/ Rules!StringLess(t, s)
  OBVIOUS
<1>0. PICK a \in Nat, b \in Nat, c \in Nat : a = Len(s) /\ b = Len(t) /\ c = Len(u)
  OBVIOUS
<1>n. /\ \A i \in 1..a : s[i] \in Nat
      /\ \A i \in 1..b : t[i] \in Nat
      /\ \A i \in 1..c : u[i] \in Nat
  BY <1>0
<1>1. ~ Rules!StringLess(s, s)
  <2>1. \A n \in 0..a : ~ Parts(s, s, n)
    BY <1>0, <1>n DEF Parts
  <2> QED
    BY <1>0, <2>1, LessIs
<1>2. ASSUME Rules!StringLess(s, t), Rules!StringLess(t, u)
      PROVE  Rules!StringLess(s, u)
  <2>1. PICK m \in 0..a : Parts(s, t, m)
    BY <1>0, <1>2, LessIs
  <2>2. PICK n \in 0..b : Parts(t, u, n)
    BY <1>0, <1>2, LessIs
  <2>3. /\ m < b /\ (\A i \in 1..m : s[i] = t[i]) /\ (m = a \/ s[m + 1] < t[m + 1])
        /\ n < c /\ (\A i \in 1..n : t[i] = u[i]) /\ (n = b \/ t[n + 1] < u[n + 1])
    BY <1>0, <2>1, <2>2 DEF Parts
  <2>4. CASE m < n
    <3>1. m < c /\ (\A i \in 1..m : s[i] = u[i]) /\ t[m + 1] = u[m + 1]
      BY <2>3, <2>4
    <3>2. Parts(s, u, m)
      BY <1>0, <2>3, <3>1 DEF Parts
    <3> QED
      BY <1>0, <3>2, LessIs
  <2>5. CASE n < m
    <3>1. n < a /\ (\A i \in 1..n : s[i] = u[i]) /\ s[n + 1] = t[n + 1] /\ n \in 0..a
      BY <2>3, <2>5
    <3>2. Parts(s, u, n)
      BY <1>0, <2>3, <2>5, <3>1 DEF Parts
    <3> QED
      BY <1>0, <3>1, <3>2, LessIs
  <2>6. CASE m = n
    <3>1. m < c /\ (\A i \in 1..m : s[i] = u[i])
      BY <2>3, <2>6
    <3>2. m = a \/ s[m + 1] < u[m + 1]
      <4>1. m # a => s[m + 1] \in Nat /\ t[m + 1] \in Nat /\ u[m + 1] \in Nat
        BY <1>n, <2>3, <3>1
      <4> QED
        BY <2>3, <2>6, <4>1
    <3>3. Parts(s, u, m)
      BY <1>0, <3>1, <3>2 DEF Parts
    <3> QED
      BY <1>0, <3>3, LessIs
  <2> QED
    BY <2>4, <2>5, <2>6
<1>3. ASSUME s # t PROVE Rules!StringLess(s, t) \/ Rules!StringLess(t, s)
  <2> DEFINE D == {i \in 1..a : i <= b /\ s[i] # t[i]}
  <2>1. CASE D = {}
    <3>1. \A i \in 1..a : i <= b => s[i] = t[i]
      BY <2>1
    <3>2. a # b
      <4>1. CASE a = b
        <5>1. \A i \in 1..a : s[i] = t[i]
          BY <3>1, <4>1
        <5>2. s = [i \in 1..a |-> s[i]] /\ t = [i \in 1..b |-> t[i]]
          BY <1>0
        <5> QED
          BY <1>3, <4>1, <5>1, <5>2
      <4> QED
        BY <4>1
    <3>3. CASE a < b
      <4>1. Parts(s, t, a)
        BY <1>0, <3>1, <3>3 DEF Parts
      <4> QED
        BY <1>0, <4>1, LessIs
    <3>4. CASE b < a
      <4>1. Parts(t, s, b)
        BY <1>0, <3>1, <3>4 DEF Parts
      <4> QED
        BY <1>0, <4>1, LessIs
    <3> QED
      BY <3>2, <3>3, <3>4
  <2>2. CASE D # {}
    <3>0. D \subseteq Nat
      OBVIOUS
    <3>1. PICK x \in D : \A y \in D : x <= y
      <4> HIDE DEF D
      <4> QED
        BY <2>2, <3>0, LeastIs
    <3>2. x \in 1..a /\ x \in 1..b /\ s[x] # t[x] /\ \A i \in 1..x - 1 : s[i] = t[i]
      BY <3>1
    <3>3. PICK n \in Nat : n = x - 1
      BY <3>2
    <3>4. /\ n + 1 = x /\ n \in 0..a /\ n \in 0..b /\ n < a /\ n < b
          /\ \A i \in 1..n : s[i] = t[i]
      BY <3>2, <3>3
    <3>5. CASE s[x] < t[x]
      <4>1. Parts(s, t, n)
        BY <1>0, <3>4, <3>5 DEF Parts
      <4> QED
        BY <1>0, <3>4, <4>1, LessIs
    <3>6. CASE t[x] < s[x]
      <4>1. Parts(t, s, n)
        BY <1>0, <3>4, <3>6 DEF Parts
      <4> QED
        BY <1>0, <3>4, <4>1, LessIs
    <3>7. s[x] \in Nat /\ t[x] \in Nat
      BY <1>n, <3>2
    <3> QED
      BY <3>2, <3>5, <3>6, <3>7
  <2> QED
    BY <2>1, <2>2
<1> QED
  BY <1>1, <1>2, <1>3

\* The first byte that differs decides.
LEMMA FirstDecides ==
  ASSUME NEW s \in Seq(Nat), NEW t \in Seq(Nat), NEW n \in Nat, n < Len(s), n < Len(t),
         \A i \in 1..n : s[i] = t[i], s[n + 1] < t[n + 1]
  PROVE  Rules!StringLess(s, t) /\ ~ Rules!StringLess(t, s)
<1>1. n \in 0..Len(s)
  OBVIOUS
<1>2. Parts(s, t, n)
  BY <1>1 DEF Parts
<1>3. Rules!StringLess(s, t)
  BY <1>1, <1>2, LessIs
<1> QED
  BY <1>3, StringsAreOrdered

\* The same for the first three bytes.
LEMMA EarlyDecides ==
  ASSUME NEW s \in Seq(Nat), NEW t \in Seq(Nat), NEW n \in {1, 2, 3}, n <= Len(s), n <= Len(t),
         n > 1 => s[1] = t[1], n > 2 => s[2] = t[2], s[n] < t[n]
  PROVE  Rules!StringLess(s, t) /\ ~ Rules!StringLess(t, s)
<1>0. PICK a \in Nat, b \in Nat : a = Len(s) /\ b = Len(t)
  OBVIOUS
<1>1. PICK k \in Nat : k = n - 1 /\ k + 1 = n
  OBVIOUS
<1>2. k < Len(s) /\ k < Len(t)
  BY <1>0, <1>1
<1>3. \A i \in 1..k : (i = 1 /\ n > 1) \/ (i = 2 /\ n > 2)
  BY <1>1
<1>4. \A i \in 1..k : s[i] = t[i]
  BY <1>3
<1>5. s[k + 1] < t[k + 1]
  BY <1>1
<1> QED
  BY <1>2, <1>4, <1>5, FirstDecides

\* How a dated version begins.
LEMMA DatedIs ==
  ASSUME NEW d \in 1..31, NEW x \in BuildSuffixes
  PROVE  /\ Dated(d, x) \in Seq(Nat) /\ Len(Dated(d, x)) >= 3
         /\ Dated(d, x)[1] = 50 /\ Dated(d, x)[2] = 48 + (d \div 10)
         /\ Dated(d, x)[3] = 48 + (d % 10)
<1>1. x \in Seq(Nat)
  <2>1. <<97>> \in Seq(Nat) /\ <<98>> \in Seq(Nat) /\ <<97, 98>> \in Seq(Nat)
    OBVIOUS
  <2> QED
    BY <2>1, Zenon DEF BuildSuffixes
<1>a. PICK a \in Nat, b \in Nat : a = 48 + (d \div 10) /\ b = 48 + (d % 10)
  OBVIOUS
<1>2. PICK h : h = <<50, a, b, 45>>
  OBVIOUS
<1>3. h \in Seq(Nat) /\ Len(h) = 4 /\ h[1] = 50 /\ h[2] = a /\ h[3] = b
  BY <1>2
<1>4. PICK z : z = h \o x
  OBVIOUS
<1>5. z \in Seq(Nat) /\ Len(z) = Len(h) + Len(x) /\ \A i \in 1..Len(h) : z[i] = h[i]
  <2>1. h \in Seq(Nat)
    BY <1>3
  <2>2. /\ z \in Seq(Nat) /\ Len(z) = Len(h) + Len(x)
        /\ \A i \in 1..Len(h) + Len(x) :
              z[i] = IF i <= Len(h) THEN h[i] ELSE x[i - Len(h)]
    BY <1>1, <1>4, <2>1, ConcatProperties, Zenon
  <2>3. Len(h) \in Nat /\ Len(x) \in Nat
    BY <1>1, <2>1
  <2> QED
    BY <2>2, <2>3
<1>6. z[1] = h[1] /\ z[2] = h[2] /\ z[3] = h[3]
  BY <1>3, <1>5
<1>7. Len(z) >= 3
  <2>1. PICK k \in Nat : k = Len(x)
    BY <1>1
  <2> QED
    BY <1>3, <1>5, <2>1
<1>8. z = Dated(d, x)
  BY <1>a, <1>2, <1>4 DEF Dated
<1> QED
  BY <1>a, <1>3, <1>5, <1>6, <1>7, <1>8

\* A tag: three bytes, the digits of the number, two bytes.
LEMMA TaggedIs ==
  ASSUME NEW m \in Seq(0..9), m # <<>>
  PROVE  /\ Tagged(m) \in Seq(Nat) /\ Len(Tagged(m)) = 5 + Len(m) /\ Len(m) \in Nat \ {0}
         /\ Tagged(m)[1] = 118 /\ Tagged(m)[2] = 48 /\ Tagged(m)[3] = 46
         /\ \A i \in 1..Len(m) : Tagged(m)[3 + i] = 48 + m[i]
<1>1. PICK h : h = <<118, 48, 46>>
  OBVIOUS
<1>a. h \in Seq(Nat) /\ Len(h) = 3 /\ h[1] = 118 /\ h[2] = 48 /\ h[3] = 46
  BY <1>1
<1>b. PICK e : e = <<46, 48>>
  OBVIOUS
<1>c. e \in Seq(Nat) /\ Len(e) = 2
  BY <1>b
<1>2. PICK l \in Nat \ {0} : l = Len(m) /\ DOMAIN m = 1..l
  <2>1. Len(m) \in Nat /\ Len(m) # 0 /\ DOMAIN m = 1..Len(m)
    BY EmptySeq
  <2> QED
    BY <2>1
<1>3. \A i \in 1..l : m[i] \in 0..9
  BY <1>2
<1>4. PICK b : b = [i \in DOMAIN m |-> 48 + m[i]]
  OBVIOUS
<1>5. b \in Seq(Nat) /\ Len(b) = l /\ \A i \in 1..l : b[i] = 48 + m[i]
  <2>1. \A i \in 1..l : 48 + m[i] \in Nat
    BY <1>3
  <2>2. b = [i \in 1..l |-> 48 + m[i]]
    BY <1>2, <1>4, Zenon
  <2>3. b \in [1..l -> Nat]
    BY <2>1, <2>2, Zenon
  <2>4. b \in Seq(Nat)
    BY <2>3
  <2>5. \A i \in 1..l : b[i] = 48 + m[i]
    BY <2>2, Zenon
  <2>6. Len(b) = l
    BY <2>2
  <2> QED
    BY <2>4, <2>5, <2>6, Zenon
<1>6. PICK p : p = h \o b
  OBVIOUS
<1>7. /\ p \in Seq(Nat) /\ Len(p) = Len(h) + Len(b)
      /\ \A i \in 1..Len(h) + Len(b) : p[i] = IF i <= Len(h) THEN h[i] ELSE b[i - Len(h)]
  <2>1. h \in Seq(Nat) /\ b \in Seq(Nat)
    BY <1>a, <1>5, Zenon
  <2> QED
    BY <2>1, <1>6, ConcatProperties, Zenon
<1>8. Len(p) = 3 + l /\ p[1] = 118 /\ p[2] = 48 /\ p[3] = 46
      /\ \A i \in 1..l : p[3 + i] = 48 + m[i]
  <2>1. Len(p) = 3 + l
    BY <1>a, <1>5, <1>7
  <2>2. \A i \in 1..3 + l : p[i] = IF i <= 3 THEN h[i] ELSE b[i - 3]
    <3>1. Len(h) = 3 /\ Len(b) = l
      BY <1>a, <1>5, Zenon
    <3> QED
      BY <1>7, <3>1
  <2>3. p[1] = h[1] /\ p[2] = h[2] /\ p[3] = h[3]
    BY <2>2
  <2>4. ASSUME NEW i \in 1..l PROVE p[3 + i] = 48 + m[i]
    <3>1. 3 + i \in 1..3 + l /\ ~ (3 + i <= 3) /\ (3 + i) - 3 = i
      OBVIOUS
    <3>2. p[3 + i] = b[i]
      BY <2>2, <3>1
    <3> QED
      BY <1>5, <3>2
  <2> QED
    BY <1>a, <2>1, <2>3, <2>4
<1>9. PICK z : z = p \o e
  OBVIOUS
<1>10. /\ z \in Seq(Nat) /\ Len(z) = Len(p) + Len(e)
       /\ \A i \in 1..Len(p) + Len(e) : z[i] = IF i <= Len(p) THEN p[i] ELSE e[i - Len(p)]
  <2>1. p \in Seq(Nat) /\ e \in Seq(Nat)
    BY <1>c, <1>7, Zenon
  <2> QED
    BY <2>1, <1>9, ConcatProperties, Zenon
<1>11. Len(z) = 5 + l /\ z[1] = 118 /\ z[2] = 48 /\ z[3] = 46
       /\ \A i \in 1..l : z[3 + i] = 48 + m[i]
  <2>1. Len(z) = 5 + l
    BY <1>c, <1>8, <1>10
  <2>2. \A i \in 1..3 + l : z[i] = p[i]
    <3>1. Len(p) = 3 + l /\ Len(e) = 2
      BY <1>c, <1>8, Zenon
    <3> QED
      BY <1>10, <3>1
  <2>3. 1 \in 1..3 + l /\ 2 \in 1..3 + l /\ 3 \in 1..3 + l /\ \A i \in 1..l : 3 + i \in 1..3 + l
    OBVIOUS
  <2> QED
    BY <1>8, <2>1, <2>2, <2>3
<1>12. z = Tagged(m)
  BY <1>1, <1>b, <1>4, <1>6, <1>9, Zenon DEF Tagged
<1> QED
  BY <1>2, <1>10, <1>11, <1>12

\* The digit of two numbers that differs first decides between their tags.
LEMMA DigitOrdersTags ==
  ASSUME NEW m \in Seq(0..9), NEW n \in Seq(0..9), m # <<>>, n # <<>>,
         NEW k \in Nat \ {0}, k <= Len(m), k <= Len(n),
         \A i \in 1..k - 1 : m[i] = n[i], m[k] < n[k]
  PROVE  /\ Rules!StringLess(Tagged(m), Tagged(n))
         /\ ~ Rules!StringLess(Tagged(n), Tagged(m))
<1>1. PICK s \in Seq(Nat) :
        /\ s = Tagged(m) /\ Len(s) = 5 + Len(m) /\ s[1] = 118 /\ s[2] = 48 /\ s[3] = 46
        /\ \A i \in 1..Len(m) : s[3 + i] = 48 + m[i]
  BY TaggedIs
<1>2. PICK t \in Seq(Nat) :
        /\ t = Tagged(n) /\ Len(t) = 5 + Len(n) /\ t[1] = 118 /\ t[2] = 48 /\ t[3] = 46
        /\ \A i \in 1..Len(n) : t[3 + i] = 48 + n[i]
  BY TaggedIs
<1>3. PICK a \in Nat : a = Len(m)
  OBVIOUS
<1>b. PICK b \in Nat : b = Len(n)
  OBVIOUS
<1>4. PICK j \in Nat : j = 2 + k /\ j + 1 = 3 + k
  OBVIOUS
<1>5. j < Len(s) /\ j < Len(t)
  <2>1. k <= a /\ k <= b /\ Len(s) = 5 + a /\ Len(t) = 5 + b
    BY <1>1, <1>2, <1>3, <1>b, Zenon
  <2> QED
    BY <1>4, <2>1
<1>c. \A i \in 1..k : i \in 1..Len(m) /\ i \in 1..Len(n)
  <2>1. k <= a /\ k <= b
    BY <1>3, <1>b, Zenon
  <2>2. \A i \in 1..k : i \in 1..a /\ i \in 1..b
    BY <2>1
  <2> QED
    BY <1>3, <1>b, <2>2
<1>6. ASSUME NEW i \in 1..j PROVE s[i] = t[i]
  <2>1. CASE i \in {1, 2, 3}
    BY <1>1, <1>2, <2>1
  <2>2. CASE i > 3
    <3>1. PICK r \in Int : r = i - 3
      OBVIOUS
    <3>2. r \in 1..k - 1 /\ r \in 1..k /\ i = 3 + r
      BY <1>4, <2>2, <3>1
    <3>3. m[r] = n[r]
      BY <3>2
    <3>4. s[3 + r] = 48 + m[r] /\ t[3 + r] = 48 + n[r]
      BY <1>1, <1>2, <1>c, <3>2, Zenon
    <3> QED
      BY <3>2, <3>3, <3>4
  <2>3. i \in {1, 2, 3} \/ i > 3
    OBVIOUS
  <2> QED
    BY <2>1, <2>2, <2>3, Zenon
<1>7. s[j + 1] < t[j + 1]
  <2>1. k \in 1..k
    OBVIOUS
  <2>2. k \in 1..Len(m) /\ k \in 1..Len(n)
    BY <1>c, <2>1, Zenon
  <2>3. s[3 + k] = 48 + m[k] /\ t[3 + k] = 48 + n[k]
    BY <1>1, <1>2, <2>2, Zenon
  <2>4. m[k] \in 0..9 /\ n[k] \in 0..9
    BY <2>2
  <2>5. 48 + m[k] < 48 + n[k]
    <3>1. \A x, y \in 0..9 : x < y => 48 + x < 48 + y
      OBVIOUS
    <3> QED
      BY <2>4, <3>1, Zenon
  <2>6. j + 1 = 3 + k
    BY <1>4
  <2> QED
    BY <2>3, <2>5, <2>6, Zenon
<1>8. /\ Rules!StringLess(s, t)
      /\ ~ Rules!StringLess(t, s)
  BY <1>5, <1>6, <1>7, FirstDecides
<1> QED
  BY <1>1, <1>2, <1>8, Zenon

\* What the string order does with two dates and two tags.
LEMMA VersionsFollow ==
  ASSUME NEW d \in 1..31, NEW e \in 1..31, NEW x \in BuildSuffixes, NEW y \in BuildSuffixes,
         NEW m \in Seq(0..9), NEW n \in Seq(0..9), m # <<>>, n # <<>>
  PROVE  LET u == Dated(d, x)
             v == Dated(e, y)
         IN /\ d < e => /\ Rules!VersionGates(<<>>, <<>>, v, u)
                        /\ ~ Rules!VersionGates(<<>>, <<>>, u, v)
            /\ Precedes(m, n) => /\ Rules!VersionGates(<<>>, <<>>, Tagged(n), Tagged(m))
                                 /\ ~ Rules!VersionGates(<<>>, <<>>, Tagged(m), Tagged(n))
            /\ n[1] < m[1] => ~ Rules!VersionGates(<<>>, <<>>, Tagged(n), Tagged(m))
            /\ ~ Rules!VersionGates(<<>>, <<>>, v, Tagged(m))
<1>1. PICK u \in Seq(Nat) : /\ u = Dated(d, x) /\ Len(u) >= 3 /\ u[1] = 50
                            /\ u[2] = 48 + (d \div 10) /\ u[3] = 48 + (d % 10)
  BY DatedIs
<1>2. PICK v \in Seq(Nat) : /\ v = Dated(e, y) /\ Len(v) >= 3 /\ v[1] = 50
                            /\ v[2] = 48 + (e \div 10) /\ v[3] = 48 + (e % 10)
  BY DatedIs
<1>3. PICK s \in Seq(Nat) :
        s = Tagged(m) /\ Len(s) = 5 + Len(m) /\ Len(m) \in Nat \ {0} /\ s[1] = 118
  BY TaggedIs
<1>4. PICK t \in Seq(Nat) :
        t = Tagged(n) /\ Len(t) = 5 + Len(n) /\ Len(n) \in Nat \ {0} /\ t[1] = 118
  BY TaggedIs
<1>5. Len(u) \in Nat /\ Len(v) \in Nat /\ 3 <= Len(u) /\ 3 <= Len(v)
      /\ 3 <= Len(s) /\ 3 <= Len(t)
  <2>1. Len(u) \in Nat /\ Len(v) \in Nat /\ 3 <= Len(u) /\ 3 <= Len(v)
    <3>1. Len(u) \in Nat /\ Len(v) \in Nat
      OBVIOUS
    <3>2. \A a \in Nat : a >= 3 => 3 <= a
      OBVIOUS
    <3> QED
      BY <1>1, <1>2, <3>1, <3>2, Zenon
  <2>2. \A a \in Nat \ {0} : 3 <= 5 + a
    OBVIOUS
  <2>3. 3 <= Len(s) /\ 3 <= Len(t)
    BY <1>3, <1>4, <2>2, Zenon
  <2> QED
    BY <2>1, <2>3, Zenon
<1>6. \A p, q \in Seq(Nat) : 3 <= Len(q) =>
        (Rules!VersionGates(<<>>, <<>>, p, q) <=> Rules!StringLess(q, p))
  BY DEF Rules!VersionGates
<1>7. ASSUME d < e PROVE Rules!StringLess(u, v) /\ ~ Rules!StringLess(v, u)
  <2>1. PICK a \in Nat, b \in Nat, c \in Nat, k \in Nat :
          /\ a = d \div 10 /\ b = e \div 10 /\ c = d % 10 /\ k = e % 10
          /\ d = 10 * a + c /\ e = 10 * b + k /\ c < 10 /\ k < 10
    OBVIOUS
  <2>2. a < b \/ (a = b /\ c < k)
    BY <1>7, <2>1
  <2>3. CASE a < b
    <3>1. u[1] = v[1] /\ u[2] < v[2] /\ 2 <= Len(u) /\ 2 <= Len(v)
      <4>1. u[1] = v[1] /\ u[2] = 48 + a /\ v[2] = 48 + b
        BY <1>1, <1>2, <2>1, Zenon
      <4>2. 48 + a < 48 + b
        BY <2>3
      <4>3. 2 <= Len(u) /\ 2 <= Len(v)
        BY <1>5
      <4> QED
        BY <4>1, <4>2, <4>3, Zenon
    <3> QED
      BY <3>1, EarlyDecides
  <2>4. CASE a = b /\ c < k
    <3>1. u[1] = v[1] /\ u[2] = v[2] /\ u[3] < v[3] /\ 3 <= Len(u) /\ 3 <= Len(v)
      <4>1. u[1] = v[1] /\ u[2] = 48 + a /\ v[2] = 48 + a /\ u[3] = 48 + c /\ v[3] = 48 + k
        BY <1>1, <1>2, <2>1, <2>4, Zenon
      <4>2. 48 + c < 48 + k
        BY <2>4
      <4> QED
        BY <1>5, <4>1, <4>2, Zenon
    <3> QED
      BY <3>1, EarlyDecides
  <2> QED
    BY <2>2, <2>3, <2>4
<1>8. ASSUME Precedes(m, n) PROVE Rules!StringLess(s, t) /\ ~ Rules!StringLess(t, s)
  <2>1. PICK k \in DOMAIN m : m[k] < n[k] /\ \A i \in 1..k - 1 : m[i] = n[i]
    BY <1>8 DEF Precedes
  <2>2. k \in Nat \ {0} /\ k <= Len(m) /\ k <= Len(n)
    BY <1>8 DEF Precedes
  <2> QED
    BY <1>3, <1>4, <2>1, <2>2, DigitOrdersTags
<1>9. ASSUME n[1] < m[1] PROVE ~ Rules!StringLess(s, t)
  <2>1. 1 \in Nat \ {0} /\ 1 <= Len(m) /\ 1 <= Len(n)
    BY <1>3, <1>4
  <2>2. \A i \in 1..1 - 1 : n[i] = m[i]
    OBVIOUS
  <2> QED
    BY <1>3, <1>4, <1>9, <2>1, <2>2, DigitOrdersTags
<1>10. ~ Rules!StringLess(s, v)
  <2>1. v[1] < s[1] /\ 1 <= Len(v) /\ 1 <= Len(s)
    <3>1. v[1] = 50 /\ s[1] = 118
      BY <1>2, <1>3, Zenon
    <3>2. 50 < 118
      OBVIOUS
    <3>3. 1 <= Len(v) /\ 1 <= Len(s)
      <4>1. s \in Seq(Nat) /\ Len(s) \in Nat
        OBVIOUS
      <4> QED
        BY <1>5, <4>1
    <3> QED
      BY <3>1, <3>2, <3>3, Zenon
  <2> QED
    BY <2>1, EarlyDecides
<1> QED
  BY <1>1, <1>2, <1>3, <1>4, <1>5, <1>6, <1>7, <1>8, <1>9, <1>10

\* Of two numbers in base M the digits before the last decide, then the last.
LEMMA DigitDecides ==
  ASSUME NEW M \in Nat \ {0}, NEW x \in Nat, NEW y \in Nat, NEW r \in 0..M - 1, NEW s \in 0..M - 1
  PROVE  x * M + r >= y * M + s <=> x > y \/ (x = y /\ r >= s)
<1>1. x * M \in Nat /\ y * M \in Nat
  OBVIOUS
<1>2. ASSUME NEW a \in Nat, NEW b \in Nat, a > b PROVE a * M >= b * M + M
  <2>1. PICK k \in Nat : a = b + 1 + k
    <3>1. a - b - 1 \in Nat /\ a = b + 1 + (a - b - 1)
      BY <1>2
    <3> QED
      BY <3>1
  <2>2. a * M = b * M + M + k * M
    BY <2>1
  <2>3. k * M \in Nat /\ b * M \in Nat
    OBVIOUS
  <2> QED
    BY <2>2, <2>3
<1>3. CASE x > y
  <2>1. x * M >= y * M + M
    BY <1>2, <1>3
  <2> QED
    BY <1>1, <1>3, <2>1
<1>4. CASE y > x
  <2>1. y * M >= x * M + M
    BY <1>2, <1>4
  <2> QED
    BY <1>1, <1>4, <2>1
<1>5. CASE x = y
  BY <1>1, <1>5
<1> QED
  BY <1>3, <1>4, <1>5

LEMMA MinOf ==
  ASSUME NEW S, NEW x \in S, \A y \in S : x <= y, S \subseteq Int
  PROVE  Rules!Min(S) = x
<1>1. Rules!Min(S) \in S /\ \A y \in S : Rules!Min(S) <= y
  BY Zenon DEF Rules!Min
<1>2. Rules!Min(S) <= x /\ x <= Rules!Min(S) /\ x \in Int /\ Rules!Min(S) \in Int
  BY <1>1
<1> QED
  BY <1>2

\* compareSemver is the lexicographic order of the components.
LEMMA SemverIs ==
  ASSUME NEW a \in [1..3 -> Int], NEW b \in [1..3 -> Int]
  PROVE  Rules!CompareSemver(a, b) >= 0 <=>
           \/ a[1] > b[1]
           \/ a[1] = b[1] /\ a[2] > b[2]
           \/ a[1] = b[1] /\ a[2] = b[2] /\ a[3] >= b[3]
<1> DEFINE D == {i \in 1..3 : a[i] # b[i]}
<1>0. a[1] \in Int /\ a[2] \in Int /\ a[3] \in Int /\ b[1] \in Int /\ b[2] \in Int /\ b[3] \in Int
  OBVIOUS
<1>1. Rules!CompareSemver(a, b)
        = IF D = {} THEN 0
          ELSE IF a[Rules!Min(D)] < b[Rules!Min(D)] THEN -1 ELSE 1
  BY DEF Rules!CompareSemver
<1>2. D \subseteq Int /\ D \subseteq 1..3 /\ \A i \in 1..3 : i \in D <=> a[i] # b[i]
  OBVIOUS
<1>3. 1..3 = {1, 2, 3}
  OBVIOUS
<1> HIDE DEF D
<1>4. CASE a[1] # b[1]
  <2>1. 1 \in D /\ \A y \in D : 1 <= y
    BY <1>2, <1>4
  <2>2. Rules!Min(D) = 1
    BY <1>2, <2>1, MinOf
  <2> QED
    BY <1>0, <1>1, <1>4, <2>1, <2>2
<1>5. CASE a[1] = b[1] /\ a[2] # b[2]
  <2>1. 2 \in D /\ \A y \in D : 2 <= y
    BY <1>2, <1>3, <1>5
  <2>2. Rules!Min(D) = 2
    BY <1>2, <2>1, MinOf
  <2> QED
    BY <1>0, <1>1, <1>5, <2>1, <2>2
<1>6. CASE a[1] = b[1] /\ a[2] = b[2] /\ a[3] # b[3]
  <2>1. 3 \in D /\ \A y \in D : 3 <= y
    BY <1>2, <1>3, <1>6
  <2>2. Rules!Min(D) = 3
    BY <1>2, <2>1, MinOf
  <2> QED
    BY <1>0, <1>1, <1>6, <2>1, <2>2
<1>7. CASE a[1] = b[1] /\ a[2] = b[2] /\ a[3] = b[3]
  <2>1. D = {}
    BY <1>2, <1>3, <1>7
  <2> QED
    BY <1>0, <1>1, <1>7, <2>1
<1> QED
  BY <1>4, <1>5, <1>6, <1>7

\* One number holds a whole version.
LEMMA ValueDecides ==
  ASSUME NEW M \in Nat \ {0}, NEW v \in [1..3 -> 0..M - 1], NEW w \in [1..3 -> 0..M - 1]
  PROVE  v[1] * M * M + v[2] * M + v[3] >= w[1] * M * M + w[2] * M + w[3] <=>
           \/ v[1] > w[1]
           \/ v[1] = w[1] /\ v[2] > w[2]
           \/ v[1] = w[1] /\ v[2] = w[2] /\ v[3] >= w[3]
<1>1. PICK a \in 0..M - 1, b \in 0..M - 1, c \in 0..M - 1 : a = v[1] /\ b = v[2] /\ c = v[3]
  OBVIOUS
<1>2. PICK d \in 0..M - 1, e \in 0..M - 1, f \in 0..M - 1 : d = w[1] /\ e = w[2] /\ f = w[3]
  OBVIOUS
<1>3. a \in Nat /\ b \in Nat /\ d \in Nat /\ e \in Nat
  OBVIOUS
<1>4. PICK x \in Nat, y \in Nat : x = a * M + b /\ y = d * M + e
  BY <1>3
<1>5. a * M * M + b * M + c = x * M + c /\ d * M * M + e * M + f = y * M + f
  BY <1>3, <1>4
<1>6. x * M + c >= y * M + f <=> x > y \/ (x = y /\ c >= f)
  BY DigitDecides
<1>7. x >= y <=> a > d \/ (a = d /\ b >= e)
  BY <1>3, <1>4, DigitDecides
<1>8. y >= x <=> d > a \/ (d = a /\ e >= b)
  BY <1>3, <1>4, DigitDecides
<1>9. (x > y <=> ~ (y >= x)) /\ (x = y <=> x >= y /\ y >= x)
  OBVIOUS
<1>10. x * M + c >= y * M + f <=> a > d \/ (a = d /\ b > e) \/ (a = d /\ b = e /\ c >= f)
  BY <1>3, <1>6, <1>7, <1>8, <1>9
<1> QED
  BY <1>1, <1>2, <1>5, <1>10

\* The gate on the binary's version.
LEMMA SemverGateIs ==
  ASSUME MaxPart \in Nat, NEW v \in [1..3 -> -1..MaxPart], NEW w \in [1..3 -> -1..MaxPart]
  PROVE  Rules!VersionGates(v, w, <<1>>, <<>>) <=>
           /\ \A i \in 1..3 : v[i] >= 0 /\ w[i] >= 0
           /\ v[1] * (MaxPart + 1) * (MaxPart + 1) + v[2] * (MaxPart + 1) + v[3]
                >= w[1] * (MaxPart + 1) * (MaxPart + 1) + w[2] * (MaxPart + 1) + w[3]
<1>1. \A q \in [1..3 -> -1..MaxPart] :
        Len(q) = 3 /\ q # <<>> /\ (Rules!ParseSemver(q) <=> \A i \in 1..3 : q[i] >= 0)
  <2> TAKE q \in [1..3 -> -1..MaxPart]
  <2>1. q \in Seq(Int) /\ Len(q) = 3 /\ DOMAIN q = 1..3
    <3>1. q \in [1..3 -> Int] /\ 3 \in Nat /\ DOMAIN q = 1..3
      OBVIOUS
    <3>2. q \in Seq(Int)
      BY <3>1, SeqDef
    <3>3. Len(q) \in Nat /\ DOMAIN q = 1..Len(q)
      BY <3>2, LenProperties
    <3>4. PICK k \in Nat : k = Len(q)
      BY <3>3
    <3>5. 1..k = 1..3
      BY <3>1, <3>3, <3>4
    <3>6. k = 3
      BY <3>5
    <3> QED
      BY <3>1, <3>2, <3>4, <3>6
  <2>2. q # <<>>
    BY <2>1
  <2> QED
    BY <2>1, <2>2 DEF Rules!ParseSemver
<1>2. Rules!VersionGates(v, w, <<1>>, <<>>) <=>
        /\ \A i \in 1..3 : v[i] >= 0 /\ w[i] >= 0
        /\ Rules!CompareSemver(v, w) >= 0
  BY <1>1, Zenon DEF Rules!VersionGates
<1>3. ASSUME \A i \in 1..3 : v[i] >= 0 /\ w[i] >= 0
      PROVE  Rules!CompareSemver(v, w) >= 0 <=>
               v[1] * (MaxPart + 1) * (MaxPart + 1) + v[2] * (MaxPart + 1) + v[3]
                 >= w[1] * (MaxPart + 1) * (MaxPart + 1) + w[2] * (MaxPart + 1) + w[3]
  <2>1. PICK M \in Nat \ {0} : M = MaxPart + 1
    OBVIOUS
  <2>2. v \in [1..3 -> 0..M - 1] /\ w \in [1..3 -> 0..M - 1]
    BY <1>3, <2>1
  <2>3. v \in [1..3 -> Int] /\ w \in [1..3 -> Int]
    OBVIOUS
  <2>4. Rules!CompareSemver(v, w) >= 0 <=>
          \/ v[1] > w[1]
          \/ v[1] = w[1] /\ v[2] > w[2]
          \/ v[1] = w[1] /\ v[2] = w[2] /\ v[3] >= w[3]
    BY <2>3, SemverIs
  <2>5. v[1] * M * M + v[2] * M + v[3] >= w[1] * M * M + w[2] * M + w[3] <=>
          \/ v[1] > w[1]
          \/ v[1] = w[1] /\ v[2] > w[2]
          \/ v[1] = w[1] /\ v[2] = w[2] /\ v[3] >= w[3]
    BY <2>2, ValueDecides
  <2> QED
    BY <2>1, <2>4, <2>5
<1> QED
  BY <1>2, <1>3

\* enforceVersionGates: for components of any size the gate on the binary is the
\* numeric order of the three and refuses what does not parse; the order of bundle
\* versions does with the days of a month, and with release numbers of any number
\* of digits, what VersionsUnderStringOrder says.
THEOREM GatesAlwaysOrder == CaseSpec => []GatesOrderVersions
<1>1. CaseInit => GatesOrderVersions
  BY DEF CaseInit, GatesOrderVersions, SemverIsNumeric, VersionsUnderStringOrder
<1>2. GatesOrderVersions /\ [CaseNext]_case => GatesOrderVersions'
  <2>1. ASSUME CaseNext PROVE SemverIsNumeric'
    <3> SUFFICES ASSUME case'.kind = "semver" PROVE SemverIsNumeric'
      BY DEF SemverIsNumeric
    <3>1. PICK v \in [1..3 -> -1..MaxPart], w \in [1..3 -> -1..MaxPart] :
            case' = [kind |-> "semver", binary |-> v, min |-> w]
      BY <2>1, CasePicked DEF PickSemver
    <3>2. case'.binary = v /\ case'.min = w
      BY <3>1
    <3>3. Rules!VersionGates(v, w, <<1>>, <<>>) <=>
            /\ \A i \in 1..3 : v[i] >= 0 /\ w[i] >= 0
            /\ v[1] * (MaxPart + 1) * (MaxPart + 1) + v[2] * (MaxPart + 1) + v[3]
                 >= w[1] * (MaxPart + 1) * (MaxPart + 1) + w[2] * (MaxPart + 1) + w[3]
      BY VersionAssumption, SemverGateIs
    <3> QED
      BY <3>2, <3>3, Zenon DEF SemverIsNumeric
  <2>2. ASSUME CaseNext PROVE VersionsUnderStringOrder'
    <3> SUFFICES ASSUME case'.kind = "version" PROVE VersionsUnderStringOrder'
      BY DEF VersionsUnderStringOrder
    <3>1. PICK d \in Days, e \in Days, x \in BuildSuffixes, y \in BuildSuffixes,
               m \in Tags, n \in Tags :
            case' = [kind |-> "version", days |-> <<d, e>>, suffixes |-> <<x, y>>,
                     tags |-> <<m, n>>]
      BY <2>2, CasePicked DEF PickVersion
    <3>2. /\ case'.days[1] = d /\ case'.days[2] = e
          /\ case'.suffixes[1] = x /\ case'.suffixes[2] = y
          /\ case'.tags[1] = m /\ case'.tags[2] = n
      BY <3>1
    <3>3. d \in 1..31 /\ e \in 1..31 /\ m \in Seq(0..9) /\ n \in Seq(0..9)
          /\ m # <<>> /\ n # <<>>
      BY VersionAssumption
    <3>4. LET u == Dated(d, x)
              v == Dated(e, y)
          IN /\ d < e => /\ Rules!VersionGates(<<>>, <<>>, v, u)
                         /\ ~ Rules!VersionGates(<<>>, <<>>, u, v)
             /\ Precedes(m, n) => /\ Rules!VersionGates(<<>>, <<>>, Tagged(n), Tagged(m))
                                  /\ ~ Rules!VersionGates(<<>>, <<>>, Tagged(m), Tagged(n))
             /\ n[1] < m[1] => ~ Rules!VersionGates(<<>>, <<>>, Tagged(n), Tagged(m))
             /\ ~ Rules!VersionGates(<<>>, <<>>, v, Tagged(m))
      BY <3>3, VersionsFollow
    <3> QED
      BY <3>2, <3>4, Zenon DEF VersionsUnderStringOrder
  <2>3. ASSUME UNCHANGED case, GatesOrderVersions PROVE GatesOrderVersions'
    BY <2>3 DEF GatesOrderVersions, SemverIsNumeric, VersionsUnderStringOrder
  <2> QED
    BY <2>1, <2>2, <2>3 DEF GatesOrderVersions
<1> QED
  BY <1>1, <1>2, PTL DEF CaseSpec

-----------------------------------------------------------------------------
(* Induction, and what recursive definitions define *)

\* Induction on the numbers, as a set.
LEMMA Induction ==
  ASSUME NEW S, 0 \in S, \A n \in Nat : n \in S => n + 1 \in S
  PROVE  Nat \subseteq S
<1> DEFINE T == {n \in Nat : n \notin S}
<1>1. SUFFICES ASSUME T # {} PROVE FALSE
  OBVIOUS
<1>2. T \subseteq Nat
  OBVIOUS
<1> HIDE DEF T
<1>3. PICK m \in T : \A n \in T : m <= n
  BY <1>1, <1>2, LeastIs
<1>4. m \in Nat /\ m # 0 /\ m - 1 \in Nat /\ m = (m - 1) + 1
  BY <1>3 DEF T
<1>5. m - 1 \notin T
  BY <1>2, <1>3, <1>4
<1> QED
  BY <1>3, <1>4, <1>5 DEF T

\* Induction downwards from N.
LEMMA Downward ==
  ASSUME NEW N \in Nat, NEW S, N \in S, \A i \in 1..N - 1 : i + 1 \in S => i \in S
  PROVE  1..N \subseteq S
<1> DEFINE T == {n \in Nat : n < N => N - n \in S}
<1>1. 0 \in T
  OBVIOUS
<1>2. ASSUME NEW n \in Nat, n \in T PROVE n + 1 \in T
  <2>1. SUFFICES ASSUME n + 1 < N PROVE N - (n + 1) \in S
    OBVIOUS
  <2>2. N - (n + 1) \in 1..N - 1 /\ (N - (n + 1)) + 1 = N - n
    BY <2>1
  <2>3. N - n \in S
    BY <1>2, <2>1
  <2> QED
    BY <2>2, <2>3
<1> HIDE DEF T
<1>3. Nat \subseteq T
  BY <1>1, <1>2, Induction
<1>4. ASSUME NEW i \in 1..N PROVE i \in S
  <2>1. N - i \in Nat /\ N - i < N /\ N - (N - i) = i
    OBVIOUS
  <2>2. N - i \in T
    BY <1>3, <2>1
  <2> QED
    BY <2>1, <2>2 DEF T
<1> QED
  BY <1>4

\* G gives the value at x from a function on D, and only looks below the rank of x.
Below(G, D, V, rank, N) ==
  /\ N \in Nat /\ rank \in [D -> 0..N] /\ V # {}
  /\ G \in [D \X [D -> V] -> V]
  /\ \A x \in D, f, g \in [D -> V] :
       (\A y \in D : rank[y] < rank[x] => f[y] = g[y]) => G[<<x, f>>] = G[<<x, g>>]

\* Some function on D is given by G everywhere.
Solvable(G, D, V) == \E f \in [D -> V] : \A x \in D : f[x] = G[<<x, f>>]

\* A recursive definition has a solution.
LEMMA Recursion ==
  ASSUME NEW D, NEW V, NEW N, NEW rank, NEW G, Below(G, D, V, rank, N)
  PROVE  Solvable(G, D, V)
<1> DEFINE S == {k \in Nat : \E f \in [D -> V] : \A x \in D : rank[x] < k => f[x] = G[<<x, f>>]}
<1>0. N \in Nat /\ \A x \in D : rank[x] \in 0..N
  BY DEF Below
<1>1. 0 \in S
  <2>1. PICK v : v \in V
    BY DEF Below
  <2>2. [x \in D |-> v] \in [D -> V]
    BY <2>1
  <2>3. \A x \in D : ~ (rank[x] < 0)
    BY <1>0
  <2> QED
    BY <2>2, <2>3
<1>2. ASSUME NEW k \in Nat, k \in S PROVE k + 1 \in S
  <2>1. PICK f \in [D -> V] : \A x \in D : rank[x] < k => f[x] = G[<<x, f>>]
    BY <1>2
  <2>2. PICK g : g = [x \in D |-> IF rank[x] < k THEN f[x] ELSE G[<<x, f>>]]
    OBVIOUS
  <2>3. \A x \in D : G[<<x, f>>] \in V
    BY DEF Below
  <2>4. g \in [D -> V]
    BY <2>2, <2>3
  <2>5. ASSUME NEW x \in D, rank[x] < k + 1 PROVE g[x] = G[<<x, g>>]
    <3>1. \A y \in D : rank[y] < rank[x] => f[y] = g[y]
      BY <1>0, <2>2, <2>5
    <3>2. G[<<x, f>>] = G[<<x, g>>]
      BY <2>4, <3>1 DEF Below
    <3>3. g[x] = G[<<x, f>>]
      BY <2>1, <2>2
    <3> QED
      BY <3>2, <3>3
  <2> QED
    BY <2>4, <2>5
<1> HIDE DEF S
<1>3. N + 1 \in S
  BY <1>0, <1>1, <1>2, Induction
<1>4. PICK f \in [D -> V] : \A x \in D : rank[x] < N + 1 => f[x] = G[<<x, f>>]
  BY <1>3 DEF S
<1> QED
  BY <1>0, <1>4 DEF Solvable

-----------------------------------------------------------------------------
(* MatchString *)

\* What templates, paths and expressions are made of.
Text == STRING \cup {"var", "any", "error", "/", "a"}

\* The positions of re that match p from its j-th character on, from those, f, that
\* match further on.
MatchStep(f, re, p, j) ==
  IF j > Len(p) THEN {Len(re) + 1}
  ELSE {i \in 1..Len(re) :
          CASE re[i] = "var" -> p[j] # "/" /\ (i \in f[j+1] \/ i + 1 \in f[j+1])
            [] re[i] = "any" -> i + 1 \in f[j+1]
            [] OTHER -> p[j] = re[i] /\ i + 1 \in f[j+1]}

\* MatchString takes its answer from the function this step defines.
LEMMA MatchChosen ==
  \A re, p : Rules!MatchString(re, p) <=>
               1 \in (CHOOSE f : f = [j \in 1..Len(p) + 1 |-> MatchStep(f, re, p, j)])[1]
BY DEF Rules!MatchString, MatchStep

\* The scan has a result and it satisfies its equation.
MatchRun(f, re, p) ==
  /\ f \in [1..Len(p) + 1 -> SUBSET (1..Len(re) + 1)]
  /\ \A j \in 1..Len(p) + 1 : f[j] = MatchStep(f, re, p, j)

\* MatchString is decided by such a run.
LEMMA MatchRuns ==
  ASSUME NEW re \in Seq(Text), NEW p \in Seq(Text)
  PROVE  \E f : MatchRun(f, re, p) /\ (Rules!MatchString(re, p) <=> 1 \in f[1])
<1>0. PICK L \in Nat, n \in Nat : L = Len(p) /\ n = Len(re)
  OBVIOUS
<1> DEFINE D == 1..L + 1
           V == SUBSET (1..n + 1)
           rank == [j \in D |-> L + 1 - j]
           G == [x \in D \X [D -> V] |-> MatchStep(x[2], re, p, x[1])]
<1>1. \A f : \A j \in D : MatchStep(f, re, p, j) \in V
  BY <1>0 DEF MatchStep
<1>2. \A j \in D, f \in [D -> V] : G[<<j, f>>] = MatchStep(f, re, p, j)
  OBVIOUS
<1>3. G \in [D \X [D -> V] -> V]
  BY <1>1
<1>4. ASSUME NEW j \in D, NEW f \in [D -> V], NEW g \in [D -> V],
             \A y \in D : rank[y] < rank[j] => f[y] = g[y]
      PROVE  MatchStep(f, re, p, j) = MatchStep(g, re, p, j)
  <2>1. CASE j > L
    BY <1>0, <2>1 DEF MatchStep
  <2>2. CASE j <= L
    <3>1. j + 1 \in D /\ rank[j + 1] < rank[j]
      BY <2>2
    <3>2. f[j + 1] = g[j + 1]
      BY <1>4, <3>1
    <3> QED
      BY <3>2 DEF MatchStep
  <2> QED
    BY <2>1, <2>2
<1>5. \A j \in D, f, g \in [D -> V] :
        (\A y \in D : rank[y] < rank[j] => f[y] = g[y]) => G[<<j, f>>] = G[<<j, g>>]
  <2> HIDE DEF G, V, D, rank
  <2> QED
    BY <1>2, <1>4
<1>6. rank \in [D -> 0..L]
  OBVIOUS
<1>7. V # {}
  OBVIOUS
<1> HIDE DEF D, V, rank, G
<1>8. Below(G, D, V, rank, L)
  BY <1>3, <1>5, <1>6, <1>7 DEF Below
<1>9. Solvable(G, D, V)
  BY <1>8, Recursion
<1>10. PICK f \in [D -> V] : \A j \in D : f[j] = MatchStep(f, re, p, j)
  BY <1>2, <1>9 DEF Solvable
<1>11. f = [j \in D |-> MatchStep(f, re, p, j)]
  BY <1>10
<1>12. PICK g : g = CHOOSE h : h = [j \in D |-> MatchStep(h, re, p, j)]
  OBVIOUS
<1>13. g = [j \in D |-> MatchStep(g, re, p, j)]
  BY <1>11, <1>12, Zenon
<1>14. MatchRun(g, re, p)
  <2>1. g \in [D -> V] /\ \A j \in D : g[j] = MatchStep(g, re, p, j)
    BY <1>1, <1>13
  <2> QED
    BY <1>0, <2>1 DEF MatchRun, D, V
<1>15. Rules!MatchString(re, p) <=> 1 \in g[1]
  BY <1>0, <1>12, MatchChosen DEF D
<1> QED
  BY <1>14, <1>15

-----------------------------------------------------------------------------
(* Instance *)

\* Where the first k pieces may end, from where the first k - 1 may, f.
EndStep(f, t, p, k) ==
  IF k = 0 THEN {0}
  ELSE {e \in 0..Len(p) : \E x \in f[k-1] : x <= e /\ Rules!Fits(t[k], SubSeq(p, x + 1, e))}

\* Instance takes its answer from the function this step defines.
LEMMA EndsChosen ==
  \A t, p : Rules!Instance(t, p) <=>
              Len(p) \in (CHOOSE f : f = [k \in 0..Len(t) |-> EndStep(f, t, p, k)])[Len(t)]
BY DEF Rules!Instance, EndStep

\* The reference has a value, and it satisfies its equation.
EndRun(f, t, p) ==
  /\ f \in [0..Len(t) -> SUBSET (0..Len(p))]
  /\ \A k \in 0..Len(t) : f[k] = EndStep(f, t, p, k)

\* Instance is decided by such a run.
LEMMA EndRuns ==
  ASSUME NEW S, NEW t \in Seq(S), NEW p \in Seq(Text)
  PROVE  \E f : EndRun(f, t, p) /\ (Rules!Instance(t, p) <=> Len(p) \in f[Len(t)])
<1>0. PICK L \in Nat, n \in Nat : L = Len(p) /\ n = Len(t)
  OBVIOUS
<1> DEFINE D == 0..n
           V == SUBSET (0..L)
           rank == [k \in D |-> k]
           G == [x \in D \X [D -> V] |-> EndStep(x[2], t, p, x[1])]
<1>1. \A f : \A k \in D : EndStep(f, t, p, k) \in V
  BY <1>0 DEF EndStep
<1>2. \A k \in D, f \in [D -> V] : G[<<k, f>>] = EndStep(f, t, p, k)
  OBVIOUS
<1>3. G \in [D \X [D -> V] -> V]
  BY <1>1
<1>4. ASSUME NEW k \in D, NEW f \in [D -> V], NEW g \in [D -> V],
             \A y \in D : rank[y] < rank[k] => f[y] = g[y]
      PROVE  EndStep(f, t, p, k) = EndStep(g, t, p, k)
  <2>1. CASE k = 0
    BY <2>1 DEF EndStep
  <2>2. CASE k # 0
    <3>1. k - 1 \in D /\ rank[k - 1] < rank[k]
      BY <2>2
    <3>2. f[k - 1] = g[k - 1]
      BY <1>4, <3>1
    <3> QED
      BY <3>2 DEF EndStep
  <2> QED
    BY <2>1, <2>2
<1>5. \A k \in D, f, g \in [D -> V] :
        (\A y \in D : rank[y] < rank[k] => f[y] = g[y]) => G[<<k, f>>] = G[<<k, g>>]
  <2> HIDE DEF G, V, D, rank
  <2> QED
    BY <1>2, <1>4
<1>6. rank \in [D -> 0..n]
  OBVIOUS
<1>7. V # {}
  OBVIOUS
<1> HIDE DEF D, V, rank, G
<1>8. Below(G, D, V, rank, n)
  BY <1>3, <1>5, <1>6, <1>7 DEF Below
<1>9. Solvable(G, D, V)
  BY <1>8, Recursion
<1>10. PICK f \in [D -> V] : \A k \in D : f[k] = EndStep(f, t, p, k)
  BY <1>2, <1>9 DEF Solvable
<1>11. f = [k \in D |-> EndStep(f, t, p, k)]
  BY <1>10
<1>12. PICK g : g = CHOOSE h : h = [k \in D |-> EndStep(h, t, p, k)]
  OBVIOUS
<1>13. g = [k \in D |-> EndStep(g, t, p, k)]
  BY <1>11, <1>12, Zenon
<1>14. EndRun(g, t, p)
  <2>1. g \in [D -> V] /\ \A k \in D : g[k] = EndStep(g, t, p, k)
    BY <1>1, <1>13
  <2> QED
    BY <1>0, <2>1 DEF EndRun, D, V
<1>15. Rules!Instance(t, p) <=> Len(p) \in g[Len(t)]
  BY <1>0, <1>12, EndsChosen DEF D
<1> QED
  BY <1>14, <1>15

-----------------------------------------------------------------------------
(* The compiled expression matches the instances *)

\* Sequences are equal if they agree at every position.
LEMMA SameSeq ==
  ASSUME NEW S, NEW s \in Seq(S), NEW t \in Seq(S), Len(s) = Len(t),
         \A i \in 1..Len(s) : s[i] = t[i]
  PROVE  s = t
<1>1. s = [i \in 1..Len(s) |-> s[i]] /\ t = [i \in 1..Len(t) |-> t[i]]
  OBVIOUS
<1> QED
  BY <1>1

\* What a placeholder and what a character stand for, between two positions of p.
LEMMA FitsIs ==
  ASSUME NEW p \in Seq(Text), NEW q \in Seq(Text), NEW x \in 0..Len(p), NEW e \in x..Len(p)
  PROVE  /\ Rules!IsVar(q) => (Rules!Fits(q, SubSeq(p, x + 1, e)) <=>
                                 x < e /\ \A i \in x + 1..e : p[i] # "/")
         /\ Len(q) = 1 => (Rules!Fits(q, SubSeq(p, x + 1, e)) <=> e = x + 1 /\ p[e] = q[1])
<1>0. PICK L \in Nat, n \in Nat : L = Len(p) /\ n = Len(q)
  OBVIOUS
<1>1. x \in Nat /\ e \in Nat /\ x <= e /\ e <= L
  BY <1>0
<1>2. PICK s : s = SubSeq(p, x + 1, e)
  OBVIOUS
<1>3. PICK d \in Nat : d = e - x /\ x + d = e
  BY <1>1
<1>4. s \in Seq(Text) /\ Len(s) = d /\ DOMAIN s = 1..d /\ \A i \in 1..d : s[i] = p[x + i]
  <2>1. x + 1 \in 1..L + 1 /\ e \in x..L
    BY <1>0, <1>1
  <2>2. /\ s \in Seq(Text)
        /\ Len(s) = IF x + 1 <= e THEN e - (x + 1) + 1 ELSE 0
        /\ \A i \in 1..e - (x + 1) + 1 : s[i] = p[(x + 1) + i - 1]
    BY <1>0, <1>1, <1>2, <2>1, SubSeqProperties
  <2>3. Len(s) = d
    BY <1>1, <1>3, <2>2
  <2>4. DOMAIN s = 1..d
    BY <2>2, <2>3, LenProperties
  <2>5. \A i \in 1..d : i \in 1..e - (x + 1) + 1 /\ (x + 1) + i - 1 = x + i
    BY <1>1, <1>3
  <2> QED
    BY <2>2, <2>3, <2>4, <2>5
<1>5. ASSUME Rules!IsVar(q)
      PROVE  Rules!Fits(q, s) <=> x < e /\ \A i \in x + 1..e : p[i] # "/"
  <2>1. s # <<>> <=> x < e
    <3>1. s # <<>> <=> d # 0
      BY <1>4
    <3> QED
      BY <1>1, <1>3, <3>1
  <2>2. (\A i \in 1..d : s[i] # "/") <=> \A i \in x + 1..e : p[i] # "/"
    <3>1. \A i \in x + 1..e : i - x \in 1..d /\ x + (i - x) = i
      BY <1>1, <1>3
    <3>2. \A i \in 1..d : x + i \in x + 1..e
      BY <1>1, <1>3
    <3> QED
      BY <1>4, <3>1, <3>2
  <2> QED
    BY <1>4, <1>5, <2>1, <2>2 DEF Rules!Fits
<1>6. ASSUME n = 1
      PROVE  Rules!Fits(q, s) <=> e = x + 1 /\ p[e] = q[1]
  <2>1. ~ Rules!IsVar(q)
    BY <1>0, <1>6 DEF Rules!IsVar
  <2>2. s = q <=> d = 1 /\ s[1] = q[1]
    <3>1. ASSUME d = 1, s[1] = q[1] PROVE s = q
      <4>1. Len(s) = Len(q) /\ \A i \in 1..Len(s) : s[i] = q[i]
        BY <1>0, <1>4, <1>6, <3>1
      <4> QED
        BY <1>4, <4>1, SameSeq
    <3> QED
      BY <1>0, <1>4, <1>6, <3>1
  <2>3. d = 1 <=> e = x + 1
    BY <1>1, <1>3
  <2>4. d = 1 => s[1] = p[e]
    BY <1>1, <1>3, <1>4
  <2> QED
    BY <2>1, <2>2, <2>3, <2>4 DEF Rules!Fits
<1> QED
  BY <1>0, <1>2, <1>5, <1>6

\* The symbols of the expression a template compiles to.
Symbol(q) == IF Rules!IsVar(q) THEN "var" ELSE q[1]
Symbols(t) == [k \in 1..Len(t) |-> Symbol(t[k])]

\* Placeholders, and characters that are no symbols of their own.
Opens(c) == c = "{"
Closes(c) == c = "}"
Braced(q) == Opens(q[1]) /\ Closes(q[Len(q)]) /\ \A i \in 2..Len(q) - 1 : ~ Closes(q[i])
Plain(q) ==
  \/ Rules!IsVar(q) /\ Braced(q)
  \/ Len(q) = 1 /\ ~ Opens(q[1]) /\ q[1] \notin {"var", "any"}
PlainSeq(t) == t \in Seq(Seq(Text)) /\ \A k \in 1..Len(t) : Plain(t[k])

\* The symbols of plain pieces are texts.
LEMMA SymbolsIs ==
  ASSUME NEW t, PlainSeq(t)
  PROVE  /\ Symbols(t) \in Seq(Text) /\ Len(Symbols(t)) = Len(t)
         /\ \A k \in 1..Len(t) : Symbols(t)[k] = Symbol(t[k])
<1>0. PICK n \in Nat : n = Len(t)
  BY DEF PlainSeq
<1>1. \A k \in 1..n : Symbol(t[k]) \in Text
  <2> TAKE k \in 1..n
  <2>1. t[k] \in Seq(Text) /\ Plain(t[k])
    BY <1>0 DEF PlainSeq
  <2>2. Len(t[k]) = 1 => t[k][1] \in Text
    BY <2>1
  <2>3. CASE Rules!IsVar(t[k])
    <3>1. Symbol(t[k]) = "var"
      BY <2>3, Zenon DEF Symbol
    <3>2. "var" \in Text
      BY DEF Text
    <3> QED
      BY <3>1, <3>2, Zenon
  <2>4. CASE ~ Rules!IsVar(t[k])
    <3>1. Symbol(t[k]) = t[k][1] /\ Len(t[k]) = 1
      BY <2>1, <2>4, Zenon DEF Symbol, Plain
    <3> QED
      BY <2>2, <3>1
  <2> QED
    BY <2>3, <2>4
<1> QED
  BY <1>0, <1>1 DEF Symbols

\* One symbol of the expression takes what one piece of the template stands for.
Taken(f, q, p, k, x) ==
  \E e \in x..Len(p) : Rules!Fits(q, SubSeq(p, x + 1, e)) /\ k + 1 \in f[e + 1]

\* From the k-th symbol on, an expression matches what is left of the path if the k-th
\* piece fits the beginning of it and the rest matches from there.
LEMMA PieceTaken ==
  ASSUME NEW t, PlainSeq(t), NEW p \in Seq(Text), NEW f, MatchRun(f, Symbols(t), p),
         NEW k \in 1..Len(t), NEW x \in 0..Len(p)
  PROVE  k \in f[x + 1] <=> Taken(f, t[k], p, k, x)
<1>0. PICK L \in Nat, n \in Nat, q \in Seq(Text) : L = Len(p) /\ n = Len(t) /\ q = t[k]
  <2>1. t \in Seq(Seq(Text)) /\ Len(t) \in Nat /\ Len(p) \in Nat
    BY DEF PlainSeq
  <2>2. t[k] \in Seq(Text)
    BY <2>1, ElementOfSeq
  <2> QED
    BY <2>1, <2>2
<1>1. Plain(q) /\ k \in 1..n /\ x \in 0..L
  BY <1>0 DEF PlainSeq
<1>2. PICK re : re = Symbols(t) /\ re \in Seq(Text) /\ Len(re) = n /\ re[k] = Symbol(q)
  BY <1>0, SymbolsIs
<1>3. f[L + 1] = {n + 1}
  <2>1. L + 1 \in 1..L + 1 /\ L + 1 > L
    OBVIOUS
  <2>2. f[L + 1] = MatchStep(f, re, p, L + 1)
    BY <1>0, <1>2, <2>1 DEF MatchRun
  <2> QED
    BY <1>0, <1>2, <2>1, <2>2 DEF MatchStep
<1>4. \A y \in 0..L - 1 : f[y + 1] = MatchStep(f, re, p, y + 1) /\ y + 1 \in 1..L
                          /\ (y + 1) + 1 = y + 2
  BY <1>0, <1>2 DEF MatchRun
<1>5. k \in 1..n /\ k \notin f[L + 1]
  BY <1>1, <1>3
<1>8. \A y \in 0..L - 1 :
        k \in f[y + 1] <=>
          CASE re[k] = "var" -> p[y + 1] # "/" /\ (k \in f[y + 2] \/ k + 1 \in f[y + 2])
            [] re[k] = "any" -> k + 1 \in f[y + 2]
            [] OTHER -> p[y + 1] = re[k] /\ k + 1 \in f[y + 2]
  <2> TAKE y \in 0..L - 1
  <2>1. PICK z : z = y + 1
    OBVIOUS
  <2>2. z \in 1..L /\ ~ (z > Len(p)) /\ z + 1 = y + 2 /\ f[z] = MatchStep(f, re, p, z)
    BY <1>0, <1>4, <2>1
  <2>3. f[z] = {i \in 1..n :
                  CASE re[i] = "var" -> p[z] # "/" /\ (i \in f[z+1] \/ i + 1 \in f[z+1])
                    [] re[i] = "any" -> i + 1 \in f[z+1]
                    [] OTHER -> p[z] = re[i] /\ i + 1 \in f[z+1]}
    BY <1>2, <2>2 DEF MatchStep
  <2> QED
    BY <1>5, <2>1, <2>2, <2>3
<1>6. CASE Rules!IsVar(q)
  <2>1. re[k] = "var"
    BY <1>2, <1>6 DEF Symbol
  <2>2. \A y \in 0..L - 1 :
          k \in f[y + 1] <=> p[y + 1] # "/" /\ (k \in f[y + 2] \/ k + 1 \in f[y + 2])
    BY <1>8, <2>1
  <2> DEFINE R(y) == \E e \in y..L : y < e /\ (\A i \in y + 1..e : p[i] # "/") /\ k + 1 \in f[e + 1]
             T == {z \in Nat : z \in 1..L + 1 /\ (k \in f[z] <=> R(z - 1))}
  <2>3. L + 1 \in T
    BY <1>5
  <2>4. ASSUME NEW z \in 1..L, z + 1 \in T PROVE z \in T
    <3>1. PICK y \in 0..L - 1 : y = z - 1 /\ y + 1 = z /\ y + 2 = z + 1 /\ (z + 1) - 1 = z
      OBVIOUS
    <3>2. k \in f[z] <=> p[z] # "/" /\ (k \in f[z + 1] \/ k + 1 \in f[z + 1])
      BY <2>2, <3>1
    <3>3. k \in f[z + 1] <=> R(z)
      BY <2>4, <3>1
    <3>4. ASSUME p[z] # "/", R(z) PROVE R(y)
      <4>1. PICK e \in z..L : z < e /\ (\A i \in z + 1..e : p[i] # "/") /\ k + 1 \in f[e + 1]
        BY <3>4
      <4>2. e \in y..L /\ y < e /\ \A i \in y + 1..e : i = z \/ i \in z + 1..e
        BY <3>1, <4>1
      <4>3. \A i \in y + 1..e : p[i] # "/"
        BY <3>4, <4>1, <4>2
      <4> QED
        BY <4>1, <4>2, <4>3
    <3>5. ASSUME p[z] # "/", k + 1 \in f[z + 1] PROVE R(y)
      <4>1. z \in y..L /\ y < z /\ \A i \in y + 1..z : i = z
        BY <3>1
      <4> QED
        BY <3>5, <4>1
    <3>6. ASSUME R(y) PROVE p[z] # "/" /\ (R(z) \/ k + 1 \in f[z + 1])
      <4>1. PICK e \in y..L : y < e /\ (\A i \in y + 1..e : p[i] # "/") /\ k + 1 \in f[e + 1]
        BY <3>6
      <4>2. p[z] # "/"
        BY <3>1, <4>1
      <4>3. CASE e = z
        BY <4>1, <4>2, <4>3
      <4>4. CASE e # z
        <5>1. e \in z..L /\ z < e /\ \A i \in z + 1..e : p[i] # "/"
          BY <3>1, <4>1, <4>4
        <5> QED
          BY <4>1, <4>2, <5>1
      <4> QED
        BY <4>3, <4>4
    <3>7. k \in f[z] <=> R(y)
      BY <3>2, <3>3, <3>4, <3>5, <3>6
    <3> QED
      BY <3>1, <3>7
  <2>5. 1..L + 1 \subseteq T
    <3>1. \A z \in 1..(L + 1) - 1 : z + 1 \in T => z \in T
      BY <2>4
    <3>2. L + 1 \in Nat
      OBVIOUS
    <3> HIDE DEF T
    <3> QED
      BY <2>3, <3>1, <3>2, Downward
  <2>6. k \in f[x + 1] <=> R(x)
    <3>1. x + 1 \in 1..L + 1 /\ (x + 1) - 1 = x
      BY <1>1
    <3>2. x + 1 \in T
      <4> HIDE DEF T
      <4> QED
        BY <2>5, <3>1
    <3> QED
      BY <3>1, <3>2
  <2>7. \A e \in x..L : Rules!Fits(q, SubSeq(p, x + 1, e)) <=>
                          x < e /\ \A i \in x + 1..e : p[i] # "/"
    BY <1>0, <1>6, FitsIs
  <2> QED
    BY <1>0, <2>6, <2>7 DEF Taken
<1>7. CASE ~ Rules!IsVar(q)
  <2>1. Len(q) = 1 /\ q[1] \notin {"var", "any"} /\ re[k] = q[1]
    BY <1>1, <1>2, <1>7 DEF Plain, Symbol
  <2>2. \A y \in 0..L - 1 : k \in f[y + 1] <=> p[y + 1] = q[1] /\ k + 1 \in f[y + 2]
    BY <1>8, <2>1
  <2>3. \A e \in x..L : Rules!Fits(q, SubSeq(p, x + 1, e)) <=> e = x + 1 /\ p[e] = q[1]
    BY <1>0, <2>1, FitsIs
  <2>4. CASE x = L
    BY <1>0, <1>5, <2>3, <2>4 DEF Taken
  <2>5. CASE x # L
    <3>1. x \in 0..L - 1 /\ x + 1 \in x..L /\ (x + 1) + 1 = x + 2
      BY <1>1, <2>5
    <3> QED
      BY <1>0, <2>2, <2>3, <3>1 DEF Taken
  <2> QED
    BY <2>4, <2>5
<1> QED
  BY <1>0, <1>6, <1>7

\* The expression of plain pieces matches the instances of the pieces.
LEMMA InstancesMatch ==
  ASSUME NEW t, PlainSeq(t), NEW p \in Seq(Text)
  PROVE  Rules!MatchString(Symbols(t), p) <=> Rules!Instance(t, p)
<1>0. PICK L \in Nat, n \in Nat : L = Len(p) /\ n = Len(t)
  BY DEF PlainSeq
<1>1. Symbols(t) \in Seq(Text) /\ Len(Symbols(t)) = n
  BY <1>0, SymbolsIs
<1>2. PICK f : MatchRun(f, Symbols(t), p) /\ (Rules!MatchString(Symbols(t), p) <=> 1 \in f[1])
  BY <1>1, MatchRuns
<1>3. PICK g : EndRun(g, t, p) /\ (Rules!Instance(t, p) <=> L \in g[n])
  <2>1. t \in Seq(Seq(Text))
    BY DEF PlainSeq
  <2> QED
    BY <1>0, <2>1, EndRuns
<1>4. \A k \in 0..n : g[k] \subseteq 0..L /\ g[k] = EndStep(g, t, p, k)
  BY <1>0, <1>3 DEF EndRun
<1>5. ASSUME NEW e \in 0..L PROVE n + 1 \in f[e + 1] <=> e = L
  <2>1. e + 1 \in 1..L + 1 /\ (e + 1 > L <=> e = L)
    OBVIOUS
  <2>2. f[e + 1] = MatchStep(f, Symbols(t), p, e + 1)
    BY <1>0, <1>2, <2>1 DEF MatchRun
  <2>3. e = L => f[e + 1] = {n + 1}
    BY <1>0, <1>1, <2>1, <2>2 DEF MatchStep
  <2>4. e # L => f[e + 1] \subseteq 1..n
    BY <1>0, <1>1, <2>1, <2>2 DEF MatchStep
  <2> QED
    BY <2>3, <2>4
<1> DEFINE A(k) == \E e \in g[k] : k + 1 \in f[e + 1]
           T == {k \in Nat : k \in 0..n => (A(k) <=> A(0))}
<1>6. ASSUME NEW k \in 1..n PROVE A(k - 1) <=> A(k)
  <2>0. k - 1 \in 0..n /\ k \in 0..n /\ (k - 1) + 1 = k
    OBVIOUS
  <2>1. g[k] = {e \in 0..L : \E x \in g[k-1] : x <= e /\ Rules!Fits(t[k], SubSeq(p, x + 1, e))}
    <3>1. g[k] = EndStep(g, t, p, k) /\ k # 0
      BY <1>4, <2>0
    <3> QED
      BY <1>0, <3>1 DEF EndStep
  <2>2. \A x \in 0..L : k \in f[x + 1] <=> Taken(f, t[k], p, k, x)
    BY <1>0, <1>2, PieceTaken
  <2>3. \A x \in 0..L : k \in f[x + 1] <=>
          \E e \in x..L : Rules!Fits(t[k], SubSeq(p, x + 1, e)) /\ k + 1 \in f[e + 1]
    BY <1>0, <2>2 DEF Taken
  <2>4. g[k - 1] \subseteq 0..L
    BY <1>4, <2>0
  <2>5. ASSUME A(k - 1) PROVE A(k)
    <3>1. PICK x \in g[k - 1] : k \in f[x + 1]
      BY <2>0, <2>5
    <3>2. x \in 0..L
      BY <2>4
    <3>3. PICK e \in x..L : Rules!Fits(t[k], SubSeq(p, x + 1, e)) /\ k + 1 \in f[e + 1]
      BY <2>3, <3>1, <3>2
    <3>4. e \in 0..L /\ x <= e
      BY <3>2
    <3>5. e \in g[k]
      BY <2>1, <3>3, <3>4
    <3> QED
      BY <3>3, <3>5
  <2>6. ASSUME A(k) PROVE A(k - 1)
    <3>1. PICK e \in g[k] : k + 1 \in f[e + 1]
      BY <2>6
    <3>2. e \in 0..L
      BY <2>1
    <3>3. PICK x \in g[k - 1] : x <= e /\ Rules!Fits(t[k], SubSeq(p, x + 1, e))
      BY <2>1
    <3>4. x \in 0..L /\ e \in x..L
      BY <2>4, <3>2, <3>3
    <3>5. k \in f[x + 1]
      BY <2>3, <3>1, <3>3, <3>4
    <3> QED
      BY <2>0, <3>5
  <2> QED
    BY <2>5, <2>6
<1>7. 0 \in T
  OBVIOUS
<1>8. ASSUME NEW k \in Nat, k \in T PROVE k + 1 \in T
  <2>1. SUFFICES ASSUME k + 1 \in 0..n PROVE A(k + 1) <=> A(0)
    OBVIOUS
  <2>2. k \in 0..n /\ k + 1 \in 1..n /\ (k + 1) - 1 = k
    BY <2>1
  <2>3. A(k) <=> A(k + 1)
    <3>1. \A l \in 1..n : A(l - 1) <=> A(l)
      BY <1>6
    <3> HIDE DEF A
    <3> QED
      BY <2>2, <3>1
  <2> QED
    BY <1>8, <2>2, <2>3
<1>9. n \in T
  <2> HIDE DEF T
  <2> QED
    BY <1>7, <1>8, Induction
<1>10. A(n) <=> A(0)
  <2> HIDE DEF A
  <2> QED
    BY <1>9
<1>11. A(n) <=> L \in g[n]
  <2>1. g[n] \subseteq 0..L
    BY <1>4
  <2> QED
    BY <1>5, <2>1
<1>12. A(0) <=> 1 \in f[1]
  <2>1. g[0] = {0}
    <3>1. 0 \in 0..n
      OBVIOUS
    <3>2. g[0] = EndStep(g, t, p, 0)
      BY <1>4, <3>1
    <3> QED
      BY <3>2 DEF EndStep
  <2> QED
    BY <2>1
<1> QED
  BY <1>2, <1>3, <1>10, <1>11, <1>12

-----------------------------------------------------------------------------
(* Spelling a template *)

\* FlattenSeq, piece by piece.
FlatStep(f, t, i) == IF i = 1 THEN t[i] ELSE f[i-1] \o t[i]

\* Spell takes its text from the function this step defines.
LEMMA FlatChosen ==
  \A t : Rules!Spell(t) =
           IF Len(t) = 0 THEN t
           ELSE (CHOOSE f : f = [i \in 1..Len(t) |-> FlatStep(f, t, i)])[Len(t)]
BY DEF Rules!Spell, Rules!FlattenSeq, FlatStep

\* The fold has a value, and it satisfies its equation.
FlatRun(f, t) ==
  /\ f \in [1..Len(t) -> Seq(Text)]
  /\ \A i \in 1..Len(t) : f[i] = FlatStep(f, t, i)

\* Spell is given by such a run.
LEMMA FlatRuns ==
  ASSUME NEW t \in Seq(Seq(Text)), Len(t) # 0
  PROVE  \E f : FlatRun(f, t) /\ Rules!Spell(t) = f[Len(t)]
<1>0. PICK n \in Nat : n = Len(t)
  OBVIOUS
<1> DEFINE D == 1..n
           V == Seq(Text)
           rank == [i \in D |-> i]
           G == [x \in D \X [D -> V] |-> FlatStep(x[2], t, x[1])]
<1>t. \A i \in D : t[i] \in V
  BY <1>0
<1>1. ASSUME NEW f \in [D -> V], NEW i \in D PROVE FlatStep(f, t, i) \in V
  <2>1. i # 1 => i - 1 \in D
    OBVIOUS
  <2>2. i # 1 => f[i - 1] \in V
    BY <2>1
  <2>3. i # 1 => f[i - 1] \o t[i] \in V
    BY <1>t, <2>2, ConcatProperties
  <2> HIDE DEF V
  <2> QED
    BY <1>t, <2>3 DEF FlatStep
<1>2. \A i \in D, f \in [D -> V] : G[<<i, f>>] = FlatStep(f, t, i)
  OBVIOUS
<1>3. G \in [D \X [D -> V] -> V]
  <2> HIDE DEF D, V
  <2> QED
    BY <1>1
<1>4. ASSUME NEW i \in D, NEW f, NEW g, \A y \in D : rank[y] < rank[i] => f[y] = g[y]
      PROVE  FlatStep(f, t, i) = FlatStep(g, t, i)
  <2>1. CASE i = 1
    BY <2>1 DEF FlatStep
  <2>2. CASE i # 1
    <3>1. i - 1 \in D /\ rank[i - 1] < rank[i]
      BY <2>2
    <3>2. f[i - 1] = g[i - 1]
      BY <1>4, <3>1
    <3> QED
      BY <3>2 DEF FlatStep
  <2> QED
    BY <2>1, <2>2
<1>5. \A i \in D, f, g \in [D -> V] :
        (\A y \in D : rank[y] < rank[i] => f[y] = g[y]) => G[<<i, f>>] = G[<<i, g>>]
  <2> HIDE DEF G, V, D, rank
  <2> QED
    BY <1>2, <1>4
<1>6. rank \in [D -> 0..n]
  OBVIOUS
<1>7. V # {}
  BY EmptySeq
<1> HIDE DEF V, G
<1>8. Below(G, D, V, rank, n)
  <2> HIDE DEF D, rank
  <2> QED
    BY <1>3, <1>5, <1>6, <1>7 DEF Below
<1>9. Solvable(G, D, V)
  BY <1>8, Recursion
<1>10. PICK f \in [D -> V] : \A i \in D : f[i] = FlatStep(f, t, i)
  BY <1>2, <1>9 DEF Solvable
<1>11. f = [i \in D |-> FlatStep(f, t, i)]
  BY <1>10
<1>12. PICK g : g = CHOOSE h : h = [i \in D |-> FlatStep(h, t, i)]
  OBVIOUS
<1>13. g = [i \in D |-> FlatStep(g, t, i)]
  BY <1>11, <1>12, Zenon
<1>14. \A i \in D : g[i] = FlatStep(g, t, i)
  BY <1>13
<1> DEFINE T == {m \in Nat : \A i \in D : i <= m => g[i] = f[i]}
<1>15. 0 \in T
  OBVIOUS
<1>16. ASSUME NEW m \in Nat, m \in T PROVE m + 1 \in T
  <2>1. ASSUME NEW i \in D, i <= m + 1 PROVE g[i] = f[i]
    <3>1. \A y \in D : rank[y] < rank[i] => g[y] = f[y]
      BY <1>16, <2>1
    <3>2. FlatStep(g, t, i) = FlatStep(f, t, i)
      BY <1>4, <3>1
    <3> QED
      BY <1>10, <1>14, <3>2
  <2> QED
    BY <2>1
<1>17. n \in T
  <2> HIDE DEF T
  <2> QED
    BY <1>15, <1>16, Induction
<1>18. \A i \in D : g[i] = f[i]
  BY <1>17
<1>19. g = f
  BY <1>11, <1>13, <1>18
<1>20. FlatRun(f, t)
  BY <1>0, <1>10 DEF FlatRun, V
<1>21. Rules!Spell(t) = g[n]
  BY <1>0, <1>12, FlatChosen
<1> QED
  BY <1>0, <1>19, <1>20, <1>21

\* Where the pieces of t lie in the text P.
Layout(t, P, off) ==
  /\ P \in Seq(Text) /\ off \in [0..Len(t) -> Nat] /\ off[0] = 0 /\ off[Len(t)] = Len(P)
  /\ \A k \in 1..Len(t) :
       /\ off[k] = off[k-1] + Len(t[k]) /\ off[k] <= Len(P)
       /\ \A i \in 1..Len(t[k]) : P[off[k-1] + i] = t[k][i]

\* Spell lays the pieces out one after the other.
LEMMA Laid ==
  ASSUME NEW t \in Seq(Seq(Text))
  PROVE  \E off : Layout(t, Rules!Spell(t), off)
<1>0. PICK n \in Nat : n = Len(t)
  OBVIOUS
<1>1. CASE n = 0
  <2>1. Rules!Spell(t) = t /\ t = <<>>
    <3>1. t = <<>>
      BY <1>0, <1>1, EmptySeq
    <3> QED
      BY <1>0, <1>1, <3>1, FlatChosen
  <2>2. Layout(<<>>, <<>>, [k \in 0..0 |-> 0])
    BY DEF Layout
  <2> QED
    BY <2>1, <2>2
<1>2. CASE n # 0
  <2>1. PICK f : FlatRun(f, t) /\ Rules!Spell(t) = f[n]
    BY <1>0, <1>2, FlatRuns
  <2>2. PICK off : off = [k \in 0..n |-> IF k = 0 THEN 0 ELSE Len(f[k])]
    OBVIOUS
  <2>3. \A k \in 1..n : f[k] \in Seq(Text) /\ f[k] = FlatStep(f, t, k) /\ t[k] \in Seq(Text)
    <3>1. \A k \in 1..n : f[k] \in Seq(Text) /\ f[k] = FlatStep(f, t, k)
      BY <1>0, <2>1 DEF FlatRun
    <3>2. \A k \in 1..n : t[k] \in Seq(Text)
      BY <1>0, ElementOfSeq
    <3> QED
      BY <3>1, <3>2
  <2>4. \A k \in 1..n : Len(f[k]) \in Nat /\ Len(t[k]) \in Nat
    BY <2>3, LenProperties
  <2>5. off \in [0..n -> Nat] /\ off[0] = 0 /\ \A k \in 1..n : off[k] = Len(f[k])
    BY <2>2, <2>4
  <2>6. ASSUME NEW k \in 1..n, k # 1
        PROVE  /\ f[k] = f[k-1] \o t[k] /\ k - 1 \in 1..n
               /\ Len(f[k]) = Len(f[k-1]) + Len(t[k])
               /\ \A i \in 1..Len(f[k-1]) : f[k][i] = f[k-1][i]
               /\ \A i \in 1..Len(t[k]) : f[k][Len(f[k-1]) + i] = t[k][i]
    <3>1. k - 1 \in 1..n /\ f[k] = f[k-1] \o t[k]
      <4>1. k - 1 \in 1..n
        BY <2>6
      <4>2. f[k] = FlatStep(f, t, k)
        BY <2>3
      <4> QED
        BY <2>6, <4>1, <4>2 DEF FlatStep
    <3>2. PICK a \in Seq(Text), b \in Seq(Text) : a = f[k-1] /\ b = t[k]
      BY <2>3, <3>1
    <3>3. PICK l \in Nat, m \in Nat : l = Len(a) /\ m = Len(b)
      OBVIOUS
    <3>4. /\ Len(a \o b) = l + m
          /\ \A i \in 1..l + m : (a \o b)[i] = IF i <= l THEN a[i] ELSE b[i - l]
      BY <3>3, ConcatProperties
    <3>5. \A i \in 1..l : (a \o b)[i] = a[i]
      BY <3>4
    <3>6. \A i \in 1..m : l + i \in 1..l + m /\ ~ (l + i <= l) /\ (l + i) - l = i
      OBVIOUS
    <3>7. \A i \in 1..m : (a \o b)[l + i] = b[i]
      BY <3>4, <3>6
    <3> QED
      BY <3>1, <3>2, <3>3, <3>4, <3>5, <3>7
  <2>7. \A k \in 1..n : off[k] = off[k-1] + Len(t[k])
    <3> TAKE k \in 1..n
    <3>1. CASE k = 1
      <4>1. f[1] = t[1]
        BY <2>3, <3>1 DEF FlatStep
      <4> QED
        BY <2>4, <2>5, <3>1, <4>1
    <3>2. CASE k # 1
      BY <2>5, <2>6, <3>2
    <3> QED
      BY <3>1, <3>2
  <2> DEFINE Q(m) == \A k \in 1..m : /\ off[k] <= off[m]
                                     /\ \A i \in 1..Len(t[k]) : f[m][off[k-1] + i] = t[k][i]
             T == {m \in Nat : m + 1 \in 1..n => Q(m + 1)}
  <2>8. 0 \in T
    <3>1. f[1] = t[1]
      BY <1>2, <2>3 DEF FlatStep
    <3>2. \A k \in 1..1 : k = 1 /\ k - 1 = 0
      OBVIOUS
    <3>3. 1 \in 1..n /\ Len(t[1]) \in Nat
      BY <1>2, <2>4
    <3>4. \A i \in 1..Len(t[1]) : off[0] + i = i
      BY <2>5, <3>3
    <3>5. Q(1)
      BY <2>5, <3>1, <3>2, <3>3, <3>4
    <3> HIDE DEF Q
    <3> QED
      BY <3>5
  <2>9. ASSUME NEW m \in Nat, m \in T PROVE m + 1 \in T
    <3>1. SUFFICES ASSUME (m + 1) + 1 \in 1..n PROVE Q((m + 1) + 1)
      OBVIOUS
    <3>2. PICK j \in Nat : j = (m + 1) + 1
      OBVIOUS
    <3>3. j \in 1..n /\ j # 1 /\ j - 1 = m + 1 /\ m + 1 \in 1..n
      BY <3>1, <3>2
    <3>4. Q(j - 1)
      <4> HIDE DEF Q
      <4> QED
        BY <2>9, <3>3
    <3>5. off[j] = off[j-1] + Len(t[j]) /\ off[j] \in Nat /\ off[j-1] \in Nat
          /\ Len(t[j]) \in Nat /\ off[j-1] = Len(f[j-1])
      BY <2>4, <2>5, <2>7, <3>3
    <3>6. ASSUME NEW k \in 1..j PROVE off[k] <= off[j] /\ \A i \in 1..Len(t[k]) :
                                        f[j][off[k-1] + i] = t[k][i]
      <4>1. CASE k = j
        <5>1. \A i \in 1..Len(t[j]) : f[j][Len(f[j-1]) + i] = t[j][i]
          BY <2>6, <3>3
        <5>2. off[j] <= off[j]
          BY <3>5
        <5>3. \A i \in 1..Len(t[j]) : f[j][off[j-1] + i] = t[j][i]
          BY <3>5, <5>1
        <5> QED
          BY <4>1, <5>2, <5>3, Zenon
      <4>2. CASE k # j
        <5>1. k \in 1..j - 1 /\ k \in 1..n /\ k - 1 \in 0..n
          BY <3>3, <4>2
        <5>2. /\ off[k] <= off[j-1] /\ off[k] = off[k-1] + Len(t[k]) /\ off[k] \in Nat
              /\ off[k-1] \in Nat /\ Len(t[k]) \in Nat
              /\ \A i \in 1..Len(t[k]) : f[j-1][off[k-1] + i] = t[k][i]
          BY <2>4, <2>5, <2>7, <3>4, <5>1
        <5>3. \A i \in 1..Len(t[k]) : off[k-1] + i \in 1..Len(f[j-1])
          <6>1. PICK a \in Nat, b \in Nat, c \in Nat, d \in Nat :
                  a = off[k-1] /\ b = Len(t[k]) /\ c = off[k] /\ d = Len(f[j-1])
            BY <3>5, <5>2
          <6>2. c = a + b /\ c <= d
            BY <3>5, <5>2, <6>1
          <6>3. \A i \in 1..b : a + i \in 1..d
            BY <6>2
          <6> QED
            BY <6>1, <6>3
        <5>4. \A i \in 1..Len(t[k]) : f[j][off[k-1] + i] = t[k][i]
          BY <2>6, <3>3, <5>2, <5>3
        <5>5. off[k] <= off[j]
          <6>1. PICK a \in Nat, b \in Nat, c \in Nat, d \in Nat :
                  a = off[k] /\ b = off[j-1] /\ c = off[j] /\ d = Len(t[j])
            BY <3>5, <5>2
          <6>2. c = b + d /\ a <= b
            BY <3>5, <5>2, <6>1
          <6> QED
            BY <6>1, <6>2
        <5> QED
          BY <5>4, <5>5
      <4> QED
        BY <4>1, <4>2
    <3>7. Q(j)
      BY <3>6
    <3> HIDE DEF Q
    <3> QED
      BY <3>2, <3>7
  <2>10. Q(n)
    <3>1. n - 1 \in Nat /\ (n - 1) + 1 = n /\ n \in 1..n
      BY <1>2
    <3>2. n - 1 \in T
      <4> HIDE DEF T
      <4> QED
        BY <2>8, <2>9, <3>1, Induction
    <3> HIDE DEF Q
    <3> QED
      BY <3>1, <3>2
  <2>11. off[n] = Len(f[n]) /\ f[n] \in Seq(Text)
    BY <1>2, <2>3, <2>5
  <2>12. Layout(t, f[n], off)
    BY <1>0, <2>5, <2>7, <2>10, <2>11 DEF Layout
  <2> QED
    BY <2>1, <2>12
<1> QED
  BY <1>1, <1>2

-----------------------------------------------------------------------------
(* Compiling a template *)

\* The least element of a set of numbers.
LEMMA MinIs ==
  ASSUME NEW S, S \subseteq Nat, S # {}
  PROVE  Rules!Min(S) \in S /\ \A y \in S : Rules!Min(S) <= y
<1>1. \E x \in S : \A y \in S : x <= y
  BY LeastIs
<1> QED
  BY <1>1, Zenon DEF Rules!Min

\* CloseAt finds the first closing brace.
LEMMA CloseIs ==
  ASSUME NEW p \in Seq(Text), NEW i \in 1..Len(p)
  PROVE  \/ Rules!CloseAt(p, i) = 0 /\ \A k \in i..Len(p) : ~ Closes(p[k])
         \/ /\ Rules!CloseAt(p, i) \in i..Len(p) /\ Closes(p[Rules!CloseAt(p, i)])
            /\ \A k \in i..Rules!CloseAt(p, i) - 1 : ~ Closes(p[k])
<1>0. PICK L \in Nat : L = Len(p)
  OBVIOUS
<1>n. i \in 1..L /\ i \in Nat
  BY <1>0
<1>1. PICK S : S = {k \in i..L : Closes(p[k])}
  OBVIOUS
<1>2. Rules!CloseAt(p, i) = IF S # {} THEN Rules!Min(S) ELSE 0
  BY <1>0, <1>1, Zenon DEF Rules!CloseAt, Rules!SelectInSubSeq, Closes
<1>3. CASE S = {}
  BY <1>0, <1>1, <1>2, <1>3
<1>4. CASE S # {}
  <2>1. S \subseteq Nat
    <3>1. i..L \subseteq Nat
      BY <1>n
    <3>2. S \subseteq i..L
      BY <1>1, Zenon
    <3> QED
      BY <3>1, <3>2, Zenon
  <2>2. PICK c : c = Rules!Min(S)
    OBVIOUS
  <2>3. c \in S /\ \A y \in S : c <= y
    BY <1>4, <2>1, <2>2, MinIs
  <2>4. c \in i..L /\ Closes(p[c])
    BY <1>1, <2>3
  <2>5. \A k \in i..c - 1 : ~ Closes(p[k])
    <3> SUFFICES ASSUME NEW k \in i..c - 1 PROVE ~ Closes(p[k])
      OBVIOUS
    <3>1. k \in i..L /\ ~ (c <= k)
      <4>1. c \in Int /\ i <= c /\ c <= L
        <5>1. c \in i..L
          BY <2>4
        <5> QED
          BY <1>n, <5>1
      <4> QED
        BY <1>n, <4>1
    <3>2. k \notin S
      BY <2>3, <3>1
    <3> QED
      BY <1>1, <3>1, <3>2
  <2> QED
    BY <1>0, <1>2, <1>4, <2>2, <2>4, <2>5
<1> QED
  BY <1>3, <1>4

\* The expression of t from its i-th character on, from those further on, f.
CompileStep(f, t, i) ==
  CASE i > Len(t) -> <<>>
    [] i <= Len(t) /\ t[i] = "{" ->
         IF Rules!CloseAt(t, i) = 0 THEN <<"error">>
         ELSE <<"var">> \o f[Rules!CloseAt(t, i) + 1]
    [] OTHER -> <<Rules!QuoteMeta(t[i])>> \o f[i+1]

\* CompilePathTemplate takes its result from the function this step defines.
LEMMA CompileChosen ==
  \A t : Rules!CompilePathTemplate(t) =
           (CHOOSE f : f = [i \in 1..Len(t) + 1 |-> CompileStep(f, t, i)])[1]
BY DEF Rules!CompilePathTemplate, CompileStep

\* The three cases.
CompileCases(f, t, i, r) ==
  /\ i > Len(t) => r = <<>>
  /\ (i <= Len(t) /\ Opens(t[i])) =>
       IF Rules!CloseAt(t, i) = 0 THEN r = <<"error">>
       ELSE r = <<"var">> \o f[Rules!CloseAt(t, i) + 1]
  /\ (i <= Len(t) /\ ~ Opens(t[i])) => r = <<t[i]>> \o f[i+1]

\* The step is by cases on the character.
LEMMA CompileStepIs ==
  ASSUME NEW f, NEW t \in Seq(Text), NEW i \in 1..Len(t) + 1
  PROVE  CompileCases(f, t, i, CompileStep(f, t, i))
<1>0. PICK L \in Nat : L = Len(t)
  OBVIOUS
<1>n. i \in Nat /\ (i > Len(t) <=> ~ (i <= Len(t)))
  BY <1>0
<1>1. CASE i > Len(t)
  BY <1>n, <1>1 DEF CompileStep, CompileCases
<1>2. CASE i <= Len(t) /\ Opens(t[i])
  BY <1>n, <1>2, Zenon DEF CompileStep, CompileCases, Opens
<1>3. CASE i <= Len(t) /\ ~ Opens(t[i])
  BY <1>n, <1>3, Zenon DEF CompileStep, CompileCases, Opens, Rules!QuoteMeta
<1> QED
  BY <1>n, <1>1, <1>2, <1>3

\* The loop has a result, and it satisfies its equation.
CompileRun(f, t) ==
  /\ f \in [1..Len(t) + 1 -> Seq(Text)]
  /\ \A i \in 1..Len(t) + 1 : CompileCases(f, t, i, f[i])

\* CompilePathTemplate is given by such a run.
LEMMA CompileRuns ==
  ASSUME NEW t \in Seq(Text)
  PROVE  \E f : CompileRun(f, t) /\ Rules!CompilePathTemplate(t) = f[1]
<1>0. PICK n \in Nat : n = Len(t)
  OBVIOUS
<1> DEFINE D == 1..n + 1
           V == Seq(Text)
           rank == [i \in D |-> n + 1 - i]
           G == [x \in D \X [D -> V] |-> CompileStep(x[2], t, x[1])]
<1>d. \A i \in D : i > n \/ (i \in 1..n /\ i <= n /\ ~ (i > n) /\ i + 1 \in D)
  OBVIOUS
<1>c. \A i \in 1..n : Rules!CloseAt(t, i) # 0 =>
                        Rules!CloseAt(t, i) + 1 \in D /\ Rules!CloseAt(t, i) + 1 > i
  <2> TAKE i \in 1..n
  <2>1. Rules!CloseAt(t, i) # 0 => Rules!CloseAt(t, i) \in i..n
    BY <1>0, CloseIs
  <2> QED
    BY <2>1
<1>t. \A i \in 1..n : t[i] \in Text
  BY <1>0
<1>s. \A f : \A i \in D : CompileCases(f, t, i, CompileStep(f, t, i))
  BY <1>0, CompileStepIs
<1>1. ASSUME NEW f \in [D -> V], NEW i \in D PROVE CompileStep(f, t, i) \in V
  <2>0. \A x \in Text, r \in V : <<x>> \o r \in V
    <3> TAKE x \in Text, r \in V
    <3>1. <<x>> \in Seq(Text)
      OBVIOUS
    <3> QED
      BY <3>1, ConcatProperties
  <2>1. <<>> \in V /\ <<"error">> \in V /\ "var" \in Text
    BY DEF Text
  <2>2. CompileCases(f, t, i, CompileStep(f, t, i))
    BY <1>s
  <2>3. CASE i > n
    BY <1>0, <2>1, <2>2, <2>3 DEF CompileCases
  <2>4. CASE ~ (i > n) /\ Opens(t[i])
    <3>1. i \in 1..n
      BY <1>d, <2>4
    <3>2. Rules!CloseAt(t, i) # 0 => f[Rules!CloseAt(t, i) + 1] \in V
      BY <1>c, <3>1
    <3> HIDE DEF V
    <3> QED
      BY <1>0, <1>d, <2>0, <2>1, <2>2, <2>4, <3>2 DEF CompileCases
  <2>5. CASE ~ (i > n) /\ ~ Opens(t[i])
    <3>1. i \in 1..n /\ i + 1 \in D
      BY <1>d, <2>5
    <3>2. f[i + 1] \in V /\ t[i] \in Text
      BY <1>t, <3>1
    <3> HIDE DEF V
    <3> QED
      BY <1>0, <1>d, <2>0, <2>2, <2>5, <3>2 DEF CompileCases
  <2> QED
    BY <2>3, <2>4, <2>5
<1>2. \A i \in D, f \in [D -> V] : G[<<i, f>>] = CompileStep(f, t, i)
  OBVIOUS
<1>3. G \in [D \X [D -> V] -> V]
  <2> HIDE DEF D, V
  <2> QED
    BY <1>1
<1>4. ASSUME NEW i \in D, NEW f, NEW g, \A y \in D : rank[y] < rank[i] => f[y] = g[y]
      PROVE  CompileStep(f, t, i) = CompileStep(g, t, i)
  <2>1. CASE i > n
    BY <1>0, <1>s, <2>1 DEF CompileCases
  <2>2. CASE i <= n
    <3>1. i \in 1..n /\ i + 1 \in D /\ rank[i + 1] < rank[i]
      BY <2>2
    <3>2. f[i + 1] = g[i + 1]
      BY <1>4, <3>1
    <3>3. Rules!CloseAt(t, i) # 0 => f[Rules!CloseAt(t, i) + 1] = g[Rules!CloseAt(t, i) + 1]
      <4>1. SUFFICES ASSUME Rules!CloseAt(t, i) # 0
                     PROVE  f[Rules!CloseAt(t, i) + 1] = g[Rules!CloseAt(t, i) + 1]
        OBVIOUS
      <4>2. PICK c : c = Rules!CloseAt(t, i) + 1
        OBVIOUS
      <4>3. c \in D /\ c > i
        BY <1>c, <3>1, <4>1, <4>2
      <4>4. rank[c] < rank[i]
        BY <4>3
      <4> QED
        BY <1>4, <4>2, <4>3, <4>4
    <3> QED
      BY <3>2, <3>3, Zenon DEF CompileStep
  <2> QED
    BY <2>1, <2>2
<1>5. \A i \in D, f, g \in [D -> V] :
        (\A y \in D : rank[y] < rank[i] => f[y] = g[y]) => G[<<i, f>>] = G[<<i, g>>]
  <2> HIDE DEF G, V, D, rank
  <2> QED
    BY <1>2, <1>4
<1>6. rank \in [D -> 0..n]
  OBVIOUS
<1>7. V # {}
  BY EmptySeq
<1> HIDE DEF V, G
<1>8. Below(G, D, V, rank, n)
  <2> HIDE DEF D, rank
  <2> QED
    BY <1>3, <1>5, <1>6, <1>7 DEF Below
<1>9. Solvable(G, D, V)
  BY <1>8, Recursion
<1>10. PICK f \in [D -> V] : \A i \in D : f[i] = CompileStep(f, t, i)
  BY <1>2, <1>9 DEF Solvable
<1>11. f = [i \in D |-> CompileStep(f, t, i)]
  BY <1>10
<1>12. PICK g : g = CHOOSE h : h = [i \in D |-> CompileStep(h, t, i)]
  OBVIOUS
<1>13. g = [i \in D |-> CompileStep(g, t, i)]
  BY <1>11, <1>12, Zenon
<1>14. \A i \in D : g[i] = CompileStep(g, t, i)
  BY <1>13
<1> DEFINE T == {m \in Nat : \A i \in D : rank[i] < m => g[i] = f[i]}
<1>15. 0 \in T
  OBVIOUS
<1>16. ASSUME NEW m \in Nat, m \in T PROVE m + 1 \in T
  <2>1. ASSUME NEW i \in D, rank[i] < m + 1 PROVE g[i] = f[i]
    <3>1. \A y \in D : rank[y] < rank[i] => g[y] = f[y]
      BY <1>16, <2>1
    <3>2. CompileStep(g, t, i) = CompileStep(f, t, i)
      BY <1>4, <3>1
    <3> QED
      BY <1>10, <1>14, <3>2
  <2> QED
    BY <2>1
<1>17. n + 1 \in T
  <2> HIDE DEF T
  <2> QED
    BY <1>15, <1>16, Induction
<1>18. \A i \in D : g[i] = f[i]
  BY <1>17
<1>19. g = f
  BY <1>11, <1>13, <1>18
<1>20. CompileRun(f, t)
  BY <1>0, <1>s, <1>10 DEF CompileRun, V
<1>21. Rules!CompilePathTemplate(t) = g[1]
  BY <1>0, <1>12, CompileChosen
<1> QED
  BY <1>19, <1>20, <1>21

\* The symbols of the pieces after the k-th.
Onward(t, k) == [x \in 1..Len(t) - k |-> Symbol(t[k + x])]

\* A plain piece and its symbol are texts.
LEMMA SymbolText ==
  ASSUME NEW t, PlainSeq(t), NEW k \in 1..Len(t)
  PROVE  Symbol(t[k]) \in Text /\ t[k] \in Seq(Text) /\ Plain(t[k])
<1>1. Symbols(t) \in Seq(Text) /\ Len(Symbols(t)) = Len(t) /\ Symbols(t)[k] = Symbol(t[k])
  BY SymbolsIs
<1>2. t \in Seq(Seq(Text)) /\ Plain(t[k])
  BY DEF PlainSeq
<1>3. t[k] \in Seq(Text)
  BY <1>2, ElementOfSeq
<1>4. Symbols(t)[k] \in Text
  BY <1>1, ElementOfSeq
<1> QED
  BY <1>1, <1>2, <1>3, <1>4

\* The symbols from a piece on are its own and those after it.
LEMMA OnwardIs ==
  ASSUME NEW t, PlainSeq(t), NEW k \in 1..Len(t)
  PROVE  <<Symbol(t[k])>> \o Onward(t, k) = Onward(t, k - 1)
<1>0. PICK n \in Nat : n = Len(t)
  BY DEF PlainSeq
<1>1. \A j \in 1..n : Symbol(t[j]) \in Text
  BY <1>0, SymbolText
<1>2. ASSUME NEW j \in 0..n
      PROVE  /\ Onward(t, j) \in Seq(Text) /\ Len(Onward(t, j)) = n - j
             /\ \A x \in 1..n - j : Onward(t, j)[x] = Symbol(t[j + x])
  <2>1. n - j \in Nat /\ \A x \in 1..n - j : j + x \in 1..n
    OBVIOUS
  <2> QED
    BY <1>0, <1>1, <2>1 DEF Onward
<1>3. k \in 0..n /\ k - 1 \in 0..n /\ n - (k - 1) = 1 + (n - k) /\ n - k \in Nat
  BY <1>0
<1>4. PICK c \in Text, a \in Seq(Text), b \in Seq(Text) :
        c = Symbol(t[k]) /\ a = Onward(t, k) /\ b = Onward(t, k - 1)
  BY <1>0, <1>1, <1>2, <1>3
<1>5. <<c>> \in Seq(Text) /\ Len(<<c>>) = 1 /\ <<c>>[1] = c
  OBVIOUS
<1>6. Len(a) = n - k /\ Len(b) = 1 + (n - k)
  BY <1>2, <1>3, <1>4
<1>7. /\ <<c>> \o a \in Seq(Text) /\ Len(<<c>> \o a) = 1 + (n - k)
      /\ \A x \in 1..1 + (n - k) : (<<c>> \o a)[x] = IF x <= 1 THEN <<c>>[x] ELSE a[x - 1]
  <2>1. PICK s \in Seq(Text), d \in Nat : s = <<c>> /\ d = n - k
    BY <1>3, <1>5
  <2>2. Len(s) = 1 /\ Len(a) = d
    BY <1>5, <1>6, <2>1
  <2>3. /\ s \o a \in Seq(Text) /\ Len(s \o a) = 1 + d
        /\ \A x \in 1..1 + d : (s \o a)[x] = IF x <= 1 THEN s[x] ELSE a[x - 1]
    <3>1. /\ s \o a \in Seq(Text) /\ Len(s \o a) = Len(s) + Len(a)
          /\ \A x \in 1..Len(s) + Len(a) :
               (s \o a)[x] = IF x <= Len(s) THEN s[x] ELSE a[x - Len(s)]
      BY ConcatProperties
    <3> QED
      BY <2>2, <3>1
  <2> QED
    BY <2>1, <2>3
<1>8. \A x \in 1..1 + (n - k) : (<<c>> \o a)[x] = b[x]
  <2> TAKE x \in 1..1 + (n - k)
  <2>1. b[x] = Symbol(t[(k - 1) + x])
    BY <1>2, <1>3, <1>4
  <2>2. CASE x = 1
    <3>1. (k - 1) + x = k
      BY <1>3, <2>2
    <3> QED
      BY <1>4, <1>5, <1>7, <2>1, <2>2, <3>1
  <2>3. CASE x # 1
    <3>1. x - 1 \in 1..n - k /\ (k - 1) + x = k + (x - 1) /\ ~ (x <= 1)
      BY <1>3, <2>3
    <3>2. a[x - 1] = Symbol(t[k + (x - 1)])
      BY <1>2, <1>3, <1>4, <3>1
    <3> QED
      BY <1>7, <2>1, <3>1, <3>2
  <2> QED
    BY <2>2, <2>3
<1>9. <<c>> \o a = b
  BY <1>6, <1>7, <1>8, SameSeq
<1> QED
  BY <1>4, <1>9

\* Where a placeholder lies, its brace closes at its end.
LEMMA PlaceholderCloses ==
  ASSUME NEW t, PlainSeq(t), NEW P, NEW off, Layout(t, P, off), NEW k \in 1..Len(t),
         Rules!IsVar(t[k])
  PROVE  Opens(P[off[k-1] + 1]) /\ Rules!CloseAt(P, off[k-1] + 1) = off[k]
<1>0. PICK n \in Nat, q \in Seq(Text), m \in Nat, L \in Nat :
        n = Len(t) /\ q = t[k] /\ m = Len(t[k]) /\ L = Len(P)
  <2>1. t[k] \in Seq(Text) /\ P \in Seq(Text) /\ t \in Seq(Seq(Text))
    BY SymbolText DEF Layout, PlainSeq
  <2> QED
    BY <2>1, LenProperties
<1>1. PICK a \in Nat, b \in Nat : a = off[k-1] /\ b = off[k] /\ b = a + m /\ b <= L
  <2>1. k - 1 \in 0..n /\ k \in 0..n /\ k \in 1..n
    BY <1>0
  <2> QED
    BY <1>0, <2>1 DEF Layout
<1>2. \A i \in 1..m : P[a + i] = q[i]
  BY <1>0, <1>1 DEF Layout
<1>3. m > 1 /\ Braced(q)
  <2>1. m > 1
    BY <1>0 DEF Rules!IsVar
  <2>2. Plain(q)
    BY <1>0, SymbolText
  <2>3. m # 1
    BY <2>1
  <2> QED
    BY <1>0, <2>1, <2>2, <2>3, Zenon DEF Plain
<1>4. Opens(q[1]) /\ Closes(q[m]) /\ \A i \in 2..m - 1 : ~ Closes(q[i])
  BY <1>0, <1>3 DEF Braced
<1>5. ~ Closes(q[1])
  BY <1>4, Zenon DEF Opens, Closes
<1>6. \A i \in 1..m - 1 : ~ Closes(q[i])
  <2> TAKE i \in 1..m - 1
  <2>1. i = 1 \/ i \in 2..m - 1
    OBVIOUS
  <2> QED
    BY <1>4, <1>5, <2>1
<1>7. Opens(P[a + 1]) /\ Closes(P[b])
  <2>1. 1 \in 1..m /\ m \in 1..m
    BY <1>3
  <2> QED
    BY <1>1, <1>2, <1>4, <2>1
<1>8. \A j \in a + 1..b - 1 : ~ Closes(P[j])
  <2> TAKE j \in a + 1..b - 1
  <2>0. b = a + m
    BY <1>1
  <2>1. j - a \in 1..m - 1 /\ j - a \in 1..m /\ a + (j - a) = j
    BY <2>0
  <2> QED
    BY <1>2, <1>6, <2>1
<1>9. PICK c : c = Rules!CloseAt(P, a + 1)
  OBVIOUS
<1>10. a + 1 \in 1..L
  BY <1>1, <1>3
<1>11. \/ c = 0 /\ \A j \in a + 1..L : ~ Closes(P[j])
       \/ c \in a + 1..L /\ Closes(P[c]) /\ \A j \in a + 1..c - 1 : ~ Closes(P[j])
  <2>1. P \in Seq(Text)
    BY DEF Layout
  <2> QED
    BY <1>0, <1>9, <1>10, <2>1, CloseIs
<1>12. b \in a + 1..L
  BY <1>1, <1>3
<1>13. c \in a + 1..L /\ Closes(P[c]) /\ \A j \in a + 1..c - 1 : ~ Closes(P[j])
  BY <1>7, <1>11, <1>12
<1>14. ~ (c < b)
  BY <1>8, <1>12, <1>13
<1>15. ~ (b < c)
  BY <1>7, <1>12, <1>13
<1>16. c = b
  BY <1>12, <1>13, <1>14, <1>15
<1> QED
  BY <1>1, <1>7, <1>9, <1>16

\* compilePathTemplate: a template compiles to the symbols of its pieces.
LEMMA CompiledIs ==
  ASSUME NEW t, PlainSeq(t)
  PROVE  Rules!CompilePathTemplate(Rules!Spell(t)) = Symbols(t)
<1>0. PICK n \in Nat : n = Len(t)
  BY DEF PlainSeq
<1>p. PICK P : P = Rules!Spell(t)
  OBVIOUS
<1>1. PICK off : Layout(t, P, off)
  BY <1>p, Laid DEF PlainSeq
<1>2. PICK L \in Nat : L = Len(P) /\ P \in Seq(Text)
  BY <1>1 DEF Layout
<1>3. PICK f : CompileRun(f, P) /\ Rules!CompilePathTemplate(P) = f[1]
  BY <1>2, CompileRuns
<1>4. off \in [0..n -> Nat] /\ off[0] = 0 /\ off[n] = L
  BY <1>0, <1>1, <1>2 DEF Layout
<1>5. \A i \in 1..L + 1 : CompileCases(f, P, i, f[i])
  BY <1>2, <1>3 DEF CompileRun
<1>6. ASSUME NEW k \in 1..n PROVE f[off[k-1] + 1] = <<Symbol(t[k])>> \o f[off[k] + 1]
  <2>1. PICK a \in Nat, b \in Nat, m \in Nat :
          /\ a = off[k-1] /\ b = off[k] /\ m = Len(t[k]) /\ b = a + m /\ b <= L
          /\ \A i \in 1..m : P[a + i] = t[k][i]
    <3>1. k - 1 \in 0..n /\ k \in 0..n /\ k \in 1..Len(t)
      BY <1>0
    <3>2. Len(t[k]) \in Nat
      BY <3>1, SymbolText, LenProperties
    <3>3. off[k-1] \in Nat /\ off[k] \in Nat
      BY <1>4, <3>1
    <3>4. /\ off[k] = off[k-1] + Len(t[k]) /\ off[k] <= L
          /\ \A i \in 1..Len(t[k]) : P[off[k-1] + i] = t[k][i]
      BY <1>1, <1>2, <3>1 DEF Layout
    <3> QED
      BY <3>2, <3>3, <3>4
  <2>2. Plain(t[k])
    BY <1>0, SymbolText
  <2>3. CASE Rules!IsVar(t[k])
    <3>1. Opens(P[a + 1]) /\ Rules!CloseAt(P, a + 1) = b
      <4>1. k \in 1..Len(t)
        BY <1>0
      <4>2. Opens(P[off[k-1] + 1]) /\ Rules!CloseAt(P, off[k-1] + 1) = off[k]
        BY <1>1, <2>3, <4>1, PlaceholderCloses
      <4> QED
        BY <2>1, <4>2
    <3>2. m > 1
      BY <2>1, <2>3 DEF Rules!IsVar
    <3>3. a + 1 \in 1..L + 1 /\ a + 1 <= L /\ b # 0
      BY <2>1, <3>2
    <3>4. f[a + 1] = <<"var">> \o f[b + 1]
      BY <1>2, <1>5, <3>1, <3>3 DEF CompileCases
    <3>5. Symbol(t[k]) = "var"
      BY <2>3 DEF Symbol
    <3> QED
      BY <2>1, <3>4, <3>5
  <2>4. CASE ~ Rules!IsVar(t[k])
    <3>1. m = 1 /\ ~ Opens(t[k][1]) /\ Symbol(t[k]) = t[k][1]
      BY <2>1, <2>2, <2>4 DEF Plain, Symbol
    <3>2. P[a + 1] = t[k][1] /\ a + 1 \in 1..L + 1 /\ a + 1 <= L /\ b = a + 1
      BY <2>1, <3>1
    <3>3. f[a + 1] = <<P[a + 1]>> \o f[(a + 1) + 1]
      BY <1>2, <1>5, <3>1, <3>2 DEF CompileCases
    <3> QED
      BY <2>1, <3>1, <3>2, <3>3
  <2> QED
    BY <2>3, <2>4
<1> DEFINE T == {z \in 1..n + 1 : f[off[z-1] + 1] = Onward(t, z - 1)}
<1>7. n + 1 \in T
  <2>1. n + 1 \in 1..n + 1 /\ (n + 1) - 1 = n /\ L + 1 \in 1..L + 1 /\ L + 1 > L
    OBVIOUS
  <2>2. f[L + 1] = <<>>
    BY <1>2, <1>5, <2>1 DEF CompileCases
  <2>3. Onward(t, n) = <<>>
    BY <1>0 DEF Onward
  <2> QED
    BY <1>4, <2>1, <2>2, <2>3
<1>8. ASSUME NEW z \in 1..(n + 1) - 1, z + 1 \in T PROVE z \in T
  <2>1. z \in 1..n /\ z \in 1..n + 1 /\ (z + 1) - 1 = z /\ z \in 1..Len(t)
    BY <1>0
  <2>2. f[off[z] + 1] = Onward(t, z)
    BY <1>8, <2>1
  <2>3. f[off[z-1] + 1] = Onward(t, z - 1)
    BY <1>6, <2>1, <2>2, OnwardIs
  <2> QED
    BY <2>1, <2>3
<1>9. 1 \in T
  <2>1. n + 1 \in Nat /\ 1 \in 1..n + 1
    OBVIOUS
  <2> HIDE DEF T
  <2> QED
    BY <1>7, <1>8, <2>1, Downward
<1>10. f[1] = Onward(t, 0)
  <2>1. f[off[1-1] + 1] = Onward(t, 1 - 1)
    BY <1>9
  <2>2. 1 - 1 = 0 /\ off[0] + 1 = 1
    BY <1>4
  <2> QED
    BY <2>1, <2>2
<1>11. Onward(t, 0) = Symbols(t)
  <2>1. n - 0 = n /\ \A x \in 1..n : 0 + x = x
    OBVIOUS
  <2> QED
    BY <1>0, <2>1 DEF Onward, Symbols
<1> QED
  BY <1>p, <1>3, <1>10, <1>11

-----------------------------------------------------------------------------
(* validatePath *)

\* What validatePath tells apart: braces, path characters and valid names.
Brace(c) == Opens(c) \/ Closes(c)
Allowed(c) == c \in Rules!PathBytes
NameOk(p, a, b) == Rules!ValidVarName(SubSeq(p, a + 1, b - 1))

\* The two braces differ.
LEMMA OpensNotCloses ==
  \A c : ~ (Opens(c) /\ Closes(c))
BY Zenon DEF Opens, Closes

\* The characters of names are path characters.
LEMMA NameBytes ==
  ASSUME NEW c \in Rules!Letters \cup Rules!Digits
  PROVE  Allowed(c) /\ ~ Brace(c)
<1>1. c = "a" \/ c = "b" \/ c = "1"
  BY DEF Rules!Letters, Rules!Digits
<1>2. ~ Brace(c)
  BY <1>1, Zenon DEF Brace, Opens, Closes
<1> QED
  BY <1>2 DEF Allowed, Rules!PathBytes

\* Characters of a path are no braces and no symbols of an expression.
LEMMA PathByteIs ==
  ASSUME NEW c, Allowed(c)
  PROVE  ~ Brace(c) /\ c \notin {"var", "any", "error"}
<1>1. c = "a" \/ c = "b" \/ c = "1" \/ c = "/" \/ c = "."
  BY DEF Allowed, Rules!PathBytes, Rules!Letters, Rules!Digits
<1>2. ~ Brace(c)
  BY <1>1, Zenon DEF Brace, Opens, Closes
<1>3. c \notin {"var", "any", "error"}
  BY <1>1, Zenon
<1> QED
  BY <1>2, <1>3

\* A valid name has no braces in it.
LEMMA NameChars ==
  ASSUME NEW p \in Seq(Text), NEW a \in 1..Len(p), NEW b \in a + 1..Len(p), NameOk(p, a, b)
  PROVE  \A k \in a + 1..b - 1 : Allowed(p[k]) /\ ~ Brace(p[k])
<1>0. PICK L \in Nat : L = Len(p)
  OBVIOUS
<1>1. a \in Nat /\ b \in Nat /\ 1 <= a /\ a < b /\ b <= L
  BY <1>0
<1>2. PICK s \in Seq(Text) : s = SubSeq(p, a + 1, b - 1)
  <2>1. a + 1 \in 1..L + 1 /\ b - 1 \in a..L
    BY <1>1
  <2>2. \A i \in a + 1..b - 1 : i \in 1..Len(p)
    BY <1>0, <1>1
  <2>3. SubSeq(p, a + 1, b - 1) \in Seq(Text)
    BY <1>0, <1>1, <2>2, SubSeqProperties
  <2> QED
    BY <2>3
<1>3. Len(s) = b - 1 - a /\ \A i \in 1..b - 1 - a : s[i] = p[a + i]
  <2>1. \A i \in a + 1..b - 1 : i \in 1..Len(p)
    BY <1>0, <1>1
  <2>2. a + 1 \in Int /\ b - 1 \in Int /\ a + 1 \in 1..Len(p) + 1 /\ b - 1 \in (a + 1) - 1..Len(p)
    BY <1>0, <1>1
  <2>3. /\ Len(s) = IF a + 1 <= b - 1 THEN (b - 1) - (a + 1) + 1 ELSE 0
        /\ \A i \in 1..(b - 1) - (a + 1) + 1 : s[i] = p[(a + 1) + i - 1]
    BY <1>2, <2>1, <2>2, SubSeqProperties
  <2>4. (b - 1) - (a + 1) + 1 = b - 1 - a /\ (~ (a + 1 <= b - 1) => b - 1 - a = 0)
    BY <1>1
  <2>5. \A i \in 1..b - 1 - a : (a + 1) + i - 1 = a + i
    BY <1>1
  <2> QED
    BY <2>3, <2>4, <2>5
<1>4. \A i \in 1..b - 1 - a : s[i] \in Rules!Letters \cup Rules!Digits
  <2>1. DOMAIN s = 1..b - 1 - a
    BY <1>3, LenProperties
  <2>2. Rules!ValidVarName(s)
    BY <1>2 DEF NameOk
  <2> QED
    BY <2>1, <2>2 DEF Rules!ValidVarName
<1> TAKE k \in a + 1..b - 1
<1>5. k - a \in 1..b - 1 - a /\ a + (k - a) = k
  BY <1>1
<1>6. p[k] \in Rules!Letters \cup Rules!Digits
  BY <1>3, <1>4, <1>5
<1> QED
  BY <1>6, NameBytes

\* A pair of braces.
Pair(p, a, b) ==
  /\ a \in 1..Len(p) /\ b \in a + 1..Len(p) /\ Opens(p[a]) /\ Closes(p[b])
  /\ \A k \in a + 1..b - 1 : ~ Brace(p[k])

\* These are the pairs of the reference.
LEMMA PairsAre ==
  ASSUME NEW p \in Seq(Text)
  PROVE  /\ \A q \in Rules!Pairs(p) : q = <<q[1], q[2]>> /\ Pair(p, q[1], q[2])
         /\ \A a, b : Pair(p, a, b) => <<a, b>> \in Rules!Pairs(p)
<1>0. PICK L \in Nat : L = Len(p) /\ DOMAIN p = 1..L
  OBVIOUS
<1>1. \A i : i \in Rules!Braces(p) <=> i \in 1..L /\ Brace(p[i])
  BY <1>0, Zenon DEF Rules!Braces, Brace, Opens, Closes
<1>2. ASSUME NEW q \in Rules!Pairs(p) PROVE q = <<q[1], q[2]>> /\ Pair(p, q[1], q[2])
  <2>1. q \in Rules!Braces(p) \X Rules!Braces(p)
    BY Zenon DEF Rules!Pairs
  <2>2. PICK a \in Rules!Braces(p), b \in Rules!Braces(p) : q = <<a, b>>
    BY <2>1
  <2>3. /\ a < b /\ Opens(p[a]) /\ Closes(p[b])
        /\ \A k \in Rules!Braces(p) : ~ (a < k /\ k < b)
    BY <2>2, Zenon DEF Rules!Pairs, Opens, Closes
  <2>4. a \in 1..L /\ b \in 1..L /\ b \in a + 1..L
    BY <1>0, <1>1, <2>3
  <2>5. \A k \in a + 1..b - 1 : k \in 1..L /\ a < k /\ k < b
    BY <2>4
  <2>6. \A k \in a + 1..b - 1 : ~ Brace(p[k])
    BY <1>1, <2>3, <2>5
  <2> QED
    BY <1>0, <2>2, <2>3, <2>4, <2>6 DEF Pair
<1>3. ASSUME NEW a, NEW b, Pair(p, a, b) PROVE <<a, b>> \in Rules!Pairs(p)
  <2>1. a \in 1..L /\ b \in 1..L /\ a < b /\ b \in a + 1..L
    BY <1>0, <1>3 DEF Pair
  <2>2. a \in Rules!Braces(p) /\ b \in Rules!Braces(p)
    BY <1>1, <1>3, <2>1 DEF Pair, Brace
  <2>3. \A k \in Rules!Braces(p) : ~ (a < k /\ k < b)
    <3> TAKE k \in Rules!Braces(p)
    <3>1. k \in 1..L /\ Brace(p[k])
      BY <1>1
    <3>2. (a < k /\ k < b) => k \in a + 1..b - 1
      BY <2>1, <3>1
    <3> QED
      BY <1>3, <3>1, <3>2 DEF Pair
  <2>4. p[a] = "{" /\ p[b] = "}"
    BY <1>3, Zenon DEF Pair, Opens, Closes
  <2>5. PICK q : q = <<a, b>>
    OBVIOUS
  <2>6. q[1] = a /\ q[2] = b
    BY <2>5
  <2>7. q \in Rules!Braces(p) \X Rules!Braces(p)
    BY <2>2, <2>5
  <2> QED
    BY <2>1, <2>3, <2>4, <2>5, <2>6, <2>7, Zenon DEF Rules!Pairs
<1> QED
  BY <1>2, <1>3

\* Whether the scan accepts p from its i-th character on, from what it says of those
\* further on, f.
ValidateStep(f, p, i) ==
  CASE i > Len(p) -> TRUE
    [] i <= Len(p) /\ p[i] = "{" ->
         /\ Rules!CloseAt(p, i) # 0
         /\ Rules!ValidVarName(SubSeq(p, i + 1, Rules!CloseAt(p, i) - 1))
         /\ f[Rules!CloseAt(p, i) + 1]
    [] i <= Len(p) /\ p[i] = "}" -> FALSE
    [] OTHER -> p[i] \in Rules!PathBytes /\ f[i+1]

\* ValidatePath takes its answer from the function this step defines.
LEMMA ValidateChosen ==
  \A p : Rules!ValidatePath(p) <=>
           /\ p # <<>> /\ p[1] = "/"
           /\ (CHOOSE f : f = [i \in 1..Len(p) + 1 |-> ValidateStep(f, p, i)])[1]
BY DEF Rules!ValidatePath, ValidateStep

\* The four cases.
ValidateCases(f, p, i, r) ==
  /\ i > Len(p) => r = TRUE
  /\ (i <= Len(p) /\ Opens(p[i])) =>
       r = (/\ Rules!CloseAt(p, i) # 0 /\ NameOk(p, i, Rules!CloseAt(p, i))
            /\ f[Rules!CloseAt(p, i) + 1])
  /\ (i <= Len(p) /\ Closes(p[i])) => r = FALSE
  /\ (i <= Len(p) /\ ~ Brace(p[i])) => r = (Allowed(p[i]) /\ f[i+1])

\* The step is by cases on the character.
LEMMA ValidateStepIs ==
  ASSUME NEW f, NEW p \in Seq(Text), NEW i \in 1..Len(p) + 1
  PROVE  ValidateCases(f, p, i, ValidateStep(f, p, i))
<1>0. PICK L \in Nat : L = Len(p)
  OBVIOUS
<1>n. i \in Nat /\ (i > Len(p) <=> ~ (i <= Len(p)))
  BY <1>0
<1>1. CASE i > Len(p)
  BY <1>n, <1>1, Zenon DEF ValidateStep, ValidateCases
<1>2. CASE i <= Len(p) /\ Opens(p[i])
  <2>1. p[i] # "}"
    BY <1>2, Zenon DEF Opens
  <2> QED
    BY <1>n, <1>2, <2>1, Zenon DEF ValidateStep, ValidateCases, Opens, Closes, Brace, NameOk
<1>3. CASE i <= Len(p) /\ Closes(p[i])
  <2>1. p[i] # "{"
    BY <1>3, Zenon DEF Closes
  <2> QED
    BY <1>n, <1>3, <2>1, Zenon DEF ValidateStep, ValidateCases, Opens, Closes, Brace
<1>4. CASE i <= Len(p) /\ ~ Brace(p[i])
  BY <1>n, <1>4, Zenon DEF ValidateStep, ValidateCases, Opens, Closes, Brace, Allowed
<1> QED
  BY <1>n, <1>1, <1>2, <1>3, <1>4 DEF Brace

\* The scan has an answer, and it satisfies its equation.
ValidateRun(f, p) ==
  /\ f \in [1..Len(p) + 1 -> BOOLEAN]
  /\ \A i \in 1..Len(p) + 1 : ValidateCases(f, p, i, f[i])

\* ValidatePath is decided by such a run.
LEMMA ValidateRuns ==
  ASSUME NEW p \in Seq(Text)
  PROVE  \E f : /\ ValidateRun(f, p)
                /\ Rules!ValidatePath(p) <=> p # <<>> /\ p[1] = "/" /\ f[1]
<1>0. PICK n \in Nat : n = Len(p)
  OBVIOUS
<1> DEFINE D == 1..n + 1
           V == BOOLEAN
           rank == [i \in D |-> n + 1 - i]
           G == [x \in D \X [D -> V] |-> ValidateStep(x[2], p, x[1])]
<1>d. \A i \in D : i > n \/ (i \in 1..n /\ i <= n /\ ~ (i > n) /\ i + 1 \in D)
  OBVIOUS
<1>c. \A i \in 1..n : Rules!CloseAt(p, i) # 0 =>
                        Rules!CloseAt(p, i) + 1 \in D /\ Rules!CloseAt(p, i) + 1 > i
  <2> TAKE i \in 1..n
  <2>1. Rules!CloseAt(p, i) # 0 => Rules!CloseAt(p, i) \in i..n
    BY <1>0, CloseIs
  <2> QED
    BY <2>1
<1>s. \A f : \A i \in D : ValidateCases(f, p, i, ValidateStep(f, p, i))
  BY <1>0, ValidateStepIs
<1>1. ASSUME NEW f, NEW i \in D PROVE ValidateStep(f, p, i) \in V
  <2>1. ValidateCases(f, p, i, ValidateStep(f, p, i))
    BY <1>s
  <2>2. PICK r : r = ValidateStep(f, p, i)
    OBVIOUS
  <2>3. ValidateCases(f, p, i, r)
    BY <2>1, <2>2
  <2>4. i > Len(p) \/ i <= Len(p)
    BY <1>0, <1>d
  <2>5. r \in BOOLEAN
    BY <2>3, <2>4, Zenon DEF ValidateCases, Brace
  <2> QED
    BY <2>2, <2>5
<1>2. \A i \in D, f \in [D -> V] : G[<<i, f>>] = ValidateStep(f, p, i)
  OBVIOUS
<1>3. G \in [D \X [D -> V] -> V]
  <2> HIDE DEF D, V
  <2> QED
    BY <1>1
<1>4. ASSUME NEW i \in D, NEW f, NEW g, \A y \in D : rank[y] < rank[i] => f[y] = g[y]
      PROVE  ValidateStep(f, p, i) = ValidateStep(g, p, i)
  <2>0. PICK r, s : r = ValidateStep(f, p, i) /\ s = ValidateStep(g, p, i)
    OBVIOUS
  <2>c. ValidateCases(f, p, i, r) /\ ValidateCases(g, p, i, s)
    BY <1>s, <2>0
  <2>1. CASE i > n
    <3>1. r = TRUE /\ s = TRUE
      BY <1>0, <2>1, <2>c, Zenon DEF ValidateCases
    <3> QED
      BY <2>0, <3>1
  <2>2. CASE i <= n
    <3>1. i \in 1..n /\ i + 1 \in D /\ rank[i + 1] < rank[i]
      BY <2>2
    <3>2. f[i + 1] = g[i + 1]
      BY <1>4, <3>1
    <3>3. Rules!CloseAt(p, i) # 0 => f[Rules!CloseAt(p, i) + 1] = g[Rules!CloseAt(p, i) + 1]
      <4>1. SUFFICES ASSUME Rules!CloseAt(p, i) # 0
                     PROVE  f[Rules!CloseAt(p, i) + 1] = g[Rules!CloseAt(p, i) + 1]
        OBVIOUS
      <4>2. PICK c : c = Rules!CloseAt(p, i) + 1
        OBVIOUS
      <4>3. c \in D /\ c > i
        BY <1>c, <3>1, <4>1, <4>2
      <4>4. rank[c] < rank[i]
        BY <4>3
      <4> QED
        BY <1>4, <4>2, <4>3, <4>4
    <3>4. CASE Opens(p[i])
      <4>1. CASE Rules!CloseAt(p, i) = 0
        <5>1. r = FALSE /\ s = FALSE
          BY <1>0, <2>2, <2>c, <3>4, <4>1, Zenon DEF ValidateCases
        <5> QED
          BY <2>0, <5>1
      <4>2. CASE Rules!CloseAt(p, i) # 0
        <5>1. PICK c : c = Rules!CloseAt(p, i) + 1
          OBVIOUS
        <5>2. f[c] = g[c]
          BY <3>3, <4>2, <5>1
        <5>3. /\ r = (Rules!CloseAt(p, i) # 0 /\ NameOk(p, i, Rules!CloseAt(p, i)) /\ f[c])
              /\ s = (Rules!CloseAt(p, i) # 0 /\ NameOk(p, i, Rules!CloseAt(p, i)) /\ g[c])
          BY <1>0, <2>2, <2>c, <3>4, <5>1, Zenon DEF ValidateCases
        <5>4. r = s
          BY <5>2, <5>3, Zenon
        <5> QED
          BY <2>0, <5>4
      <4> QED
        BY <4>1, <4>2
    <3>5. CASE Closes(p[i])
      <4>1. r = FALSE /\ s = FALSE
        BY <1>0, <2>2, <2>c, <3>5, Zenon DEF ValidateCases
      <4> QED
        BY <2>0, <4>1
    <3>6. CASE ~ Brace(p[i])
      <4>1. r = (Allowed(p[i]) /\ f[i+1]) /\ s = (Allowed(p[i]) /\ g[i+1])
        BY <1>0, <2>2, <2>c, <3>6, Zenon DEF ValidateCases
      <4>2. r = s
        BY <3>2, <4>1, Zenon
      <4> QED
        BY <2>0, <4>2
    <3> QED
      BY <3>4, <3>5, <3>6 DEF Brace
  <2> QED
    BY <2>1, <2>2
<1>5. \A i \in D, f, g \in [D -> V] :
        (\A y \in D : rank[y] < rank[i] => f[y] = g[y]) => G[<<i, f>>] = G[<<i, g>>]
  <2> HIDE DEF G, V, D, rank
  <2> QED
    BY <1>2, <1>4
<1>6. rank \in [D -> 0..n]
  OBVIOUS
<1>7. V # {}
  OBVIOUS
<1>b. V = BOOLEAN
  OBVIOUS
<1> HIDE DEF V, G
<1>8. Below(G, D, V, rank, n)
  <2> HIDE DEF D, rank
  <2> QED
    BY <1>3, <1>5, <1>6, <1>7 DEF Below
<1>9. Solvable(G, D, V)
  BY <1>8, Recursion
<1>10. PICK f \in [D -> V] : \A i \in D : f[i] = ValidateStep(f, p, i)
  BY <1>2, <1>9 DEF Solvable
<1>11. f = [i \in D |-> ValidateStep(f, p, i)]
  BY <1>10
<1>12. PICK g : g = CHOOSE h : h = [i \in D |-> ValidateStep(h, p, i)]
  OBVIOUS
<1>13. g = [i \in D |-> ValidateStep(g, p, i)]
  BY <1>11, <1>12, Zenon
<1>14. \A i \in D : g[i] = ValidateStep(g, p, i)
  BY <1>13
<1> DEFINE T == {m \in Nat : \A i \in D : rank[i] < m => g[i] = f[i]}
<1>15. 0 \in T
  OBVIOUS
<1>16. ASSUME NEW m \in Nat, m \in T PROVE m + 1 \in T
  <2>1. ASSUME NEW i \in D, rank[i] < m + 1 PROVE g[i] = f[i]
    <3>1. \A y \in D : rank[y] < rank[i] => g[y] = f[y]
      BY <1>16, <2>1
    <3>2. ValidateStep(g, p, i) = ValidateStep(f, p, i)
      BY <1>4, <3>1
    <3> QED
      BY <1>10, <1>14, <3>2
  <2> QED
    BY <2>1
<1>17. n + 1 \in T
  <2> HIDE DEF T
  <2> QED
    BY <1>15, <1>16, Induction
<1>18. \A i \in D : g[i] = f[i]
  BY <1>17
<1>19. g = f
  BY <1>11, <1>13, <1>18
<1>20. ValidateRun(f, p)
  BY <1>0, <1>s, <1>10 DEF ValidateRun, V
<1>21. Rules!ValidatePath(p) <=> p # <<>> /\ p[1] = "/" /\ g[1]
  BY <1>0, <1>12, ValidateChosen, Zenon
<1> QED
  BY <1>19, <1>20, <1>21

\* What well-formedness says of the i-th character and those after it.
Paired(p, i) ==
  \A x \in i..Len(p) : Brace(p[x]) =>
    \E a, b \in 1..Len(p) : Pair(p, a, b) /\ i <= a /\ (x = a \/ x = b)
Named(p, i) == \A a, b \in 1..Len(p) : (Pair(p, a, b) /\ i <= a) => NameOk(p, a, b)
Written(p, i) == \A x \in i..Len(p) : Brace(p[x]) \/ Allowed(p[x])
Fine(p, i) == Paired(p, i) /\ Named(p, i) /\ Written(p, i)

\* The parts of a pair.
LEMMA PairParts ==
  ASSUME NEW p \in Seq(Text), NEW a, NEW b, Pair(p, a, b)
  PROVE  /\ a \in 1..Len(p) /\ b \in 1..Len(p) /\ a < b
         /\ Opens(p[a]) /\ Closes(p[b]) /\ Brace(p[a]) /\ Brace(p[b])
         /\ \A k \in 1..Len(p) : (a < k /\ k < b) => ~ Brace(p[k])
<1>0. PICK L \in Nat : L = Len(p)
  OBVIOUS
<1>1. /\ a \in 1..L /\ b \in a + 1..L /\ Opens(p[a]) /\ Closes(p[b])
      /\ \A k \in a + 1..b - 1 : ~ Brace(p[k])
  BY <1>0 DEF Pair
<1>2. b \in 1..L /\ a < b /\ \A k \in 1..L : (a < k /\ k < b) => k \in a + 1..b - 1
  BY <1>1
<1>3. \A k \in 1..L : (a < k /\ k < b) => ~ Brace(p[k])
  BY <1>1, <1>2
<1> QED
  BY <1>0, <1>1, <1>2, <1>3 DEF Brace

\* Two pairs are the same or one follows the other.
LEMMA PairsApart ==
  ASSUME NEW p \in Seq(Text), NEW a, NEW b, NEW c, NEW d,
         Pair(p, a, b), Pair(p, c, d), a <= c
  PROVE  (a = c /\ b = d) \/ b < c
<1>0. PICK L \in Nat : L = Len(p)
  OBVIOUS
<1>1. /\ a \in 1..L /\ b \in 1..L /\ a < b /\ Closes(p[b]) /\ Brace(p[a]) /\ Brace(p[b])
      /\ \A k \in 1..L : (a < k /\ k < b) => ~ Brace(p[k])
  BY <1>0, PairParts
<1>2. /\ c \in 1..L /\ d \in 1..L /\ c < d /\ Opens(p[c]) /\ Brace(p[c]) /\ Brace(p[d])
      /\ \A k \in 1..L : (c < k /\ k < d) => ~ Brace(p[k])
  BY <1>0, PairParts
<1>3. c # b
  BY <1>1, <1>2, OpensNotCloses
<1>4. CASE a = c
  BY <1>1, <1>2, <1>4
<1>5. CASE a < c
  BY <1>1, <1>2, <1>3, <1>5
<1> QED
  BY <1>1, <1>2, <1>4, <1>5

\* Nothing is left at the end.
LEMMA FineEnd ==
  ASSUME NEW p \in Seq(Text)
  PROVE  Fine(p, Len(p) + 1)
<1>0. PICK L \in Nat : L = Len(p)
  OBVIOUS
<1>1. L + 1..L = {} /\ \A a \in 1..L : ~ (L + 1 <= a)
  OBVIOUS
<1> QED
  BY <1>0, <1>1 DEF Fine, Paired, Named, Written

\* A closing brace that nothing opened belongs to no pair further on.
LEMMA FineClose ==
  ASSUME NEW p \in Seq(Text), NEW i \in 1..Len(p), Closes(p[i])
  PROVE  ~ Fine(p, i)
<1>0. PICK L \in Nat : L = Len(p)
  OBVIOUS
<1>1. SUFFICES ASSUME Paired(p, i) PROVE FALSE
  BY DEF Fine
<1>2. i \in i..L /\ i \in 1..L
  BY <1>0
<1>3. PICK a \in 1..L, b \in 1..L : Pair(p, a, b) /\ i <= a /\ (i = a \/ i = b)
  BY <1>0, <1>1, <1>2 DEF Paired, Brace
<1>4. Opens(p[a]) /\ a < b
  BY <1>0, <1>3, PairParts
<1>5. i = a
  BY <1>2, <1>3, <1>4
<1> QED
  BY <1>4, <1>5, OpensNotCloses

\* A character outside braces stands for itself.
LEMMA FineChar ==
  ASSUME NEW p \in Seq(Text), NEW i \in 1..Len(p), ~ Brace(p[i])
  PROVE  Fine(p, i) <=> Allowed(p[i]) /\ Fine(p, i + 1)
<1>0. PICK L \in Nat : L = Len(p)
  OBVIOUS
<1>1. /\ i \in 1..L /\ i \in i..L /\ \A x \in i + 1..L : x \in i..L
      /\ \A x \in i..L : x = i \/ x \in i + 1..L
      /\ \A x \in 1..L : (i + 1 <= x => i <= x) /\ ((i <= x /\ x # i) => i + 1 <= x)
  BY <1>0
<1>2. \A a, b : Pair(p, a, b) => a # i
  BY PairParts
<1>3. Paired(p, i) <=> Paired(p, i + 1)
  <2>1. ASSUME Paired(p, i) PROVE Paired(p, i + 1)
    <3>1. SUFFICES ASSUME NEW x \in i + 1..L, Brace(p[x])
                   PROVE  \E a, b \in 1..L : Pair(p, a, b) /\ i + 1 <= a /\ (x = a \/ x = b)
      BY <1>0 DEF Paired
    <3>2. PICK a \in 1..L, b \in 1..L : Pair(p, a, b) /\ i <= a /\ (x = a \/ x = b)
      BY <1>0, <1>1, <2>1, <3>1 DEF Paired
    <3> QED
      BY <1>1, <1>2, <3>2
  <2>2. ASSUME Paired(p, i + 1) PROVE Paired(p, i)
    <3>1. SUFFICES ASSUME NEW x \in i..L, Brace(p[x])
                   PROVE  \E a, b \in 1..L : Pair(p, a, b) /\ i <= a /\ (x = a \/ x = b)
      BY <1>0 DEF Paired
    <3>2. x \in i + 1..L
      BY <1>1, <3>1
    <3>3. PICK a \in 1..L, b \in 1..L : Pair(p, a, b) /\ i + 1 <= a /\ (x = a \/ x = b)
      BY <1>0, <2>2, <3>1, <3>2 DEF Paired
    <3> QED
      BY <1>1, <3>3
  <2> QED
    BY <2>1, <2>2
<1>4. Named(p, i) <=> Named(p, i + 1)
  BY <1>0, <1>1, <1>2 DEF Named
<1>5. Written(p, i) <=> Allowed(p[i]) /\ Written(p, i + 1)
  BY <1>0, <1>1 DEF Written
<1> QED
  BY <1>3, <1>4, <1>5 DEF Fine

\* After a pair the rest is judged by itself.
LEMMA FinePair ==
  ASSUME NEW p \in Seq(Text), NEW i, NEW c, Pair(p, i, c)
  PROVE  Fine(p, i) <=> NameOk(p, i, c) /\ Fine(p, c + 1)
<1>0. PICK L \in Nat : L = Len(p)
  OBVIOUS
<1>1. /\ i \in 1..L /\ c \in 1..L /\ i < c /\ Brace(p[i]) /\ Brace(p[c])
      /\ \A k \in 1..L : (i < k /\ k < c) => ~ Brace(p[k])
  BY <1>0, PairParts
<1>2. /\ \A x \in c + 1..L : x \in i..L
      /\ \A x \in i..L : x = i \/ x = c \/ x \in c + 1..L \/ x \in i + 1..c - 1
      /\ \A x \in i + 1..c - 1 : x \in 1..L /\ i < x /\ x < c
      /\ \A x \in c + 1..L : x # i /\ x # c
      /\ \A x \in 1..L : (c + 1 <= x => i <= x) /\ (c < x => c + 1 <= x)
      /\ i <= i
  BY <1>1
<1>3. \A a, b : (Pair(p, a, b) /\ i <= a) => (a = i /\ b = c) \/ c < a
  BY PairsApart
<1>4. Paired(p, i) <=> Paired(p, c + 1)
  <2>1. ASSUME Paired(p, i) PROVE Paired(p, c + 1)
    <3>1. SUFFICES ASSUME NEW x \in c + 1..L, Brace(p[x])
                   PROVE  \E a, b \in 1..L : Pair(p, a, b) /\ c + 1 <= a /\ (x = a \/ x = b)
      BY <1>0 DEF Paired
    <3>2. PICK a \in 1..L, b \in 1..L : Pair(p, a, b) /\ i <= a /\ (x = a \/ x = b)
      BY <1>0, <1>2, <2>1, <3>1 DEF Paired
    <3>3. c < a
      BY <1>2, <1>3, <3>2
    <3> QED
      BY <1>2, <3>2, <3>3
  <2>2. ASSUME Paired(p, c + 1) PROVE Paired(p, i)
    <3>1. SUFFICES ASSUME NEW x \in i..L, Brace(p[x])
                   PROVE  \E a, b \in 1..L : Pair(p, a, b) /\ i <= a /\ (x = a \/ x = b)
      BY <1>0 DEF Paired
    <3>2. CASE x = i \/ x = c
      BY <1>1, <1>2, <3>2
    <3>3. CASE x \in c + 1..L
      <4>1. PICK a \in 1..L, b \in 1..L : Pair(p, a, b) /\ c + 1 <= a /\ (x = a \/ x = b)
        BY <1>0, <2>2, <3>1, <3>3 DEF Paired
      <4> QED
        BY <1>2, <4>1
    <3>4. CASE x \in i + 1..c - 1
      BY <1>1, <1>2, <3>1, <3>4
    <3> QED
      BY <1>2, <3>2, <3>3, <3>4
  <2> QED
    BY <2>1, <2>2
<1>5. Named(p, i) <=> NameOk(p, i, c) /\ Named(p, c + 1)
  <2>1. Named(p, i) => NameOk(p, i, c)
    BY <1>0, <1>1, <1>2 DEF Named
  <2>2. Named(p, i) => Named(p, c + 1)
    BY <1>0, <1>2 DEF Named
  <2>3. ASSUME NameOk(p, i, c), Named(p, c + 1) PROVE Named(p, i)
    BY <1>0, <1>2, <1>3, <2>3 DEF Named
  <2> QED
    BY <2>1, <2>2, <2>3
<1>6. ASSUME NameOk(p, i, c) PROVE Written(p, i) <=> Written(p, c + 1)
  <2>1. c \in i + 1..Len(p)
    BY <1>0, <1>1
  <2>2. \A k \in i + 1..c - 1 : Allowed(p[k])
    BY <1>0, <1>1, <1>6, <2>1, NameChars
  <2> QED
    BY <1>0, <1>1, <1>2, <2>2 DEF Written
<1> QED
  BY <1>4, <1>5, <1>6 DEF Fine

\* The pair of an opening brace ends at the first closing one.
LEMMA FineOpen ==
  ASSUME NEW p \in Seq(Text), NEW i \in 1..Len(p), Opens(p[i]), NEW c, c = Rules!CloseAt(p, i)
  PROVE  Fine(p, i) <=> c # 0 /\ NameOk(p, i, c) /\ Fine(p, c + 1)
<1>0. PICK L \in Nat : L = Len(p)
  OBVIOUS
<1>1. \/ c = 0 /\ \A k \in i..L : ~ Closes(p[k])
      \/ c \in i..L /\ Closes(p[c]) /\ \A k \in i..c - 1 : ~ Closes(p[k])
  BY <1>0, CloseIs
<1>2. i \in 1..L /\ i \in i..L /\ Brace(p[i]) /\ ~ Closes(p[i])
  BY <1>0, OpensNotCloses DEF Brace
<1>3. ASSUME Fine(p, i) PROVE c # 0 /\ Pair(p, i, c)
  <2>1. PICK a \in 1..L, b \in 1..L : Pair(p, a, b) /\ i <= a /\ (i = a \/ i = b)
    BY <1>0, <1>2, <1>3 DEF Fine, Paired
  <2>2. /\ a < b /\ Closes(p[b]) /\ \A k \in 1..L : (a < k /\ k < b) => ~ Brace(p[k])
    BY <1>0, <2>1, PairParts
  <2>3. a = i /\ b \in i..L
    BY <1>2, <2>1, <2>2
  <2>4. c \in i..L /\ Closes(p[c]) /\ \A k \in i..c - 1 : ~ Closes(p[k])
    BY <1>1, <2>2, <2>3
  <2>5. c \in Int /\ i <= c /\ c <= L /\ c \in 1..L
    BY <1>2, <2>4
  <2>6. ~ (b < c)
    BY <2>2, <2>3, <2>4, <2>5
  <2>7. c # i
    BY <1>2, <2>4
  <2>8. ~ (c < b)
    BY <2>2, <2>3, <2>4, <2>5, <2>7 DEF Brace
  <2>9. c = b
    BY <2>5, <2>6, <2>8
  <2> QED
    BY <2>1, <2>3, <2>5, <2>9
<1>4. ASSUME c # 0, NameOk(p, i, c) PROVE Pair(p, i, c)
  <2>1. c \in i..L /\ Closes(p[c])
    BY <1>1, <1>4
  <2>2. c # i
    BY <1>2, <2>1
  <2>3. c \in i + 1..L
    BY <1>2, <2>1, <2>2
  <2>4. \A k \in i + 1..c - 1 : ~ Brace(p[k])
    BY <1>0, <1>4, <2>3, NameChars
  <2> QED
    BY <1>0, <1>2, <2>1, <2>3, <2>4 DEF Pair
<1> QED
  BY <1>3, <1>4, FinePair

\* validatePath: the scan accepts from a character on what is fine from there on.
LEMMA ValidIsFine ==
  ASSUME NEW p \in Seq(Text), NEW f, ValidateRun(f, p)
  PROVE  \A i \in 1..Len(p) + 1 : f[i] <=> Fine(p, i)
<1>0. PICK n \in Nat : n = Len(p)
  OBVIOUS
<1> DEFINE T == {m \in Nat : \A i \in 1..n + 1 : n + 1 - i < m => (f[i] <=> Fine(p, i))}
<1>1. 0 \in T
  OBVIOUS
<1>2. ASSUME NEW m \in Nat, m \in T PROVE m + 1 \in T
  <2>1. SUFFICES ASSUME NEW i \in 1..n + 1, n + 1 - i < m + 1 PROVE f[i] <=> Fine(p, i)
    OBVIOUS
  <2>2. ValidateCases(f, p, i, f[i]) /\ f \in [1..n + 1 -> BOOLEAN]
    BY <1>0 DEF ValidateRun
  <2>3. \A j \in 1..n + 1 : i < j => (f[j] <=> Fine(p, j))
    <3> TAKE j \in 1..n + 1
    <3> HAVE i < j
    <3>1. n + 1 - j < m
      BY <2>1
    <3> QED
      BY <1>2, <3>1
  <2>4. CASE i > n
    <3>1. i = n + 1
      BY <2>4
    <3>2. f[i] = TRUE
      BY <1>0, <2>2, <2>4 DEF ValidateCases
    <3> QED
      BY <1>0, <3>1, <3>2, FineEnd
  <2>5. CASE i <= n
    <3>1. i \in 1..n /\ i \in 1..Len(p) /\ i <= Len(p) /\ i + 1 \in 1..n + 1 /\ i < i + 1
      BY <1>0, <2>5
    <3>2. CASE Opens(p[i])
      <4>1. PICK c : c = Rules!CloseAt(p, i)
        OBVIOUS
      <4>2. f[i] = (c # 0 /\ NameOk(p, i, c) /\ f[c + 1])
        BY <2>2, <3>1, <3>2, <4>1, Zenon DEF ValidateCases
      <4>3. c # 0 => c + 1 \in 1..n + 1 /\ i < c + 1
        <5>1. c # 0 => c \in i..n
          BY <1>0, <3>1, <4>1, CloseIs
        <5> QED
          BY <3>1, <5>1
      <4>4. Fine(p, i) <=> c # 0 /\ NameOk(p, i, c) /\ Fine(p, c + 1)
        BY <3>1, <3>2, <4>1, FineOpen
      <4>5. c # 0 => (f[c + 1] <=> Fine(p, c + 1))
        BY <2>3, <4>3
      <4> QED
        BY <4>2, <4>4, <4>5, Zenon
    <3>3. CASE Closes(p[i])
      <4>1. f[i] = FALSE
        BY <2>2, <3>1, <3>3, Zenon DEF ValidateCases
      <4> QED
        BY <3>1, <3>3, <4>1, FineClose, Zenon
    <3>4. CASE ~ Brace(p[i])
      <4>1. f[i] = (Allowed(p[i]) /\ f[i+1])
        BY <2>2, <3>1, <3>4, Zenon DEF ValidateCases
      <4>2. Fine(p, i) <=> Allowed(p[i]) /\ Fine(p, i + 1)
        BY <3>1, <3>4, FineChar
      <4>3. f[i+1] <=> Fine(p, i + 1)
        BY <2>3, <3>1
      <4> QED
        BY <4>1, <4>2, <4>3, Zenon
    <3> QED
      BY <3>2, <3>3, <3>4 DEF Brace
  <2> QED
    BY <2>4, <2>5
<1>3. n + 1 \in T
  <2> HIDE DEF T
  <2> QED
    BY <1>1, <1>2, Induction
<1>4. \A i \in 1..n + 1 : n + 1 - i < n + 1
  OBVIOUS
<1>5. \A i \in 1..n + 1 : f[i] <=> Fine(p, i)
  BY <1>3, <1>4
<1> QED
  BY <1>0, <1>5

\* Well-formed is fine from the first character on.
LEMMA WellFormedIs ==
  ASSUME NEW p \in Seq(Text)
  PROVE  Rules!WellFormed(p) <=> p # <<>> /\ p[1] = "/" /\ Fine(p, 1)
<1>0. PICK L \in Nat : L = Len(p) /\ DOMAIN p = 1..L
  OBVIOUS
<1>b. \A i : i \in Rules!Braces(p) <=> i \in 1..L /\ Brace(p[i])
  BY <1>0, Zenon DEF Rules!Braces, Brace, Opens, Closes
<1>p. /\ \A q \in Rules!Pairs(p) : q = <<q[1], q[2]>> /\ Pair(p, q[1], q[2])
      /\ \A a, b : Pair(p, a, b) => <<a, b>> \in Rules!Pairs(p)
  BY PairsAre
<1>q. \A a, b : Pair(p, a, b) => a \in 1..L /\ b \in 1..L /\ 1 <= a
  <2> SUFFICES ASSUME NEW a, NEW b, Pair(p, a, b) PROVE a \in 1..L /\ b \in 1..L /\ 1 <= a
    OBVIOUS
  <2>1. a \in 1..L /\ b \in 1..L
    BY <1>0, PairParts
  <2> QED
    BY <2>1
<1>1. (\A i \in Rules!Braces(p) : \E q \in Rules!Pairs(p) : i \in {q[1], q[2]}) <=> Paired(p, 1)
  <2>1. ASSUME \A i \in Rules!Braces(p) : \E q \in Rules!Pairs(p) : i \in {q[1], q[2]}
        PROVE  Paired(p, 1)
    <3>1. SUFFICES ASSUME NEW x \in 1..L, Brace(p[x])
                   PROVE  \E a, b \in 1..L : Pair(p, a, b) /\ 1 <= a /\ (x = a \/ x = b)
      BY <1>0 DEF Paired
    <3>2. PICK q \in Rules!Pairs(p) : x \in {q[1], q[2]}
      BY <1>b, <2>1, <3>1
    <3>3. PICK a, b : a = q[1] /\ b = q[2]
      OBVIOUS
    <3>4. Pair(p, a, b) /\ (x = a \/ x = b)
      BY <1>p, <3>2, <3>3
    <3> QED
      BY <1>q, <3>4
  <2>2. ASSUME Paired(p, 1), NEW i \in Rules!Braces(p)
        PROVE  \E q \in Rules!Pairs(p) : i \in {q[1], q[2]}
    <3>1. PICK a \in 1..L, b \in 1..L : Pair(p, a, b) /\ (i = a \/ i = b)
      BY <1>0, <1>b, <2>2 DEF Paired
    <3>2. PICK q : q = <<a, b>>
      OBVIOUS
    <3>3. q[1] = a /\ q[2] = b /\ q \in Rules!Pairs(p)
      BY <1>p, <3>1, <3>2
    <3> QED
      BY <3>1, <3>3
  <2> QED
    BY <2>1, <2>2
<1>2. (\A q \in Rules!Pairs(p) : Rules!ValidVarName(SubSeq(p, q[1] + 1, q[2] - 1))) <=> Named(p, 1)
  <2>1. ASSUME \A q \in Rules!Pairs(p) : Rules!ValidVarName(SubSeq(p, q[1] + 1, q[2] - 1))
        PROVE  Named(p, 1)
    <3>1. SUFFICES ASSUME NEW a, NEW b, Pair(p, a, b) PROVE NameOk(p, a, b)
      BY DEF Named
    <3>2. PICK q : q = <<a, b>>
      OBVIOUS
    <3>3. q[1] = a /\ q[2] = b /\ q \in Rules!Pairs(p)
      BY <1>p, <3>1, <3>2
    <3>4. Rules!ValidVarName(SubSeq(p, q[1] + 1, q[2] - 1))
      BY <2>1, <3>3
    <3> QED
      BY <3>3, <3>4, Zenon DEF NameOk
  <2>2. ASSUME Named(p, 1), NEW q \in Rules!Pairs(p)
        PROVE  Rules!ValidVarName(SubSeq(p, q[1] + 1, q[2] - 1))
    <3>1. PICK a, b : a = q[1] /\ b = q[2]
      OBVIOUS
    <3>2. Pair(p, a, b)
      BY <1>p, <3>1
    <3>3. NameOk(p, a, b)
      BY <1>0, <1>q, <2>2, <3>2 DEF Named
    <3> QED
      BY <3>1, <3>3, Zenon DEF NameOk
  <2> QED
    BY <2>1, <2>2
<1>3. (\A i \in DOMAIN p : p[i] \in Rules!PathBytes \cup {"{", "}"}) <=> Written(p, 1)
  BY <1>0, Zenon DEF Written, Brace, Opens, Closes, Allowed
<1> QED
  BY <1>1, <1>2, <1>3, Zenon DEF Rules!WellFormed, Fine

\* No part of an expression is an error.
NoError(s) == \A k \in 1..Len(s) : s[k] # "error"

\* Another symbol in front makes no error.
LEMMA NoErrorAdds ==
  ASSUME NEW c \in Text, NEW s \in Seq(Text), c # "error", NoError(s)
  PROVE  NoError(<<c>> \o s)
<1>1. PICK d \in Seq(Text), m \in Nat : d = <<c>> /\ m = Len(s) /\ Len(d) = 1 /\ d[1] = c
  <2>1. <<c>> \in Seq(Text) /\ Len(<<c>>) = 1 /\ <<c>>[1] = c
    OBVIOUS
  <2>2. Len(s) \in Nat
    OBVIOUS
  <2> QED
    BY <2>1, <2>2
<1>2. /\ Len(d \o s) = Len(d) + Len(s)
      /\ \A x \in 1..Len(d) + Len(s) : (d \o s)[x] = IF x <= Len(d) THEN d[x] ELSE s[x - Len(d)]
  BY ConcatProperties
<1>3. /\ Len(d \o s) = 1 + m
      /\ \A x \in 1..1 + m : (d \o s)[x] = IF x <= 1 THEN d[x] ELSE s[x - 1]
  BY <1>1, <1>2
<1>4. ASSUME NEW x \in 1..1 + m PROVE (d \o s)[x] # "error"
  <2>1. CASE x = 1
    BY <1>1, <1>3, <2>1
  <2>2. CASE x # 1
    <3>1. x - 1 \in 1..m /\ ~ (x <= 1)
      BY <2>2
    <3> QED
      BY <1>1, <1>3, <3>1 DEF NoError
  <2> QED
    BY <2>1, <2>2
<1> QED
  BY <1>1, <1>3, <1>4 DEF NoError

\* buildRouter: what validatePath accepts compiles.
LEMMA ValidCompiles ==
  ASSUME NEW p \in Seq(Text), NEW f, ValidateRun(f, p), NEW r, CompileRun(r, p), f[1]
  PROVE  NoError(r[1])
<1>0. PICK n \in Nat : n = Len(p)
  OBVIOUS
<1> DEFINE T == {m \in Nat : \A i \in 1..n + 1 : n + 1 - i < m => (f[i] => NoError(r[i]))}
<1>1. 0 \in T
  OBVIOUS
<1>2. ASSUME NEW m \in Nat, m \in T PROVE m + 1 \in T
  <2>1. SUFFICES ASSUME NEW i \in 1..n + 1, n + 1 - i < m + 1, f[i] PROVE NoError(r[i])
    OBVIOUS
  <2>2. /\ ValidateCases(f, p, i, f[i]) /\ f \in [1..n + 1 -> BOOLEAN]
        /\ CompileCases(r, p, i, r[i]) /\ r \in [1..n + 1 -> Seq(Text)]
    BY <1>0 DEF ValidateRun, CompileRun
  <2>3. \A j \in 1..n + 1 : i < j => (f[j] => NoError(r[j]))
    <3> TAKE j \in 1..n + 1
    <3> HAVE i < j
    <3>1. n + 1 - j < m
      BY <2>1
    <3> QED
      BY <1>2, <3>1
  <2>4. CASE i > n
    <3>1. r[i] = <<>>
      BY <1>0, <2>2, <2>4 DEF CompileCases
    <3> QED
      BY <3>1 DEF NoError
  <2>5. CASE i <= n
    <3>1. i \in 1..n /\ i \in 1..Len(p) /\ i <= Len(p) /\ i + 1 \in 1..n + 1 /\ i < i + 1
      BY <1>0, <2>5
    <3>2. CASE Opens(p[i])
      <4>1. PICK c : c = Rules!CloseAt(p, i)
        OBVIOUS
      <4>2. f[i] = (c # 0 /\ NameOk(p, i, c) /\ f[c + 1])
        BY <2>2, <3>1, <3>2, <4>1, Zenon DEF ValidateCases
      <4>3. c # 0 /\ f[c + 1]
        BY <2>1, <4>2, Zenon
      <4>4. c + 1 \in 1..n + 1 /\ i < c + 1
        <5>1. c \in i..n
          BY <1>0, <3>1, <4>1, <4>3, CloseIs
        <5> QED
          BY <3>1, <5>1
      <4>5. NoError(r[c + 1]) /\ r[c + 1] \in Seq(Text)
        BY <2>2, <2>3, <4>3, <4>4
      <4>6. r[i] = <<"var">> \o r[c + 1]
        BY <2>2, <3>1, <3>2, <4>1, <4>3, Zenon DEF CompileCases
      <4>7. "var" \in Text /\ "var" # "error"
        BY DEF Text
      <4> QED
        BY <4>5, <4>6, <4>7, NoErrorAdds
    <3>3. CASE Closes(p[i])
      <4>1. f[i] = FALSE
        BY <2>2, <3>1, <3>3, Zenon DEF ValidateCases
      <4> QED
        BY <2>1, <4>1, Zenon
    <3>4. CASE ~ Brace(p[i])
      <4>1. f[i] = (Allowed(p[i]) /\ f[i+1])
        BY <2>2, <3>1, <3>4, Zenon DEF ValidateCases
      <4>2. Allowed(p[i]) /\ f[i + 1]
        BY <2>1, <4>1, Zenon
      <4>3. NoError(r[i + 1]) /\ r[i + 1] \in Seq(Text)
        BY <2>2, <2>3, <3>1, <4>2
      <4>4. r[i] = <<p[i]>> \o r[i + 1]
        BY <2>2, <3>1, <3>4, Zenon DEF CompileCases, Brace
      <4>5. p[i] # "error" /\ p[i] \in Text
        <5>1. p[i] # "error"
          BY <4>2, PathByteIs
        <5>2. p[i] \in Text
          BY <3>1, ElementOfSeq
        <5> QED
          BY <5>1, <5>2
      <4> QED
        BY <4>3, <4>4, <4>5, NoErrorAdds
    <3> QED
      BY <3>2, <3>3, <3>4 DEF Brace
  <2> QED
    BY <2>4, <2>5
<1>3. n + 1 \in T
  <2> HIDE DEF T
  <2> QED
    BY <1>1, <1>2, Induction
<1>4. 1 \in 1..n + 1 /\ n + 1 - 1 < n + 1
  OBVIOUS
<1> QED
  BY <1>3, <1>4

\* validatePath accepts the well-formed templates, and they compile.
LEMMA TemplateChecked ==
  ASSUME NEW p \in Seq(Text)
  PROVE  /\ Rules!ValidatePath(p) <=> Rules!WellFormed(p)
         /\ Rules!ValidatePath(p) => "error" \notin ToSet(Rules!CompilePathTemplate(p))
<1>1. PICK f : /\ ValidateRun(f, p)
               /\ Rules!ValidatePath(p) <=> p # <<>> /\ p[1] = "/" /\ f[1]
  BY ValidateRuns
<1>2. f[1] <=> Fine(p, 1)
  <2>1. Len(p) \in Nat
    OBVIOUS
  <2>2. 1 \in 1..Len(p) + 1
    BY <2>1
  <2> QED
    BY <1>1, <2>2, ValidIsFine
<1>3. Rules!WellFormed(p) <=> p # <<>> /\ p[1] = "/" /\ Fine(p, 1)
  BY WellFormedIs
<1>4. PICK r : CompileRun(r, p) /\ Rules!CompilePathTemplate(p) = r[1]
  BY CompileRuns
<1>5. f[1] => NoError(r[1])
  BY <1>1, <1>4, ValidCompiles
<1>6. r[1] \in Seq(Text)
  <2>1. Len(p) \in Nat
    OBVIOUS
  <2>2. 1 \in 1..Len(p) + 1
    BY <2>1
  <2> QED
    BY <1>4, <2>2 DEF CompileRun
<1>7. NoError(r[1]) => "error" \notin ToSet(r[1])
  <2>1. DOMAIN r[1] = 1..Len(r[1])
    BY <1>6, LenProperties
  <2> QED
    BY <2>1 DEF NoError, ToSet
<1> QED
  BY <1>1, <1>2, <1>3, <1>4, <1>5, <1>7

-----------------------------------------------------------------------------
(* Which routes match *)

\* A template as its author writes it: a list of characters and placeholders.
Spelled(t) ==
  /\ t \in Seq(Seq(Text))
  /\ \A k \in 1..Len(t) : Rules!IsPiece(t[k]) /\ (Len(t[k]) = 1 => ~ Brace(t[k][1]))

\* A piece is a character or a placeholder.
LEMMA PieceIs ==
  ASSUME NEW q, Rules!IsPiece(q)
  PROVE  Len(q) = 1 \/ (Rules!IsVar(q) /\ Braced(q))
BY Zenon DEF Rules!IsPiece, Braced, Opens, Closes

\* A piece is plain if it is a placeholder or a path character.
LEMMA PlainPiece ==
  ASSUME NEW q, Rules!IsPiece(q), Len(q) = 1 => Allowed(q[1])
  PROVE  Plain(q)
<1>1. Len(q) = 1 \/ (Rules!IsVar(q) /\ Braced(q))
  BY PieceIs
<1>2. CASE Len(q) = 1
  <2>1. ~ Brace(q[1]) /\ q[1] \notin {"var", "any"}
    BY <1>2, PathByteIs
  <2> QED
    BY <1>2, <2>1, Zenon DEF Plain, Brace
<1>3. CASE Rules!IsVar(q) /\ Braced(q)
  BY <1>3, Zenon DEF Plain
<1> QED
  BY <1>1, <1>2, <1>3

\* A template that validatePath accepts has only path characters outside its
\* placeholders.
LEMMA ValidIsPlain ==
  ASSUME NEW t, Spelled(t), Rules!ValidatePath(Rules!Spell(t))
  PROVE  PlainSeq(t)
<1>0. PICK n \in Nat : n = Len(t) /\ t \in Seq(Seq(Text))
  BY DEF Spelled
<1>p. PICK P : P = Rules!Spell(t)
  OBVIOUS
<1>1. PICK off : Layout(t, P, off)
  BY <1>0, <1>p, Laid
<1>2. P \in Seq(Text)
  BY <1>1 DEF Layout
<1>3. Written(P, 1)
  <2>1. Rules!WellFormed(P)
    BY <1>p, <1>2, TemplateChecked, Zenon
  <2> QED
    BY <1>2, <2>1, WellFormedIs DEF Fine
<1>4. ASSUME NEW k \in 1..n PROVE Plain(t[k])
  <2>1. Rules!IsPiece(t[k]) /\ (Len(t[k]) = 1 => ~ Brace(t[k][1]))
    BY <1>0 DEF Spelled
  <2>2. ASSUME Len(t[k]) = 1 PROVE Allowed(t[k][1])
    <3>1. PICK a \in Nat, L \in Nat : a = off[k-1] /\ L = Len(P)
      <4>1. k - 1 \in 0..Len(t) /\ Len(P) \in Nat
        BY <1>0, <1>2
      <4> QED
        BY <1>1, <4>1 DEF Layout
    <3>2. off[k] = a + 1 /\ a + 1 <= L /\ P[a + 1] = t[k][1]
      <4>1. k \in 1..Len(t) /\ 1 \in 1..Len(t[k])
        BY <1>0, <2>2
      <4> QED
        BY <1>1, <2>2, <3>1, <4>1 DEF Layout
    <3>3. a + 1 \in 1..Len(P)
      BY <3>1, <3>2
    <3>4. Brace(P[a + 1]) \/ Allowed(P[a + 1])
      BY <1>3, <3>3 DEF Written
    <3> QED
      BY <2>1, <2>2, <3>2, <3>4
  <2> QED
    BY <2>1, <2>2, PlainPiece
<1> QED
  BY <1>0, <1>4 DEF PlainSeq

\* compilePathTemplate and the match: a list of plain pieces matches its instances.
LEMMA PlainMatches ==
  ASSUME NEW t, PlainSeq(t), NEW p \in Seq(Text)
  PROVE  Rules!MatchString(Rules!CompilePathTemplate(Rules!Spell(t)), p) <=> Rules!Instance(t, p)
<1>1. PICK re : re = Symbols(t)
  OBVIOUS
<1>2. Rules!CompilePathTemplate(Rules!Spell(t)) = re
  BY <1>1, CompiledIs
<1>3. Rules!MatchString(re, p) <=> Rules!Instance(t, p)
  BY <1>1, InstancesMatch
<1> QED
  BY <1>2, <1>3

\* Paths of any length are texts.
LEMMA UpToIs ==
  ASSUME NEW S, NEW n \in Nat, NEW t \in UpTo(S, n)
  PROVE  t \in Seq(S)
<1>1. PICK k \in 0..n : t \in [1..k -> S]
  BY DEF UpTo
<1>2. k \in Nat
  OBVIOUS
<1> QED
  BY <1>1, <1>2, SeqDef

\* validatePath, compilePathTemplate and the match of Router.Lookup, for templates
\* and paths of any length: what validatePath accepts are the templates with paired
\* braces around one identifier, buildRouter compiles every one of them, and the
\* expression matches exactly the paths that replace each placeholder by a non-empty
\* text without a slash.
THEOREM EveryTemplateMeansItsInstances ==
  ASSUME NEW t, Spelled(t), NEW p \in Seq(Text)
  PROVE  /\ Rules!ValidatePath(Rules!Spell(t)) <=> Rules!WellFormed(Rules!Spell(t))
         /\ Rules!ValidatePath(Rules!Spell(t)) =>
              /\ "error" \notin ToSet(Rules!CompilePathTemplate(Rules!Spell(t)))
              /\ Rules!MatchString(Rules!CompilePathTemplate(Rules!Spell(t)), p)
                   <=> Rules!Instance(t, p)
<1>1. Rules!Spell(t) \in Seq(Text)
  BY Laid DEF Spelled, Layout
<1>2. PICK P : P = Rules!Spell(t) /\ P \in Seq(Text)
  BY <1>1
<1>3. /\ Rules!ValidatePath(P) <=> Rules!WellFormed(P)
      /\ Rules!ValidatePath(P) => "error" \notin ToSet(Rules!CompilePathTemplate(P))
  BY <1>2, TemplateChecked
<1>4. Rules!ValidatePath(P) => (Rules!MatchString(Rules!CompilePathTemplate(P), p)
                                 <=> Rules!Instance(t, p))
  BY <1>2, ValidIsPlain, PlainMatches
<1> QED
  BY <1>2, <1>3, <1>4

\* A piece that may follow a slash is plain.
LEMMA FollowsSlash ==
  ASSUME NEW q \in Seq(Text), Rules!IsPiece(q), Rules!WellFormed(<<"/">> \o q)
  PROVE  Plain(q)
<1>1. ASSUME Len(q) = 1 PROVE Allowed(q[1])
  <2>1. PICK d \in Seq(Text) : d = <<"/">> /\ Len(d) = 1 /\ d[1] = "/"
    <3>1. "/" \in Text
      BY DEF Text
    <3>2. <<"/">> \in Seq(Text) /\ Len(<<"/">>) = 1 /\ <<"/">>[1] = "/"
      BY <3>1
    <3> QED
      BY <3>2
  <2>2. PICK P \in Seq(Text) : P = d \o q /\ Len(P) = 2 /\ P[1] = "/" /\ P[2] = q[1]
    <3>1. /\ d \o q \in Seq(Text) /\ Len(d \o q) = Len(d) + Len(q)
          /\ \A x \in 1..Len(d) + Len(q) :
               (d \o q)[x] = IF x <= Len(d) THEN d[x] ELSE q[x - Len(d)]
      BY ConcatProperties
    <3>2. /\ d \o q \in Seq(Text) /\ Len(d \o q) = 2
          /\ \A x \in 1..2 : (d \o q)[x] = IF x <= 1 THEN d[x] ELSE q[x - 1]
      BY <1>1, <2>1, <3>1
    <3>3. (d \o q)[1] = "/" /\ (d \o q)[2] = q[1]
      BY <2>1, <3>2
    <3> QED
      BY <3>2, <3>3
  <2>3. Fine(P, 1)
    BY <2>1, <2>2, WellFormedIs
  <2>4. Brace(P[2]) \/ Allowed(P[2])
    BY <2>2, <2>3 DEF Fine, Written
  <2>5. ~ Brace(P[2])
    <3>1. SUFFICES ASSUME Brace(P[2]) PROVE FALSE
      OBVIOUS
    <3>2. PICK a \in 1..2, b \in 1..2 : Pair(P, a, b)
      BY <2>2, <2>3, <3>1 DEF Fine, Paired
    <3>3. a < b /\ Opens(P[a])
      BY <3>2, PairParts
    <3>4. Opens(P[1])
      BY <3>2, <3>3
    <3> QED
      BY <2>2, <3>4, Zenon DEF Opens
  <2> QED
    BY <2>2, <2>4, <2>5
<1> QED
  BY <1>1, PlainPiece

\* Strings and what is made of them are texts.
LEMMA Texts == STRING \subseteq Text /\ {"/", "a"} \subseteq Text /\ Seq(STRING) \subseteq Seq(Text)
<1>1. STRING \subseteq Text /\ {"/", "a"} \subseteq Text
  BY DEF Text
<1> QED
  BY <1>1, SeqMonotonic

\* The templates tried are texts.
LEMMA TemplateCase ==
  ASSUME NEW t \in UpTo(Pieces, MaxPieces)
  PROVE  Rules!Spell(t) \in Seq(Text)
<1>1. t \in Seq(Pieces)
  BY PiecesAssumption, UpToIs
<1>2. Pieces \subseteq Seq(Text)
  BY PiecesAssumption, Texts, Zenon
<1>3. t \in Seq(Seq(Text))
  BY <1>1, <1>2, SeqMonotonic
<1> QED
  BY <1>3, Laid DEF Layout

\* The pieces and paths tried are plain pieces and texts.
LEMMA PathCase ==
  ASSUME NEW t \in UpTo({q \in Pieces : Rules!WellFormed(<<"/">> \o q)}, MaxPieces),
         NEW p \in UpTo(PathChars, MaxPath)
  PROVE  PlainSeq(t) /\ p \in Seq(Text)
<1> DEFINE S == {q \in Pieces : Rules!WellFormed(<<"/">> \o q)}
<1>1. \A q \in S : q \in Seq(Text) /\ Rules!IsPiece(q) /\ Rules!WellFormed(<<"/">> \o q)
  BY PiecesAssumption, Texts, Zenon
<1>2. S \subseteq Seq(Text)
  BY <1>1
<1> HIDE DEF S
<1>3. t \in Seq(S)
  BY PiecesAssumption, UpToIs DEF S
<1>4. t \in Seq(Seq(Text))
  BY <1>2, <1>3, SeqMonotonic
<1>5. \A k \in 1..Len(t) : t[k] \in S
  BY <1>3, ElementOfSeq
<1>6. \A k \in 1..Len(t) : Plain(t[k])
  BY <1>1, <1>5, FollowsSlash
<1>7. p \in Seq(PathChars)
  BY PiecesAssumption, UpToIs
<1>8. PathChars \subseteq Text
  BY PiecesAssumption, Texts, Zenon
<1>9. p \in Seq(Text)
  BY <1>7, <1>8, SeqMonotonic
<1> QED
  BY <1>4, <1>6, <1>9 DEF PlainSeq

-----------------------------------------------------------------------------
(* Which requests a bundle allows *)

\* A bundle whose paths are written piece by piece.
AsWritten(b) ==
  \A i \in DOMAIN b.brokers :
    /\ b.brokers[i].enabled \in BOOLEAN
    /\ \A j \in DOMAIN b.brokers[i].endpoints :
         LET e == b.brokers[i].endpoints[j]
         IN Spelled(e.pieces) /\ e.path = Rules!Spell(e.pieces)

\* What the bundle lists: an enabled broker of that id with an endpoint of that
\* method whose template the path instantiates.
Lists(brokers, id, m, p) ==
  \E i \in DOMAIN brokers :
    /\ brokers[i].id = id /\ brokers[i].enabled
    /\ \E j \in DOMAIN brokers[i].endpoints :
         LET e == brokers[i].endpoints[j]
         IN e.method = m /\ Rules!Instance(e.pieces, p)

\* buildRouter: with distinct ids every profile keeps its own routes.
LEMMA RouterIs ==
  ASSUME NEW b, NEW S, b.brokers \in Seq(S), Rules!Validate(b), NEW i \in DOMAIN b.brokers
  PROVE  LET R == Rules!BuildRouter(b)[b.brokers[i].id]
         IN /\ R.profile = b.brokers[i]
            /\ R.routes = [j \in DOMAIN b.brokers[i].endpoints |->
                             [method |-> b.brokers[i].endpoints[j].method,
                              re |-> Rules!CompilePathTemplate(b.brokers[i].endpoints[j].path)]]
<1>0. PICK B \in Seq(S) : B = b.brokers
  OBVIOUS
<1>1. PICK n \in Nat : n = Len(B) /\ DOMAIN B = 1..n
  OBVIOUS
<1>2. i \in 1..n
  BY <1>0, <1>1
<1>3. \A j \in 1..n : B[j].id = B[i].id => j = i
  <2>1. Rules!Distinct(B, LAMBDA bp : bp.id)
    BY <1>0, Zenon DEF Rules!Validate
  <2> QED
    BY <1>1, <1>2, <2>1 DEF Rules!Distinct
<1>4. Rules!SelectLastInSeq(B, LAMBDA x : x.id = B[i].id) = i
  <2>1. {j \in 1..Len(B) : B[j].id = B[i].id} = {i}
    BY <1>1, <1>2, <1>3
  <2>2. {i} # {}
    OBVIOUS
  <2>3. Rules!Max({i}) = i
    BY <1>2 DEF Rules!Max
  <2> QED
    BY <2>1, <2>2, <2>3 DEF Rules!SelectLastInSeq
<1>5. B[i].id \in {B[j].id : j \in DOMAIN B}
  BY <1>1, <1>2
<1>6. PICK R : R = Rules!BuildRouter(b)[B[i].id]
  OBVIOUS
<1>7. R = [profile |-> B[i],
           routes |-> [j \in DOMAIN B[i].endpoints |->
                         [method |-> B[i].endpoints[j].method,
                          re |-> Rules!CompilePathTemplate(B[i].endpoints[j].path)]]]
  BY <1>0, <1>4, <1>5, <1>6, Zenon DEF Rules!BuildRouter
<1>8. /\ R.profile = B[i]
      /\ R.routes = [j \in DOMAIN B[i].endpoints |->
                       [method |-> B[i].endpoints[j].method,
                        re |-> Rules!CompilePathTemplate(B[i].endpoints[j].path)]]
  BY <1>7
<1> QED
  BY <1>0, <1>6, <1>8, Zenon

\* The table has an entry for every id of the bundle.
LEMMA RouterIds ==
  \A b : DOMAIN Rules!BuildRouter(b) = {b.brokers[i].id : i \in DOMAIN b.brokers}
BY DEF Rules!BuildRouter

\* Validate looks into every template.
LEMMA ValidPaths ==
  ASSUME NEW b, Rules!Validate(b), NEW i \in DOMAIN b.brokers,
         NEW j \in DOMAIN b.brokers[i].endpoints
  PROVE  Rules!ValidatePath(b.brokers[i].endpoints[j].path)
<1>1. Rules!ValidateBroker(b.brokers[i])
  BY Zenon DEF Rules!Validate
<1>2. Rules!ValidateEndpoint(b.brokers[i].endpoints[j])
  BY <1>1, Zenon DEF Rules!ValidateBroker
<1> QED
  BY <1>2, Zenon DEF Rules!ValidateEndpoint

\* Router.Lookup on the table that buildRouter makes of a validated bundle, with any
\* number of brokers, endpoints and characters: a request is let through exactly when
\* the bundle lists it.
THEOREM EveryBundleAllowsWhatItLists ==
  ASSUME NEW b, NEW S, b.brokers \in Seq(S), AsWritten(b), Rules!Validate(b),
         NEW id, NEW m, NEW p \in Seq(Text)
  PROVE  Rules!Lookup(Rules!BuildRouter(b), id, m, p) <=> Lists(b.brokers, id, m, p)
<1>1. PICK R : R = Rules!BuildRouter(b)
  OBVIOUS
<1>2. id \in DOMAIN R <=> \E i \in DOMAIN b.brokers : b.brokers[i].id = id
  BY <1>1, RouterIds
<1>3. ASSUME NEW i \in DOMAIN b.brokers, b.brokers[i].id = id
      PROVE  /\ R[id].profile.enabled = b.brokers[i].enabled
             /\ DOMAIN R[id].routes = DOMAIN b.brokers[i].endpoints
             /\ \A j \in DOMAIN b.brokers[i].endpoints :
                  /\ R[id].routes[j].method = b.brokers[i].endpoints[j].method
                  /\ Rules!MatchString(R[id].routes[j].re, p)
                       <=> Rules!Instance(b.brokers[i].endpoints[j].pieces, p)
  <2>1. /\ R[id].profile = b.brokers[i]
        /\ R[id].routes = [j \in DOMAIN b.brokers[i].endpoints |->
                             [method |-> b.brokers[i].endpoints[j].method,
                              re |-> Rules!CompilePathTemplate(b.brokers[i].endpoints[j].path)]]
    BY <1>1, <1>3, RouterIs, Zenon
  <2>2. PICK E, F : E = b.brokers[i].endpoints /\ F = R[id].routes
    OBVIOUS
  <2>3. F = [j \in DOMAIN E |-> [method |-> E[j].method, re |-> Rules!CompilePathTemplate(E[j].path)]]
    BY <2>1, <2>2, Zenon
  <2>4. /\ DOMAIN F = DOMAIN E
        /\ \A j \in DOMAIN E : /\ F[j].method = E[j].method
                               /\ F[j].re = Rules!CompilePathTemplate(E[j].path)
    BY <2>3
  <2>5. ASSUME NEW j \in DOMAIN E
        PROVE  Rules!MatchString(F[j].re, p) <=> Rules!Instance(E[j].pieces, p)
    <3>1. PICK t : t = E[j].pieces
      OBVIOUS
    <3>2. Spelled(t) /\ E[j].path = Rules!Spell(t)
      BY <2>2, <3>1, Zenon DEF AsWritten
    <3>3. Rules!ValidatePath(Rules!Spell(t))
      BY <2>2, <3>2, ValidPaths, Zenon
    <3>4. Rules!MatchString(Rules!CompilePathTemplate(Rules!Spell(t)), p)
            <=> Rules!Instance(t, p)
      BY <3>2, <3>3, ValidIsPlain, PlainMatches
    <3> QED
      BY <2>4, <3>1, <3>2, <3>4, Zenon
  <2> QED
    BY <2>1, <2>2, <2>4, <2>5, Zenon
<1>4. \A i \in DOMAIN b.brokers : b.brokers[i].enabled \in BOOLEAN
  BY DEF AsWritten
<1>5. ASSUME Rules!Lookup(R, id, m, p) PROVE Lists(b.brokers, id, m, p)
  <2>1. /\ id \in DOMAIN R /\ R[id].profile.enabled
        /\ \E j \in DOMAIN R[id].routes :
             /\ R[id].routes[j].method = m
             /\ Rules!MatchString(R[id].routes[j].re, p)
    BY <1>5, Zenon DEF Rules!Lookup
  <2>2. PICK i \in DOMAIN b.brokers : b.brokers[i].id = id
    BY <1>2, <2>1
  <2>3. PICK j \in DOMAIN R[id].routes : /\ R[id].routes[j].method = m
                                         /\ Rules!MatchString(R[id].routes[j].re, p)
    BY <2>1
  <2>4. b.brokers[i].enabled
    BY <1>3, <2>1, <2>2, Zenon
  <2>5. /\ j \in DOMAIN b.brokers[i].endpoints /\ b.brokers[i].endpoints[j].method = m
        /\ Rules!Instance(b.brokers[i].endpoints[j].pieces, p)
    BY <1>3, <2>2, <2>3, Zenon
  <2> QED
    BY <2>2, <2>4, <2>5, Zenon DEF Lists
<1>6. ASSUME Lists(b.brokers, id, m, p) PROVE Rules!Lookup(R, id, m, p)
  <2>1. PICK i \in DOMAIN b.brokers :
          /\ b.brokers[i].id = id /\ b.brokers[i].enabled
          /\ \E j \in DOMAIN b.brokers[i].endpoints :
               /\ b.brokers[i].endpoints[j].method = m
               /\ Rules!Instance(b.brokers[i].endpoints[j].pieces, p)
    BY <1>6, Zenon DEF Lists
  <2>2. id \in DOMAIN R /\ R[id].profile.enabled
    BY <1>2, <1>3, <2>1, Zenon
  <2>3. \E j \in DOMAIN R[id].routes : /\ R[id].routes[j].method = m
                                       /\ Rules!MatchString(R[id].routes[j].re, p)
    BY <1>3, <2>1, Zenon
  <2> QED
    BY <2>2, <2>3, Zenon DEF Rules!Lookup
<1> QED
  BY <1>1, <1>5, <1>6

\* The bundles tried are written piece by piece.
LEMMA BundleCase ==
  ASSUME NEW B \in UpTo(Brokers, 2)
  PROVE  B \in Seq(Brokers) /\ AsWritten(Bundle(B)) /\ Bundle(B).brokers = B
<1>1. B \in Seq(Brokers) /\ Bundle(B).brokers = B
  BY UpToIs DEF Bundle
<1>2. ASSUME NEW t \in Templates PROVE Spelled(t)
  <2>1. t \in Seq(Seq(STRING))
    BY PiecesAssumption, Zenon
  <2>2. t \in Seq(Seq(Text))
    BY <2>1, Texts, SeqMonotonic
  <2>3. DOMAIN t = 1..Len(t)
    BY <2>2, LenProperties
  <2>4. \A k \in 1..Len(t) : Rules!IsPiece(t[k]) /\ t[k] # <<"{">> /\ t[k] # <<"}">>
    BY <2>3, PiecesAssumption, Zenon
  <2>5. ASSUME NEW k \in 1..Len(t), Len(t[k]) = 1 PROVE ~ Brace(t[k][1])
    <3>1. PICK q \in Seq(Text) : q = t[k] /\ Len(q) = 1
      BY <2>2, <2>5, ElementOfSeq
    <3>2. q = <<q[1]>>
      BY <3>1
    <3>3. q[1] # "{" /\ q[1] # "}"
      BY <2>4, <3>1, <3>2, Zenon
    <3> QED
      BY <3>1, <3>3, Zenon DEF Brace, Opens, Closes
  <2> QED
    BY <2>2, <2>4, <2>5, Zenon DEF Spelled
<1>3. ASSUME NEW e \in Endpoints PROVE Spelled(e.pieces) /\ e.path = Rules!Spell(e.pieces)
  <2>1. PICK mm \in Rules!KnownMethods, t \in Templates :
          e = [method |-> mm, kind |-> "place", pieces |-> t, path |-> Rules!Spell(t)]
    BY DEF Endpoints
  <2>2. e.pieces = t /\ e.path = Rules!Spell(t)
    BY <2>1
  <2> QED
    BY <1>2, <2>2
<1>4. ASSUME NEW bp \in Brokers
      PROVE  bp.enabled \in BOOLEAN /\ \A j \in DOMAIN bp.endpoints : bp.endpoints[j] \in Endpoints
  <2>1. bp.enabled \in BOOLEAN
    BY DEF Brokers
  <2>2. bp.endpoints \in UpTo(Endpoints, 1) \cup {<<e, f>> : e, f \in Endpoints}
    BY DEF Brokers
  <2>3. PICK E : E = bp.endpoints
    OBVIOUS
  <2>4. E \in Seq(Endpoints)
    <3>1. CASE E \in UpTo(Endpoints, 1)
      BY <3>1, UpToIs
    <3>2. CASE E \in {<<e, f>> : e, f \in Endpoints}
      <4>1. PICK e \in Endpoints, f \in Endpoints : E = <<e, f>>
        BY <3>2
      <4> QED
        BY <4>1
    <3> QED
      BY <2>2, <2>3, <3>1, <3>2
  <2>5. \A j \in DOMAIN E : E[j] \in Endpoints
    BY <2>4
  <2> QED
    BY <2>1, <2>3, <2>5, Zenon
<1>5. \A i \in DOMAIN B : B[i] \in Brokers
  BY <1>1
<1>6. AsWritten(Bundle(B))
  BY <1>1, <1>3, <1>4, <1>5, Zenon DEF AsWritten
<1> QED
  BY <1>1, <1>6

\* TemplatesMeanInstances, for templates and paths of any length over any pieces: see
\* EveryTemplateMeansItsInstances.  A piece that may follow a slash keeps its meaning
\* wherever it stands.
THEOREM TemplatesAlwaysMean == CaseSpec => []TemplatesMeanInstances
<1>1. CaseInit => TemplatesMeanInstances
  BY DEF CaseInit, TemplatesMeanInstances, TemplatesChecked, MatchesAreInstances
<1>2. TemplatesMeanInstances /\ [CaseNext]_case => TemplatesMeanInstances'
  <2>1. ASSUME CaseNext PROVE TemplatesChecked'
    <3> SUFFICES ASSUME case'.kind = "template" PROVE TemplatesChecked'
      BY DEF TemplatesChecked
    <3>1. PICK t \in UpTo(Pieces, MaxPieces) :
            case' = [kind |-> "template", template |-> Rules!Spell(t)]
      BY <2>1, CasePicked, Zenon DEF PickTemplate
    <3>2. PICK P \in Seq(Text) : P = Rules!Spell(t)
      BY TemplateCase
    <3>3. case'.template = P
      BY <3>1, <3>2
    <3> QED
      BY <3>3, TemplateChecked, Zenon DEF TemplatesChecked
  <2>2. ASSUME CaseNext PROVE MatchesAreInstances'
    <3> SUFFICES ASSUME case'.kind = "path" PROVE MatchesAreInstances'
      BY DEF MatchesAreInstances
    <3>1. PICK t \in UpTo({q \in Pieces : Rules!WellFormed(<<"/">> \o q)}, MaxPieces),
               p \in UpTo(PathChars, MaxPath) :
            case' = [kind |-> "path", pieces |-> t, path |-> p]
      BY <2>2, CasePicked, Zenon DEF PickPath
    <3>2. PlainSeq(t) /\ p \in Seq(Text)
      BY PathCase
    <3>3. case'.pieces = t /\ case'.path = p
      BY <3>1
    <3> QED
      BY <3>2, <3>3, PlainMatches, Zenon DEF MatchesAreInstances
  <2>3. ASSUME UNCHANGED case, TemplatesMeanInstances PROVE TemplatesMeanInstances'
    BY <2>3 DEF TemplatesMeanInstances, TemplatesChecked, MatchesAreInstances
  <2> QED
    BY <2>1, <2>2, <2>3 DEF TemplatesMeanInstances
<1> QED
  BY <1>1, <1>2, PTL DEF CaseSpec

\* LookupIsTheBundle of these brokers.
Routes(brokers) ==
  Rules!Validate(Bundle(brokers)) =>
    \A id \in BrokerIDs, m \in Rules!KnownMethods, p \in UpTo({"/", "a"}, 3) :
      Rules!Lookup(Rules!BuildRouter(Bundle(brokers)), id, m, p) <=> Lists(brokers, id, m, p)

\* LookupIsTheBundle, for any broker ids and templates: see
\* EveryBundleAllowsWhatItLists, of which the bundles of the run are instances.
THEOREM LookupAlwaysTheBundle == CaseSpec => []LookupIsTheBundle
<1>1. CaseInit => LookupIsTheBundle
  BY DEF CaseInit, LookupIsTheBundle
<1>2. LookupIsTheBundle /\ [CaseNext]_case => LookupIsTheBundle'
  <2>1. ASSUME CaseNext PROVE LookupIsTheBundle'
    <3> SUFFICES ASSUME case'.kind = "bundle" PROVE LookupIsTheBundle'
      BY DEF LookupIsTheBundle
    <3>1. PICK B \in UpTo(Brokers, 2) : case' = [kind |-> "bundle", brokers |-> B]
      BY <2>1, CasePicked, Zenon DEF PickBundle
    <3>2. case'.brokers = B
      BY <3>1
    <3>3. PICK b : b = Bundle(B)
      OBVIOUS
    <3>4. B \in Seq(Brokers) /\ AsWritten(b) /\ b.brokers = B
      BY <3>3, BundleCase
    <3>5. \A p \in UpTo({"/", "a"}, 3) : p \in Seq(Text)
      <4> TAKE p \in UpTo({"/", "a"}, 3)
      <4>1. p \in Seq({"/", "a"})
        BY UpToIs
      <4> QED
        BY <4>1, Texts, SeqMonotonic
    <3>6. ASSUME Rules!Validate(b), NEW id, NEW m, NEW p \in UpTo({"/", "a"}, 3)
          PROVE  Rules!Lookup(Rules!BuildRouter(b), id, m, p) <=> Lists(b.brokers, id, m, p)
      BY <3>4, <3>5, <3>6, EveryBundleAllowsWhatItLists, Zenon
    <3>7. Routes(B)
      BY <3>3, <3>4, <3>6 DEF Routes
    <3>8. Routes(case'.brokers)
      BY <3>2, <3>7
    <3> QED
      BY <3>8, Zenon DEF LookupIsTheBundle, Routes, Lists
  <2>2. ASSUME UNCHANGED case, LookupIsTheBundle PROVE LookupIsTheBundle'
    BY <2>2 DEF LookupIsTheBundle
  <2> QED
    BY <2>1, <2>2
<1> QED
  BY <1>1, <1>2, PTL DEF CaseSpec
=============================================================================
