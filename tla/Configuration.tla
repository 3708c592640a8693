----------------------------- MODULE Configuration -----------------------------
(***************************************************************************)
(* config.Validate, and what run and serve do with a configuration that    *)
(* passed it: the constructors they call, in order, and the first refusal. *)
(*                                                                         *)
(* A configuration is a function from field names to abstract values.  A   *)
(* text is "" (absent), "blank" (only white space), "junk" (present and    *)
(* unusable) or "ok"; a duration or a count is a number; a serial list is  *)
(* a set of texts.  The files behind well-formed paths are assumed good.   *)
(***************************************************************************)
EXTENDS Integers

Texts == {"", "blank", "ok"}
Present(c, fields) == \A f \in fields : c[f] # "" /\ c[f] # "blank"

BinaryFields == {"current_path", "previous_path", "staged_path", "binary_pubkey_path"}
BundleFields == {"bundle_path", "sig_path", "pubkey_path"}
TLSFields == {"server_cert", "server_key", "client_ca"}

TextFields == BinaryFields \cup BundleFields \cup TLSFields
                \cup {"audit_path", "nft_path", "helper_path"}
AddressFields == {"order_plane", "admin_plane"}
SerialFields == {"order_serials", "admin_serials"}
SwitchFields == {"refresh_enabled", "egress_enabled"}
NumberFields == {"refresh_interval", "egress_refresh", "rotation_mb", "retain_count"}
ChoiceFields == {"refresh_url", "log_level", "log_format"}

\* The values each field is tried with.
Domain ==
  [f \in TextFields \cup AddressFields \cup SerialFields \cup SwitchFields \cup NumberFields
          \cup ChoiceFields |->
     CASE f \in TextFields    -> Texts
       [] f \in AddressFields -> {"", "junk", "badport", "ok"}
       [] f \in SerialFields  -> SUBSET {"junk", "ok"}
       [] f \in SwitchFields  -> BOOLEAN
       [] f \in NumberFields  -> -1..1
       [] f \in ChoiceFields  -> {"", "junk", "ok"}]

-----------------------------------------------------------------------------
(* Validate, block by block *)

\* validateHostPort: net.SplitHostPort and a non-empty port, whatever it is.
HostPort(a) == a \in {"ok", "badport"}

ValidateListen(c) ==
  HostPort(c["order_plane"]) /\ (c["admin_plane"] # "" => HostPort(c["admin_plane"]))

ValidateMTLS(c) ==
  Present(c, TLSFields) /\ c["order_serials"] \cup c["admin_serials"] # {}

\* ProfileBundle.validate and Refresh.validate
ValidateBundle(c) ==
  /\ Present(c, BundleFields)
  /\ c["refresh_enabled"] => c["refresh_url"] = "ok" /\ c["refresh_interval"] > 0

ValidateAudit(c) ==
  Present(c, {"audit_path"}) /\ c["rotation_mb"] > 0 /\ c["retain_count"] > 0

ValidateLog(c) == c["log_level"] # "junk" /\ c["log_format"] # "junk"

BinaryIsZero(c) == \A f \in BinaryFields : c[f] = ""

\* Mutant: one path given is enough.
ValidateBinaryAny(c) == BinaryIsZero(c) \/ \E f \in BinaryFields : Present(c, {f})

ValidateBinary(c) == BinaryIsZero(c) \/ Present(c, BinaryFields)

ValidateEgress(c) ==
  c["egress_enabled"] =>
    c["egress_refresh"] > 0 /\ (c["nft_path"] # "" \/ c["helper_path"] # "")

Validate(c) ==
  /\ ValidateListen(c) /\ ValidateMTLS(c) /\ ValidateBundle(c) /\ ValidateAudit(c)
  /\ ValidateLog(c) /\ ValidateBinary(c) /\ ValidateEgress(c)

-----------------------------------------------------------------------------
(* run and serve: what the constructors ask for *)

\* log.New
LogOK(c) == c["log_level"] # "junk" /\ c["log_format"] # "junk"
\* audit.Open
AuditOK(c) == c["audit_path"] = "ok"
\* profile.LoadAndVerify opens the three files.
BundleOK(c) == \A f \in BundleFields : c[f] = "ok"
\* BuildServerConfig: the files, and NewAllowlist's parseSerials.
TLSOK(c) ==
  /\ \A f \in TLSFields : c[f] = "ok"
  /\ "junk" \notin c["order_serials"] \cup c["admin_serials"]
  /\ c["order_serials"] \cup c["admin_serials"] # {}
\* binupd.New, when the block is there.
BinaryOK(c) ==
  BinaryIsZero(c) \/ ((\A f \in BinaryFields : c[f] # "") /\ c["binary_pubkey_path"] = "ok")
\* egress.New; the helper is preferred to nft.
EgressOK(c) == c["egress_enabled"] => c["egress_refresh"] > 0
Applier(c) == IF c["helper_path"] # "" THEN c["helper_path"] ELSE c["nft_path"]
\* bundleupd.New: an interval that is not positive was replaced by the default.
UpdaterOK(c) == \A f \in BundleFields : c[f] # ""
\* ListenAndServeTLS on order_plane; nothing listens on admin_plane.
ListenOK(c) == c["order_plane"] = "ok"

\* The stages run and serve go through.
StageOK(c) == [log |-> LogOK(c), audit |-> AuditOK(c), bundle |-> BundleOK(c), mtls |-> TLSOK(c),
               binupd |-> BinaryOK(c), egress |-> EgressOK(c), updater |-> UpdaterOK(c),
               listen |-> ListenOK(c)]
Refused(c) == {s \in DOMAIN StageOK(c) : ~ StageOK(c)[s]}

-----------------------------------------------------------------------------
\* "Callers receive a fully-formed Config or an error - never a partially-valid
\* one": a configuration that validates, with its files in place, brings the
\* process up, unless a serial does not parse or a port is no port, which
\* Validate does not look into; and no worker is left without what it needs.
Starts(c) ==
  Validate(c) =>
    /\ Refused(c) \subseteq {"mtls", "listen"}
    /\ "mtls" \in Refused(c) => "junk" \in c["order_serials"] \cup c["admin_serials"]
    /\ "listen" \in Refused(c) => c["order_plane"] = "badport"
    /\ c["egress_enabled"] => Applier(c) # ""
    /\ c["refresh_enabled"] => c["refresh_url"] = "ok"
=============================================================================
