---------------------------- MODULE HandshakeErrors ----------------------------
(***************************************************************************)
(* mtls.ClassifyHandshakeError behind http.Server.ErrorLog.  A log line is *)
(* the set of the fragments ClassifyHandshakeError looks for that occur in *)
(* it; the lines are those crypto/tls and VerifyConnection produce.        *)
(***************************************************************************)

\* Why a handshake fails, and the line the TLS stack logs for it (external:
\* the errors of crypto/tls and crypto/x509).
Causes == {"unknown serial", "no certificate", "foreign CA", "expired", "old TLS", "cut off"}
LineFor(cause) ==
  {"TLS handshake error"} \cup
    CASE cause = "unknown serial" -> {"not in allowlist"}
      [] cause = "no certificate" -> {"didn't provide a certificate"}
      [] cause = "foreign CA"     -> {"verify certificate"}
      [] cause = "expired"        -> {"verify certificate", "expired"}
      [] cause = "old TLS"        -> {"unsupported versions"}
      [] cause = "cut off"        -> {}

\* Mutant: every line about a certificate is taken for a foreign CA.
ClassifyByCertificate(line) ==
  CASE {"verify certificate", "didn't provide a certificate"} \cap line # {} -> "wrong_ca"
    [] OTHER -> "other"

\* The cases are tried in this order.
ClassifyHandshakeError(line) ==
  LET Has(s) == s \in line
  IN IF Has("not in allowlist") THEN "unknown_serial"
     ELSE IF Has("didn't provide a certificate") THEN "no_client_cert"
     ELSE IF Has("verify certificate") THEN "wrong_ca"
     ELSE IF Has("expired") THEN "expired"
     ELSE IF Has("unsupported versions") THEN "tls_version"
     ELSE "other"

\* handshakeWriter.Write: the label that is counted, or none.
Counted(line) ==
  IF "TLS handshake error" \in line THEN {ClassifyHandshakeError(line)} ELSE {}

\* The label says why: every failure is counted, other lines of the error log are
\* not, and two causes share a label only where the code merges them.  It merges
\* one pair: crypto/tls words an expired client certificate "failed to verify
\* certificate: x509: certificate has expired", so it is counted wrong_ca and not
\* expired, the label that loghook.go:18, metrics.go:59 and the shorter line of
\* loghook_test.go:27 have for it.
Labelled(c, d, extra) ==
  /\ Counted(extra) = {} /\ Counted(LineFor(c)) # {}
  /\ Counted(LineFor("expired")) = {"wrong_ca"}
  /\ Counted(LineFor(c)) = Counted(LineFor(d)) => c = d \/ {c, d} = {"foreign CA", "expired"}
=============================================================================
