------------------------------ MODULE BundleRules ------------------------------
(***************************************************************************)
(* What profile.LoadAndVerify decides about a bundle's content, and the    *)
(* route table it builds: Bundle.validate, enforceVersionGates,            *)
(* buildRouter with compilePathTemplate, and Router.Lookup.                *)
(*                                                                         *)
(* Path templates and request paths are sequences of one-character         *)
(* strings.  A required text is represented by its absence or presence.    *)
(***************************************************************************)
EXTENDS Integers, Sequences, SequencesExt

Letters == {"a", "b"}
Digits  == {"1"}

-----------------------------------------------------------------------------
(* Path templates *)

\* isValidPathByte: letters, digits and / - _ . ~
PathBytes == Letters \cup Digits \cup {"/", "."}

\* isValidVarName
ValidVarName(s) ==
  /\ s # <<>> /\ s[1] \in Letters
  /\ \A i \in DOMAIN s : s[i] \in Letters \cup Digits

\* strings.IndexByte(p[i:], '}'), or 0.
CloseAt(p, i) == SelectInSubSeq(p, i, Len(p), LAMBDA c : c = "}")

\* Mutant: braces are not looked at.
ValidatePathLoose(p) == p # <<>> /\ p[1] = "/" /\ \A i \in DOMAIN p : p[i] # "*"

\* validatePath: the scan, with its three error returns.
ValidatePath(p) ==
  LET ok[i \in 1..Len(p)+1] ==
        CASE i > Len(p) -> TRUE
          [] i <= Len(p) /\ p[i] = "{" ->
               /\ CloseAt(p, i) # 0
               /\ ValidVarName(SubSeq(p, i + 1, CloseAt(p, i) - 1))
               /\ ok[CloseAt(p, i) + 1]
          [] i <= Len(p) /\ p[i] = "}" -> FALSE
          [] OTHER -> p[i] \in PathBytes /\ ok[i+1]
  IN p # <<>> /\ p[1] = "/" /\ ok[1]

\* A regular expression is a sequence of characters that stand for themselves,
\* "any" (an unquoted dot) and "var" ([^/]+), anchored at both ends.
\* Mutant: the literal characters are not quoted.
QuoteNothing(c) == IF c = "." THEN "any" ELSE c

\* regexp.QuoteMeta
QuoteMeta(c) == c

\* compilePathTemplate; an unclosed brace is an error.
CompilePathTemplate(t) ==
  LET re[i \in 1..Len(t)+1] ==
        CASE i > Len(t) -> <<>>
          [] i <= Len(t) /\ t[i] = "{" ->
               IF CloseAt(t, i) = 0 THEN <<"error">> ELSE <<"var">> \o re[CloseAt(t, i) + 1]
          [] OTHER -> <<QuoteMeta(t[i])>> \o re[i+1]
  IN re[1]

\* Regexp.MatchString, for the expressions above: from[j] is the set of positions
\* of re from which it matches the rest of p, its j-th character on.
MatchString(re, p) ==
  LET from[j \in 1..Len(p)+1] ==
        IF j > Len(p) THEN {Len(re) + 1}
        ELSE LET next == from[j+1]
             IN {i \in 1..Len(re) :
                   CASE re[i] = "var" -> p[j] # "/" /\ (i \in next \/ i + 1 \in next)
                     [] re[i] = "any" -> i + 1 \in next
                     [] OTHER -> p[j] = re[i] /\ i + 1 \in next}
  IN 1 \in from[1]

-----------------------------------------------------------------------------
(* Bundles *)

\* knownMethods, and one member of knownKinds
KnownMethods == {"GET", "POST"}
KnownKinds == {"place"}

\* validateHost on a host given by its labels: [literal, labels], where literal
\* tells a dotted name from a wildcard or an IP address.
ValidateHost(h) ==
  h.literal /\ Len(h.labels) >= 2 /\ \A i \in DOMAIN h.labels : h.labels[i] = "ldh"

ValidateEndpoint(e) == e.method \in KnownMethods /\ e.kind \in KnownKinds /\ ValidatePath(e.path)

Distinct(s, F(_)) == \A i, j \in DOMAIN s : F(s[i]) = F(s[j]) => i = j

\* validateBroker; an id must match brokerIDRe.
ValidateBroker(bp) ==
  /\ bp.idOK /\ bp.named /\ ValidateHost(bp.host)
  /\ bp.endpoints # <<>> /\ \A i \in DOMAIN bp.endpoints : ValidateEndpoint(bp.endpoints[i])
  /\ Distinct(bp.endpoints, LAMBDA e : <<e.method, e.path>>)
  /\ bp.rateOK

\* Mutant: duplicate broker ids are not refused.
ValidateAllowsDuplicates(b) ==
  /\ b.schemaVersion = 1 /\ b.header = {} /\ b.brokers # <<>>
  /\ \A i \in DOMAIN b.brokers : ValidateBroker(b.brokers[i])

\* Bundle.validate; header holds the required fields that are blank, and
\* min_proxy_version when it does not parse.
Validate(b) ==
  /\ b.schemaVersion = 1 /\ b.header = {} /\ b.brokers # <<>>
  /\ \A i \in DOMAIN b.brokers : ValidateBroker(b.brokers[i])
  /\ Distinct(b.brokers, LAMBDA bp : bp.id)

\* buildRouter: byBroker is a map, so the last profile of an id would win.
BuildRouter(b) ==
  [id \in {b.brokers[i].id : i \in DOMAIN b.brokers} |->
     LET bp == b.brokers[SelectLastInSeq(b.brokers, LAMBDA x : x.id = id)]
     IN [profile |-> bp,
         routes |-> [j \in DOMAIN bp.endpoints |->
                       [method |-> bp.endpoints[j].method,
                        re |-> CompilePathTemplate(bp.endpoints[j].path)]]]]

\* Router.Lookup: whether some route matches.
Lookup(router, id, method, path) ==
  /\ id \in DOMAIN router /\ router[id].profile.enabled
  /\ \E j \in DOMAIN router[id].routes :
       /\ router[id].routes[j].method = method
       /\ MatchString(router[id].routes[j].re, path)

-----------------------------------------------------------------------------
(* Versions *)

\* parseSemver accepts three numbers that are not negative; -1 stands for
\* anything else.
ParseSemver(v) == Len(v) = 3 /\ \A i \in DOMAIN v : v[i] >= 0

\* Mutant: the patch level is not compared.
CompareSemverMinor(a, b) ==
  LET d == {i \in 1..2 : a[i] # b[i]}
  IN IF d = {} THEN 0 ELSE IF a[Min(d)] < b[Min(d)] THEN -1 ELSE 1

\* compareSemver: the first component that differs decides.
CompareSemver(a, b) ==
  LET d == {i \in 1..3 : a[i] # b[i]}
  IN IF d = {} THEN 0 ELSE IF a[Min(d)] < b[Min(d)] THEN -1 ELSE 1

\* Mutant: a shorter version comes first.
StringLessByLength(s, t) ==
  \/ Len(s) < Len(t)
  \/ /\ Len(s) = Len(t)
     /\ \E n \in DOMAIN s : SubSeq(s, 1, n - 1) = SubSeq(t, 1, n - 1) /\ s[n] < t[n]

\* Go's < on strings.
StringLess(s, t) ==
  \E n \in 0..Len(s) :
    /\ n < Len(t) /\ SubSeq(s, 1, n) = SubSeq(t, 1, n)
    /\ n = Len(s) \/ s[n+1] < t[n+1]

\* enforceVersionGates.  An empty binary version stands for "" and "dev"; an
\* empty previous version means no gate.
VersionGates(binary, min, version, previous) ==
  /\ binary # <<>> => ParseSemver(binary) /\ ParseSemver(min) /\ CompareSemver(binary, min) >= 0
  /\ previous # <<>> => StringLess(previous, version)

-----------------------------------------------------------------------------
(* References: the template language as its users read it. *)

\* A template is written as a list of pieces, each a literal character or a
\* placeholder in braces.
Spell(pieces) == FlattenSeq(pieces)
IsVar(piece) == Len(piece) > 1
IsPiece(q) ==
  \/ Len(q) = 1
  \/ /\ IsVar(q) /\ q[1] = "{" /\ q[Len(q)] = "}"
     /\ \A i \in 2..Len(q) - 1 : q[i] \notin {"{", "}"}

\* "{var} template syntax only": braces come in pairs around one identifier and
\* everything outside them is a plain path character.
Braces(t) == {i \in DOMAIN t : t[i] \in {"{", "}"}}
Pairs(t) == {q \in Braces(t) \X Braces(t) :
               /\ q[1] < q[2] /\ t[q[1]] = "{" /\ t[q[2]] = "}"
               /\ \A k \in Braces(t) : ~ (q[1] < k /\ k < q[2])}
WellFormed(t) ==
  /\ t # <<>> /\ t[1] = "/"
  /\ \A i \in Braces(t) : \E q \in Pairs(t) : i \in {q[1], q[2]}
  /\ \A q \in Pairs(t) : ValidVarName(SubSeq(t, q[1] + 1, q[2] - 1))
  /\ \A i \in DOMAIN t : t[i] \in PathBytes \cup {"{", "}"}

\* p is the template with every placeholder replaced by one non-empty piece of
\* a single segment: ends[k] is where the first k pieces may end in p.
Fits(piece, s) ==
  IF IsVar(piece) THEN s # <<>> /\ \A i \in DOMAIN s : s[i] # "/" ELSE s = piece
Instance(pieces, p) ==
  LET ends[k \in 0..Len(pieces)] ==
        IF k = 0 THEN {0}
        ELSE LET from == ends[k-1]
             IN {e \in 0..Len(p) : \E f \in from : f <= e /\ Fits(pieces[k], SubSeq(p, f + 1, e))}
  IN Len(p) \in ends[Len(pieces)]
=============================================================================
