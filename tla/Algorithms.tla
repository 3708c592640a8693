------------------------------ MODULE Algorithms ------------------------------
(***************************************************************************)
(* The pure decisions of the program, each on every input of a bounded     *)
(* set: one step picks a case, the properties compare what the code        *)
(* computes for it with a reference.                                       *)
(***************************************************************************)
EXTENDS Integers, Sequences, SequencesExt, FiniteSets

CONSTANTS
  Pieces, MaxPieces,      \* bound: what path templates are made of
  PathChars, MaxPath,     \* bound: request paths
  BrokerIDs, Templates,   \* bound: bundles of up to two brokers
  TextLines, MaxLines,        \* bound: files compared by the diff view
  Ctx,                    \* lines of context in the diff view
  MaxPart, Days, Tags     \* bound: version components, days, digits of release numbers

VARIABLE case

Rules == INSTANCE BundleRules
Diff  == INSTANCE LineDiff
Conf  == INSTANCE Configuration
Hook  == INSTANCE HandshakeErrors

\* Pieces are characters or placeholders, and those of the bundles' templates are
\* no single braces; days are a month's and release numbers decimal numerals.
ASSUME PiecesAssumption ==
  /\ \A q \in Pieces : q \in Seq(STRING) /\ Rules!IsPiece(q)
  /\ \A t \in Templates :
       /\ t \in Seq(Seq(STRING))
       /\ \A k \in DOMAIN t : Rules!IsPiece(t[k]) /\ t[k] \notin {<<"{">>, <<"}">>}
  /\ PathChars \subseteq STRING /\ MaxPieces \in Nat /\ MaxPath \in Nat
ASSUME VersionAssumption ==
  /\ MaxPart \in Nat /\ Days \subseteq 1..31
  /\ \A n \in Tags : n \in Seq(0..9) /\ n # <<>> /\ (Len(n) > 1 => n[1] # 0)

UpTo(S, n) == UNION {[1..k -> S] : k \in 0..n}

\* Endpoints keep the pieces their path was spelled from.
Endpoints ==
  {[method |-> m, kind |-> "place", pieces |-> t, path |-> Rules!Spell(t)] :
     m \in Rules!KnownMethods, t \in Templates}
Brokers ==
  [id : BrokerIDs, idOK : {TRUE}, named : {TRUE}, rateOK : {TRUE}, enabled : BOOLEAN,
   host : {[literal |-> TRUE, labels |-> <<"ldh", "ldh">>]},
   endpoints : UpTo(Endpoints, 1) \cup {<<e, f>> : e, f \in Endpoints}]
Bundle(brokers) == [schemaVersion |-> 1, header |-> {}, brokers |-> brokers]

Good == [f \in DOMAIN Conf!Domain |->
           CASE f \in Conf!SerialFields -> {"ok"}
             [] f \in Conf!SwitchFields -> TRUE
             [] f \in Conf!NumberFields -> 1
             [] OTHER -> "ok"]

\* bundle_version as sequences of bytes: a date of one month (its first byte stands
\* for what all of them have in common) with the suffix that the build chooses, and
\* the release tag v0.<n>.0, n given by its decimal digits.
Dated(day, suffix) == <<50, 48 + (day \div 10), 48 + (day % 10), 45>> \o suffix
Tagged(n) == <<118, 48, 46>> \o [i \in DOMAIN n |-> 48 + n[i]] \o <<46, 48>>
BuildSuffixes == {<<97>>, <<98>>, <<97, 98>>}

PickTemplate == \E t \in UpTo(Pieces, MaxPieces) :
  case' = [kind |-> "template", template |-> Rules!Spell(t)]
PickPath == \E t \in UpTo({q \in Pieces : Rules!WellFormed(<<"/">> \o q)}, MaxPieces) :
  \E p \in UpTo(PathChars, MaxPath) : case' = [kind |-> "path", pieces |-> t, path |-> p]
PickBundle == \E b \in UpTo(Brokers, 2) : case' = [kind |-> "bundle", brokers |-> b]
PickSemver == \E v, w \in [1..3 -> -1..MaxPart] :
  case' = [kind |-> "semver", binary |-> v, min |-> w]
PickVersion == \E d, e \in Days, s, t \in BuildSuffixes, m, n \in Tags :
  case' = [kind |-> "version", days |-> <<d, e>>, suffixes |-> <<s, t>>, tags |-> <<m, n>>]
PickFiles == \E a, b \in UpTo(TextLines, MaxLines) : case' = [kind |-> "diff", a |-> a, b |-> b]
PickConfig == \E f, g \in DOMAIN Conf!Domain : \E v \in Conf!Domain[f], w \in Conf!Domain[g] :
  case' = [kind |-> "config", config |-> [Good EXCEPT ![f] = v, ![g] = w]]
PickFailures == \E c, d \in Hook!Causes, extra \in SUBSET {"expired", "verify certificate"} :
  case' = [kind |-> "handshake", causes |-> <<c, d>>, extra |-> extra]

CaseInit == case = [kind |-> "none"]
CaseNext ==
  /\ case.kind = "none"
  /\ \/ PickTemplate \/ PickPath \/ PickBundle \/ PickSemver
     \/ PickVersion \/ PickFiles \/ PickConfig \/ PickFailures
CaseSpec == CaseInit /\ [][CaseNext]_case

-----------------------------------------------------------------------------
(* Properties *)

\* validatePath accepts exactly the templates with paired braces around one
\* identifier, and what it accepts compiles: buildRouter cannot fail after it.
TemplatesChecked ==
  case.kind = "template" =>
    /\ Rules!ValidatePath(case.template) <=> Rules!WellFormed(case.template)
    /\ Rules!ValidatePath(case.template) =>
         "error" \notin ToSet(Rules!CompilePathTemplate(case.template))

\* "Exact for literal segments and [^/]+ for {var}": the compiled expression
\* matches a path if and only if the path is an instance of the template, so no
\* literal acts as a pattern and no placeholder swallows a slash.
MatchesAreInstances ==
  case.kind = "path" =>
    (Rules!MatchString(Rules!CompilePathTemplate(Rules!Spell(case.pieces)), case.path)
       <=> Rules!Instance(case.pieces, case.path))

\* Templates: what validatePath lets pass compiles, and means its instances.
TemplatesMeanInstances == TemplatesChecked /\ MatchesAreInstances

\* The route table of a validated bundle allows exactly what the bundle lists:
\* some enabled broker of that id has an endpoint of that method whose template
\* the path instantiates.
LookupIsTheBundle ==
  (case.kind = "bundle" /\ Rules!Validate(Bundle(case.brokers))) =>
    \A id \in BrokerIDs, m \in Rules!KnownMethods, p \in UpTo({"/", "a"}, 3) :
      Rules!Lookup(Rules!BuildRouter(Bundle(case.brokers)), id, m, p)
        <=> \E i \in DOMAIN case.brokers :
              /\ case.brokers[i].id = id /\ case.brokers[i].enabled
              /\ \E j \in DOMAIN case.brokers[i].endpoints :
                   LET e == case.brokers[i].endpoints[j]
                   IN e.method = m /\ Rules!Instance(e.pieces, p)

\* The min_proxy_version gate orders versions as numbers, component by
\* component, and refuses what it cannot parse.
SemverIsNumeric ==
  case.kind = "semver" =>
    LET Value(v) == v[1] * (MaxPart + 1) * (MaxPart + 1) + v[2] * (MaxPart + 1) + v[3]
        parsed == \A i \in 1..3 : case.binary[i] >= 0 /\ case.min[i] >= 0
    IN Rules!VersionGates(case.binary, case.min, <<1>>, <<>>)
         <=> parsed /\ Value(case.binary) >= Value(case.min)

\* The order of the numbers that two numerals of the same length spell.
Precedes(m, n) ==
  /\ Len(m) = Len(n)
  /\ \E k \in DOMAIN m : m[k] < n[k] /\ \A i \in 1..k - 1 : m[i] = n[i]

\* What the string order of enforceVersionGates makes of the versions the build
\* scripts produce.  Dated versions advance with the day, whatever their suffix.
\* Release tags advance while they have as many digits; a later one that begins
\* with a smaller digit is refused (v0.10.0 after v0.9.0, v0.100.0 after v0.50.0),
\* and no dated bundle is ever accepted over a tagged one.
VersionsUnderStringOrder ==
  case.kind = "version" =>
    LET Accepted(v, prev) == Rules!VersionGates(<<>>, <<>>, v, prev)
        u == Dated(case.days[1], case.suffixes[1])
        v == Dated(case.days[2], case.suffixes[2])
        m == case.tags[1]
        n == case.tags[2]
    IN /\ case.days[1] < case.days[2] => Accepted(v, u) /\ ~ Accepted(u, v)
       /\ Precedes(m, n) => Accepted(Tagged(n), Tagged(m)) /\ ~ Accepted(Tagged(m), Tagged(n))
       /\ n[1] < m[1] => ~ Accepted(Tagged(n), Tagged(m))
       /\ ~ Accepted(v, Tagged(m))

\* enforceVersionGates: the numeric gate on the binary and the string order of
\* the bundles, both as stated above.
GatesOrderVersions == SemverIsNumeric /\ VersionsUnderStringOrder

\* The diff an operator reviews before publishing is true: applied to the last
\* published bundle, by the rules of GNU's unified format, its hunks give the
\* current one, and every hunk shows the lines of both files that its header names.
\* One header is not GNU's ("GNU-unified-diff-style", diff.go:143): beside an empty
\* file the code writes start 1, length 0 for GNU's 0,0, and only there.  The diff
\* is as small as it can be and still readable: the kept lines are a longest common
\* subsequence, and every hunk shows Ctx lines around its changes, fewer only where
\* the file ends.
DiffIsFaithful == case.kind = "diff" => Diff!Patches(case.a, case.b) /\ Diff!Minimal(case.a, case.b)

\* "Callers receive a fully-formed Config or an error - never a partially-valid
\* one": a configuration that validates, with its files in place, brings the
\* process up, unless a serial does not parse or a port is no port, which
\* Validate does not look into; and no worker is left without what it needs.
ValidatedStarts == case.kind = "config" => Conf!Starts(case.config)

\* mtls_handshake_failures_total tells an operator why clients are turned away:
\* each cause has a reason label of its own, with one exception that disagrees with
\* the documentation.  metrics.go:59 and loghook.go:18 give an expired client
\* certificate the label "expired"; the line crypto/tls logs for it contains
\* "verify certificate", whose case comes first, so it counts as wrong_ca.
FailuresLabelled ==
  case.kind = "handshake" => Hook!Labelled(case.causes[1], case.causes[2], case.extra)
=============================================================================
