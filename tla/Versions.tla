------------------------------ MODULE Versions ------------------------------
(***************************************************************************)
(* Versions and their predicates: pkg/version.                             *)
(*                                                                         *)
(* A version's text is a sequence of ranks in the order of its bytes, with *)
(* one digit to a number: a hyphen is 1, a dot 2, a slash 3, the digit d   *)
(* is 10 + d, and letters, of which "v" is one, come after 20.             *)
(***************************************************************************)
EXTENDS Integers, Sequences, SequencesExt

CONSTANTS
  Semvers,           \* the semantic versions somebody may have written
  MaxInt             \* the greatest int

ASSUME MaxIntAssumption == MaxInt \in Nat

HyphenRank == 1
DotRank == 2
SlashRank == 3
LetterV == 40

SemverType == [ major : 0 .. 9, minor : 0 .. 9, patch : 0 .. 9,
                pre : Seq(Seq(Nat)) ]
Semver(major, minor, patch, pre) ==
  [ major |-> major, minor |-> minor, patch |-> patch, pre |-> pre ]
Verbal(text) == [ verbal |-> text ]
IsSemver(v) == "major" \in DOMAIN v

\* String, of either kind of version.
PreReleaseText(pre) ==
  LET written[n \in 0 .. Len(pre)] ==
        IF n = 0 THEN << >>
        ELSE written[n - 1] \o << IF n = 1 THEN HyphenRank ELSE DotRank >> \o pre[n]
  IN  written[Len(pre)]
SemverText(v) ==
  << 10 + v.major, DotRank, 10 + v.minor, DotRank, 10 + v.patch >> \o PreReleaseText(v.pre)
Text(v) == IF IsSemver(v) THEN SemverText(v) ELSE v.verbal

\* Parse: a text that spells a semantic version, a leading v or not, is that
\* version; every other text is taken as it stands.
Spelled == [ v \in Semvers |-> SemverText(v) ]
ASSUME SemversAssumption ==
  /\ Semvers \subseteq SemverType
  /\ \A v, w \in Semvers : Spelled[v] = Spelled[w] => v = w
Parse(text) ==
  LET plain   == IF text # << >> /\ Head(text) = LetterV THEN Tail(text) ELSE text
      spelled == { v \in Semvers : Spelled[v] = plain }
  IN  IF spelled = {} THEN Verbal(text) ELSE CHOOSE v \in spelled : TRUE

\* How Go's < orders two strings.
TextBefore(s, t) ==
  \E i \in DOMAIN t :
     /\ \A j \in 1 .. i - 1 : j <= Len(s) /\ s[j] = t[j]
     /\ i <= Len(s) => s[i] < t[i]

\* Identifiers that are digits, and what they count.
IsNumeric(identifier) == identifier # << >> /\ \A i \in DOMAIN identifier : identifier[i] \in 10 .. 19
Value(digits) ==
  LET value[n \in 0 .. Len(digits)] == IF n = 0 THEN 0 ELSE 10 * value[n - 1] + digits[n] - 10
  IN  value[Len(digits)]

\* strconv.Atoi: it takes a hyphen for a sign, and no number beyond an int.
Signed(identifier) == identifier # << >> /\ Head(identifier) = HyphenRank
IntOf(identifier) == IF Signed(identifier) THEN -Value(Tail(identifier)) ELSE Value(identifier)
IsInt(identifier) ==
  /\ IsNumeric(IF Signed(identifier) THEN Tail(identifier) ELSE identifier)
  /\ -MaxInt - 1 <= IntOf(identifier) /\ IntOf(identifier) <= MaxInt

\* One pair of pre-release identifiers, in the loop of Compare: two ints by their
\* value, anything else, and what is left of them, by text.
IdentifierBefore(a, b) ==
  IF IsInt(a) /\ IsInt(b) /\ IntOf(a) # IntOf(b)
    THEN IntOf(a) < IntOf(b)
    ELSE TextBefore(a, b)

PreReleaseBefore(p, q) ==
  \/ p # << >> /\ q = << >>
  \/ /\ p # << >> /\ q # << >>
     /\ LET common == { i \in DOMAIN p \cap DOMAIN q : p[i] # q[i] }
        IN  IF common = {} THEN Len(p) < Len(q)
            ELSE LET i == CHOOSE i \in common : \A j \in common : i <= j
                 IN  IdentifierBefore(p[i], q[i])

\* Compare(v, w) < 0.
SemverBefore(v, w) ==
  \/ v.major < w.major
  \/ v.major = w.major /\ v.minor < w.minor
  \/ v.major = w.major /\ v.minor = w.minor /\ v.patch < w.patch
  \/ /\ v.major = w.major /\ v.minor = w.minor /\ v.patch = w.patch
     /\ PreReleaseBefore(v.pre, w.pre)

IsPreRelease(v) ==
  IF IsSemver(v) THEN v.pre # << >> \/ (v.major = 0 /\ v.minor = 0 /\ v.patch = 0)
  ELSE TRUE

\* Less: two semantic versions by precedence; otherwise what is no
\* pre-release first, and the rest by text.
Less(v, w) ==
  IF IsSemver(v) /\ IsSemver(w) THEN SemverBefore(v, w)
  ELSE IF IsPreRelease(v) # IsPreRelease(w) THEN IsPreRelease(w)
  ELSE TextBefore(Text(v), Text(w))

\* A predicate as it is written: an operator, or none, and a version's text.
\* A space between the two makes the version a verbal one.
Comparisons == { "==", "<", "<=", ">", ">=", "^", "~" }
ParsePredicate(written) ==
  [ comparison |-> IF written.operator = "" THEN "==" ELSE written.operator,
    version |-> IF written.spaced THEN Verbal(written.text) ELSE Parse(written.text) ]

SemverMatches(v, cond) ==
  LET ref == cond.version
  IN  /\ IsSemver(ref)
      /\ CASE cond.comparison = "==" -> Text(v) = Text(ref)
           [] cond.comparison = "<"  -> SemverBefore(v, ref)
           [] cond.comparison = "<=" -> ~SemverBefore(ref, v)
           [] cond.comparison = ">"  -> SemverBefore(ref, v)
           [] cond.comparison = ">=" -> ~SemverBefore(v, ref)
           [] cond.comparison = "^"  ->
                /\ ~SemverBefore(v, ref)
                /\ v.major = ref.major
                /\ IF ref.major = 0 THEN v.minor = ref.minor ELSE ref.minor <= v.minor
           [] cond.comparison = "~"  ->
                /\ ~SemverBefore(v, ref)
                /\ v.major = ref.major /\ v.minor = ref.minor
                /\ IF ref.major = 0 THEN v.patch = ref.patch ELSE ref.patch <= v.patch

VerbalMatches(v, cond) ==
  cond.comparison \notin { "<", ">" } /\ v.verbal = Text(cond.version)

Matches(v, cond) == IF IsSemver(v) THEN SemverMatches(v, cond) ELSE VerbalMatches(v, cond)

MatchesAll(v, predicates) == \A i \in DOMAIN predicates : Matches(v, predicates[i])
=============================================================================
