------------------------- MODULE Installation_proof -------------------------
(***************************************************************************)
(* For any programs, projects and remotes, whatever fails and whenever a   *)
(* process is killed: what a resolver has installed lies in whole clones,  *)
(* nobody clones what it could have found, a resolver that is ready has a  *)
(* package for every dependency of its manifest, and what is cloned is the *)
(* newest version the manifest admits.                                     *)
(*                                                                         *)
(* What the registries compute by recursive functions is reasoned about    *)
(* by the least index at which a claim would fail (Least).                 *)
(***************************************************************************)
EXTENDS Installation, FiniteSetTheorems, FunctionTheorems, SequenceTheorems, WellFoundedInduction, TLAPS

-----------------------------------------------------------------------------
(* Functions that follow a sequence, and sequences of whatever elements.   *)

\* A set of natural numbers has a least.
LEMMA Least ==
  ASSUME NEW S \in SUBSET Nat, S # {}
  PROVE  \E m \in S : \A n \in S : m <= n
<1> DEFINE R == OpToRel(<, Nat)
<1>1. IsWellFoundedOn(R, Nat)
  BY NatLessThanWellFounded
<1>2. \A x, y \in Nat : x < y => << x, y >> \in R
  BY DEF OpToRel
<1> HIDE DEF R
<1>3. PICK m \in S : \A n \in S : << n, m >> \notin R
  BY <1>1, WFMin
<1>4. \A n \in S : n \in Nat
  OBVIOUS
<1> QED
  <2> SUFFICES ASSUME NEW n \in S PROVE m <= n
    OBVIOUS
  <2>1. ~(n < m)
    BY <1>2, <1>3, <1>4
  <2> QED
    BY <1>4, <2>1

\* A function can be computed step by step.
\* What follows what, of elements of T, along a sequence of N.
Steps(N, T) == [(1 .. N) \X T -> T]
Computes(f, N, T, base, step) ==
  /\ f \in [0 .. N -> T]
  /\ \A n \in 0 .. N : f[n] = IF n = 0 THEN base ELSE step[<< n, f[n - 1] >>]

\* A function that computes along a sequence exists.
LEMMA Computed ==
  ASSUME NEW N \in Nat, NEW T, NEW base \in T, NEW step \in Steps(N, T)
  PROVE  \E f : Computes(f, N, T, base, step)
<1>0. step \in [(1 .. N) \X T -> T]
  BY DEF Steps
<1> DEFINE Solves(f, k) ==
             /\ f \in [0 .. k -> T]
             /\ \A n \in 0 .. k : f[n] = IF n = 0 THEN base ELSE step[<< n, f[n - 1] >>]
           Bad == {k \in 0 .. N : ~\E f : Solves(f, k)}
<1>1. SUFFICES Bad = {}
  <2>1. N \in 0 .. N /\ \A f : Solves(f, N) <=> Computes(f, N, T, base, step)
    BY DEF Computes
  <2> QED
    BY <2>1
<1>2. SUFFICES ASSUME Bad # {} PROVE FALSE
  OBVIOUS
<1>3. PICK m \in Bad : \A n \in Bad : m <= n
  <2>1. Bad \in SUBSET Nat
    OBVIOUS
  <2> QED
    BY <1>2, <2>1, Least
<1>4. m # 0
  <2>1. Solves([n \in 0 .. 0 |-> base], 0)
    OBVIOUS
  <2> QED BY <2>1, <1>3
<1>5. m - 1 \in 0 .. N /\ m - 1 \notin Bad
  BY <1>3, <1>4
<1>6. PICK f : Solves(f, m - 1)
  BY <1>5
<1> DEFINE g == [n \in 0 .. m |-> IF n = m THEN step[<< m, f[m - 1] >>] ELSE f[n]]
<1>7. f[m - 1] \in T /\ m \in 1 .. N
  BY <1>3, <1>4, <1>6
<1>8. \A n \in 0 .. m : n # m => n \in 0 .. m - 1 /\ (n # 0 => n - 1 \in 0 .. m - 1)
  BY <1>7
<1>9. Solves(g, m)
  <2>1. ASSUME NEW n \in 0 .. m
        PROVE  g[n] \in T /\ g[n] = IF n = 0 THEN base ELSE step[<< n, g[n - 1] >>]
    <3>1. CASE n = m
      <4>1. n # 0 /\ g[n] = step[<< m, f[m - 1] >>] /\ g[n - 1] = f[m - 1]
        BY <3>1, <1>7
      <4>2. << m, f[m - 1] >> \in (1 .. N) \X T
        BY <1>7
      <4> QED
        BY <3>1, <4>1, <4>2, <1>0
    <3>2. CASE n # m
      <4>1. g[n] = f[n] /\ f[n] \in T
        BY <3>2, <1>6, <1>8
      <4>2. CASE n = 0
        BY <4>1, <4>2, <1>6, <1>8, <3>2
      <4>3. CASE n # 0
        <5>1. n - 1 \in 0 .. m /\ n - 1 # m
          BY <4>3, <3>2
        <5>2. g[n - 1] = f[n - 1]
          BY <5>1
        <5> QED
          BY <4>1, <4>3, <5>2, <1>6, <1>8, <3>2
      <4> QED
        BY <4>2, <4>3
    <3> QED
      BY <3>1, <3>2
  <2>2. g = [n \in 0 .. m |-> g[n]]
    OBVIOUS
  <2> HIDE DEF g
  <2> QED
    BY <2>1, <2>2
<1>10. m \in 0 .. N /\ ~\E h : Solves(h, m)
  BY <1>3
<1> QED
  BY <1>9, <1>10
-----------------------------------------------------------------------------
(* Sequences whose elements may be anything.                               *)

\* The elements of a manifest or a resolver are of no one set.
IsSequence(s) == \E T : s \in Seq(T)

\* What is known of a sequence, and of the ways to make one.
LEMMA SequenceShape ==
  ASSUME NEW s, IsSequence(s)
  PROVE  Len(s) \in Nat /\ DOMAIN s = 1 .. Len(s)
<1>1. PICK T : s \in Seq(T)
  BY DEF IsSequence
<1> QED
  BY <1>1

LEMMA EmptySequence == IsSequence(<< >>) /\ Len(<< >>) = 0 /\ DOMAIN << >> = {}
<1>1. << >> \in Seq({})
  OBVIOUS
<1> QED
  BY <1>1 DEF IsSequence

LEMMA OneElement ==
  ASSUME NEW x
  PROVE  IsSequence(<< x >>) /\ Len(<< x >>) = 1 /\ DOMAIN << x >> = {1} /\ << x >>[1] = x
<1>1. << x >> \in Seq({x})
  OBVIOUS
<1>2. Len(<< x >>) = 1 /\ << x >>[1] = x
  OBVIOUS
<1>3. IsSequence(<< x >>)
  BY <1>1 DEF IsSequence
<1>4. DOMAIN << x >> = {1}
  BY <1>2, <1>3, SequenceShape
<1> QED
  BY <1>2, <1>3, <1>4

LEMMA Appended ==
  ASSUME NEW s, NEW x, IsSequence(s)
  PROVE  /\ IsSequence(Append(s, x))
         /\ Len(Append(s, x)) = Len(s) + 1
         /\ DOMAIN Append(s, x) = 1 .. Len(s) + 1
         /\ \A i \in 1 .. Len(s) : Append(s, x)[i] = s[i]
         /\ Append(s, x)[Len(s) + 1] = x
<1>1. PICK T : s \in Seq(T)
  BY DEF IsSequence
<1> DEFINE U == T \cup {x}
<1>2. s \in Seq(U) /\ x \in U
  BY <1>1
<1> HIDE DEF U
<1>3. Append(s, x) \in Seq(U)
  BY <1>2
<1>4. IsSequence(Append(s, x))
  BY <1>3 DEF IsSequence
<1>5. Len(Append(s, x)) = Len(s) + 1
  BY <1>2
<1> QED
  BY <1>2, <1>3, <1>4, <1>5

LEMMA Concatenated ==
  ASSUME NEW s, NEW t, IsSequence(s), IsSequence(t)
  PROVE  /\ IsSequence(s \o t)
         /\ Len(s \o t) = Len(s) + Len(t)
         /\ DOMAIN (s \o t) = 1 .. Len(s) + Len(t)
         /\ \A i \in 1 .. Len(s) : (s \o t)[i] = s[i]
         /\ \A i \in 1 .. Len(t) : (s \o t)[Len(s) + i] = t[i]
         /\ \A i \in DOMAIN (s \o t) :
              \/ i \in DOMAIN s /\ (s \o t)[i] = s[i]
              \/ i - Len(s) \in DOMAIN t /\ (s \o t)[i] = t[i - Len(s)]
<1>1. PICK T : s \in Seq(T)
  BY DEF IsSequence
<1>2. PICK U : t \in Seq(U)
  BY DEF IsSequence
<1> DEFINE W == T \cup U
<1>3. s \in Seq(W) /\ t \in Seq(W)
  BY <1>1, <1>2
<1> HIDE DEF W
<1>4. (s \o t) \in Seq(W) /\ Len(s \o t) = Len(s) + Len(t)
  BY <1>3
<1>5. IsSequence(s \o t)
  BY <1>4 DEF IsSequence
<1>6. Len(s) \in Nat /\ Len(t) \in Nat /\ DOMAIN s = 1 .. Len(s) /\ DOMAIN t = 1 .. Len(t)
  BY <1>3
<1>7. \A i \in 1 .. Len(s) : (s \o t)[i] = s[i]
  BY <1>3, <1>6
<1>8. \A i \in 1 .. Len(t) : (s \o t)[Len(s) + i] = t[i]
  BY <1>3, <1>6
<1>9. DOMAIN (s \o t) = 1 .. Len(s) + Len(t)
  BY <1>4
<1>10. \A i \in DOMAIN (s \o t) :
              \/ i \in DOMAIN s /\ (s \o t)[i] = s[i]
              \/ i - Len(s) \in DOMAIN t /\ (s \o t)[i] = t[i - Len(s)]
  <2> SUFFICES ASSUME NEW i \in 1 .. Len(s) + Len(t), i \notin 1 .. Len(s)
               PROVE  i - Len(s) \in 1 .. Len(t) /\ (s \o t)[i] = t[i - Len(s)]
    BY <1>6, <1>7, <1>9
  <2>1. i - Len(s) \in 1 .. Len(t) /\ Len(s) + (i - Len(s)) = i
    BY <1>6
  <2> QED
    BY <2>1, <1>8
<1> QED
  BY <1>4, <1>5, <1>7, <1>8, <1>9, <1>10

-----------------------------------------------------------------------------
(* Keys, and what is offered for them.                                     *)

\* A dependency is looked for under its source and its name.
LEMMA Keys ==
  ASSUME NEW dep
  PROVE  /\ IsSequence(DependencyKeys(dep))
         /\ \A i \in DOMAIN DependencyKeys(dep) : DependencyKeys(dep)[i] \in { dep.source, dep.name }
<1> DEFINE s == IF dep.source = "" THEN << >> ELSE << dep.source >>
           t == IF dep.name \in { "", dep.source } THEN << >> ELSE << dep.name >>
<1>0. ASSUME NEW x
      PROVE  IsSequence(<< x >>) /\ \A i \in DOMAIN << x >> : << x >>[i] = x
  BY OneElement
<1>1. IsSequence(s) /\ \A i \in DOMAIN s : s[i] \in { dep.source, dep.name }
  <2>1. CASE dep.source = ""
    BY <2>1, EmptySequence
  <2>2. CASE dep.source # ""
    BY <2>2, <1>0
  <2> QED
    BY <2>1, <2>2
<1>2. IsSequence(t) /\ \A i \in DOMAIN t : t[i] \in { dep.source, dep.name }
  <2>1. CASE dep.name \in { "", dep.source }
    BY <2>1, EmptySequence
  <2>2. CASE dep.name \notin { "", dep.source }
    BY <2>2, <1>0
  <2> QED
    BY <2>1, <2>2
<1>3. DependencyKeys(dep) = s \o t
  BY DEF DependencyKeys
<1> HIDE DEF s, t
<1> QED
  BY <1>1, <1>2, <1>3, Concatenated

\* What is available for a key is from there, and from Git only in a clone.
LEMMA AvailablePackages ==
  ASSUME NEW key, NEW project, NEW seen, NEW found \in Available(key, project, seen)
  PROVE  /\ found.package.source = key
         /\ found.package.registry = "git" =>
              \E c \in seen : c.source = key /\ IsAt(c, found.package)
<1>1. CASE found \in { Finding(<< 1 >>, Package("cave", own, LocalVersion, LocalVersion)) :
                         own \in {key} \cap {OwnSource(project)} }
  BY <1>1 DEF Finding, Package
<1>2. CASE found \in { Finding(<< 3 >>, Package("embedded", own, LatestVersion, LatestVersion)) :
                         own \in {key} \cap {StandardLibrary.source} }
  BY <1>2 DEF Finding, Package
<1>3. CASE found \in ClonesOf(key, seen)
  <2>1. PICK c \in seen : c.source = key /\ found \in AliasesInWorktree(c)
    BY <1>3 DEF ClonesOf
  <2>2. \E rank, version : found = Finding(rank, Package("git", c.source, version, c.at))
    BY <2>1 DEF AliasesInWorktree
  <2>3. found.package.source = c.source /\ found.package.at = c.at
    BY <2>2 DEF Finding, Package
  <2> QED
    BY <2>1, <2>3 DEF IsAt
<1> QED
  BY <1>1, <1>2, <1>3 DEF Available

\* What is written of a version reads as that version.
\* A version is what its text is parsed as: a clone is found by what its
\* directory is called.
Readable(v) == Parse(Text(v)) = v

\* A clone is found in its directory, under the version it was cloned as.
LEMMA CloneIsAvailable ==
  ASSUME NEW key, NEW project, NEW seen, NEW c \in seen, c.source = key, Readable(c.at)
  PROVE  \E found \in Available(key, project, seen) : found.package.version = c.at
<1> DEFINE named == Text(Parse(Text(c.at)))
           texts == {named} \cup { Text(Parse(t.text)) : t \in TagsOf(c) }
           behind(text) == IF text = named THEN << >> ELSE text
           found == Finding(<< 2 >> \o Text(c.at) \o << 0 >> \o behind(named),
                            Package("git", c.source, Parse(named), c.at))
<1>1. found \in AliasesInWorktree(c)
  BY DEF AliasesInWorktree
<1>2. found.package.version = Parse(named)
  BY DEF Finding, Package
<1>3. Parse(named) = c.at
  BY DEF Readable
<1>4. found \in Available(key, project, seen)
  BY <1>1 DEF Available, ClonesOf
<1> QED
  BY <1>2, <1>3, <1>4
-----------------------------------------------------------------------------
(* A version and its text.                                                 *)

\* The text of a pre-release is one.
LEMMA PreReleaseTexts ==
  ASSUME NEW pre \in Seq(Seq(Nat))
  PROVE  PreReleaseText(pre) \in Seq(Nat)
<1> DEFINE N == Len(pre)
           T == Seq(Nat)
           Next1(n, before) == before \o << IF n = 1 THEN HyphenRank ELSE DotRank >> \o pre[n]
           IsWritten(g) == g = [ n \in 0 .. N |-> IF n = 0 THEN << >> ELSE Next1(n, g[n - 1]) ]
           step == [ x \in (1 .. N) \X T |-> Next1(x[1], x[2]) ]
<1>1. N \in Nat /\ << >> \in T
  OBVIOUS
<1>2. \A n \in 1 .. N, before \in T : Next1(n, before) \in T
  <2> SUFFICES ASSUME NEW n \in 1 .. N, NEW before \in T PROVE Next1(n, before) \in T
    OBVIOUS
  <2>1. << IF n = 1 THEN HyphenRank ELSE DotRank >> \in T
    BY DEF HyphenRank, DotRank
  <2>2. pre[n] \in T
    OBVIOUS
  <2> QED
    BY <2>1, <2>2
<1> HIDE DEF Next1
<1>3. step \in Steps(N, T)
  BY <1>2 DEF Steps
<1>4. \A n \in 1 .. N, before \in T : step[<< n, before >>] = Next1(n, before)
  OBVIOUS
<1>5. \E g : IsWritten(g)
  <2> HIDE DEF step, T, N
  <2>1. PICK g \in [ 0 .. N -> T ] : \A n \in 0 .. N :
          g[n] = IF n = 0 THEN << >> ELSE step[<< n, g[n - 1] >>]
    <3> DEFINE e == << >>
    <3>1. e \in T
      BY <1>1
    <3> HIDE DEF e
    <3>2. \E g : Computes(g, N, T, e, step)
      BY <1>1, <1>3, <3>1, Computed
    <3> QED
      BY <3>2 DEF e, Computes
  <2>2. ASSUME NEW n \in 0 .. N
        PROVE  g[n] = IF n = 0 THEN << >> ELSE Next1(n, g[n - 1])
    <3>1. CASE n = 0
      BY <3>1, <2>1
    <3>2. CASE n # 0
      <4>1. n \in 1 .. N /\ n - 1 \in 0 .. N
        BY <3>2, <1>1
      <4> QED
        BY <4>1, <3>2, <2>1, <1>4
    <3> QED
      BY <3>1, <3>2
  <2>3. g = [ n \in 0 .. N |-> g[n] ]
    OBVIOUS
  <2>4. IsWritten(g)
    BY <2>2, <2>3
  <2> QED
    BY <2>4
<1> DEFINE f == CHOOSE g : IsWritten(g)
<1>6. IsWritten(f)
  BY <1>5
<1> HIDE DEF f
<1>7. \A n \in 0 .. N : f[n] = IF n = 0 THEN << >> ELSE Next1(n, f[n - 1])
  BY <1>6
<1>8. \A n \in 0 .. N : f[n] \in T
  <2> DEFINE Bad == { n \in 0 .. N : f[n] \notin T }
  <2> SUFFICES ASSUME Bad # {} PROVE FALSE
    OBVIOUS
  <2>1. PICK m \in Bad : \A n \in Bad : m <= n
    <3>1. Bad \in SUBSET Nat
      OBVIOUS
    <3> QED
      BY <3>1, Least
  <2>2. m # 0
    BY <2>1, <1>1, <1>7
  <2>3. m - 1 \in 0 .. N /\ m - 1 \notin Bad /\ m \in 1 .. N
    BY <2>1, <2>2, <1>1
  <2>4. f[m] = Next1(m, f[m - 1])
    BY <2>1, <2>2, <1>7
  <2> QED
    BY <2>1, <2>3, <2>4, <1>2
<1>9. PreReleaseText(pre) = f[N]
  BY DEF PreReleaseText, f, Next1
<1> QED
  BY <1>1, <1>8, <1>9

\* A text behind another.
LEMMA BehindPrefix ==
  ASSUME NEW T, NEW s \in Seq(T), NEW t \in Seq(T), s # << >>
  PROVE  (s \o t) \in Seq(T) /\ Len(s \o t) >= Len(s) /\ Head(s \o t) = s[1]
<1>1. (s \o t) \in Seq(T) /\ Len(s \o t) = Len(s) + Len(t)
  OBVIOUS
<1>2. Len(s) \in Nat /\ Len(t) \in Nat /\ Len(s) # 0
  OBVIOUS
<1>3. (s \o t)[1] = s[1]
  BY <1>2
<1> QED
  BY <1>1, <1>2, <1>3

\* The text of a semantic version is told from that of a branch.
LEMMA SemverTexts ==
  ASSUME NEW v \in Semvers
  PROVE  /\ SemverText(v) \in Seq(Nat) /\ Len(SemverText(v)) >= 5
         /\ Head(SemverText(v)) = 10 + v.major /\ Head(SemverText(v)) # LetterV
         /\ Spelled[v] = SemverText(v) /\ IsSemver(v)
<1>1. v \in SemverType
  BY SemversAssumption
<1>2. PreReleaseText(v.pre) \in Seq(Nat)
  BY <1>1, PreReleaseTexts DEF SemverType
<1> DEFINE s == << 10 + v.major, DotRank, 10 + v.minor, DotRank, 10 + v.patch >>
           t == PreReleaseText(v.pre)
<1>3. s \in Seq(Nat) /\ Len(s) = 5 /\ s[1] = 10 + v.major
  BY <1>1, SMTT(60) DEF SemverType, DotRank
<1>4. SemverText(v) = s \o t
  BY DEF SemverText
<1>a. t \in Seq(Nat)
  BY <1>2
<1> HIDE DEF s, t
<1>5. s # << >>
  <2>1. Len(s) # Len(<< >>)
    BY <1>3, EmptySequence
  <2> QED
    BY <2>1
<1>6. (s \o t) \in Seq(Nat) /\ Len(s \o t) >= Len(s) /\ Head(s \o t) = s[1]
  BY <1>a, <1>3, <1>5, BehindPrefix
<1>7. 10 + v.major # LetterV
  BY <1>1 DEF SemverType, LetterV
<1>8. Spelled[v] = SemverText(v)
  BY DEF Spelled
<1>9. IsSemver(v)
  BY <1>1 DEF IsSemver, SemverType
<1> QED
  BY <1>3, <1>4, <1>6, <1>7, <1>8, <1>9

\* What is parsed reads as itself, and so does the name a HEAD is given.
LEMMA ParsedReads == \A text : Readable(Parse(text))
<1> SUFFICES ASSUME NEW text PROVE Readable(Parse(text))
  OBVIOUS
<1> DEFINE plain(x) == IF x # << >> /\ Head(x) = LetterV THEN Tail(x) ELSE x
           spelled(x) == { v \in Semvers : Spelled[v] = plain(x) }
<1>1. \A x : Parse(x) = IF spelled(x) = {} THEN Verbal(x) ELSE CHOOSE v \in spelled(x) : TRUE
  BY DEF Parse
<1>2. CASE spelled(text) = {}
  <2>1. Parse(text) = Verbal(text)
    BY <1>1, <1>2
  <2>2. ~IsSemver(Verbal(text)) /\ Text(Verbal(text)) = text
    BY DEF IsSemver, Verbal, Text
  <2> QED
    BY <2>1, <2>2 DEF Readable
<1>3. CASE spelled(text) # {}
  <2>1. PICK w \in spelled(text) : Parse(text) = w
    BY <1>1, <1>3
  <2>2. w \in Semvers
    OBVIOUS
  <2> DEFINE s == SemverText(w)
  <2>3. Text(w) = s /\ Spelled[w] = s /\ Head(s) # LetterV
    BY <2>2, SemverTexts DEF Text
  <2>4. plain(s) = s
    BY <2>3
  <2>5. \A v \in spelled(s) : v = w
    BY <2>2, <2>3, <2>4, SemversAssumption
  <2>6. w \in spelled(s)
    BY <2>2, <2>3, <2>4
  <2>7. Parse(s) \in spelled(s)
    BY <2>6, <1>1
  <2> QED
    BY <2>1, <2>3, <2>5, <2>7 DEF Readable
<1> QED
  BY <1>2, <1>3

\* "latest" reads as a verbal version of that text.
LEMMA LatestReads == Readable(LatestVersion)
<1> DEFINE l == << 32 >>
<1>1. Parse(l) = Verbal(l)
  <2>1. l # << >> /\ Head(l) = 32 /\ Len(l) = 1
    OBVIOUS
  <2>2. \A v \in Semvers : Spelled[v] # l
    <3> SUFFICES ASSUME NEW v \in Semvers, Spelled[v] = l PROVE FALSE
      OBVIOUS
    <3>1. Len(Spelled[v]) >= 5
      BY SemverTexts
    <3> QED
      BY <3>1, <2>1
  <2> QED
    BY <2>1, <2>2 DEF Parse, LetterV
<1>2. ~IsSemver(Verbal(l)) /\ Text(Verbal(l)) = l
  BY DEF IsSemver, Verbal, Text
<1> QED
  BY <1>1, <1>2 DEF Readable, LatestVersion

-----------------------------------------------------------------------------
(* What a remote offers.                                                   *)

LEMMA FunctionSequence ==
  ASSUME NEW n \in Nat, NEW f, DOMAIN f = 1 .. n, f = [ i \in 1 .. n |-> f[i] ]
  PROVE  IsSequence(f) /\ Len(f) = n
<1> DEFINE T == { f[i] : i \in 1 .. n }
<1>1. f \in [ 1 .. n -> T ]
  OBVIOUS
<1>2. f \in Seq(T)
  BY <1>1
<1>3. Len(f) = n
  BY <1>2
<1> QED
  BY <1>2, <1>3 DEF IsSequence

\* Finitely many references, finitely many names.
LEMMA FiniteTexts ==
  ASSUME NEW R, IsFiniteSet(R)
  PROVE  IsFiniteSet({ r.text : r \in R })
<1> DEFINE T == { r.text : r \in R }
           f == [ r \in R |-> r.text ]
<1>1. f \in Surjection(R, T)
  BY DEF Surjection
<1> QED
  BY <1>1, FS_Surjection

\* Every candidate can be told from its name again.
LEMMA CandidatesRead ==
  ASSUME NEW remote, IsFiniteSet(remote.refs)
  PROVE  /\ IsSequence(Candidates(remote))
         /\ \A i \in DOMAIN Candidates(remote) : Readable(Candidates(remote)[i].version)
<1> DEFINE texts(kind) == { ref.text : ref \in { ref \in remote.refs : ref.kind = kind } }
           named(kind) == InTextOrder(texts(kind))
           plain(kind) == [ i \in DOMAIN named(kind) |->
                              [ kind |-> kind, text |-> named(kind)[i], version |-> Parse(named(kind)[i]) ] ]
           head == [ kind |-> "branch", text |-> remote.head, version |-> LatestVersion ]
           first == IF named("tag") = << >> THEN << head >> ELSE << >>
           Fine(s) == IsSequence(s) /\ \A i \in DOMAIN s : Readable(s[i].version)
<1>1. ASSUME NEW kind
      PROVE  Fine(plain(kind))
  <2>1. IsFiniteSet(texts(kind))
    <3>1. IsFiniteSet({ ref \in remote.refs : ref.kind = kind })
      BY FS_Subset
    <3> QED
      BY <3>1, FiniteTexts
  <2>2. Cardinality(texts(kind)) \in Nat
    BY <2>1, FS_CardinalityType
  <2>3. DOMAIN named(kind) = 1 .. Cardinality(texts(kind))
    BY DEF InTextOrder
  <2> HIDE DEF named, texts
  <2>4. IsSequence(plain(kind))
    BY <2>2, <2>3, FunctionSequence
  <2>5. \A i \in DOMAIN plain(kind) : plain(kind)[i].version = Parse(named(kind)[i])
    OBVIOUS
  <2> QED
    BY <2>4, <2>5, ParsedReads
<1>2. Fine(first)
  <2>1. head.version = LatestVersion
    OBVIOUS
  <2> HIDE DEF head
  <2>2. CASE named("tag") = << >>
    BY <2>1, <2>2, OneElement, LatestReads
  <2>3. CASE named("tag") # << >>
    BY <2>3, EmptySequence
  <2> QED
    BY <2>2, <2>3
<1>3. \A s, t : Fine(s) /\ Fine(t) => Fine(s \o t)
  BY Concatenated
<1>4. Candidates(remote) = first \o plain("branch") \o plain("tag")
  BY DEF Candidates
<1> HIDE DEF Fine, first, plain
<1>5. Fine(Candidates(remote))
  BY <1>1, <1>2, <1>3, <1>4
<1> QED
  BY <1>5 DEF Fine

\* Joining sequences of elements of T gives such a sequence.
LEMMA Joined ==
  ASSUME NEW T, NEW s \in Seq(T), NEW t \in Seq(T)
  PROVE  /\ (s \o t) \in Seq(T)
         /\ s # << >> \/ Len(t) = 1 => (s \o t) # << >>
<1>1. (s \o t) \in Seq(T) /\ Len(s \o t) = Len(s) + Len(t)
  OBVIOUS
<1>2. Len(s) \in Nat /\ Len(t) \in Nat /\ (s # << >> => Len(s) # 0)
  OBVIOUS
<1>3. s # << >> \/ Len(t) = 1 => Len(s \o t) # 0
  BY <1>1, <1>2
<1> QED
  BY <1>1, <1>3

\* To insert loses and invents nothing: the candidate comes behind the last one
\* it is less than.
IsInserted(s, sorted, candidate, place) ==
  /\ Len(s) = Len(sorted) + 1
  /\ \A i \in 1 .. place : s[i] = sorted[i]
  /\ s[place + 1] = candidate
  /\ \A i \in place + 1 .. Len(sorted) : s[i + 1] = sorted[i]
IsPlace(sorted, candidate, place) ==
  /\ \A i \in 1 .. Len(sorted) : place < i => ~Less(candidate.version, sorted[i].version)
  /\ place # 0 => Less(candidate.version, sorted[place].version)

\* Insert puts the candidate at a place from which on nothing is newer than it,
\* and just before which something is that is newer.
LEMMA Inserted ==
  ASSUME NEW T, NEW sorted \in Seq(T), NEW candidate \in T
  PROVE  /\ Insert(sorted, candidate) \in Seq(T)
         /\ \E place \in 0 .. Len(sorted) :
              /\ IsInserted(Insert(sorted, candidate), sorted, candidate, place)
              /\ IsPlace(sorted, candidate, place)
<1> DEFINE greater == { i \in DOMAIN sorted : Less(candidate.version, sorted[i].version) }
           place == IF greater = {} THEN 0 ELSE CHOOSE i \in greater : \A j \in greater : j <= i
<1>1. Len(sorted) \in Nat /\ DOMAIN sorted = 1 .. Len(sorted) /\ \A i \in 1 .. Len(sorted) : sorted[i] \in T
  OBVIOUS
<1>2. /\ place \in 0 .. Len(sorted)
      /\ \A i \in 1 .. Len(sorted) : place < i => ~Less(candidate.version, sorted[i].version)
      /\ place # 0 => Less(candidate.version, sorted[place].version)
  <2>1. CASE greater = {}
    <3>1. place = 0
      BY <2>1
    <3> QED
      BY <1>1, <2>1, <3>1
  <2>2. CASE greater # {}
    <3> DEFINE mirror == { Len(sorted) - i : i \in greater }
    <3>1. mirror # {} /\ mirror \in SUBSET Nat
      BY <2>2, <1>1
    <3>2. PICK m \in mirror : \A n \in mirror : m <= n
      BY <3>1, Least
    <3>3. PICK k \in greater : m = Len(sorted) - k
      OBVIOUS
    <3>4. \A j \in greater : j <= k
      <4> SUFFICES ASSUME NEW j \in greater PROVE j <= k
        OBVIOUS
      <4>1. Len(sorted) - j \in mirror /\ j \in Nat /\ k \in Nat
        BY <1>1
      <4>2. m <= Len(sorted) - j
        BY <4>1, <3>2
      <4> HIDE DEF mirror, greater
      <4> QED
        BY <4>1, <4>2, <3>3, <1>1
    <3>5. place \in greater /\ \A j \in greater : j <= place
      BY <2>2, <3>4
    <3>6. place \in 1 .. Len(sorted)
      BY <3>5, <1>1
    <3> HIDE DEF place
    <3>7. \A i \in 1 .. Len(sorted) : place < i => i \notin greater
      <4> SUFFICES ASSUME NEW i \in 1 .. Len(sorted), place < i, i \in greater PROVE FALSE
        OBVIOUS
      <4>1. i <= place
        BY <3>5
      <4> QED
        BY <1>1, <3>6, <4>1
    <3>8. \A i \in 1 .. Len(sorted) : place < i => ~Less(candidate.version, sorted[i].version)
      BY <1>1, <3>7
    <3> QED
      BY <1>1, <3>5, <3>6, <3>8
  <2> QED
    BY <2>1, <2>2
<1> HIDE DEF place, greater
<1> DEFINE n == Len(sorted)
           front == SubSeq(sorted, 1, place)
           back == SubSeq(sorted, place + 1, n)
           one == << candidate >>
<1>3. n \in Nat /\ place \in 0 .. n /\ place \in Nat /\ \A i \in 1 .. n : sorted[i] \in T
  BY <1>1, <1>2
<1>4. front \in Seq(T) /\ Len(front) = place /\ \A i \in 1 .. place : front[i] = sorted[i]
  <2>1. \A i \in 1 .. place : sorted[i] \in T
    BY <1>3
  <2> QED
    BY <2>1, <1>3, SubSeqProperties
<1>5. back \in Seq(T) /\ Len(back) = n - place /\ \A i \in 1 .. n - place : back[i] = sorted[place + i]
  <2>1. \A i \in place + 1 .. n : sorted[i] \in T
    BY <1>3
  <2>2. place + 1 \in Int /\ n \in Int /\ place + 1 <= n + 1
    BY <1>3
  <2>3. /\ back \in Seq(T)
        /\ Len(back) = IF place + 1 <= n THEN n - (place + 1) + 1 ELSE 0
        /\ \A i \in 1 .. n - (place + 1) + 1 : back[i] = sorted[(place + 1) + i - 1]
    BY <2>1, <2>2, SubSeqProperties
  <2>4. Len(back) = n - place
    BY <1>3, <2>3
  <2>5. \A i \in 1 .. n - place : back[i] = sorted[place + i]
    <3> SUFFICES ASSUME NEW i \in 1 .. n - place PROVE back[i] = sorted[place + i]
      OBVIOUS
    <3>1. i \in 1 .. n - (place + 1) + 1 /\ (place + 1) + i - 1 = place + i
      BY <1>3
    <3> QED
      BY <2>3, <3>1
  <2> QED
    BY <2>3, <2>4, <2>5
<1>6. one \in Seq(T) /\ Len(one) = 1 /\ one[1] = candidate
  OBVIOUS
<1>7. Insert(sorted, candidate) = front \o one \o back
  BY DEF Insert, place, greater
<1> HIDE DEF front, back, one, n
<1> DEFINE head == front \o one
<1>8. /\ head \in Seq(T) /\ Len(head) = place + 1
      /\ (\A i \in 1 .. place : head[i] = sorted[i]) /\ head[place + 1] = candidate
  <2>1. /\ head \in Seq(T) /\ Len(head) = Len(front) + Len(one)
        /\ \A i \in 1 .. Len(front) + Len(one) :
             head[i] = IF i <= Len(front) THEN front[i] ELSE one[i - Len(front)]
    BY <1>4, <1>6, ConcatProperties
  <2> HIDE DEF head
  <2>2. /\ head \in Seq(T) /\ Len(head) = place + 1
        /\ \A i \in 1 .. place + 1 : head[i] = IF i <= place THEN front[i] ELSE one[i - place]
    BY <1>4, <1>6, <2>1
  <2>3. \A i \in 1 .. place : head[i] = sorted[i]
    BY <1>3, <1>4, <2>2
  <2>4. place + 1 \in 1 .. place + 1 /\ ~(place + 1 <= place) /\ (place + 1) - place = 1
    BY <1>3
  <2>5. head[place + 1] = candidate
    BY <1>6, <2>2, <2>4
  <2> QED
    BY <2>2, <2>3, <2>5
<1> HIDE DEF head
<1> DEFINE s == head \o back
<1>9. /\ s \in Seq(T) /\ Len(s) = n + 1
      /\ \A i \in 1 .. place + 1 : s[i] = head[i]
      /\ \A i \in 1 .. n - place : s[place + 1 + i] = back[i]
  <2>1. /\ s \in Seq(T) /\ Len(s) = Len(head) + Len(back)
        /\ \A i \in 1 .. Len(head) + Len(back) :
             s[i] = IF i <= Len(head) THEN head[i] ELSE back[i - Len(head)]
    BY <1>5, <1>8, ConcatProperties
  <2> HIDE DEF s
  <2>2. /\ s \in Seq(T) /\ Len(s) = (place + 1) + (n - place)
        /\ \A i \in 1 .. (place + 1) + (n - place) :
             s[i] = IF i <= place + 1 THEN head[i] ELSE back[i - (place + 1)]
    BY <1>5, <1>8, <2>1
  <2>3. (place + 1) + (n - place) = n + 1
    BY <1>3
  <2>4. \A i \in 1 .. place + 1 : i \in 1 .. (place + 1) + (n - place) /\ i <= place + 1
    BY <1>3
  <2>5. \A i \in 1 .. n - place : /\ place + 1 + i \in 1 .. (place + 1) + (n - place)
                                   /\ ~(place + 1 + i <= place + 1) /\ (place + 1 + i) - (place + 1) = i
    BY <1>3
  <2>6. \A i \in 1 .. n - place : s[place + 1 + i] = back[i]
    BY <2>2, <2>5
  <2> QED
    BY <2>2, <2>3, <2>4, <2>6
<1>10. s = Insert(sorted, candidate)
  BY <1>7 DEF head
<1> HIDE DEF s
<1>11. \A i \in place + 1 .. n : s[i + 1] = sorted[i]
  <2> SUFFICES ASSUME NEW i \in place + 1 .. n PROVE s[i + 1] = sorted[i]
    OBVIOUS
  <2>1. i - place \in 1 .. n - place /\ place + 1 + (i - place) = i + 1 /\ place + (i - place) = i
    BY <1>3
  <2> QED
    BY <1>5, <1>9, <2>1
<1>12. IsInserted(s, sorted, candidate, place)
  <2>1. \A i \in 1 .. place : s[i] = sorted[i]
    BY <1>3, <1>8, <1>9
  <2>2. s[place + 1] = candidate
    BY <1>3, <1>8, <1>9
  <2> QED
    BY <1>9, <1>11, <2>1, <2>2 DEF IsInserted, n
<1>13. IsPlace(sorted, candidate, place)
  BY <1>2 DEF IsPlace
<1> QED
  BY <1>2, <1>9, <1>10, <1>12, <1>13

\* The candidates that fit, and the sequences of them.
Fits(remote, predicates) ==
  { Candidates(remote)[i] : i \in { i \in DOMAIN Candidates(remote) :
                                      MatchesAll(Candidates(remote)[i].version, predicates) } }

\* To sort is to insert one candidate that fits after the other.
SortStep(remote, predicates, n, before) ==
  IF MatchesAll(Candidates(remote)[n].version, predicates)
    THEN Insert(before, Candidates(remote)[n]) ELSE before
Sorts(f, remote, predicates) ==
  /\ f[0] = << >>
  /\ \A n \in 1 .. Len(Candidates(remote)) : f[n] = SortStep(remote, predicates, n, f[n - 1])
  /\ \A n \in 0 .. Len(Candidates(remote)) : f[n] \in Seq(Fits(remote, predicates))
  /\ InsertionSorted(remote, predicates) = f[Len(Candidates(remote))]

\* What fits is sorted by insertions, one candidate after another.
LEMMA Sorting ==
  ASSUME NEW remote, NEW predicates, IsFiniteSet(remote.refs)
  PROVE  \E f : Sorts(f, remote, predicates)
<1> DEFINE listed == Candidates(remote)
           N == Len(listed)
           T == Seq(Fits(remote, predicates))
           Next1(n, before) ==
             IF MatchesAll(listed[n].version, predicates) THEN Insert(before, listed[n]) ELSE before
           IsSorting(g) == g = [ n \in 0 .. N |-> IF n = 0 THEN << >> ELSE Next1(n, g[n - 1]) ]
           step == [ x \in (1 .. N) \X T |-> Next1(x[1], x[2]) ]
<1>1. N \in Nat /\ DOMAIN listed = 1 .. N /\ << >> \in T
  BY CandidatesRead, SequenceShape
<1> HIDE DEF listed
<1>2. \A n \in 1 .. N, before \in T : Next1(n, before) \in T
  <2> SUFFICES ASSUME NEW n \in 1 .. N, NEW before \in T, MatchesAll(listed[n].version, predicates)
               PROVE  Insert(before, listed[n]) \in T
    OBVIOUS
  <2>1. listed[n] \in Fits(remote, predicates)
    BY <1>1 DEF listed, Fits
  <2> QED
    BY <2>1, Inserted
<1>a. \A n, before : Next1(n, before) = SortStep(remote, predicates, n, before)
  BY DEF SortStep, listed
<1> HIDE DEF Next1
<1>3. step \in Steps(N, T)
  BY <1>2 DEF Steps
<1>4. \A n \in 1 .. N, before \in T : step[<< n, before >>] = Next1(n, before)
  OBVIOUS
<1>5. \E g : IsSorting(g)
  <2> HIDE DEF step, T, N
  <2> DEFINE e == << >>
  <2>1. e \in T
    BY <1>1
  <2> HIDE DEF e
  <2>2. PICK g : Computes(g, N, T, e, step)
    BY <1>1, <1>3, <2>1, Computed
  <2>3. ASSUME NEW n \in 0 .. N
        PROVE  g[n] = IF n = 0 THEN << >> ELSE Next1(n, g[n - 1])
    <3>1. CASE n = 0
      BY <3>1, <2>2 DEF Computes, e
    <3>2. CASE n # 0
      <4>1. n \in 1 .. N /\ n - 1 \in 0 .. N
        BY <3>2, <1>1
      <4> QED
        BY <4>1, <3>2, <2>2, <1>4 DEF Computes
    <3> QED
      BY <3>1, <3>2
  <2>4. g = [ n \in 0 .. N |-> g[n] ]
    BY <2>2 DEF Computes
  <2>5. IsSorting(g)
    BY <2>3, <2>4
  <2> QED
    BY <2>5
<1> DEFINE f == CHOOSE g : IsSorting(g)
<1>6. IsSorting(f)
  BY <1>5
<1> HIDE DEF f
<1>7. \A n \in 0 .. N : f[n] = IF n = 0 THEN << >> ELSE Next1(n, f[n - 1])
  BY <1>6
<1>8. \A n \in 0 .. N : f[n] \in T
  <2> DEFINE Bad == { n \in 0 .. N : f[n] \notin T }
  <2> SUFFICES ASSUME Bad # {} PROVE FALSE
    OBVIOUS
  <2>1. PICK m \in Bad : \A n \in Bad : m <= n
    <3>1. Bad \in SUBSET Nat
      OBVIOUS
    <3> QED
      BY <3>1, Least
  <2>2. m # 0
    BY <2>1, <1>1, <1>7
  <2>3. m - 1 \in 0 .. N /\ m - 1 \notin Bad /\ m \in 1 .. N
    BY <2>1, <2>2, <1>1
  <2>4. f[m] = Next1(m, f[m - 1])
    BY <2>1, <2>2, <1>7
  <2> QED
    BY <2>1, <2>3, <2>4, <1>2
<1>9. InsertionSorted(remote, predicates) = f[N]
  BY DEF InsertionSorted, f, Next1, listed
<1>10. f[0] = << >>
  BY <1>1, <1>7
<1>11. \A n \in 1 .. N : f[n] = SortStep(remote, predicates, n, f[n - 1])
  <2> SUFFICES ASSUME NEW n \in 1 .. N PROVE f[n] = SortStep(remote, predicates, n, f[n - 1])
    OBVIOUS
  <2>1. n \in 0 .. N /\ n # 0
    BY <1>1
  <2> QED
    BY <1>7, <1>a, <2>1
<1>12. N = Len(Candidates(remote))
  BY DEF listed
<1> HIDE DEF N, T
<1>13. Sorts(f, remote, predicates)
  BY <1>8, <1>9, <1>10, <1>11, <1>12 DEF Sorts, T
<1> QED
  BY <1>13

-----------------------------------------------------------------------------
(* How texts are ordered.                                                  *)

\* A text is a sequence of characters.
LEMMA TextIs ==
  ASSUME NEW s \in Seq(Nat)
  PROVE  Len(s) \in Nat /\ DOMAIN s = 1 .. Len(s) /\ \A k \in 1 .. Len(s) : s[k] \in Nat
OBVIOUS

\* No text comes before itself.
LEMMA TextIrreflexive ==
  ASSUME NEW s \in Seq(Nat)
  PROVE  ~TextBefore(s, s)
BY DEF TextBefore

\* Where two texts part: alike before i, and the first is the less there, or
\* ends before.
PartAt(s, t, i) ==
  /\ 1 <= i /\ i <= Len(t) /\ i <= Len(s) + 1
  /\ \A k \in Nat : 1 <= k /\ k < i => s[k] = t[k]
  /\ i <= Len(s) => s[i] < t[i]

\* A text comes before another if they part at some place, where it ends or has
\* the lesser character.
LEMMA TextParts ==
  ASSUME NEW s \in Seq(Nat), NEW t \in Seq(Nat)
  PROVE  TextBefore(s, t) <=> \E i \in Nat : PartAt(s, t, i)
<1>1. Len(s) \in Nat /\ Len(t) \in Nat /\ DOMAIN t = 1 .. Len(t)
  BY TextIs
<1>2. ASSUME TextBefore(s, t) PROVE \E i \in Nat : PartAt(s, t, i)
  <2>1. PICK i \in 1 .. Len(t) : /\ \A k \in 1 .. i - 1 : k <= Len(s) /\ s[k] = t[k]
                                 /\ i <= Len(s) => s[i] < t[i]
    BY <1>1, <1>2 DEF TextBefore
  <2>2. i <= Len(s) + 1
    <3>1. CASE i = 1
      BY <1>1, <3>1
    <3>2. CASE i # 1
      <4>1. i - 1 \in 1 .. i - 1
        BY <1>1, <3>2
      <4>2. i - 1 <= Len(s)
        BY <2>1, <4>1
      <4> QED
        BY <1>1, <4>2
    <3> QED
      BY <3>1, <3>2
  <2>3. \A k \in Nat : 1 <= k /\ k < i => s[k] = t[k]
    BY <1>1, <2>1
  <2> QED
    BY <1>1, <2>1, <2>2, <2>3 DEF PartAt
<1>3. ASSUME NEW i \in Nat, PartAt(s, t, i) PROVE TextBefore(s, t)
  <2>1. i \in DOMAIN t /\ i <= Len(s) + 1 /\ (i <= Len(s) => s[i] < t[i])
    BY <1>1, <1>3 DEF PartAt
  <2>2. \A k \in 1 .. i - 1 : k \in Nat /\ 1 <= k /\ k < i
    BY <1>3
  <2>3. \A k \in 1 .. i - 1 : k <= Len(s) /\ s[k] = t[k]
    BY <1>1, <1>3, <2>1, <2>2 DEF PartAt
  <2> QED
    BY <2>1, <2>3 DEF TextBefore
<1> QED
  BY <1>2, <1>3

\* What comes before one text comes before all that come after it.
LEMMA TextTransitive ==
  ASSUME NEW s \in Seq(Nat), NEW t \in Seq(Nat), NEW u \in Seq(Nat),
         TextBefore(s, t), TextBefore(t, u)
  PROVE  TextBefore(s, u)
<1>1. PICK i \in Nat : PartAt(s, t, i)
  BY TextParts
<1>2. PICK j \in Nat : PartAt(t, u, j)
  BY TextParts
<1>3. /\ Len(s) \in Nat /\ Len(t) \in Nat /\ Len(u) \in Nat
      /\ \A k \in 1 .. Len(s) : s[k] \in Nat
      /\ \A k \in 1 .. Len(t) : t[k] \in Nat
      /\ \A k \in 1 .. Len(u) : u[k] \in Nat
  BY TextIs
<1>4. CASE i < j
  <2>1. 1 <= i /\ i <= Len(u) /\ i <= Len(s) + 1
    BY <1>1, <1>2, <1>3, <1>4 DEF PartAt
  <2>2. \A k \in Nat : 1 <= k /\ k < i => s[k] = u[k]
    <3> SUFFICES ASSUME NEW k \in Nat, 1 <= k, k < i PROVE s[k] = u[k]
      OBVIOUS
    <3>1. s[k] = t[k]
      BY <1>1 DEF PartAt
    <3>2. k < j
      BY <1>4
    <3>3. t[k] = u[k]
      BY <1>2, <3>2 DEF PartAt
    <3> QED
      BY <3>1, <3>3
  <2>3. t[i] = u[i]
    BY <1>2, <1>4, <2>1 DEF PartAt
  <2>4. i <= Len(s) => s[i] < u[i]
    BY <1>1, <2>3 DEF PartAt
  <2>5. PartAt(s, u, i)
    BY <2>1, <2>2, <2>4 DEF PartAt
  <2> QED
    BY <2>5, TextParts
<1>5. CASE i = j
  <2>1. 1 <= i /\ i <= Len(t) /\ i <= Len(u) /\ i <= Len(s) + 1
    BY <1>1, <1>2, <1>5 DEF PartAt
  <2>2. \A k \in Nat : 1 <= k /\ k < i => s[k] = u[k]
    <3> SUFFICES ASSUME NEW k \in Nat, 1 <= k, k < i PROVE s[k] = u[k]
      OBVIOUS
    <3>1. s[k] = t[k]
      BY <1>1 DEF PartAt
    <3>2. k < j
      BY <1>5
    <3>3. t[k] = u[k]
      BY <1>2, <3>2 DEF PartAt
    <3> QED
      BY <3>1, <3>3
  <2>3. t[i] < u[i]
    BY <1>2, <1>5, <2>1 DEF PartAt
  <2>4. i <= Len(s) => s[i] < u[i]
    <3> SUFFICES ASSUME i <= Len(s) PROVE s[i] < u[i]
      OBVIOUS
    <3>1. i \in 1 .. Len(s) /\ i \in 1 .. Len(t) /\ i \in 1 .. Len(u)
      BY <1>3, <2>1
    <3>2. s[i] < t[i]
      BY <1>1 DEF PartAt
    <3>3. s[i] \in Nat /\ t[i] \in Nat /\ u[i] \in Nat
      BY <1>3, <3>1
    <3> DEFINE x == s[i]
               y == t[i]
               z == u[i]
    <3>4. x < y /\ y < z /\ x \in Nat /\ y \in Nat /\ z \in Nat
      BY <2>3, <3>2, <3>3
    <3> HIDE DEF x, y, z
    <3>5. x < z
      BY <3>4
    <3> QED
      BY <3>5 DEF x, z
  <2>5. PartAt(s, u, i)
    BY <2>1, <2>2, <2>4 DEF PartAt
  <2> QED
    BY <2>5, TextParts
<1>6. CASE j < i
  <2>1. j <= Len(t) /\ j <= Len(s) + 1 /\ 1 <= j /\ j <= Len(u)
    BY <1>1, <1>2, <1>3, <1>6, SMTT(60) DEF PartAt
  <2>2. s[j] = t[j] /\ t[j] < u[j]
    BY <1>1, <1>2, <1>6, <2>1 DEF PartAt
  <2>3. \A k \in Nat : 1 <= k /\ k < j => s[k] = u[k]
    <3> SUFFICES ASSUME NEW k \in Nat, 1 <= k, k < j PROVE s[k] = u[k]
      OBVIOUS
    <3>1. k < i
      BY <1>6
    <3> QED
      BY <1>1, <1>2, <3>1 DEF PartAt
  <2>4. PartAt(s, u, j)
    BY <2>1, <2>2, <2>3 DEF PartAt
  <2> QED
    BY <2>4, TextParts
<1> QED
  BY <1>4, <1>5, <1>6

\* Of two texts, one comes first.
LEMMA TextTotal ==
  ASSUME NEW s \in Seq(Nat), NEW t \in Seq(Nat), s # t
  PROVE  TextBefore(s, t) \/ TextBefore(t, s)
<1> DEFINE D == { k \in Nat : k \in 1 .. Len(s) /\ k \in 1 .. Len(t) /\ s[k] # t[k] }
<1>1. /\ Len(s) \in Nat /\ DOMAIN s = 1 .. Len(s) /\ \A k \in 1 .. Len(s) : s[k] \in Nat
      /\ Len(t) \in Nat /\ DOMAIN t = 1 .. Len(t) /\ \A k \in 1 .. Len(t) : t[k] \in Nat
  OBVIOUS
<1>2. CASE D = {}
  <2>1. \A k \in 1 .. Len(s) : k \in 1 .. Len(t) => s[k] = t[k]
    <3> SUFFICES ASSUME NEW k \in 1 .. Len(s), k \in 1 .. Len(t), s[k] # t[k] PROVE FALSE
      OBVIOUS
    <3>1. k \in Nat
      BY <1>1
    <3>2. k \in D
      BY <3>1
    <3> QED
      BY <1>2, <3>2
  <2>2. Len(s) # Len(t)
    <3> SUFFICES ASSUME Len(s) = Len(t) PROVE FALSE
      OBVIOUS
    <3> QED
      BY <1>1, <2>1
  <2>3. CASE Len(s) < Len(t)
    <3>1. PartAt(s, t, Len(s) + 1) /\ Len(s) + 1 \in Nat
      BY <1>1, <2>1, <2>3 DEF PartAt
    <3> QED
      BY <3>1, TextParts
  <2>4. CASE Len(t) < Len(s)
    <3>1. PartAt(t, s, Len(t) + 1) /\ Len(t) + 1 \in Nat
      BY <1>1, <2>1, <2>4 DEF PartAt
    <3> QED
      BY <3>1, TextParts
  <2>5. Len(s) < Len(t) \/ Len(t) < Len(s)
    <3> DEFINE a == Len(s)
               b == Len(t)
    <3>1. a \in Nat /\ b \in Nat /\ a # b
      BY <1>1, <2>2
    <3> HIDE DEF a, b
    <3>2. a < b \/ b < a
      BY <3>1
    <3> QED
      BY <3>2 DEF a, b
  <2> QED
    BY <2>3, <2>4, <2>5
<1>3. CASE D # {}
  <2>1. PICK m \in D : \A n \in D : m <= n
    <3>1. D \in SUBSET Nat
      OBVIOUS
    <3> QED
      BY <1>3, <3>1, Least
  <2>2. m \in DOMAIN s /\ m \in DOMAIN t /\ s[m] # t[m] /\ s[m] \in Nat /\ t[m] \in Nat
    BY <1>1, <2>1
  <2>3. \A k \in 1 .. m - 1 : k <= Len(s) /\ k <= Len(t) /\ s[k] = t[k]
    <3> SUFFICES ASSUME NEW k \in 1 .. m - 1 PROVE k <= Len(s) /\ k <= Len(t) /\ s[k] = t[k]
      OBVIOUS
    <3>1. m \in Nat /\ m \in 1 .. Len(s) /\ m \in 1 .. Len(t)
      BY <2>1
    <3>2. k \in Nat /\ k < m /\ k \in 1 .. Len(s) /\ k \in 1 .. Len(t)
      BY <1>1, <3>1
    <3>3. k \notin D
      BY <2>1, <3>1, <3>2
    <3> QED
      BY <1>1, <3>2, <3>3
  <2>4. CASE s[m] < t[m]
    BY <2>2, <2>3, <2>4 DEF TextBefore
  <2>5. CASE t[m] < s[m]
    BY <2>2, <2>3, <2>5 DEF TextBefore
  <2>6. s[m] < t[m] \/ t[m] < s[m]
    BY <2>2
  <2> QED
    BY <2>4, <2>5, <2>6
<1> QED
  BY <1>2, <1>3

\* Texts in order are all of them, and nothing else.
LEMMA InOrder ==
  ASSUME NEW S \in SUBSET Seq(Nat), IsFiniteSet(S)
  PROVE  /\ DOMAIN InTextOrder(S) = 1 .. Cardinality(S) /\ Cardinality(S) \in Nat
         /\ \A i \in DOMAIN InTextOrder(S) : InTextOrder(S)[i] \in S
         /\ \A t \in S : \E i \in DOMAIN InTextOrder(S) : InTextOrder(S)[i] = t
<1> DEFINE n == Cardinality(S)
           Before(t) == { s \in S : TextBefore(s, t) }
           rank == [ t \in S |-> Cardinality(Before(t)) + 1 ]
<1>1. n \in Nat
  BY FS_CardinalityType
<1>2. \A t \in S : IsFiniteSet(Before(t)) /\ Cardinality(Before(t)) + 1 \in 1 .. n /\ Cardinality(Before(t)) \in Nat
  <2> TAKE t \in S
  <2>1. Before(t) \in SUBSET S /\ t \notin Before(t)
    BY TextIrreflexive
  <2>2. IsFiniteSet(Before(t)) /\ Cardinality(Before(t)) <= n /\ Before(t) # S
    BY <2>1, FS_Subset
  <2>3. Cardinality(Before(t)) # n
    BY <2>1, <2>2, FS_Subset
  <2>4. Cardinality(Before(t)) \in Nat
    BY <2>2, FS_CardinalityType
  <2> QED
    BY <1>1, <2>2, <2>3, <2>4
<1>3. \A s, t \in S : TextBefore(s, t) => Cardinality(Before(s)) # Cardinality(Before(t))
  <2> SUFFICES ASSUME NEW s \in S, NEW t \in S, TextBefore(s, t),
                      Cardinality(Before(s)) = Cardinality(Before(t))
               PROVE  FALSE
    OBVIOUS
  <2>1. Before(s) \in SUBSET Before(t)
    <3> SUFFICES ASSUME NEW r \in S, TextBefore(r, s) PROVE TextBefore(r, t)
      OBVIOUS
    <3> QED
      BY TextTransitive
  <2>2. Before(s) = Before(t)
    BY <1>2, <2>1, FS_Subset
  <2>3. s \in Before(t) /\ s \notin Before(s)
    BY TextIrreflexive
  <2> QED
    BY <2>2, <2>3
<1>a. \A t \in S : rank[t] = Cardinality(Before(t)) + 1
  OBVIOUS
<1>4. \A s, t \in S : rank[s] = rank[t] => s = t
  <2> SUFFICES ASSUME NEW s \in S, NEW t \in S, rank[s] = rank[t], s # t PROVE FALSE
    OBVIOUS
  <2>1. Cardinality(Before(s)) = Cardinality(Before(t))
    <3> HIDE DEF Before, rank
    <3> QED
      BY <1>2, <1>a
  <2>2. TextBefore(s, t) \/ TextBefore(t, s)
    BY TextTotal
  <2> QED
    BY <1>3, <2>1, <2>2
<1>5. rank \in Injection(S, 1 .. n)
  <2>1. rank \in [S -> 1 .. n]
    BY <1>2
  <2> QED
    BY <1>4, <2>1, Fun_IsInj
<1>6. rank \in Surjection(S, 1 .. n)
  <2>1. IsFiniteSet(1 .. n) /\ Cardinality(1 .. n) = n
    BY <1>1, FS_Interval
  <2> QED
    BY <1>5, <2>1, FS_Injection
<1>7. \A i \in 1 .. n : \E t \in S : rank[t] = i
  BY <1>6 DEF Surjection
<1> DEFINE order == InTextOrder(S)
           Is(i, t) == Cardinality(Before(t)) = i - 1
<1>8. order = [ i \in 1 .. n |-> CHOOSE t \in S : Is(i, t) ]
  BY DEF InTextOrder
<1>9. \A i \in 1 .. n, t \in S : Is(i, t) <=> rank[t] = i
  <2> HIDE DEF Before, rank
  <2> QED
    BY <1>2, <1>a
<1> HIDE DEF order, Is, rank, n
<1>10. \A i \in 1 .. n : order[i] \in S /\ rank[order[i]] = i
  <2> TAKE i \in 1 .. n
  <2>1. \E t \in S : Is(i, t)
    BY <1>7, <1>9
  <2>2. order[i] \in S /\ Is(i, order[i])
    BY <1>8, <2>1
  <2> QED
    BY <1>9, <2>2
<1>11. \A t \in S : rank[t] \in 1 .. n
  BY <1>2 DEF rank, n
<1>12. DOMAIN order = 1 .. n
  BY <1>8
<1>13. \A t \in S : \E i \in 1 .. n : order[i] = t
  BY <1>4, <1>10, <1>11
<1> QED
  BY <1>1, <1>10, <1>12, <1>13 DEF order, n

-----------------------------------------------------------------------------
(* How versions are ordered.                                               *)

\* The value of a number is one.
LEMMA ValueIsNumber ==
  ASSUME NEW a \in Seq(Nat)
  PROVE  Value(a) \in Int
<1> DEFINE N == Len(a)
           Next1(n, before) == 10 * before + a[n] - 10
           Counts(g) == g = [ n \in 0 .. N |-> IF n = 0 THEN 0 ELSE Next1(n, g[n - 1]) ]
           step == [ x \in (1 .. N) \X Int |-> Next1(x[1], x[2]) ]
<1>1. N \in Nat /\ \A n \in 1 .. N : a[n] \in Nat
  BY TextIs
<1> HIDE DEF N
<1>2. \A n \in 1 .. N, before \in Int : Next1(n, before) \in Int
  BY <1>1
<1> HIDE DEF Next1
<1>3. step \in Steps(N, Int)
  BY <1>2 DEF Steps
<1>4. \A n \in 1 .. N, before \in Int : step[<< n, before >>] = Next1(n, before)
  OBVIOUS
<1>5. \E g : Counts(g)
  <2> HIDE DEF step
  <2>0. 0 \in Int
    OBVIOUS
  <2>1. PICK g : Computes(g, N, Int, 0, step)
    <3> HIDE DEF Counts
    <3>1. \E g : Computes(g, N, Int, 0, step)
      BY <1>1, <1>3, <2>0, Computed
    <3> QED
      BY <3>1
  <2>2. ASSUME NEW n \in 0 .. N
        PROVE  g[n] = IF n = 0 THEN 0 ELSE Next1(n, g[n - 1])
    <3>0. g \in [ 0 .. N -> Int ] /\ g[n] = IF n = 0 THEN 0 ELSE step[<< n, g[n - 1] >>]
      BY <2>1 DEF Computes
    <3>1. CASE n = 0
      BY <3>0, <3>1
    <3>2. CASE n # 0
      <4>1. n \in 1 .. N /\ n - 1 \in 0 .. N
        BY <3>2, <1>1
      <4>2. g[n - 1] \in Int
        BY <3>0, <4>1
      <4> QED
        BY <3>0, <4>1, <4>2, <3>2, <1>4
    <3> QED
      BY <3>1, <3>2
  <2>3. g = [ n \in 0 .. N |-> g[n] ]
    BY <2>1 DEF Computes
  <2>4. Counts(g)
    BY <2>2, <2>3
  <2> QED
    BY <2>4
<1> DEFINE f == CHOOSE g : Counts(g)
<1>6. Counts(f)
  BY <1>5
<1> HIDE DEF f
<1>7. \A n \in 0 .. N : f[n] = IF n = 0 THEN 0 ELSE Next1(n, f[n - 1])
  BY <1>6
<1>8. \A n \in 0 .. N : f[n] \in Int
  <2> DEFINE Bad == { n \in 0 .. N : f[n] \notin Int }
  <2> SUFFICES ASSUME Bad # {} PROVE FALSE
    OBVIOUS
  <2>1. PICK m \in Bad : \A n \in Bad : m <= n
    <3>1. Bad \in SUBSET Nat
      OBVIOUS
    <3> QED
      BY <3>1, Least
  <2>2. m # 0
    BY <2>1, <1>1, <1>7
  <2>3. m - 1 \in 0 .. N /\ m - 1 \notin Bad /\ m \in 1 .. N
    BY <2>1, <2>2, <1>1
  <2>4. f[m] = Next1(m, f[m - 1])
    BY <2>1, <2>2, <1>7
  <2> QED
    BY <2>1, <2>3, <2>4, <1>2
<1>9. Value(a) = f[N]
  BY DEF Value, f, Next1, N
<1> QED
  BY <1>1, <1>8, <1>9

\* An identifier's number is one, and that of digits is their value.
LEMMA IntIsNumber ==
  ASSUME NEW a \in Seq(Nat)
  PROVE  IntOf(a) \in Int /\ (IsNumeric(a) => IntOf(a) = Value(a))
<1>1. CASE Signed(a)
  <2>1. a # << >> /\ Head(a) = 1
    BY <1>1 DEF Signed, HyphenRank
  <2>2. Tail(a) \in Seq(Nat) /\ 1 \in DOMAIN a /\ a[1] = 1
    BY <2>1
  <2>3. Value(Tail(a)) \in Int
    BY <2>2, ValueIsNumber
  <2>4. IntOf(a) \in Int
    BY <1>1, <2>3 DEF IntOf
  <2>5. a[1] \notin 10 .. 19
    BY <2>2
  <2>6. ~IsNumeric(a)
    BY <2>2, <2>5 DEF IsNumeric
  <2> QED
    BY <2>4, <2>6
<1>2. CASE ~Signed(a)
  BY <1>2, ValueIsNumber DEF IntOf
<1> QED
  BY <1>1, <1>2

\* No identifier comes before itself.
LEMMA IdentifierIrreflexive ==
  ASSUME NEW a \in Seq(Nat)
  PROVE  ~IdentifierBefore(a, a)
BY TextIrreflexive DEF IdentifierBefore

\* Among ints, and among what is none, identifiers are in order.
LEMMA IdentifierTransitive ==
  ASSUME NEW a \in Seq(Nat), NEW b \in Seq(Nat), NEW c \in Seq(Nat),
         IsInt(a) <=> IsInt(b), IsInt(b) <=> IsInt(c),
         IdentifierBefore(a, b), IdentifierBefore(b, c)
  PROVE  IdentifierBefore(a, c)
<1>1. IntOf(a) \in Int /\ IntOf(b) \in Int /\ IntOf(c) \in Int
  BY IntIsNumber
<1>2. CASE ~IsInt(a)
  <2>1. TextBefore(a, b) /\ TextBefore(b, c)
    BY <1>2 DEF IdentifierBefore
  <2>2. TextBefore(a, c)
    BY <2>1, TextTransitive
  <2> QED
    BY <1>2, <2>2 DEF IdentifierBefore
<1>3. CASE IsInt(a)
  <2> DEFINE x == IntOf(a)
             y == IntOf(b)
             z == IntOf(c)
  <2>1. (x < y \/ (x = y /\ TextBefore(a, b))) /\ (y < z \/ (y = z /\ TextBefore(b, c)))
    BY <1>3 DEF IdentifierBefore
  <2>2. x \in Int /\ y \in Int /\ z \in Int
    BY <1>1
  <2> HIDE DEF x, y, z
  <2>3. x < z \/ (x = z /\ TextBefore(a, b) /\ TextBefore(b, c))
    BY <2>1, <2>2
  <2>4. (x < z /\ x # z) \/ (x = z /\ TextBefore(a, c))
    BY <2>2, <2>3, TextTransitive
  <2> QED
    BY <1>3, <2>4 DEF x, y, z, IdentifierBefore
<1> QED
  BY <1>2, <1>3

\* Where two pre-releases part: alike before i, and the first comes before the
\* second by its identifier there, or ends before.
PrePartAt(p, q, i) ==
  /\ 1 <= i /\ i <= Len(q) /\ i <= Len(p) + 1
  /\ \A k \in Nat : 1 <= k /\ k < i => p[k] = q[k]
  /\ i <= Len(p) => IdentifierBefore(p[i], q[i])

\* A pre-release is a sequence of identifiers.
LEMMA PreIs ==
  ASSUME NEW p \in Seq(Seq(Nat))
  PROVE  /\ Len(p) \in Nat /\ DOMAIN p = 1 .. Len(p) /\ \A k \in 1 .. Len(p) : p[k] \in Seq(Nat)
         /\ p = << >> <=> Len(p) = 0
OBVIOUS

\* A pre-release comes before another if they part at some place, where it ends or
\* has the lesser identifier.
LEMMA PreParts ==
  ASSUME NEW p \in Seq(Seq(Nat)), NEW q \in Seq(Seq(Nat)), p # << >>, q # << >>
  PROVE  PreReleaseBefore(p, q) <=> \E i \in Nat : PrePartAt(p, q, i)
<1> DEFINE common == { i \in DOMAIN p \cap DOMAIN q : p[i] # q[i] }
           m == CHOOSE i \in common : \A j \in common : i <= j
           a == Len(p)
           b == Len(q)
<1>1. /\ a \in Nat /\ b \in Nat /\ DOMAIN p = 1 .. a /\ DOMAIN q = 1 .. b
      /\ \A k \in 1 .. a : p[k] \in Seq(Nat)
  BY PreIs
<1>2. PreReleaseBefore(p, q) <=> IF common = {} THEN a < b ELSE IdentifierBefore(p[m], q[m])
  BY DEF PreReleaseBefore
<1>3. \A i : PrePartAt(p, q, i) <=>
        /\ 1 <= i /\ i <= b /\ i <= a + 1
        /\ \A k \in Nat : 1 <= k /\ k < i => p[k] = q[k]
        /\ i <= a => IdentifierBefore(p[i], q[i])
  BY DEF PrePartAt
<1> HIDE DEF a, b
<1>4. \A i \in Nat : i \in common <=> 1 <= i /\ i <= a /\ i <= b /\ p[i] # q[i]
  BY <1>1
<1>5. CASE common = {}
  <2>1. ASSUME a < b PROVE PrePartAt(p, q, a + 1)
    <3>1. \A k \in Nat : 1 <= k /\ k < a + 1 => p[k] = q[k]
      <4> SUFFICES ASSUME NEW k \in Nat, 1 <= k, k < a + 1 PROVE p[k] = q[k]
        OBVIOUS
      <4>1. k <= a /\ k <= b
        BY <1>1, <2>1
      <4> HIDE DEF common
      <4> QED
        BY <1>4, <1>5, <4>1
    <3> DEFINE e == a + 1
    <3>2. 1 <= e /\ e <= b /\ ~(e <= a) /\ e <= a + 1
      BY <1>1, <2>1
    <3>3. \A k \in Nat : 1 <= k /\ k < e => p[k] = q[k]
      BY <3>1
    <3> HIDE DEF e
    <3>4. PrePartAt(p, q, e)
      BY <1>3, <3>2, <3>3
    <3> QED
      BY <3>4 DEF e
  <2>2. ASSUME NEW i \in Nat, PrePartAt(p, q, i) PROVE a < b
    <3>0. 1 <= i /\ i <= b /\ i <= a + 1 /\ (i <= a => IdentifierBefore(p[i], q[i]))
      BY <1>3, <2>2
    <3>1. CASE i <= a
      <4>1. p[i] = q[i] /\ i \in 1 .. a
        <5> HIDE DEF common
        <5> QED
          BY <1>1, <1>4, <1>5, <3>0, <3>1
      <4>2. IdentifierBefore(p[i], p[i]) /\ p[i] \in Seq(Nat)
        BY <1>1, <3>0, <3>1, <4>1
      <4> QED
        BY <4>2, IdentifierIrreflexive
    <3>2. CASE ~(i <= a)
      BY <1>1, <3>0, <3>2
    <3> QED
      BY <3>1, <3>2
  <2>3. a + 1 \in Nat
    BY <1>1
  <2> QED
    BY <1>2, <1>5, <2>1, <2>2, <2>3
<1>6. CASE common # {}
  <2>1. m \in common /\ \A j \in common : m <= j
    <3>1. common \in SUBSET Nat
      BY <1>1
    <3>2. \E i \in common : \A j \in common : i <= j
      BY <1>6, <3>1, Least
    <3> QED
      BY <3>2
  <2>2. m \in Nat /\ 1 <= m /\ m <= a /\ m <= b /\ p[m] # q[m] /\ m <= a + 1
    BY <1>1, <2>1
  <2> HIDE DEF m
  <2>3. \A k \in Nat : 1 <= k /\ k < m => p[k] = q[k]
    <3> SUFFICES ASSUME NEW k \in Nat, 1 <= k, k < m, p[k] # q[k] PROVE FALSE
      OBVIOUS
    <3>1. k <= a /\ k <= b
      BY <1>1, <2>2
    <3>2. k \in common
      BY <1>4, <3>1
    <3>3. m <= k
      BY <2>1, <3>2
    <3> QED
      BY <2>2, <3>3
  <2>4. ASSUME IdentifierBefore(p[m], q[m]) PROVE PrePartAt(p, q, m)
    BY <1>3, <2>2, <2>3, <2>4
  <2>5. ASSUME NEW i \in Nat, PrePartAt(p, q, i) PROVE IdentifierBefore(p[m], q[m])
    <3>0. /\ 1 <= i /\ i <= b /\ i <= a + 1 /\ (i <= a => IdentifierBefore(p[i], q[i]))
          /\ \A k \in Nat : 1 <= k /\ k < i => p[k] = q[k]
      BY <1>3, <2>5
    <3>1. ~(m < i)
      BY <2>2, <3>0
    <3>2. CASE i = m
      BY <2>2, <3>0, <3>2
    <3>3. CASE i < m
      <4>1. p[i] = q[i] /\ i <= a
        BY <1>1, <2>2, <2>3, <3>0, <3>3
      <4>2. i \in 1 .. a
        BY <1>1, <3>0, <4>1
      <4>3. IdentifierBefore(p[i], p[i]) /\ p[i] \in Seq(Nat)
        BY <1>1, <3>0, <4>1, <4>2
      <4> QED
        BY <4>3, IdentifierIrreflexive
    <3> QED
      BY <2>2, <3>1, <3>2, <3>3
  <2> QED
    BY <1>2, <1>6, <2>2, <2>4, <2>5
<1> QED
  BY <1>5, <1>6

\* Pre-releases that part alike are in order.
LEMMA PreReleaseTransitive ==
  ASSUME NEW p \in Seq(Seq(Nat)), NEW q \in Seq(Seq(Nat)), NEW r \in Seq(Seq(Nat)),
         PartAlike(p, q), PartAlike(q, r), PreReleaseBefore(p, q), PreReleaseBefore(q, r)
  PROVE  PreReleaseBefore(p, r)
<1>1. CASE r = << >>
  BY <1>1 DEF PreReleaseBefore
<1>2. CASE r # << >>
  <2>1. p # << >> /\ q # << >>
    BY <1>2 DEF PreReleaseBefore
  <2>2. PICK i \in Nat : PrePartAt(p, q, i)
    BY <2>1, PreParts
  <2>3. PICK j \in Nat : PrePartAt(q, r, j)
    BY <1>2, <2>1, PreParts
  <2>4. /\ Len(p) \in Nat /\ Len(q) \in Nat /\ Len(r) \in Nat
        /\ DOMAIN p = 1 .. Len(p) /\ DOMAIN q = 1 .. Len(q) /\ DOMAIN r = 1 .. Len(r)
        /\ \A k \in 1 .. Len(p) : p[k] \in Seq(Nat)
        /\ \A k \in 1 .. Len(q) : q[k] \in Seq(Nat)
        /\ \A k \in 1 .. Len(r) : r[k] \in Seq(Nat)
    BY PreIs
  <2>5. CASE i < j
    <3>1. i <= Len(q) /\ i <= Len(r) /\ i <= Len(p) + 1 /\ 1 <= i
      BY <2>2, <2>3, <2>4, <2>5 DEF PrePartAt
    <3>2. q[i] = r[i] /\ (i <= Len(p) => IdentifierBefore(p[i], q[i]))
      BY <2>2, <2>3, <2>5, <3>1 DEF PrePartAt
    <3>3. \A k \in Nat : 1 <= k /\ k < i => p[k] = r[k]
      <4> SUFFICES ASSUME NEW k \in Nat, 1 <= k, k < i PROVE p[k] = r[k]
        OBVIOUS
      <4>1. k < j
        BY <2>5
      <4> QED
        BY <2>2, <2>3, <4>1 DEF PrePartAt
    <3>4. PrePartAt(p, r, i)
      BY <3>1, <3>2, <3>3 DEF PrePartAt
    <3> QED
      BY <1>2, <2>1, <3>4, PreParts
  <2>6. CASE i = j
    <3>1. i <= Len(q) /\ i <= Len(r) /\ i <= Len(p) + 1 /\ 1 <= i
      BY <2>2, <2>3, <2>6 DEF PrePartAt
    <3>2. \A k \in Nat : 1 <= k /\ k < i => p[k] = q[k] /\ q[k] = r[k]
      BY <2>2, <2>3, <2>6 DEF PrePartAt
    <3>3. ASSUME i <= Len(p) PROVE IdentifierBefore(p[i], r[i])
      <4>1. i \in DOMAIN p /\ i \in DOMAIN q /\ i \in DOMAIN r
        BY <2>4, <3>1, <3>3
      <4>2. \A k \in 1 .. i - 1 : k \in Nat /\ 1 <= k /\ k < i
        OBVIOUS
      <4>3. \A k \in 1 .. i - 1 : p[k] = q[k] /\ q[k] = r[k]
        BY <3>2, <4>2
      <4>4. (IsInt(p[i]) <=> IsInt(q[i])) /\ (IsInt(q[i]) <=> IsInt(r[i]))
        BY <4>1, <4>3 DEF PartAlike
      <4>5. IdentifierBefore(p[i], q[i]) /\ IdentifierBefore(q[i], r[i])
        BY <2>2, <2>3, <2>6, <3>1, <3>3 DEF PrePartAt
      <4>6. p[i] \in Seq(Nat) /\ q[i] \in Seq(Nat) /\ r[i] \in Seq(Nat)
        BY <2>4, <4>1
      <4> QED
        BY <4>4, <4>5, <4>6, IdentifierTransitive
    <3>4. PrePartAt(p, r, i)
      BY <3>1, <3>2, <3>3 DEF PrePartAt
    <3> QED
      BY <1>2, <2>1, <3>4, PreParts
  <2>7. CASE j < i
    <3>1. j <= Len(q) /\ j <= Len(r) /\ j <= Len(p) + 1 /\ 1 <= j
      BY <2>2, <2>3, <2>4, <2>7 DEF PrePartAt
    <3>2. p[j] = q[j] /\ IdentifierBefore(q[j], r[j])
      BY <2>2, <2>3, <2>7, <3>1 DEF PrePartAt
    <3>3. \A k \in Nat : 1 <= k /\ k < j => p[k] = r[k]
      <4> SUFFICES ASSUME NEW k \in Nat, 1 <= k, k < j PROVE p[k] = r[k]
        OBVIOUS
      <4>1. k < i
        BY <2>7
      <4> QED
        BY <2>2, <2>3, <4>1 DEF PrePartAt
    <3>4. PrePartAt(p, r, j)
      BY <3>1, <3>2, <3>3 DEF PrePartAt
    <3> QED
      BY <1>2, <2>1, <3>4, PreParts
  <2> QED
    BY <2>5, <2>6, <2>7
<1> QED
  BY <1>1, <1>2

\* No pre-release comes before itself.
LEMMA PreReleaseIrreflexive ==
  ASSUME NEW p \in Seq(Seq(Nat))
  PROVE  ~PreReleaseBefore(p, p)
<1> DEFINE common == { i \in DOMAIN p \cap DOMAIN p : p[i] # p[i] }
<1>1. common = {} /\ Len(p) \in Nat
  BY PreIs
<1> QED
  BY <1>1 DEF PreReleaseBefore

\* What is known of a semantic version.
LEMMA SemverIs ==
  ASSUME NEW v \in Semvers
  PROVE  /\ v.major \in Int /\ v.minor \in Int /\ v.patch \in Int /\ v.pre \in Seq(Seq(Nat))
         /\ IsSemver(v)
<1>1. v \in SemverType
  BY SemversAssumption
<1> QED
  BY <1>1 DEF SemverType, IsSemver

\* The numbers first, then the pre-release.
NumbersBefore(v, w) ==
  \/ v.major < w.major
  \/ v.major = w.major /\ v.minor < w.minor
  \/ v.major = w.major /\ v.minor = w.minor /\ v.patch < w.patch
NumbersAlike(v, w) == v.major = w.major /\ v.minor = w.minor /\ v.patch = w.patch

\* Versions are ordered by their numbers and then by their pre-releases.
LEMMA SemverOrder ==
  \A v, w : SemverBefore(v, w) <=> NumbersBefore(v, w) \/ (NumbersAlike(v, w) /\ PreReleaseBefore(v.pre, w.pre))
BY DEF SemverBefore, NumbersBefore, NumbersAlike

\* Where their pre-releases part alike, the order of versions is transitive.
LEMMA SemverTransitive ==
  ASSUME NEW u \in Semvers, NEW v \in Semvers, NEW w \in Semvers,
         PartAlike(u.pre, v.pre), PartAlike(v.pre, w.pre), SemverBefore(u, v), SemverBefore(v, w)
  PROVE  SemverBefore(u, w)
<1>1. NumbersBefore(u, v) \/ (NumbersAlike(u, v) /\ PreReleaseBefore(u.pre, v.pre))
  BY SemverOrder
<1>2. NumbersBefore(v, w) \/ (NumbersAlike(v, w) /\ PreReleaseBefore(v.pre, w.pre))
  BY SemverOrder
<1>3. /\ u.major \in Int /\ u.minor \in Int /\ u.patch \in Int
      /\ v.major \in Int /\ v.minor \in Int /\ v.patch \in Int
      /\ w.major \in Int /\ w.minor \in Int /\ w.patch \in Int
  BY SemverIs
<1>4. NumbersBefore(u, v) /\ NumbersBefore(v, w) => NumbersBefore(u, w)
  BY <1>3 DEF NumbersBefore
<1>5. NumbersAlike(u, v) /\ NumbersBefore(v, w) => NumbersBefore(u, w)
  BY <1>3 DEF NumbersBefore, NumbersAlike
<1>6. NumbersBefore(u, v) /\ NumbersAlike(v, w) => NumbersBefore(u, w)
  BY <1>3 DEF NumbersBefore, NumbersAlike
<1>7. NumbersAlike(u, v) /\ NumbersAlike(v, w) => NumbersAlike(u, w)
  BY DEF NumbersAlike
<1>8. PreReleaseBefore(u.pre, v.pre) /\ PreReleaseBefore(v.pre, w.pre) => PreReleaseBefore(u.pre, w.pre)
  BY PreReleaseTransitive, SemverIs
<1> QED
  BY <1>1, <1>2, <1>4, <1>5, <1>6, <1>7, <1>8, SemverOrder

\* Of two identifiers,
LEMMA IdentifierTotal ==
  ASSUME NEW a \in Seq(Nat), NEW b \in Seq(Nat), a # b
  PROVE  IdentifierBefore(a, b) \/ IdentifierBefore(b, a)
<1> DEFINE x == IntOf(a)
           y == IntOf(b)
<1>1. x \in Int /\ y \in Int
  BY IntIsNumber
<1>2. TextBefore(a, b) \/ TextBefore(b, a)
  BY TextTotal
<1>3. x = y \/ x < y \/ y < x
  <2> HIDE DEF x, y
  <2> QED
    BY <1>1
<1> QED
  BY <1>2, <1>3 DEF IdentifierBefore

\* of two pre-releases,
LEMMA PreReleaseTotal ==
  ASSUME NEW p \in Seq(Seq(Nat)), NEW q \in Seq(Seq(Nat)), p # q
  PROVE  PreReleaseBefore(p, q) \/ PreReleaseBefore(q, p)
<1> DEFINE common == { i \in DOMAIN p \cap DOMAIN q : p[i] # q[i] }
           m == CHOOSE i \in common : \A j \in common : i <= j
<1>1. /\ Len(p) \in Nat /\ DOMAIN p = 1 .. Len(p) /\ (\A k \in 1 .. Len(p) : p[k] \in Seq(Nat))
      /\ p = << >> <=> Len(p) = 0
      /\ Len(q) \in Nat /\ DOMAIN q = 1 .. Len(q) /\ (\A k \in 1 .. Len(q) : q[k] \in Seq(Nat))
      /\ q = << >> <=> Len(q) = 0
  BY PreIs
<1>2. CASE p = << >> \/ q = << >>
  BY <1>2 DEF PreReleaseBefore
<1>3. CASE p # << >> /\ q # << >>
  <2>1. common = { i \in DOMAIN q \cap DOMAIN p : q[i] # p[i] }
    OBVIOUS
  <2>2. /\ PreReleaseBefore(p, q) <=> IF common = {} THEN Len(p) < Len(q) ELSE IdentifierBefore(p[m], q[m])
        /\ PreReleaseBefore(q, p) <=> IF common = {} THEN Len(q) < Len(p) ELSE IdentifierBefore(q[m], p[m])
    BY <1>3, <2>1 DEF PreReleaseBefore
  <2>3. CASE common = {}
    <3>1. ASSUME NEW i \in 1 .. Len(p), i <= Len(q) PROVE p[i] = q[i]
      <4>1. i \in DOMAIN p \cap DOMAIN q
        <5> HIDE DEF common, m
        <5> QED
          BY <1>1, <3>1
      <4>2. i \notin common
        <5> HIDE DEF common, m
        <5> QED
          BY <2>3
      <4> QED
        BY <4>1, <4>2
    <3>2. (PreReleaseBefore(p, q) <=> Len(p) < Len(q)) /\ (PreReleaseBefore(q, p) <=> Len(q) < Len(p))
      <4> HIDE DEF common
      <4> QED
        BY <2>2, <2>3
    <3> HIDE DEF common, m
    <3>3. Len(p) # Len(q)
      <4> SUFFICES ASSUME Len(p) = Len(q) PROVE FALSE
        OBVIOUS
      <4>1. \A i \in 1 .. Len(p) : p[i] = q[i]
        BY <1>1, <3>1
      <4> QED
        BY <1>1, <4>1, SeqEqual
    <3>4. Len(p) \in Nat /\ Len(q) \in Nat
      BY <1>1
    <3>5. Len(p) < Len(q) \/ Len(q) < Len(p)
      BY <3>3, <3>4
    <3> QED
      BY <3>2, <3>5
  <2>4. CASE common # {}
    <3>1. common \in SUBSET Nat
      BY <1>1
    <3>2. m \in common
      BY <2>4, <3>1, Least
    <3>3. p[m] \in Seq(Nat) /\ q[m] \in Seq(Nat) /\ p[m] # q[m]
      BY <1>1, <3>2
    <3> HIDE DEF m
    <3>4. IdentifierBefore(p[m], q[m]) \/ IdentifierBefore(q[m], p[m])
      BY <3>3, IdentifierTotal
    <3> QED
      BY <2>2, <2>4, <3>4
  <2> QED
    BY <2>3, <2>4
<1> QED
  BY <1>2, <1>3

\* and of two versions one comes first.
LEMMA SemverTotal ==
  ASSUME NEW v \in Semvers, NEW w \in Semvers, v # w
  PROVE  SemverBefore(v, w) \/ SemverBefore(w, v)
<1>1. v \in SemverType /\ w \in SemverType
  BY SemversAssumption
<1>2. /\ v.major \in Int /\ v.minor \in Int /\ v.patch \in Int /\ v.pre \in Seq(Seq(Nat))
      /\ w.major \in Int /\ w.minor \in Int /\ w.patch \in Int /\ w.pre \in Seq(Seq(Nat))
  BY SemverIs
<1>3. NumbersBefore(v, w) \/ NumbersBefore(w, v) \/ (NumbersAlike(v, w) /\ NumbersAlike(w, v))
  BY <1>2 DEF NumbersBefore, NumbersAlike
<1>4. ASSUME NumbersAlike(v, w), v.pre = w.pre PROVE v = w
  BY <1>1, <1>4 DEF NumbersAlike, SemverType
<1>5. v.pre # w.pre => PreReleaseBefore(v.pre, w.pre) \/ PreReleaseBefore(w.pre, v.pre)
  BY <1>2, PreReleaseTotal
<1> QED
  BY <1>3, <1>4, <1>5, SemverOrder

\* No version comes before itself.
LEMMA SemverIrreflexive ==
  ASSUME NEW v \in Semvers
  PROVE  ~SemverBefore(v, v)
<1>1. v.major \in Int /\ v.minor \in Int /\ v.patch \in Int /\ ~PreReleaseBefore(v.pre, v.pre)
  BY SemverIs, PreReleaseIrreflexive
<1>2. ~NumbersBefore(v, v)
  BY <1>1 DEF NumbersBefore
<1> QED
  BY <1>1, <1>2, SemverOrder

\* The HEAD of a remote nobody has tagged comes after every semantic version.
LEMMA LatestIsLast ==
  ASSUME NEW v \in Semvers
  PROVE  Less(v, LatestVersion) /\ ~Less(LatestVersion, v) /\ ~IsSemver(LatestVersion)
<1>1. IsSemver(v) /\ v.major \in 0 .. 9 /\ v.pre \in Seq(Seq(Nat))
  BY SemversAssumption, SemverIs DEF SemverType
<1>2. ~IsSemver(LatestVersion) /\ IsPreRelease(LatestVersion) /\ Text(LatestVersion) = << 32 >>
  BY DEF LatestVersion, Verbal, IsSemver, IsPreRelease, Text
<1>3. Text(v) \in Seq(Nat) /\ Len(Text(v)) >= 5 /\ Head(Text(v)) = 10 + v.major
  BY <1>1, SemverTexts DEF Text
<1> DEFINE l == << 32 >>
           t == Text(v)
<1>4. l \in Seq(Nat) /\ Len(l) = 1 /\ l[1] = 32
  OBVIOUS
<1>a. t \in Seq(Nat) /\ Len(t) >= 5 /\ Head(t) = 10 + v.major
  BY <1>3
<1>6. Text(LatestVersion) = l
  BY <1>2
<1> HIDE DEF l, t
<1>b. Head(t) = t[1] /\ Len(t) \in Nat
  BY <1>a
<1>5. t \in Seq(Nat) /\ Len(t) \in Nat /\ Len(t) >= 5 /\ t[1] \in 10 .. 19
  <2> DEFINE c == v.major
  <2>1. c \in 0 .. 9 /\ t[1] = 10 + c
    BY <1>1, <1>a, <1>b
  <2> HIDE DEF c
  <2>2. 10 + c \in 10 .. 19
    BY <2>1
  <2> QED
    BY <1>a, <1>b, <2>1, <2>2
<1>7. TextBefore(t, l)
  <2>1. PartAt(t, l, 1)
    BY <1>4, <1>5 DEF PartAt
  <2> QED
    BY <1>4, <1>5, <2>1, TextParts
<1>8. ~TextBefore(l, t)
  <2> SUFFICES ASSUME NEW i \in Nat, PartAt(l, t, i) PROVE FALSE
    BY <1>4, <1>5, TextParts
  <2>1. 1 <= i /\ i <= Len(l) + 1 /\ (1 < i => l[1] = t[1]) /\ (i <= Len(l) => l[i] < t[i])
    BY DEF PartAt
  <2> QED
    BY <1>4, <1>5, <2>1, SMTT(60)
<1>9. Text(v) = t
  BY DEF t
<1> QED
  BY <1>1, <1>2, <1>6, <1>7, <1>8, <1>9 DEF Less

\* Orderly versions, and HEAD, are in order.
LEMMA LessOrders ==
  ASSUME NEW S \in SUBSET Semvers, Orderly(S)
  PROVE  LET V == S \cup { LatestVersion }
         IN  /\ \A x \in V : ~Less(x, x)
             /\ \A x, y, z \in V : Less(x, y) /\ Less(y, z) => Less(x, z)
             /\ \A x, y \in V : x = y \/ Less(x, y) \/ Less(y, x)
<1> DEFINE V == S \cup { LatestVersion }
<1>1. \A x, y \in S : (Less(x, y) <=> SemverBefore(x, y)) /\ PartAlike(x.pre, y.pre)
  BY SemverIs DEF Orderly, Less
<1>2. \A x \in S : ~Less(x, x)
  BY <1>1, SemverIrreflexive
<1>3. ~Less(LatestVersion, LatestVersion)
  <2>1. << 32 >> \in Seq(Nat)
    OBVIOUS
  <2>2. ~TextBefore(<< 32 >>, << 32 >>)
    BY <2>1, TextIrreflexive
  <2> QED
    BY <2>2 DEF Less, LatestVersion, Verbal, IsSemver, Text
<1>4. \A x \in V : ~Less(LatestVersion, x)
  BY <1>3, LatestIsLast
<1>5. ASSUME NEW x \in V, NEW y \in V, NEW z \in V, Less(x, y), Less(y, z)
      PROVE  Less(x, z)
  <2>1. x \in S /\ y \in S
    BY <1>4, <1>5
  <2>2. CASE z \in S
    <3>1. SemverBefore(x, y) /\ SemverBefore(y, z) /\ PartAlike(x.pre, y.pre) /\ PartAlike(y.pre, z.pre)
      BY <1>1, <1>5, <2>1, <2>2
    <3>2. SemverBefore(x, z)
      BY <2>1, <2>2, <3>1, SemverTransitive
    <3> QED
      BY <1>1, <2>1, <2>2, <3>2
  <2>3. CASE z = LatestVersion
    BY <2>1, <2>3, LatestIsLast
  <2> QED
    BY <2>2, <2>3
<1>6. \A x, y \in S : x = y \/ Less(x, y) \/ Less(y, x)
  BY <1>1, SemverTotal
<1>7. \A x, y \in V : x = y \/ Less(x, y) \/ Less(y, x)
  BY <1>6, LatestIsLast
<1> QED
  BY <1>2, <1>3, <1>5, <1>7

-----------------------------------------------------------------------------
(* Semantic precedence, and the sort by it.                                *)

\* Where two sequences first differ.
Differ(a, b, i) == i \in DOMAIN a \cap DOMAIN b /\ a[i] # b[i] /\ \A j \in 1 .. i - 1 : a[j] = b[j]
FirstOf(a, b) == CHOOSE i \in DOMAIN a \cap DOMAIN b : a[i] # b[i] /\ \A j \in 1 .. i - 1 : a[j] = b[j]

\* Two sequences that differ somewhere have a first place where they do.
LEMMA FirstDiffers ==
  ASSUME NEW a, NEW b, NEW m \in Nat, NEW n \in Nat, DOMAIN a = 1 .. m, DOMAIN b = 1 .. n,
         \E i \in DOMAIN a \cap DOMAIN b : a[i] # b[i]
  PROVE  Differ(a, b, FirstOf(a, b))
<1> DEFINE D == { i \in DOMAIN a \cap DOMAIN b : a[i] # b[i] }
<1>1. D \in SUBSET Nat /\ D # {}
  OBVIOUS
<1>2. PICK k \in D : \A i \in D : k <= i
  BY <1>1, Least
<1>3. \A j \in 1 .. k - 1 : a[j] = b[j]
  <2> SUFFICES ASSUME NEW j \in 1 .. k - 1, a[j] # b[j] PROVE FALSE
    OBVIOUS
  <2>1. k \in 1 .. m /\ k \in 1 .. n /\ k \in Nat
    BY <1>2
  <2>2. j \in 1 .. m /\ j \in 1 .. n /\ j < k /\ j \in Nat
    BY <2>1
  <2>3. j \in D
    BY <2>2
  <2>4. k <= j
    BY <1>2, <2>3
  <2> QED
    BY <2>1, <2>2, <2>4
<1>4. \E i \in DOMAIN a \cap DOMAIN b : a[i] # b[i] /\ \A j \in 1 .. i - 1 : a[j] = b[j]
  BY <1>2, <1>3
<1> QED
  BY <1>4 DEF Differ, FirstOf

\* Semantic precedence is the order of the code, among versions that part alike.
LEMMA PrecedesIsBefore ==
  ASSUME NEW v \in Semvers, NEW w \in Semvers, PartAlike(v.pre, w.pre), Precedes(v, w)
  PROVE  SemverBefore(v, w)
<1> DEFINE n == NumbersOf(v)
           m == NumbersOf(w)
           p == v.pre
           q == w.pre
           f == FirstOf(n, m)
           g == FirstOf(p, q)
<1>1. /\ v.major \in Int /\ v.minor \in Int /\ v.patch \in Int /\ p \in Seq(Seq(Nat))
      /\ w.major \in Int /\ w.minor \in Int /\ w.patch \in Int /\ q \in Seq(Seq(Nat))
  BY SemverIs
<1>2. IF n # m THEN n[f] < m[f]
      ELSE IF p = << >> \/ q = << >> THEN p # << >> /\ q = << >>
      ELSE IF IsPrefix(p, q) THEN p # q
      ELSE IF IsPrefix(q, p) THEN FALSE
      ELSE IF IsNumeric(p[g]) /\ IsNumeric(q[g]) THEN Value(p[g]) < Value(q[g])
           ELSE IsNumeric(p[g]) \/ (~IsNumeric(q[g]) /\ TextBefore(p[g], q[g]))
  BY DEF Precedes, FirstOf
<1>3. CASE n # m
  <2>1. /\ DOMAIN n = 1 .. 3 /\ n[1] = v.major /\ n[2] = v.minor /\ n[3] = v.patch
        /\ DOMAIN m = 1 .. 3 /\ m[1] = w.major /\ m[2] = w.minor /\ m[3] = w.patch
    BY DEF NumbersOf
  <2>2. \E i \in DOMAIN n \cap DOMAIN m : n[i] # m[i]
    <3>1. v.major # w.major \/ v.minor # w.minor \/ v.patch # w.patch
      BY <1>3 DEF NumbersOf
    <3>2. 1 \in DOMAIN n \cap DOMAIN m /\ 2 \in DOMAIN n \cap DOMAIN m /\ 3 \in DOMAIN n \cap DOMAIN m
      BY <2>1
    <3> HIDE DEF n, m
    <3> QED
      BY <2>1, <3>1, <3>2
  <2> HIDE DEF n, m
  <2>3. Differ(n, m, f)
    <3>1. 3 \in Nat
      OBVIOUS
    <3> QED
      BY <2>1, <2>2, <3>1, FirstDiffers
  <2>4. n[f] < m[f]
    BY <1>2, <1>3
  <2> HIDE DEF f
  <2>5. f \in 1 .. 3 /\ \A j \in 1 .. f - 1 : n[j] = m[j]
    BY <2>1, <2>3 DEF Differ
  <2>6. f = 1 \/ f = 2 \/ f = 3
    BY <2>5
  <2>7. NumbersBefore(v, w)
    <3>1. CASE f = 1
      BY <2>1, <2>4, <3>1 DEF NumbersBefore
    <3>2. CASE f = 2
      <4>1. n[1] = m[1]
        BY <2>5, <3>2
      <4> QED
        BY <2>1, <2>4, <3>2, <4>1 DEF NumbersBefore
    <3>3. CASE f = 3
      <4>1. n[1] = m[1] /\ n[2] = m[2]
        BY <2>5, <3>3
      <4> QED
        BY <2>1, <2>4, <3>3, <4>1 DEF NumbersBefore
    <3> QED
      BY <2>6, <3>1, <3>2, <3>3
  <2> QED
    BY <2>7, SemverOrder
<1>4. CASE n = m
  <2>1. NumbersAlike(v, w)
    BY <1>4 DEF NumbersOf, NumbersAlike
  <2>2. SUFFICES PreReleaseBefore(p, q)
    BY <2>1, SemverOrder
  <2>3. CASE p = << >> \/ q = << >>
    <3>1. p # << >> /\ q = << >>
      BY <1>2, <1>4, <2>3
    <3> HIDE DEF p, q
    <3> QED
      BY <3>1 DEF PreReleaseBefore
  <2>4. CASE p # << >> /\ q # << >>
    <3> DEFINE a == Len(p)
               b == Len(q)
    <3>1. /\ a \in Nat /\ b \in Nat /\ DOMAIN p = 1 .. a /\ DOMAIN q = 1 .. b
          /\ \A k \in 1 .. a : p[k] \in Seq(Nat)
          /\ \A k \in 1 .. b : q[k] \in Seq(Nat)
      BY <1>1, PreIs
    <3>2. PartAlike(p, q)
      OBVIOUS
    <3>3. \A i \in Nat : PrePartAt(p, q, i) => PreReleaseBefore(p, q)
      BY <1>1, <2>4, PreParts
    <3>4. /\ IsPrefix(p, q) <=> a <= b /\ \A i \in 1 .. a : p[i] = q[i]
          /\ IsPrefix(q, p) <=> b <= a /\ \A i \in 1 .. b : q[i] = p[i]
      <4>1. ASSUME NEW s \in Seq(Seq(Nat)), NEW t \in Seq(Seq(Nat))
            PROVE  IsPrefix(s, t) <=> Len(s) <= Len(t) /\ \A i \in 1 .. Len(s) : s[i] = t[i]
        <5>1. CASE ~(Len(s) <= Len(t))
          BY <5>1 DEF IsPrefix
        <5>2. CASE Len(s) <= Len(t)
          <6>1. Len(s) \in Nat /\ Len(t) \in Nat /\ SubSeq(s, 1, Len(s)) = s
            OBVIOUS
          <6>2. /\ SubSeq(t, 1, Len(s)) \in Seq(Seq(Nat)) /\ Len(SubSeq(t, 1, Len(s))) = Len(s)
                /\ \A i \in 1 .. Len(s) : SubSeq(t, 1, Len(s))[i] = t[i]
            BY <5>2, <6>1
          <6>3. s = SubSeq(t, 1, Len(s)) <=> \A i \in 1 .. Len(s) : s[i] = t[i]
            <7> DEFINE u == SubSeq(t, 1, Len(s))
            <7>1. u \in Seq(Seq(Nat)) /\ Len(u) = Len(s) /\ \A i \in 1 .. Len(s) : u[i] = t[i]
              BY <6>2
            <7> HIDE DEF u
            <7>2. s = u <=> \A i \in 1 .. Len(s) : s[i] = u[i]
              BY <6>1, <7>1
            <7>3. s = u <=> \A i \in 1 .. Len(s) : s[i] = t[i]
              BY <7>1, <7>2
            <7> QED
              BY <7>3 DEF u
          <6> QED
            BY <5>2, <6>1, <6>3 DEF IsPrefix
        <5> QED
          BY <5>1, <5>2
      <4> QED
        BY <1>1, <4>1
    <3>5. ASSUME a = b, \A i \in 1 .. a : p[i] = q[i] PROVE p = q
      <4>1. ASSUME NEW s \in Seq(Seq(Nat)), NEW t \in Seq(Seq(Nat)),
                   Len(s) = Len(t), \A i \in 1 .. Len(s) : s[i] = t[i]
            PROVE  s = t
        BY <4>1, SeqEqual
      <4> HIDE DEF p, q
      <4> QED
        BY <1>1, <3>5, <4>1
    <3> HIDE DEF a, b, p, q
    <3>6. CASE IsPrefix(p, q)
      <4>1. p # q /\ a <= b /\ \A i \in 1 .. a : p[i] = q[i]
        BY <1>2, <1>4, <2>4, <3>4, <3>6
      <4>2. a < b
        BY <3>1, <3>5, <4>1
      <4> DEFINE e == a + 1
      <4>3. 1 <= e /\ e <= b /\ ~(e <= a) /\ e <= a + 1 /\ e \in Nat
        BY <3>1, <4>2
      <4>4. \A k \in Nat : 1 <= k /\ k < e => p[k] = q[k]
        BY <3>1, <4>1
      <4> HIDE DEF e
      <4>5. PrePartAt(p, q, e)
        BY <4>3, <4>4 DEF PrePartAt, a, b
      <4> QED
        BY <3>3, <4>3, <4>5
    <3>7. CASE ~IsPrefix(p, q)
      <4>1. ~IsPrefix(q, p)
        BY <1>2, <1>4, <2>4, <3>7
      <4>2. \E i \in DOMAIN p \cap DOMAIN q : p[i] # q[i]
        <5> SUFFICES ASSUME \A i \in DOMAIN p \cap DOMAIN q : p[i] = q[i] PROVE FALSE
          OBVIOUS
        <5>1. \A i \in 1 .. a : i <= b => p[i] = q[i]
          BY <3>1
        <5>2. CASE a <= b
          BY <3>1, <3>4, <3>7, <5>1, <5>2
        <5>3. CASE b <= a
          BY <3>1, <3>4, <4>1, <5>1, <5>3
        <5> QED
          BY <3>1, <5>2, <5>3
      <4>3. Differ(p, q, g)
        BY <3>1, <4>2, FirstDiffers
      <4>4. IF IsNumeric(p[g]) /\ IsNumeric(q[g]) THEN Value(p[g]) < Value(q[g])
            ELSE IsNumeric(p[g]) \/ (~IsNumeric(q[g]) /\ TextBefore(p[g], q[g]))
        BY <1>2, <1>4, <2>4, <3>7, <4>1
      <4> HIDE DEF g
      <4>5. g \in DOMAIN p \cap DOMAIN q /\ \A j \in 1 .. g - 1 : p[j] = q[j]
        BY <4>3 DEF Differ
      <4>6. /\ IsNumeric(p[g]) <=> IsNumeric(q[g])
            /\ IsInt(p[g]) <=> IsNumeric(p[g])
            /\ IsInt(q[g]) <=> IsNumeric(q[g])
        BY <3>2, <4>5 DEF PartAlike
      <4>7. p[g] \in Seq(Nat) /\ q[g] \in Seq(Nat) /\ g \in Nat /\ 1 <= g /\ g <= a /\ g <= b
        BY <3>1, <4>5
      <4>8. IdentifierBefore(p[g], q[g])
        <5>1. CASE IsNumeric(p[g])
          <6>1. IntOf(p[g]) < IntOf(q[g]) /\ IntOf(p[g]) \in Int /\ IntOf(q[g]) \in Int
            BY <4>4, <4>6, <4>7, <5>1, IntIsNumber
          <6>2. IntOf(p[g]) # IntOf(q[g])
            BY <6>1
          <6> QED
            BY <4>6, <5>1, <6>1, <6>2 DEF IdentifierBefore
        <5>2. CASE ~IsNumeric(p[g])
          BY <4>4, <4>6, <5>2 DEF IdentifierBefore
        <5> QED
          BY <5>1, <5>2
      <4>9. \A k \in Nat : 1 <= k /\ k < g => p[k] = q[k]
        BY <4>5, <4>7
      <4>10. g <= a + 1
        BY <3>1, <4>7
      <4>11. PrePartAt(p, q, g)
        BY <4>7, <4>8, <4>9, <4>10 DEF PrePartAt, a, b
      <4> QED
        BY <3>3, <4>7, <4>11
    <3> QED
      BY <3>6, <3>7
  <2> QED
    BY <2>3, <2>4
<1> QED
  BY <1>3, <1>4

\* All versions of a list are of V.
VersionsIn(s, V) == \A i \in 1 .. Len(s) : s[i].version \in V

\* To insert keeps a list in order.
LEMMA InsertedInOrder ==
  ASSUME NEW V, Orders(V), NEW n \in Nat, NEW sorted, Len(sorted) = n, NEW candidate, NEW place \in 0 .. n, NEW s,
         VersionsIn(sorted, V), candidate.version \in V, Descending(sorted),
         IsInserted(s, sorted, candidate, place), IsPlace(sorted, candidate, place)
  PROVE  Descending(s) /\ VersionsIn(s, V)
<1>1. /\ Len(s) = n + 1 /\ s[place + 1] = candidate /\ place \in Nat
      /\ \A i \in 1 .. place : s[i] = sorted[i]
      /\ \A i \in place + 1 .. n : s[i + 1] = sorted[i]
  BY DEF IsInserted
<1>2. \A i \in 1 .. n + 1 :
        \/ i <= place /\ i \in 1 .. n /\ s[i] = sorted[i]
        \/ i = place + 1
        \/ place + 1 < i /\ i - 1 \in 1 .. n /\ place < i - 1 /\ s[i] = sorted[i - 1]
  <2> TAKE i \in 1 .. n + 1
  <2>1. CASE i <= place
    BY <1>1, <2>1
  <2>2. CASE place + 1 < i
    <3>1. i - 1 \in place + 1 .. n /\ (i - 1) + 1 = i
      BY <1>1, <2>2
    <3>2. s[(i - 1) + 1] = sorted[i - 1]
      BY <1>1, <3>1
    <3> QED
      BY <1>1, <2>2, <3>1, <3>2
  <2> QED
    BY <1>1, <2>1, <2>2
<1>3. VersionsIn(s, V)
  <2> SUFFICES ASSUME NEW i \in 1 .. n + 1 PROVE s[i].version \in V
    BY <1>1 DEF VersionsIn
  <2> QED
    BY <1>1, <1>2 DEF VersionsIn
<1> DEFINE c == candidate.version
           old(i) == sorted[i].version
<1>4. /\ c \in V /\ \A i \in 1 .. n : old(i) \in V
      /\ \A i \in 1 .. n : place < i => ~Less(c, old(i))
      /\ place # 0 => Less(c, old(place)) /\ place \in 1 .. n
      /\ \A i, j \in 1 .. n : i < j => ~Less(old(i), old(j))
  BY DEF VersionsIn, IsPlace, Descending
<1> HIDE DEF c, old
<1>5. \A i \in 1 .. place : ~Less(old(i), c)
  <2> SUFFICES ASSUME NEW i \in 1 .. place, Less(old(i), c) PROVE FALSE
    OBVIOUS
  <2>1. place # 0 /\ i \in 1 .. n /\ i <= place
    BY <1>1
  <2>2. Less(old(i), old(place))
    BY <1>4, <2>1 DEF Orders
  <2>3. i = place \/ i < place
    BY <1>1, <2>1
  <2> QED
    BY <1>4, <2>1, <2>2, <2>3 DEF Orders
<1>6. ASSUME NEW i \in 1 .. n + 1, NEW j \in 1 .. n + 1, i < j
      PROVE  ~Less(s[i].version, s[j].version)
  <2>1. CASE i <= place
    <3>1. i \in 1 .. n /\ s[i].version = old(i) /\ i \in 1 .. place
      BY <1>1, <1>2, <2>1 DEF old
    <3>2. CASE j <= place
      <4>1. j \in 1 .. n /\ s[j].version = old(j)
        BY <1>1, <1>2, <3>2 DEF old
      <4> QED
        BY <1>4, <1>6, <3>1, <4>1
    <3>3. CASE j = place + 1
      <4>1. s[j].version = c
        BY <1>1, <3>3 DEF c
      <4> QED
        BY <1>5, <3>1, <4>1
    <3>4. CASE place + 1 < j
      <4>1. j - 1 \in 1 .. n /\ s[j].version = old(j - 1) /\ i < j - 1
        BY <1>1, <1>2, <2>1, <3>4 DEF old
      <4> QED
        BY <1>4, <3>1, <4>1
    <3> QED
      BY <1>1, <3>2, <3>3, <3>4
  <2>2. CASE i = place + 1
    <3>1. j - 1 \in 1 .. n /\ s[j].version = old(j - 1) /\ place < j - 1
      BY <1>1, <1>2, <1>6, <2>2 DEF old
    <3>2. s[i].version = c
      BY <1>1, <2>2 DEF c
    <3> QED
      BY <1>4, <3>1, <3>2
  <2>3. CASE place + 1 < i
    <3>1. i - 1 \in 1 .. n /\ s[i].version = old(i - 1)
      BY <1>1, <1>2, <2>3 DEF old
    <3>2. j - 1 \in 1 .. n /\ s[j].version = old(j - 1) /\ i - 1 < j - 1
      BY <1>1, <1>2, <1>6, <2>3 DEF old
    <3> QED
      BY <1>4, <3>1, <3>2
  <2> QED
    BY <1>1, <2>1, <2>2, <2>3
<1>7. Descending(s)
  BY <1>1, <1>6 DEF Descending
<1> QED
  BY <1>3, <1>7

\* Nothing is lost by an insertion.
Lists(s, candidate) == \E i \in 1 .. Len(s) : s[i] = candidate
LEMMA InsertedKeeps ==
  ASSUME NEW n \in Nat, NEW sorted, Len(sorted) = n, NEW candidate, NEW place \in 0 .. n, NEW s,
         IsInserted(s, sorted, candidate, place)
  PROVE  Lists(s, candidate) /\ \A x : Lists(sorted, x) => Lists(s, x)
<1>1. /\ Len(s) = n + 1 /\ s[place + 1] = candidate /\ place \in Nat
      /\ \A i \in 1 .. place : s[i] = sorted[i]
      /\ \A i \in place + 1 .. n : s[i + 1] = sorted[i]
  BY DEF IsInserted
<1>2. Lists(s, candidate)
  <2>1. place + 1 \in 1 .. n + 1
    BY <1>1
  <2> QED
    BY <1>1, <2>1 DEF Lists
<1>3. ASSUME NEW x, Lists(sorted, x) PROVE Lists(s, x)
  <2>1. PICK i \in 1 .. n : sorted[i] = x
    BY <1>3 DEF Lists
  <2>2. CASE i <= place
    <3>1. i \in 1 .. place /\ i \in 1 .. n + 1
      BY <1>1, <2>2
    <3> QED
      BY <1>1, <2>1, <3>1 DEF Lists
  <2>3. CASE place < i
    <3>1. i \in place + 1 .. n /\ i + 1 \in 1 .. n + 1
      BY <1>1, <2>3
    <3> QED
      BY <1>1, <2>1, <3>1 DEF Lists
  <2> QED
    BY <1>1, <2>2, <2>3
<1> QED
  BY <1>2, <1>3

\* A list of everything in T, in order if Less orders it.
SortsOut(s, T) ==
  /\ s \in Seq(T) /\ \A c \in T : Lists(s, c)
  /\ Orders({ c.version : c \in T }) => Descending(s)

\* By insertions everything that fits gets in order.
LEMMA InsertionsOrder ==
  ASSUME NEW remote, NEW predicates, IsFiniteSet(remote.refs)
  PROVE  SortsOut(InsertionSorted(remote, predicates), Fits(remote, predicates))
<1> DEFINE N == Len(Candidates(remote))
           T == Fits(remote, predicates)
           V == { c.version : c \in T }
           fits(n) == MatchesAll(Candidates(remote)[n].version, predicates)
<1>1. PICK f : Sorts(f, remote, predicates)
  BY Sorting
<1>2. N \in Nat /\ DOMAIN Candidates(remote) = 1 .. N
  BY CandidatesRead, SequenceShape
<1>3. /\ f[0] = << >>
      /\ \A n \in 1 .. N : f[n] = IF fits(n) THEN Insert(f[n - 1], Candidates(remote)[n]) ELSE f[n - 1]
      /\ \A n \in 0 .. N : f[n] \in Seq(T)
      /\ InsertionSorted(remote, predicates) = f[N]
  BY <1>1 DEF Sorts, SortStep
<1>4. \A n \in 1 .. N : fits(n) => Candidates(remote)[n] \in T
  BY <1>2 DEF Fits
<1>5. \A c \in T : \E n \in 1 .. N : fits(n) /\ c = Candidates(remote)[n]
  BY <1>2 DEF Fits
<1>6. \A c \in T : c.version \in V
  OBVIOUS
<1> DEFINE listed(n) == Candidates(remote)[n]
           Good(n) == /\ Orders(V) => Descending(f[n])
                      /\ \A k \in 1 .. n : fits(k) => Lists(f[n], listed(k))
<1>a. \A n \in 1 .. N : /\ fits(n) => listed(n) \in T
                        /\ f[n] = IF fits(n) THEN Insert(f[n - 1], listed(n)) ELSE f[n - 1]
  BY <1>3, <1>4
<1>b. \A c \in T : \E n \in 1 .. N : fits(n) /\ c = listed(n)
  BY <1>5
<1>c. \A s \in Seq(T) : VersionsIn(s, V)
  BY DEF VersionsIn
<1>d. V = { c.version : c \in T }
  OBVIOUS
<1> HIDE DEF N, T, V, fits, listed
<1>7. Good(0)
  <2>1. Len(f[0]) = 0
    BY <1>3, EmptySequence
  <2> QED
    BY <2>1 DEF Descending
<1>8. ASSUME NEW n \in 1 .. N, Good(n - 1) PROVE Good(n)
  <2>1. n - 1 \in 0 .. N /\ n \in 0 .. N
    BY <1>2
  <2>2. f[n - 1] \in Seq(T)
    BY <1>3, <2>1
  <2>3. CASE ~fits(n)
    <3>1. f[n] = f[n - 1]
      BY <1>a, <2>3
    <3>2. \A k \in 1 .. n : fits(k) => k \in 1 .. n - 1
      BY <1>2, <2>3
    <3> QED
      BY <1>8, <3>1, <3>2
  <2>4. CASE fits(n)
    <3> DEFINE c == listed(n)
               s == f[n]
               sorted == f[n - 1]
    <3>1. c \in T /\ s = Insert(sorted, c) /\ sorted \in Seq(T)
      BY <1>a, <2>2, <2>4
    <3>a. /\ Orders(V) => Descending(sorted)
          /\ VersionsIn(sorted, V) /\ \A k \in 1 .. n - 1 : fits(k) => Lists(sorted, listed(k))
      BY <1>8, <1>c, <2>2
    <3> HIDE DEF c, s, sorted
    <3>2. Len(sorted) \in Nat
      BY <3>1
    <3>3. PICK place \in 0 .. Len(sorted) : /\ IsInserted(s, sorted, c, place)
                                             /\ IsPlace(sorted, c, place)
      BY <3>1, Inserted
    <3>4. c.version \in V
      BY <1>6, <3>1
    <3>5. Orders(V) => Descending(s)
      BY <3>2, <3>3, <3>4, <3>a, InsertedInOrder
    <3>6. Lists(s, c) /\ \A x : Lists(sorted, x) => Lists(s, x)
      BY <3>2, <3>3, InsertedKeeps
    <3>7. \A k \in 1 .. n : fits(k) => Lists(s, listed(k))
      <4> SUFFICES ASSUME NEW k \in 1 .. n, fits(k) PROVE Lists(s, listed(k))
        OBVIOUS
      <4>1. k = n \/ k \in 1 .. n - 1
        BY <1>2
      <4> QED
        BY <3>6, <3>a, <4>1 DEF c
    <3> QED
      BY <3>5, <3>7 DEF s
  <2> QED
    BY <2>3, <2>4
<1>9. Good(N)
  <2> DEFINE Bad == { n \in 0 .. N : ~Good(n) }
  <2> HIDE DEF Good
  <2> SUFFICES ASSUME Bad # {} PROVE FALSE
    BY <1>2
  <2>1. PICK m \in Bad : \A n \in Bad : m <= n
    <3>1. Bad \in SUBSET Nat
      OBVIOUS
    <3> QED
      BY <3>1, Least
  <2>2. m # 0
    BY <2>1, <1>7
  <2>3. m - 1 \in 0 .. N /\ m \in 1 .. N /\ ~(m <= m - 1)
    BY <2>1, <2>2, <1>2
  <2>4. Good(m - 1)
    BY <2>1, <2>3
  <2> QED
    BY <2>1, <2>3, <2>4, <1>8
<1>10. \A c \in T : Lists(f[N], c)
  BY <1>b, <1>9
<1>11. f[N] \in Seq(T)
  BY <1>2, <1>3
<1>12. SortsOut(f[N], T)
  BY <1>9, <1>10, <1>11, <1>d DEF SortsOut
<1> QED
  BY <1>3, <1>12 DEF T

\* A list may be put in order, and then it is.
LEMMA PartitionedIs ==
  ASSUME NEW T, NEW s, SortsOut(s, T)
  PROVE  SortsOut(Partitioned(s), T)
<1> DEFINE n == Len(s)
           D == DOMAIN s
           V == { s[i].version : i \in D }
           W == { c.version : c \in T }
           Rearranged(p) == [ i \in D |-> s[p[i]] ]
           R == { Rearranged(p) : p \in Surjection(D, D) }
           Fine(r) == Orders(V) => Descending(r)
           r == Partitioned(s)
<1>1. n \in Nat /\ D = 1 .. n /\ s \in Seq(T) /\ (\A i \in D : s[i] \in T) /\ s = [ i \in D |-> s[i] ]
  BY DEF SortsOut
<1>2. \A c \in T : \E i \in D : s[i] = c
  BY <1>1 DEF SortsOut, Lists
<1>3. V = W
  BY <1>1, <1>2
<1>4. Fine(s)
  BY <1>3 DEF SortsOut
<1>5. s \in R
  <2> DEFINE p == [ i \in D |-> i ]
  <2>1. p \in Surjection(D, D)
    BY DEF Surjection
  <2>2. Rearranged(p) = s
    BY <1>1
  <2> HIDE DEF p, Rearranged
  <2> QED
    BY <2>1, <2>2
<1>6. r = CHOOSE x \in R : Fine(x)
  BY DEF Partitioned
<1> HIDE DEF r, R, Fine
<1>7. r \in R /\ Fine(r)
  BY <1>4, <1>5, <1>6
<1>8. PICK p \in Surjection(D, D) : r = Rearranged(p)
  BY <1>7 DEF R
<1>9. p \in [ D -> D ] /\ \A j \in D : \E i \in D : p[i] = j
  BY <1>8 DEF Surjection
<1> HIDE DEF D
<1>10. \A i \in D : r[i] = s[p[i]] /\ r[i] \in T
  BY <1>1, <1>8, <1>9
<1>a. DOMAIN r = D /\ r = [ i \in D |-> r[i] ]
  BY <1>8
<1> HIDE DEF n, Rearranged
<1>11. r \in Seq(T) /\ Len(r) = n
  <2>1. r \in [ 1 .. n -> T ]
    BY <1>1, <1>10, <1>a
  <2> QED
    BY <1>1, <2>1
<1>12. \A c \in T : Lists(r, c)
  <2> SUFFICES ASSUME NEW c \in T PROVE \E i \in D : r[i] = c
    BY <1>1, <1>11 DEF Lists
  <2>1. PICK j \in D : s[j] = c
    BY <1>2
  <2>2. PICK i \in D : p[i] = j
    BY <1>9
  <2> QED
    BY <1>10, <2>1, <2>2
<1>13. Orders(W) => Descending(r)
  BY <1>3, <1>7 DEF Fine
<1> QED
  BY <1>11, <1>12, <1>13 DEF SortsOut, r, W

\* What a remote offers is everything that fits, in order if Less orders it.
LEMMA OfferedIs ==
  ASSUME NEW remote, NEW predicates, IsFiniteSet(remote.refs)
  PROVE  SortsOut(RemotePackageVersions(remote, predicates), Fits(remote, predicates))
BY InsertionsOrder, PartitionedIs DEF RemotePackageVersions

\* What is offered fits, and can be told from its name again.
LEMMA OfferedFits ==
  ASSUME NEW remote, NEW predicates, IsFiniteSet(remote.refs),
         RemotePackageVersions(remote, predicates) # << >>
  PROVE  LET first == RemotePackageVersions(remote, predicates)[1]
         IN  MatchesAll(first.version, predicates) /\ Readable(first.version)
<1> DEFINE versions == RemotePackageVersions(remote, predicates)
<1>1. \A i \in DOMAIN Candidates(remote) : Readable(Candidates(remote)[i].version)
  BY CandidatesRead
<1>2. versions \in Seq(Fits(remote, predicates))
  BY OfferedIs DEF SortsOut
<1> HIDE DEF versions
<1>3. versions # << >>
  BY DEF versions
<1>4. versions[1] \in Fits(remote, predicates)
  BY <1>2, <1>3
<1> QED
  BY <1>1, <1>4 DEF Fits, versions

\* A text is parsed as a semantic version somebody may have written, or stands
\* for itself.
LEMMA ParsedIs ==
  ASSUME NEW text
  PROVE  (IsSemver(Parse(text)) => Parse(text) \in Semvers) /\ ~IsSemver(LatestVersion)
<1> DEFINE plain == IF text # << >> /\ Head(text) = LetterV THEN Tail(text) ELSE text
           spelled == { v \in Semvers : Spelled[v] = plain }
<1>1. Parse(text) = IF spelled = {} THEN Verbal(text) ELSE CHOOSE v \in spelled : TRUE
  BY DEF Parse
<1>2. ~IsSemver(Verbal(text)) /\ ~IsSemver(LatestVersion)
  BY DEF Verbal, IsSemver, LatestVersion
<1>3. spelled # {} => (CHOOSE v \in spelled : TRUE) \in spelled
  OBVIOUS
<1> QED
  BY <1>1, <1>2, <1>3

\* What is in a concatenation is in one of its parts.
Among(s, x) == \E i \in DOMAIN s : s[i] = x
LEMMA InEither ==
  ASSUME NEW s, NEW t, IsSequence(s), IsSequence(t)
  PROVE  /\ IsSequence(s \o t)
         /\ \A i \in DOMAIN (s \o t) : Among(s, (s \o t)[i]) \/ Among(t, (s \o t)[i])
         /\ \A x : Among(s, x) \/ Among(t, x) => Among(s \o t, x)
<1> DEFINE u == s \o t
<1>1. /\ IsSequence(u) /\ Len(u) = Len(s) + Len(t) /\ DOMAIN u = 1 .. Len(s) + Len(t)
      /\ \A i \in 1 .. Len(s) : u[i] = s[i]
      /\ \A i \in 1 .. Len(t) : u[Len(s) + i] = t[i]
      /\ \A i \in DOMAIN u : \/ i \in DOMAIN s /\ u[i] = s[i]
                             \/ i - Len(s) \in DOMAIN t /\ u[i] = t[i - Len(s)]
  BY Concatenated
<1>2. Len(s) \in Nat /\ DOMAIN s = 1 .. Len(s) /\ Len(t) \in Nat /\ DOMAIN t = 1 .. Len(t)
  BY SequenceShape
<1> HIDE DEF u
<1>3. \A i \in 1 .. Len(s) : i \in DOMAIN u
  BY <1>1, <1>2
<1>4. \A i \in 1 .. Len(t) : Len(s) + i \in DOMAIN u
  BY <1>1, <1>2
<1>5. \A x : Among(s, x) => Among(u, x)
  BY <1>1, <1>2, <1>3 DEF Among
<1>6. \A x : Among(t, x) => Among(u, x)
  BY <1>1, <1>2, <1>4 DEF Among
<1>7. \A i \in DOMAIN u : Among(s, u[i]) \/ Among(t, u[i])
  BY <1>1 DEF Among
<1> QED
  BY <1>1, <1>5, <1>6, <1>7 DEF u

\* What fits of a remote is HEAD or one of its references, and none is left out.
LEMMA FitsAreReferences ==
  ASSUME NEW remote, NEW predicates, IsFiniteSet(remote.refs),
         \A ref \in remote.refs : IsReference(ref)
  PROVE  /\ \A c \in Fits(remote, predicates) :
              /\ MatchesAll(c.version, predicates)
              /\ c.version = LatestVersion \/ \E ref \in remote.refs : c.version = Parse(ref.text)
         /\ \A ref \in remote.refs : MatchesAll(Parse(ref.text), predicates) =>
              \E c \in Fits(remote, predicates) : c.version = Parse(ref.text)
<1> DEFINE texts(kind) == { ref.text : ref \in { ref \in remote.refs : ref.kind = kind } }
           named(kind) == InTextOrder(texts(kind))
           plain(kind) == [ i \in DOMAIN named(kind) |->
                              [ kind |-> kind, text |-> named(kind)[i], version |-> Parse(named(kind)[i]) ] ]
           head == [ kind |-> "branch", text |-> remote.head, version |-> LatestVersion ]
           first == IF named("tag") = << >> THEN << head >> ELSE << >>
<1>1. ASSUME NEW kind
      PROVE  /\ IsSequence(plain(kind))
             /\ \A i \in DOMAIN plain(kind) : \E ref \in remote.refs : plain(kind)[i].version = Parse(ref.text)
             /\ \A ref \in remote.refs : ref.kind = kind =>
                  \E i \in DOMAIN plain(kind) : plain(kind)[i].version = Parse(ref.text)
  <2>1. IsFiniteSet(texts(kind))
    <3>1. IsFiniteSet({ ref \in remote.refs : ref.kind = kind })
      BY FS_Subset
    <3> QED
      BY <3>1, FiniteTexts
  <2>2. texts(kind) \in SUBSET Seq(Nat)
    BY DEF IsReference
  <2> DEFINE S == texts(kind)
             s == plain(kind)
             o == named(kind)
  <2>3. \A t \in S : \E ref \in remote.refs : t = ref.text
    OBVIOUS
  <2>4. \A ref \in remote.refs : ref.kind = kind => ref.text \in S
    OBVIOUS
  <2>5. DOMAIN s = DOMAIN o /\ \A i \in DOMAIN o : s[i].version = Parse(o[i])
    OBVIOUS
  <2>6. s = [ i \in DOMAIN o |-> s[i] ]
    OBVIOUS
  <2>a. IsFiniteSet(S) /\ S \in SUBSET Seq(Nat) /\ o = InTextOrder(S)
    BY <2>1, <2>2
  <2> HIDE DEF S, s, o
  <2>7. /\ DOMAIN o = 1 .. Cardinality(S) /\ Cardinality(S) \in Nat
        /\ \A i \in DOMAIN o : o[i] \in S
        /\ \A t \in S : \E i \in DOMAIN o : o[i] = t
    BY <2>a, InOrder
  <2>8. IsSequence(s)
    BY <2>5, <2>6, <2>7, FunctionSequence
  <2>9. \A i \in DOMAIN s : \E ref \in remote.refs : s[i].version = Parse(ref.text)
    BY <2>3, <2>5, <2>7
  <2>10. \A ref \in remote.refs : ref.kind = kind => \E i \in DOMAIN s : s[i].version = Parse(ref.text)
    BY <2>4, <2>5, <2>7
  <2> QED
    BY <2>8, <2>9, <2>10 DEF s
<1>2. IsSequence(first) /\ \A i \in DOMAIN first : first[i].version = LatestVersion
  <2>1. head.version = LatestVersion
    OBVIOUS
  <2> HIDE DEF head
  <2>2. CASE named("tag") = << >>
    BY <2>1, <2>2, OneElement
  <2>3. CASE named("tag") # << >>
    BY <2>3, EmptySequence
  <2> QED
    BY <2>2, <2>3
<1> DEFINE branches == plain("branch")
           tags == plain("tag")
           both == first \o branches
           all == both \o tags
<1>3. Candidates(remote) = all
  BY DEF Candidates
<1>a. /\ branches = plain("branch") /\ tags = plain("tag")
      /\ all = both \o tags /\ both = first \o branches
  OBVIOUS
<1> HIDE DEF plain, branches, tags, both, all
<1>4. /\ IsSequence(branches) /\ IsSequence(tags)
      /\ \A i \in DOMAIN branches : \E ref \in remote.refs : branches[i].version = Parse(ref.text)
      /\ \A i \in DOMAIN tags : \E ref \in remote.refs : tags[i].version = Parse(ref.text)
      /\ \A ref \in remote.refs : ref.kind = "branch" =>
           \E i \in DOMAIN branches : branches[i].version = Parse(ref.text)
      /\ \A ref \in remote.refs : ref.kind = "tag" =>
           \E i \in DOMAIN tags : tags[i].version = Parse(ref.text)
  BY <1>1, <1>a, ZenonT(60)
<1>5. \A ref \in remote.refs : ref.kind \in { "branch", "tag" }
  BY DEF IsReference
<1> DEFINE Known(x) == x.version = LatestVersion \/ \E ref \in remote.refs : x.version = Parse(ref.text)
<1> HIDE DEF first
<1>7. /\ IsSequence(both)
      /\ \A i \in DOMAIN both : Among(first, both[i]) \/ Among(branches, both[i])
      /\ \A x : Among(first, x) \/ Among(branches, x) => Among(both, x)
  BY <1>2, <1>4, <1>a, InEither
<1>8. /\ \A i \in DOMAIN all : Among(both, all[i]) \/ Among(tags, all[i])
      /\ \A x : Among(both, x) \/ Among(tags, x) => Among(all, x)
  BY <1>4, <1>7, <1>a, InEither
<1>9. \A i \in DOMAIN all : Known(all[i])
  <2>1. \A x : Among(first, x) => Known(x)
    BY <1>2 DEF Among
  <2>2. \A x : Among(branches, x) => Known(x)
    BY <1>4 DEF Among
  <2>3. \A x : Among(tags, x) => Known(x)
    BY <1>4 DEF Among
  <2>4. \A x : Among(both, x) => Known(x)
    BY <1>7, <2>1, <2>2 DEF Among
  <2> HIDE DEF Known
  <2> QED
    BY <1>8, <2>3, <2>4
<1>10. ASSUME NEW ref \in remote.refs
       PROVE  \E i \in DOMAIN all : all[i].version = Parse(ref.text)
  <2>1. CASE ref.kind = "branch"
    <3>1. PICK i \in DOMAIN branches : branches[i].version = Parse(ref.text)
      BY <1>4, <2>1
    <3>2. Among(all, branches[i])
      BY <1>7, <1>8 DEF Among
    <3> QED
      BY <3>1, <3>2 DEF Among
  <2>2. CASE ref.kind = "tag"
    <3>1. PICK i \in DOMAIN tags : tags[i].version = Parse(ref.text)
      BY <1>4, <2>2
    <3>2. Among(all, tags[i])
      BY <1>8 DEF Among
    <3> QED
      BY <3>1, <3>2 DEF Among
  <2> QED
    BY <1>5, <2>1, <2>2
<1>11. Fits(remote, predicates) =
         { all[i] : i \in { i \in DOMAIN all : MatchesAll(all[i].version, predicates) } }
  BY <1>3 DEF Fits
<1> HIDE DEF Known
<1>12. \A c \in Fits(remote, predicates) : MatchesAll(c.version, predicates) /\ Known(c)
  BY <1>9, <1>11
<1>13. ASSUME NEW ref \in remote.refs, MatchesAll(Parse(ref.text), predicates)
       PROVE  \E c \in Fits(remote, predicates) : c.version = Parse(ref.text)
  BY <1>10, <1>11, <1>13
<1> QED
  BY <1>12, <1>13 DEF Known

\* The first of what a remote offers is the newest of what it lists.
Listed(remote) == { Parse(ref.text) : ref \in remote.refs }
Newest(version, offered, predicates) ==
  LET admitted == { v \in offered : MatchesAll(v, predicates) }
  IN  IsSemver(version) /\ Orderly(admitted) => \A v \in admitted : ~Precedes(version, v)

\* The first of what a remote offers is the newest of it.
LEMMA NewestIsOffered ==
  ASSUME NEW remote, NEW predicates, IsFiniteSet(remote.refs),
         \A ref \in remote.refs : IsReference(ref),
         RemotePackageVersions(remote, predicates) # << >>
  PROVE  Newest(RemotePackageVersions(remote, predicates)[1].version, Listed(remote), predicates)
<1> DEFINE versions == RemotePackageVersions(remote, predicates)
           first == versions[1].version
           offered == { Parse(ref.text) : ref \in remote.refs }
           admitted == { v \in offered : MatchesAll(v, predicates) }
           V == admitted \cup { LatestVersion }
           T == Fits(remote, predicates)
<1>1. SUFFICES ASSUME IsSemver(first), Orderly(admitted), NEW v \in admitted, Precedes(first, v)
               PROVE  FALSE
  BY DEF Newest, Listed
<1>2. /\ \A c \in T : MatchesAll(c.version, predicates)
                      /\ (c.version = LatestVersion \/ \E ref \in remote.refs : c.version = Parse(ref.text))
      /\ \A ref \in remote.refs : MatchesAll(Parse(ref.text), predicates) =>
           \E c \in T : c.version = Parse(ref.text)
  BY FitsAreReferences
<1>3. admitted \in SUBSET Semvers
  <2>1. \A w \in admitted : IsSemver(w) /\ \E ref \in remote.refs : w = Parse(ref.text)
    BY <1>1 DEF Orderly
  <2> QED
    BY <2>1, ParsedIs
<1>4. Orders(V)
  <2>1. \A x \in V : ~Less(x, x)
    BY <1>1, <1>3, LessOrders
  <2>2. \A x, y, z \in V : Less(x, y) /\ Less(y, z) => Less(x, z)
    BY <1>1, <1>3, LessOrders
  <2>3. \A x, y \in V : x = y \/ Less(x, y) \/ Less(y, x)
    BY <1>1, <1>3, LessOrders
  <2> HIDE DEF V
  <2> QED
    BY <2>1, <2>2, <2>3 DEF Orders
<1>5. \A c \in T : c.version \in V
  BY <1>2
<1>c. Orders({ c.version : c \in T })
  <2> DEFINE U == { c.version : c \in T }
  <2>1. U \in SUBSET V
    BY <1>5
  <2> HIDE DEF U, V
  <2>2. Orders(U)
    BY <1>4, <2>1 DEF Orders
  <2> QED
    BY <2>2 DEF U
<1>6. \A w \in admitted : \E c \in T : c.version = w
  BY <1>2
<1>a. LatestVersion \in V /\ (first \in V => first \in admitted)
  BY <1>1, ParsedIs
<1>b. admitted \in SUBSET V
  OBVIOUS
<1> HIDE DEF V, T, offered, admitted
<1>7. Descending(versions) /\ \A c \in T : Lists(versions, c)
  BY <1>c, OfferedIs DEF T, SortsOut
<1>8. versions \in Seq(T) /\ Len(versions) \in Nat
  <2>1. versions \in Seq(T)
    BY OfferedIs DEF T, SortsOut
  <2> HIDE DEF versions
  <2> QED
    BY <2>1
<1>9. 1 \in 1 .. Len(versions) /\ versions[1] \in T
  <2>1. versions # << >>
    OBVIOUS
  <2> HIDE DEF versions
  <2> QED
    BY <1>8, <2>1
<1>10. first \in admitted
  BY <1>5, <1>9, <1>a
<1>11. first \in Semvers /\ v \in Semvers /\ PartAlike(first.pre, v.pre)
  BY <1>1, <1>3, <1>10 DEF Orderly
<1>12. SemverBefore(first, v) /\ IsSemver(first) /\ IsSemver(v)
  BY <1>1, <1>11, PrecedesIsBefore, SemverIs
<1>13. Less(first, v)
  BY <1>12 DEF Less
<1>14. PICK c \in T : c.version = v
  BY <1>6
<1>15. PICK i \in 1 .. Len(versions) : versions[i] = c
  BY <1>7 DEF Lists
<1>16. CASE i = 1
  BY <1>11, <1>12, <1>14, <1>15, <1>16, SemverIrreflexive
<1>17. CASE i # 1
  <2>1. 1 < i
    BY <1>8, <1>17
  <2>2. ~Less(versions[1].version, versions[i].version)
    BY <1>7, <1>9, <2>1 DEF Descending
  <2> QED
    BY <1>13, <1>14, <1>15, <2>2
<1> QED
  BY <1>16, <1>17

\* A predicate on a semantic version admits no branch.
LEMMA SemversAdmitSemvers ==
  ASSUME NEW text, NEW cond, cond.version \in Semvers, Matches(Parse(text), cond)
  PROVE  Parse(text) \in Semvers
<1> DEFINE plain == IF text # << >> /\ Head(text) = LetterV THEN Tail(text) ELSE text
           spelled == { v \in Semvers : Spelled[v] = plain }
           w == cond.version
<1>1. Parse(text) = IF spelled = {} THEN Verbal(text) ELSE CHOOSE v \in spelled : TRUE
  BY DEF Parse
<1>2. CASE spelled # {}
  BY <1>1, <1>2
<1>3. CASE spelled = {}
  <2>1. ~IsSemver(Verbal(text)) /\ Verbal(text).verbal = text
    BY DEF IsSemver, Verbal
  <2>2. text = Text(w)
    BY <1>1, <1>3, <2>1 DEF Matches, VerbalMatches
  <2>3. Text(w) = SemverText(w) /\ Spelled[w] = SemverText(w) /\ Head(SemverText(w)) # LetterV
    BY SemverTexts DEF Text
  <2>4. plain = text
    BY <2>2, <2>3
  <2>5. w \in spelled
    BY <2>2, <2>3, <2>4
  <2> QED
    BY <1>3, <2>5
<1> QED
  BY <1>2, <1>3

-----------------------------------------------------------------------------
(* What the actions make of a resolver, field by field.                    *)

\* Every resolver is a record of these fields, whatever was done to it.
Fields == DOMAIN Resolver(NoProject, FALSE, "closed")

LEMMA FieldNames ==
  Fields = { "pc", "project", "readOnly", "installed", "missing", "failed", "task", "queue",
             "seen", "completed", "absent", "pick", "offered", "error" }
BY DEF Fields, Resolver

\* What is installed by a task that ends like this is kept.
Kept(r, error) ==
  \/ error = ""
  \/ error = "not installed" /\ r.readOnly /\ r.task = "dependencies"

Names(queue) == [ i \in DOMAIN queue |-> queue[i].name ]

\* The resolver r is s once its task has ended with the error.
IsAfterTask(s, r, error) ==
  /\ DOMAIN s = Fields
  /\ s.pc = r.pc /\ s.project = r.project /\ s.readOnly = r.readOnly /\ s.task = r.task
  /\ s.queue = r.queue /\ s.seen = r.seen /\ s.absent = r.absent /\ s.completed = << >>
  /\ Kept(r, error) => s.installed = r.installed \o r.completed /\ s.failed = r.failed
  /\ ~Kept(r, error) => s.installed = r.installed /\ s.failed = TRUE
  /\ s.missing = IF Kept(r, error) /\ error # "" THEN r.missing \o Names(r.queue) ELSE r.missing

LEMMA AfterTaskIs ==
  ASSUME NEW r, NEW error, DOMAIN r = Fields
  PROVE  IsAfterTask(AfterTask(r, error), r, error)
BY FieldNames DEF AfterTask, IsAfterTask, Kept, Names

\* The resolver r is s once it knows how its task has ended.
IsContinued(s, r) ==
  /\ DOMAIN s = Fields
  /\ s.project = r.project /\ s.readOnly = r.readOnly /\ s.completed = r.completed
  /\ s.installed = r.installed /\ s.missing = r.missing /\ s.failed = r.failed
  /\ r.task = "dependencies" =>
       /\ s.pc = "discover" /\ s.task = "project" /\ s.seen = {} /\ s.absent = << >>
       /\ s.queue = << ProjectDependency(r.project) >>
  /\ r.task # "dependencies" =>
       /\ s.pc = (IF r.failed THEN "failed" ELSE "ready") /\ s.task = "none"
       /\ s.seen = r.seen /\ s.queue = << >> /\ s.absent = r.absent

LEMMA ContinueIs ==
  ASSUME NEW r, DOMAIN r = Fields
  PROVE  IsContinued(Continue(r), r)
BY FieldNames DEF Continue, IsContinued

\* What a package that was found, or one to be cloned, changes.
LEMMA CompleteIs ==
  ASSUME NEW p \in Programs, NEW dep, NEW package, DOMAIN program = Programs,
         DOMAIN program[p] = Fields, Complete(p, dep, package)
  PROVE  /\ DOMAIN program' = Programs
         /\ \A q \in Programs \ {p} : program'[q] = program[q]
         /\ LET r == program[p]
                s == program'[p]
            IN  /\ DOMAIN s = Fields
                /\ s.pc = "next" /\ s.completed = Append(r.completed, AliasDependency(package, dep))
                /\ s.project = r.project /\ s.readOnly = r.readOnly /\ s.task = r.task
                /\ s.installed = r.installed /\ s.missing = r.missing /\ s.failed = r.failed
                /\ s.queue = r.queue /\ s.seen = r.seen /\ s.absent = r.absent
BY FieldNames DEF Complete

LEMMA TakeIs ==
  ASSUME NEW p \in Programs, NEW dep, NEW package, DOMAIN program = Programs,
         DOMAIN program[p] = Fields, package.registry = "git", Take(p, dep, package)
  PROVE  /\ DOMAIN program' = Programs
         /\ \A q \in Programs \ {p} : program'[q] = program[q]
         /\ LET r == program[p]
                s == program'[p]
            IN  /\ DOMAIN s = Fields
                /\ s.pc = "directory" /\ s.pick = package
                /\ s.project = r.project /\ s.readOnly = r.readOnly /\ s.task = r.task
                /\ s.installed = r.installed /\ s.missing = r.missing /\ s.failed = r.failed
                /\ s.queue = r.queue /\ s.seen = r.seen /\ s.absent = r.absent /\ s.completed = r.completed
                /\ s.offered = Listed(remotes[package.source])
BY FieldNames DEF Take, Listed

-----------------------------------------------------------------------------
(* What is fetched stays: the invariant, and steps that leave clones be.   *)

\* The references of a package's clone are there.
Fetched(package, cl) == \E c \in cl : IsAt(c, package) /\ c.stage \in { "headed", "whole" }

AllFetched(packages, cl) ==
  \A i \in DOMAIN packages : packages[i].registry = "git" => Fetched(packages[i], cl)

\* What a resolver has installed, or has found, is fetched; and what it clones
\* was not there when it looked.
LooksWell(r, cl) ==
  /\ DOMAIN r = Fields
  /\ IsSequence(r.installed) /\ AllFetched(r.installed, cl)
  /\ IsSequence(r.completed) /\ AllFetched(r.completed, cl)
  /\ \A c \in r.seen : Fetched(c, cl)
  /\ r.pc \in Cloning => \A c \in r.seen : ~IsAt(c, r.pick)

CloneFields == { "source", "at", "stage", "commit", "tags", "cut" }

ProgramsWell == DOMAIN program = Programs /\ \A p \in Programs : LooksWell(program[p], clones)
\* A place has one clone.
ClonesWell ==
  /\ \A c \in clones :
       /\ DOMAIN c = CloneFields /\ c.cut \in BOOLEAN
       /\ c.stage \in { "made", "opened", "headed", "whole" }
  /\ \A c, d \in clones : IsAt(c, d) => c = d
\* A clone that is not checked out yet has somebody who does that, or was cut
\* short.
HeadedIsBusy ==
  \A c \in clones : c.stage = "headed" /\ c.cut = FALSE =>
    \E p \in Programs : program[p].pc = "checkout" /\ IsAt(c, program[p].pick)
RemotesWell ==
  /\ DOMAIN remotes = DOMAIN Published
  /\ \A source \in DOMAIN remotes :
       /\ DOMAIN remotes[source] = { "refs", "head" } /\ IsFiniteSet(remotes[source].refs)
       /\ \A ref \in remotes[source].refs : IsReference(ref)

IInv == ProgramsWell /\ ClonesWell /\ HeadedIsBusy /\ RemotesWell

-----------------------------------------------------------------------------
(* What keeps a process well.                                              *)

\* Nothing that was fetched is ever taken away.
LEMMA StaysWell ==
  ASSUME NEW r, NEW cl, NEW cl1, LooksWell(r, cl),
         \A package : Fetched(package, cl) => Fetched(package, cl1)
  PROVE  LooksWell(r, cl1)
BY DEF LooksWell, AllFetched

\* Installed packages are fetched, one by one or several at once.
LEMMA NothingFetched == \A cl : AllFetched(<< >>, cl)
BY EmptySequence DEF AllFetched

LEMMA OneMoreFetched ==
  ASSUME NEW s, NEW cl, NEW x, IsSequence(s), AllFetched(s, cl),
         x.registry = "git" => Fetched(x, cl)
  PROVE  IsSequence(Append(s, x)) /\ AllFetched(Append(s, x), cl)
<1>1. \A i \in 1 .. Len(s) : i \in DOMAIN s
  BY SequenceShape
<1>2. Len(s) \in Nat
  BY SequenceShape
<1>3. \A i \in 1 .. Len(s) + 1 : i \in 1 .. Len(s) \/ i = Len(s) + 1
  BY <1>2
<1> QED
  BY <1>1, <1>3, Appended DEF AllFetched

LEMMA BothFetched ==
  ASSUME NEW s, NEW t, NEW cl, IsSequence(s), IsSequence(t), AllFetched(s, cl), AllFetched(t, cl)
  PROVE  IsSequence(s \o t) /\ AllFetched(s \o t, cl)
<1> DEFINE u == s \o t
<1>1. /\ IsSequence(u)
      /\ \A i \in DOMAIN u : \/ i \in DOMAIN s /\ u[i] = s[i]
                             \/ i - Len(s) \in DOMAIN t /\ u[i] = t[i - Len(s)]
  BY Concatenated
<1> HIDE DEF u
<1>2. AllFetched(u, cl)
  BY <1>1 DEF AllFetched
<1> QED
  BY <1>1, <1>2 DEF u

\* However a task ends.
LEMMA EndedWell ==
  ASSUME NEW r, NEW cl, NEW error, LooksWell(r, cl)
  PROVE  /\ LooksWell(Continue(AfterTask(r, error)), cl)
         /\ Continue(AfterTask(r, error)).pc # "checkout"
<1> DEFINE t == AfterTask(r, error)
           s == Continue(t)
<1>1. DOMAIN r = Fields /\ IsSequence(r.installed) /\ AllFetched(r.installed, cl)
      /\ IsSequence(r.completed) /\ AllFetched(r.completed, cl)
  BY DEF LooksWell
<1>2. /\ DOMAIN t = Fields /\ t.completed = << >> /\ t.seen = r.seen
      /\ t.installed = r.installed \o r.completed \/ t.installed = r.installed
  <2>1. IsAfterTask(t, r, error)
    BY <1>1, AfterTaskIs
  <2> QED
    BY <2>1 DEF IsAfterTask
<1>3. /\ DOMAIN s = Fields /\ s.completed = t.completed /\ s.installed = t.installed
      /\ s.seen \in { {}, t.seen } /\ s.pc \in { "discover", "failed", "ready" }
  <2> HIDE DEF t
  <2>1. IsContinued(s, t)
    BY <1>2, ContinueIs
  <2> QED
    BY <2>1 DEF IsContinued
<1> HIDE DEF s, t
<1>4. IsSequence(s.installed) /\ AllFetched(s.installed, cl)
  BY <1>1, <1>2, <1>3, BothFetched
<1>5. IsSequence(s.completed) /\ AllFetched(s.completed, cl)
  BY <1>2, <1>3, EmptySequence, NothingFetched
<1>6. \A c \in s.seen : Fetched(c, cl)
  BY <1>2, <1>3 DEF LooksWell
<1>7. s.pc \notin Cloning /\ s.pc # "checkout"
  BY <1>3 DEF Cloning
<1>8. LooksWell(s, cl)
  BY <1>3, <1>4, <1>5, <1>6, <1>7 DEF LooksWell
<1> QED
  BY <1>7, <1>8 DEF s, t

\* One process has taken a step: it looks well, what was fetched still is, and
\* whoever was needed at a checkout is still there.
LEMMA StepWell ==
  ASSUME ProgramsWell, NEW p \in Programs,
         DOMAIN program' = Programs, \A q \in Programs \ {p} : program'[q] = program[q],
         LooksWell(program'[p], clones'),
         \A package : Fetched(package, clones) => Fetched(package, clones')
  PROVE  ProgramsWell'
<1>1. \A q \in Programs \ {p} : LooksWell(program'[q], clones')
  BY StaysWell DEF ProgramsWell
<1> QED
  BY <1>1 DEF ProgramsWell

LEMMA BusyWhileOthers ==
  ASSUME HeadedIsBusy, NEW p \in Programs, program[p].pc # "checkout", clones' = clones,
         \A q \in Programs \ {p} : program'[q] = program[q]
  PROVE  HeadedIsBusy'
BY DEF HeadedIsBusy

LEMMA EndTaskWell ==
  ASSUME IInv, NEW p \in Programs, NEW error, EndTask(p, error),
         program[p].pc # "checkout", clones' = clones, remotes' = remotes
  PROVE  IInv'
<1> DEFINE s == Continue(AfterTask(program[p], error))
<1>1. LooksWell(s, clones)
  BY EndedWell DEF IInv, ProgramsWell
<1> HIDE DEF s
<1>2. program' = [ program EXCEPT ![p] = s ]
  BY DEF EndTask, s
<1>3. DOMAIN program' = Programs /\ program'[p] = s /\ \A q \in Programs \ {p} : program'[q] = program[q]
  BY <1>2 DEF IInv, ProgramsWell
<1>4. ProgramsWell'
  BY <1>1, <1>3, StepWell DEF IInv
<1>5. HeadedIsBusy'
  BY <1>3, BusyWhileOthers DEF IInv
<1>6. ClonesWell' /\ RemotesWell'
  BY DEF IInv, ClonesWell, RemotesWell
<1> QED
  BY <1>4, <1>5, <1>6 DEF IInv

\* A process that is not cloning changes only itself.
LEMMA OneChanges ==
  ASSUME IInv, NEW p \in Programs, NEW s, program' = [ program EXCEPT ![p] = s ],
         program[p].pc # "checkout", LooksWell(s, clones), UNCHANGED << clones, remotes >>
  PROVE  IInv'
<1>1. DOMAIN program' = Programs /\ program'[p] = s /\ \A q \in Programs \ {p} : program'[q] = program[q]
  BY DEF IInv, ProgramsWell
<1>2. ProgramsWell'
  BY <1>1, StepWell DEF IInv
<1>3. HeadedIsBusy'
  BY <1>1, BusyWhileOthers DEF IInv
<1>4. ClonesWell' /\ RemotesWell'
  BY DEF IInv, ClonesWell, RemotesWell
<1> QED
  BY <1>2, <1>3, <1>4 DEF IInv

\* A resolver that has done nothing yet.
LEMMA StartedWell ==
  ASSUME NEW project, NEW readOnly, NEW pc, NEW cl, pc \notin Cloning
  PROVE  LooksWell(Resolver(project, readOnly, pc), cl)
<1> DEFINE r == Resolver(project, readOnly, pc)
<1>1. DOMAIN r = Fields /\ r.pc = pc /\ r.installed = << >> /\ r.completed = << >> /\ r.seen = {}
  BY DEF Fields, Resolver
<1> HIDE DEF r
<1> QED
  BY <1>1, EmptySequence, NothingFetched DEF LooksWell, r

LEMMA ClosedWell == \A cl : LooksWell(Resolver(NoProject, FALSE, "closed"), cl)
<1> DEFINE r == Resolver(NoProject, FALSE, "closed")
<1>1. DOMAIN r = Fields /\ r.pc = "closed" /\ r.installed = << >> /\ r.completed = << >> /\ r.seen = {}
  BY DEF Fields, Resolver
<1> HIDE DEF r
<1>2. \A cl : LooksWell(r, cl)
  BY <1>1, EmptySequence, NothingFetched DEF LooksWell, Cloning
<1> QED
  BY <1>2 DEF r

LEMMA InitWell == Init => IInv
<1> SUFFICES ASSUME Init PROVE IInv
  OBVIOUS
<1>1. DOMAIN program = Programs /\ \A p \in Programs : program[p] = Resolver(NoProject, FALSE, "closed")
  BY DEF Init
<1>2. ProgramsWell
  <2>1. LooksWell(Resolver(NoProject, FALSE, "closed"), clones)
    BY ClosedWell
  <2> QED
    BY <1>1, <2>1 DEF ProgramsWell
<1>3. ClonesWell /\ HeadedIsBusy
  BY DEF Init, ClonesWell, HeadedIsBusy
<1>4. RemotesWell
  BY InstallationAssumption DEF Init, RemotesWell
<1> QED
  BY <1>2, <1>3, <1>4 DEF IInv

LEMMA OpenWell ==
  ASSUME IInv, NEW p \in Programs, NEW project, NEW readOnly, Open(p, project, readOnly)
  PROVE  IInv'
<1> DEFINE manifest == [ project EXCEPT !.dependencies = EnsureStandardLibrary(@) ]
           pc == IF SuitsLanguage(project.language) THEN "open" ELSE "refused"
           s == Resolver(manifest, readOnly, pc)
<1>1. program' = [ program EXCEPT ![p] = s ] /\ program[p].pc = "closed" /\ UNCHANGED << clones, remotes >>
  BY DEF Open
<1>2. LooksWell(s, clones)
  BY StartedWell DEF Cloning
<1> HIDE DEF s
<1> QED
  BY <1>1, <1>2, OneChanges

LEMMA CloseWell ==
  ASSUME IInv, NEW p \in Programs, Close(p)
  PROVE  IInv'
<1> DEFINE s == Resolver(NoProject, FALSE, "closed")
<1>1. program' = [ program EXCEPT ![p] = s ] /\ program[p].pc # "checkout" /\ UNCHANGED << clones, remotes >>
  BY DEF Close, Resting
<1>2. LooksWell(s, clones)
  BY ClosedWell
<1> HIDE DEF s
<1> QED
  BY <1>1, <1>2, OneChanges

\* A remote that publishes a reference has one more.
LEMMA RemotesStayWell ==
  ASSUME RemotesWell, NEW source, NEW ref, Publish(source, ref)
  PROVE  RemotesWell'
<1>1. source \in DOMAIN Published /\ IsReference(ref)
  BY InstallationAssumption DEF Publish
<1>2. /\ source \in DOMAIN remotes /\ IsFiniteSet(remotes[source].refs)
      /\ DOMAIN remotes[source] = { "refs", "head" }
      /\ \A other \in remotes[source].refs : IsReference(other)
  BY <1>1 DEF RemotesWell
<1>3. IsFiniteSet(remotes[source].refs \cup {ref})
  BY <1>2, FS_AddElement
<1>4. /\ DOMAIN remotes' = DOMAIN remotes
      /\ remotes'[source].refs = remotes[source].refs \cup {ref}
      /\ DOMAIN remotes'[source] = { "refs", "head" }
      /\ \A x \in DOMAIN remotes \ {source} : remotes'[x] = remotes[x]
  BY <1>2 DEF Publish
<1>5. \A other \in remotes'[source].refs : IsReference(other)
  BY <1>1, <1>2, <1>4
<1> QED
  BY <1>2, <1>3, <1>4, <1>5 DEF RemotesWell

LEMMA PublishWell ==
  ASSUME IInv, NEW source, NEW ref, Publish(source, ref)
  PROVE  IInv'
BY RemotesStayWell DEF IInv, Publish, ProgramsWell, ClonesWell, HeadedIsBusy

\* What a task that begins changes.
LEMMA TaskIs ==
  ASSUME NEW p \in Programs, NEW name, NEW queue, DOMAIN program[p] = Fields
  PROVE  LET r == program[p]
             s == Task(p, name, queue)
         IN  /\ DOMAIN s = Fields
             /\ s.pc = "discover" /\ s.task = name /\ s.queue = queue /\ s.seen = {}
             /\ s.completed = << >> /\ s.absent = << >>
             /\ s.project = r.project /\ s.readOnly = r.readOnly
             /\ s.installed = r.installed /\ s.missing = r.missing /\ s.failed = r.failed
BY FieldNames DEF Task

\* A resolver r asks for what is missing, or for its project, as s.
Asks(r, missing, suits, s) ==
  /\ DOMAIN s = Fields
  /\ s.pc = "discover" /\ s.seen = {} /\ s.completed = << >> /\ s.absent = << >>
  /\ s.project = r.project /\ s.readOnly = r.readOnly
  /\ s.installed = r.installed /\ s.missing = r.missing /\ s.failed = ~suits
  /\ \/ (missing = << >> \/ ~suits) /\ s.task = "project" /\ s.queue = << ProjectDependency(r.project) >>
     \/ missing # << >> /\ suits /\ s.task = "dependencies" /\ s.queue = missing

AllSuit(dependencies) == \A i \in DOMAIN dependencies : SuitsLanguage(dependencies[i].language)

LEMMA EnsureInstalledIs ==
  ASSUME NEW p \in Programs, DOMAIN program[p] = Fields, EnsureInstalled(p)
  PROVE  \E s : /\ program' = [ program EXCEPT ![p] = s ]
                /\ Asks(program[p], FilterMissingDependencies(p), AllSuit(FilterMissingDependencies(p)), s)
<1> DEFINE r == program[p]
           missing == FilterMissingDependencies(p)
           suits == AllSuit(missing)
           next == IF missing = << >> \/ ~suits THEN ProjectTask(p) ELSE Task(p, "dependencies", missing)
           s == [ next EXCEPT !.failed = ~suits, !.error = IF suits THEN "" ELSE "language" ]
<1>1. program' = [ program EXCEPT ![p] = s ]
  BY DEF EnsureInstalled, AllSuit
<1>2. suits \in BOOLEAN
  BY DEF AllSuit
<1> HIDE DEF missing, suits
<1>3. ASSUME DOMAIN next = Fields
      PROVE  /\ DOMAIN s = Fields /\ s.failed = ~suits
             /\ s.pc = next.pc /\ s.seen = next.seen /\ s.completed = next.completed /\ s.absent = next.absent
             /\ s.project = next.project /\ s.readOnly = next.readOnly /\ s.installed = next.installed
             /\ s.missing = next.missing /\ s.task = next.task /\ s.queue = next.queue
  <2> HIDE DEF next
  <2> QED
    BY <1>2, <1>3, FieldNames
<1>4. CASE missing = << >> \/ ~suits
  <2>1. next = Task(p, "project", << ProjectDependency(r.project) >>)
    BY <1>4 DEF ProjectTask
  <2> HIDE DEF next
  <2>2. /\ DOMAIN next = Fields
        /\ next.pc = "discover" /\ next.task = "project" /\ next.queue = << ProjectDependency(r.project) >>
        /\ next.seen = {} /\ next.completed = << >> /\ next.absent = << >>
        /\ next.project = r.project /\ next.readOnly = r.readOnly
        /\ next.installed = r.installed /\ next.missing = r.missing
    BY <2>1, TaskIs
  <2> HIDE DEF s
  <2>3. Asks(r, missing, suits, s)
    BY <1>3, <1>4, <2>2 DEF Asks
  <2> QED
    BY <1>1, <2>3 DEF missing, suits
<1>5. CASE ~(missing = << >> \/ ~suits)
  <2>1. next = Task(p, "dependencies", missing)
    BY <1>5
  <2> HIDE DEF next
  <2>2. /\ DOMAIN next = Fields
        /\ next.pc = "discover" /\ next.task = "dependencies" /\ next.queue = missing
        /\ next.seen = {} /\ next.completed = << >> /\ next.absent = << >>
        /\ next.project = r.project /\ next.readOnly = r.readOnly
        /\ next.installed = r.installed /\ next.missing = r.missing
    BY <2>1, TaskIs
  <2> HIDE DEF s
  <2>3. Asks(r, missing, suits, s)
    BY <1>3, <1>5, <2>2 DEF Asks
  <2> QED
    BY <1>1, <2>3 DEF missing, suits
<1> QED
  BY <1>4, <1>5

LEMMA EnsureInstalledWell ==
  ASSUME IInv, NEW p \in Programs, EnsureInstalled(p)
  PROVE  IInv'
<1>1. DOMAIN program = Programs /\ LooksWell(program[p], clones) /\ DOMAIN program[p] = Fields
  BY DEF IInv, ProgramsWell, LooksWell
<1>2. PICK s : /\ program' = [ program EXCEPT ![p] = s ] /\ DOMAIN s = Fields
               /\ s.pc = "discover" /\ s.seen = {} /\ s.completed = << >>
               /\ s.installed = program[p].installed
  BY <1>1, EnsureInstalledIs DEF Asks
<1>3. LooksWell(s, clones)
  BY <1>1, <1>2, EmptySequence, NothingFetched DEF LooksWell, Cloning
<1>4. program[p].pc # "checkout" /\ UNCHANGED << clones, remotes >>
  BY DEF EnsureInstalled
<1> QED
  BY <1>2, <1>3, <1>4, OneChanges

-----------------------------------------------------------------------------
(* Questions to the registries.                                            *)

LEMMA DiscoverWell ==
  ASSUME IInv, NEW p \in Programs, Discover(p)
  PROVE  IInv'
<1>1. program[p].pc = "discover" /\ UNCHANGED << clones, remotes >>
  BY DEF Discover
<1>2. CASE DiscoverFails(clones)
  <2>1. EndTask(p, "discover")
    BY <1>2 DEF Discover
  <2> QED
    BY <1>1, <2>1, EndTaskWell
<1>3. CASE ~DiscoverFails(clones)
  <2> DEFINE r == program[p]
             s == [ r EXCEPT !.pc = "next", !.seen = clones ]
  <2>1. program' = [ program EXCEPT ![p] = s ]
    BY <1>3 DEF Discover
  <2>2. LooksWell(r, clones) /\ DOMAIN r = Fields
    BY DEF IInv, ProgramsWell, LooksWell
  <2>3. /\ DOMAIN s = Fields /\ s.pc = "next" /\ s.seen = clones
        /\ s.installed = r.installed /\ s.completed = r.completed
    BY <2>2, FieldNames
  <2>4. \A c \in clones : c.stage \notin { "made", "opened" }
    BY <1>3 DEF DiscoverFails, Unreadable
  <2>5. \A c \in clones : Fetched(c, clones)
    <3>1. \A c \in clones : c.stage \in { "made", "opened", "headed", "whole" }
      BY DEF IInv, ClonesWell
    <3> QED
      BY <2>4, <3>1 DEF Fetched, IsAt
  <2> HIDE DEF s
  <2>6. LooksWell(s, clones)
    BY <2>2, <2>3, <2>5 DEF LooksWell, Cloning
  <2> QED
    BY <1>1, <2>1, <2>6, OneChanges
<1> QED
  BY <1>2, <1>3

\* A package that is found is fetched.
LEMMA CompleteWell ==
  ASSUME NEW p \in Programs, NEW dep, NEW package, NEW cl, DOMAIN program = Programs,
         LooksWell(program[p], cl), Complete(p, dep, package),
         package.registry = "git" => Fetched(package, cl)
  PROVE  LooksWell(program'[p], cl) /\ DOMAIN program' = Programs
         /\ \A q \in Programs \ {p} : program'[q] = program[q]
<1> DEFINE r == program[p]
           s == program'[p]
           x == AliasDependency(package, dep)
<1>1. DOMAIN r = Fields /\ IsSequence(r.completed) /\ AllFetched(r.completed, cl)
  BY DEF LooksWell
<1>2. /\ DOMAIN program' = Programs /\ \A q \in Programs \ {p} : program'[q] = program[q]
      /\ DOMAIN s = Fields /\ s.pc = "next" /\ s.completed = Append(r.completed, x)
      /\ s.installed = r.installed /\ s.seen = r.seen
  BY <1>1, CompleteIs
<1>3. x.registry = "git" => Fetched(x, cl)
  BY DEF AliasDependency, Fetched, IsAt
<1> HIDE DEF x
<1>4. IsSequence(s.completed) /\ AllFetched(s.completed, cl)
  BY <1>1, <1>2, <1>3, OneMoreFetched
<1> QED
  BY <1>2, <1>4 DEF LooksWell, Cloning

LEMMA CompletesWell ==
  ASSUME IInv, NEW p \in Programs, NEW dep, NEW package, Complete(p, dep, package),
         program[p].pc # "checkout", UNCHANGED << clones, remotes >>,
         package.registry = "git" => Fetched(package, clones)
  PROVE  IInv'
<1>1. LooksWell(program'[p], clones) /\ DOMAIN program' = Programs
      /\ \A q \in Programs \ {p} : program'[q] = program[q]
  BY CompleteWell DEF IInv, ProgramsWell
<1>2. ProgramsWell'
  BY <1>1, StepWell DEF IInv
<1>3. HeadedIsBusy'
  BY <1>1, BusyWhileOthers DEF IInv
<1> QED
  BY <1>2, <1>3 DEF IInv, ClonesWell, RemotesWell

\* What was found in place is in a clone that was seen.
LEMMA TakeAvailableWell ==
  ASSUME IInv, NEW p \in Programs, TakeAvailable(p)
  PROVE  IInv'
<1> DEFINE dep == Dependency(p)
<1>1. program[p].pc # "checkout" /\ UNCHANGED << clones, remotes >>
  BY DEF TakeAvailable
<1>a. PICK i \in DOMAIN DependencyKeys(dep) :
        \E found \in FittingPackages(p, dep, i) : Complete(p, dep, found.package)
  BY DEF TakeAvailable
<1>2. PICK found \in FittingPackages(p, dep, i) : Complete(p, dep, found.package)
  BY <1>a
<1>3. found \in Available(DependencyKeys(dep)[i], program[p].project, program[p].seen)
  BY DEF FittingPackages
<1>4. found.package.registry = "git" => \E c \in program[p].seen : IsAt(c, found.package)
  BY <1>3, AvailablePackages
<1>5. \A c \in program[p].seen : Fetched(c, clones)
  BY DEF IInv, ProgramsWell, LooksWell
<1>6. found.package.registry = "git" => Fetched(found.package, clones)
  BY <1>4, <1>5 DEF Fetched, IsAt
<1> HIDE DEF dep
<1> QED
  BY <1>1, <1>2, <1>6, CompletesWell

LEMMA NoteAbsentWell ==
  ASSUME IInv, NEW p \in Programs, NoteAbsent(p)
  PROVE  IInv'
<1> DEFINE r == program[p]
           s == [ r EXCEPT !.absent = Append(@, Dependency(p).name) ]
<1>1. program' = [ program EXCEPT ![p] = s ] /\ r.pc = "next" /\ UNCHANGED << clones, remotes >>
  BY DEF NoteAbsent
<1>2. LooksWell(r, clones) /\ DOMAIN r = Fields
  BY DEF IInv, ProgramsWell, LooksWell
<1>3. /\ DOMAIN s = Fields /\ s.pc = r.pc /\ s.seen = r.seen
      /\ s.installed = r.installed /\ s.completed = r.completed
  BY <1>2, FieldNames
<1> HIDE DEF s
<1>4. LooksWell(s, clones)
  BY <1>1, <1>2, <1>3 DEF LooksWell, Cloning
<1> QED
  BY <1>1, <1>4, OneChanges

\* What a registry other than Git offers is not from Git, and what Git offers
\* lies where it would be found.
LEMMA OfferIs ==
  ASSUME NEW key, NEW predicates, NEW project, NEW registry \in { "cave", "local", "git", "embedded" },
         RemotesWell, Offers(registry, key, predicates, project, remotes)
  PROVE  LET package == FirstOffered(registry, key, predicates, project, remotes)
         IN  /\ package.registry = registry
             /\ MatchesAll(package.version, predicates)
             /\ registry = "cave" => package.source = OwnSource(project)
                                     /\ key \in { OwnSource(project), project.name }
             /\ registry = "embedded" => package.source = StandardLibrary.source /\ key = StandardLibrary.name
             /\ registry \in { "local", "git" } => package.source = key
             /\ registry = "git" => package.at = package.version /\ Readable(package.at)
             /\ registry = "git" => Newest(package.version, Listed(remotes[package.source]), predicates)
<1>1. CASE registry = "cave"
  BY <1>1 DEF Offers, FirstOffered, OfferedByCave, Package
<1>2. CASE registry = "local"
  BY <1>2 DEF Offers, FirstOffered, OfferedByLocal, Package
<1>3. CASE registry = "embedded"
  BY <1>3 DEF Offers, FirstOffered, OfferedByEmbedded, Package
<1>4. CASE registry = "git"
  <2>1. key \in DOMAIN remotes /\ RemotePackageVersions(remotes[key], predicates) # << >>
    BY <1>4 DEF Offers, OfferedByGit
  <2>2. IsFiniteSet(remotes[key].refs) /\ \A ref \in remotes[key].refs : IsReference(ref)
    BY <2>1 DEF RemotesWell
  <2> DEFINE first == RemotePackageVersions(remotes[key], predicates)[1]
  <2>3. /\ MatchesAll(first.version, predicates) /\ Readable(first.version)
        /\ Newest(first.version, Listed(remotes[key]), predicates)
    BY <2>1, <2>2, OfferedFits, NewestIsOffered DEF Listed
  <2>4. FirstOffered(registry, key, predicates, project, remotes)
          = [ registry |-> "git", source |-> key, version |-> first.version,
              at |-> first.version, kind |-> first.kind, text |-> first.text ]
    BY <1>4 DEF FirstOffered
  <2> HIDE DEF first
  <2> QED
    BY <1>4, <2>3, <2>4
<1> QED
  BY <1>1, <1>2, <1>3, <1>4

LEMMA QuestionIs ==
  ASSUME NEW dep, NEW q \in Questions(dep)
  PROVE  /\ q[1] \in DOMAIN DependencyKeys(dep) /\ KeyOf(dep, q) = DependencyKeys(dep)[q[1]]
         /\ RegistryOf(q) \in { "cave", "local", "git", "embedded" }
BY DEF Questions, KeyOf, RegistryOf, Registries

\* A package that Git offers has never been seen by who asks for it.
LEMMA OfferedIsNew ==
  ASSUME NEW p \in Programs, NEW dep, NothingFits(p, dep), RemotesWell,
         NEW q \in Questions(dep), RegistryOf(q) = "git",
         Offers("git", KeyOf(dep, q), dep.predicates, program[p].project, remotes)
  PROVE  LET package == FirstOffered("git", KeyOf(dep, q), dep.predicates, program[p].project, remotes)
         IN  \A c \in program[p].seen : ~IsAt(c, package)
<1> DEFINE package == FirstOffered("git", KeyOf(dep, q), dep.predicates, program[p].project, remotes)
           i == q[1]
<1>1. i \in DOMAIN DependencyKeys(dep) /\ KeyOf(dep, q) = DependencyKeys(dep)[i]
  BY QuestionIs
<1>2. /\ MatchesAll(package.version, dep.predicates) /\ package.source = KeyOf(dep, q)
      /\ package.at = package.version /\ Readable(package.at)
  BY OfferIs
<1> HIDE DEF package, i
<1>3. SUFFICES ASSUME NEW c \in program[p].seen, IsAt(c, package) PROVE FALSE
  BY DEF package
<1>4. c.source = KeyOf(dep, q) /\ c.at = package.at
  BY <1>2, <1>3 DEF IsAt
<1>5. PICK found \in Available(KeyOf(dep, q), program[p].project, program[p].seen) :
        found.package.version = c.at
  BY <1>2, <1>4, CloneIsAvailable
<1>6. found \in FittingPackages(p, dep, i)
  BY <1>1, <1>2, <1>4, <1>5 DEF FittingPackages
<1> QED
  BY <1>1, <1>6 DEF NothingFits

\* A package of another registry completes the dependency; one of Git's is new.
LEMMA TakeWell ==
  ASSUME IInv, NEW p \in Programs, NEW dep, NEW q \in Answering(p, dep), NothingFits(p, dep),
         TakeFrom(p, dep, q), program[p].pc # "checkout", UNCHANGED << clones, remotes >>
  PROVE  IInv'
<1> DEFINE r == program[p]
           package == FirstOffered(RegistryOf(q), KeyOf(dep, q), dep.predicates, r.project, remotes)
<1>1. q \in Questions(dep) /\ Offers(RegistryOf(q), KeyOf(dep, q), dep.predicates, r.project, remotes)
  BY DEF Answering
<1>2. package.registry = RegistryOf(q)
  BY <1>1, QuestionIs, OfferIs DEF IInv
<1>3. Take(p, dep, package)
  BY DEF TakeFrom
<1>4. CASE RegistryOf(q) # "git"
  <2>1. Complete(p, dep, package)
    BY <1>2, <1>3, <1>4 DEF Take
  <2> HIDE DEF package
  <2> QED
    BY <1>2, <1>4, <2>1, CompletesWell
<1>5. CASE RegistryOf(q) = "git"
  <2>1. \A c \in r.seen : ~IsAt(c, package)
    BY <1>1, <1>5, OfferedIsNew DEF IInv
  <2> HIDE DEF package
  <2>2. LooksWell(r, clones) /\ DOMAIN r = Fields /\ DOMAIN program = Programs
    BY DEF IInv, ProgramsWell, LooksWell
  <2> DEFINE s == program'[p]
  <2>3. /\ DOMAIN program' = Programs /\ \A x \in Programs \ {p} : program'[x] = program[x]
        /\ DOMAIN s = Fields /\ s.pick = package
        /\ s.installed = r.installed /\ s.completed = r.completed /\ s.seen = r.seen
    BY <1>2, <1>3, <1>5, <2>2, TakeIs
  <2>4. LooksWell(s, clones)
    BY <2>1, <2>2, <2>3 DEF LooksWell
  <2>5. ProgramsWell'
    BY <2>3, <2>4, StepWell DEF IInv
  <2>6. HeadedIsBusy'
    BY <2>3, BusyWhileOthers DEF IInv
  <2> QED
    BY <2>5, <2>6 DEF IInv, ClonesWell, RemotesWell
<1> QED
  BY <1>4, <1>5

LEMMA ListRemoteWell ==
  ASSUME IInv, NEW p \in Programs, ListRemote(p)
  PROVE  IInv'
<1> DEFINE dep == Dependency(p)
<1>1. program[p].pc # "checkout" /\ UNCHANGED << clones, remotes >> /\ NothingFits(p, dep)
  BY DEF ListRemote
<1>2. CASE EndTask(p, "no registry")
  BY <1>1, <1>2, EndTaskWell
<1>3. ASSUME NEW q \in Answering(p, dep), TakeFrom(p, dep, q)
      PROVE  IInv'
  <2> HIDE DEF dep
  <2> QED
    BY <1>1, <1>3, TakeWell
<1>4. EndTask(p, "no registry") \/ \E q \in Answering(p, dep) : TakeFrom(p, dep, q)
  BY DEF ListRemote
<1> QED
  BY <1>2, <1>3, <1>4

LEMMA ListFailsWell ==
  ASSUME IInv, NEW p \in Programs, ListFails(p)
  PROVE  IInv'
<1>1. program[p].pc # "checkout" /\ UNCHANGED << clones, remotes >> /\ EndTask(p, "unreachable")
  BY DEF ListFails
<1> QED
  BY <1>1, EndTaskWell

LEMMA EndRunWell ==
  ASSUME IInv, NEW p \in Programs, EndRun(p)
  PROVE  IInv'
<1>1. program[p].pc # "checkout" /\ UNCHANGED << clones, remotes >> /\ \E error : EndTask(p, error)
  BY DEF EndRun
<1> QED
  BY <1>1, EndTaskWell

-----------------------------------------------------------------------------
(* Cloning.                                                                *)

\* One clone has been replaced by another in the same place, of no lesser
\* standing; nothing else lies there.
LEMMA AdvanceWell ==
  ASSUME ClonesWell, NEW p \in Programs, NEW c \in InPlace(p), NEW d, Advance(p, d),
         DOMAIN d = CloneFields, d.cut \in BOOLEAN, d.stage \in { "made", "opened", "headed", "whole" },
         d.source = c.source, d.at = c.at,
         c.stage \in { "headed", "whole" } => d.stage \in { "headed", "whole" }
  PROVE  /\ ClonesWell'
         /\ \A package : Fetched(package, clones) => Fetched(package, clones')
         /\ clones' = (clones \ {c}) \cup {d}
<1>1. c \in clones /\ IsAt(c, program[p].pick)
  BY DEF InPlace
<1>2. InPlace(p) = {c}
  BY <1>1 DEF InPlace, ClonesWell, IsAt
<1>3. clones' = (clones \ {c}) \cup {d}
  BY <1>2 DEF Advance
<1>4. \A x \in clones \ {c} : ~IsAt(x, d) /\ ~IsAt(d, x)
  BY <1>1 DEF ClonesWell, IsAt
<1>5. ClonesWell'
  BY <1>3, <1>4 DEF ClonesWell
<1>6. ASSUME NEW package, Fetched(package, clones)
      PROVE  Fetched(package, clones')
  <2>1. PICK x \in clones : IsAt(x, package) /\ x.stage \in { "headed", "whole" }
    BY <1>6 DEF Fetched
  <2>2. CASE x = c
    BY <1>3, <2>1, <2>2 DEF Fetched, IsAt
  <2>3. CASE x # c
    BY <1>3, <2>1, <2>3 DEF Fetched
  <2> QED
    BY <2>2, <2>3
<1> QED
  BY <1>3, <1>5, <1>6

\* A process goes from one step of cloning to the next.
LEMMA PcWell ==
  ASSUME NEW p \in Programs, NEW pc \in Cloning, NEW cl, DOMAIN program = Programs,
         program[p].pc \in Cloning, LooksWell(program[p], cl),
         program' = [ program EXCEPT ![p].pc = pc ]
  PROVE  /\ LooksWell(program'[p], cl) /\ DOMAIN program' = Programs
         /\ \A q \in Programs \ {p} : program'[q] = program[q]
         /\ program'[p].pc = pc /\ program'[p].pick = program[p].pick
<1> DEFINE r == program[p]
           s == [ r EXCEPT !.pc = pc ]
<1>1. program'[p] = s /\ DOMAIN program' = Programs /\ \A q \in Programs \ {p} : program'[q] = program[q]
  OBVIOUS
<1>2. DOMAIN r = Fields
  BY DEF LooksWell
<1>3. /\ DOMAIN s = Fields /\ s.pc = pc /\ s.pick = r.pick /\ s.seen = r.seen
      /\ s.installed = r.installed /\ s.completed = r.completed
  BY <1>2, FieldNames
<1> HIDE DEF s
<1>4. LooksWell(s, cl)
  BY <1>3 DEF LooksWell
<1> QED
  BY <1>1, <1>3, <1>4

\* The steps of a clone, and how it may be left.
LEMMA MakeDirectoryWell ==
  ASSUME IInv, NEW p \in Programs, MakeDirectory(p)
  PROVE  IInv'
<1> DEFINE made == [ source |-> program[p].pick.source, at |-> program[p].pick.at,
                     stage |-> "made", commit |-> "", tags |-> {}, cut |-> FALSE ]
<1>1. program[p].pc = "directory" /\ remotes' = remotes /\ program' = [ program EXCEPT ![p].pc = "init" ]
  BY DEF MakeDirectory
<1>2. /\ LooksWell(program'[p], clones) /\ DOMAIN program' = Programs
      /\ \A q \in Programs \ {p} : program'[q] = program[q]
  BY <1>1, PcWell DEF IInv, ProgramsWell, Cloning
<1>3. CASE clones' = clones
  <2>1. ProgramsWell'
    BY <1>2, <1>3, StepWell DEF IInv
  <2>2. HeadedIsBusy'
    BY <1>1, <1>2, <1>3, BusyWhileOthers DEF IInv
  <2> QED
    BY <1>1, <1>3, <2>1, <2>2 DEF IInv, ClonesWell, RemotesWell
<1>4. CASE clones' # clones
  <2>1. InPlace(p) = {} /\ clones' = clones \cup {made}
    BY <1>4 DEF MakeDirectory
  <2>2. /\ made.source = program[p].pick.source /\ made.at = program[p].pick.at /\ made.stage = "made"
        /\ DOMAIN made = CloneFields /\ made.cut \in BOOLEAN
    BY DEF CloneFields
  <2> HIDE DEF made
  <2>3. \A c \in clones : ~IsAt(c, made) /\ ~IsAt(made, c)
    BY <2>1, <2>2 DEF InPlace, IsAt
  <2>4. ClonesWell'
    BY <2>1, <2>2, <2>3 DEF IInv, ClonesWell
  <2>5. \A package : Fetched(package, clones) => Fetched(package, clones')
    BY <2>1 DEF Fetched
  <2>6. LooksWell(program'[p], clones')
    BY <1>2, <2>5, StaysWell
  <2>7. ProgramsWell'
    BY <1>2, <2>5, <2>6, StepWell DEF IInv
  <2>8. HeadedIsBusy'
    BY <1>1, <1>2, <2>1, <2>2 DEF IInv, HeadedIsBusy
  <2> QED
    BY <1>1, <2>4, <2>7, <2>8 DEF IInv, RemotesWell
<1> QED
  BY <1>3, <1>4

LEMMA InitRepositoryWell ==
  ASSUME IInv, NEW p \in Programs, InitRepository(p)
  PROVE  IInv'
<1>1. program[p].pc = "init"
  BY DEF InitRepository
<1>2. PICK c \in InPlace(p) :
        IF c.stage = "made"
          THEN /\ Advance(p, [ c EXCEPT !.stage = "opened" ])
               /\ program' = [ program EXCEPT ![p].pc = "fetch" ]
          ELSE EndTask(p, "exists") /\ UNCHANGED << clones, remotes, faults, opens >>
  BY DEF InitRepository
<1>3. CASE c.stage # "made"
  BY <1>1, <1>2, <1>3, EndTaskWell
<1>4. CASE c.stage = "made"
  <2> DEFINE d == [ c EXCEPT !.stage = "opened" ]
  <2>1. c \in clones /\ DOMAIN c = CloneFields /\ c.cut \in BOOLEAN
    BY DEF IInv, ClonesWell, InPlace
  <2>2. /\ DOMAIN d = CloneFields /\ d.cut = c.cut /\ d.source = c.source /\ d.at = c.at /\ d.stage = "opened"
    BY <2>1 DEF CloneFields
  <2>3. Advance(p, d) /\ program' = [ program EXCEPT ![p].pc = "fetch" ]
    BY <1>2, <1>4
  <2> HIDE DEF d
  <2>4. /\ ClonesWell' /\ clones' = (clones \ {c}) \cup {d}
        /\ \A package : Fetched(package, clones) => Fetched(package, clones')
    BY <1>4, <2>1, <2>2, <2>3, AdvanceWell DEF IInv
  <2>5. LooksWell(program[p], clones') /\ DOMAIN program = Programs
    BY <2>4, StaysWell DEF IInv, ProgramsWell
  <2>6. /\ LooksWell(program'[p], clones') /\ DOMAIN program' = Programs
        /\ \A q \in Programs \ {p} : program'[q] = program[q]
    BY <1>1, <2>3, <2>5, PcWell DEF Cloning
  <2>7. ProgramsWell'
    BY <2>4, <2>6, StepWell DEF IInv
  <2>8. HeadedIsBusy'
    BY <1>1, <2>2, <2>4, <2>6 DEF IInv, HeadedIsBusy
  <2> QED
    BY <2>3, <2>4, <2>7, <2>8 DEF IInv, RemotesWell, Advance
<1> QED
  BY <1>3, <1>4

LEMMA FetchReferencesWell ==
  ASSUME IInv, NEW p \in Programs, FetchReferences(p)
  PROVE  IInv'
<1>1. program[p].pc = "fetch" /\ program' = [ program EXCEPT ![p].pc = "checkout" ]
  BY DEF FetchReferences
<1>2. PICK c \in InPlace(p) : \E commit, tags :
        Advance(p, [ c EXCEPT !.stage = "headed", !.commit = commit, !.tags = tags ])
  BY DEF FetchReferences
<1>3. PICK commit, tags : Advance(p, [ c EXCEPT !.stage = "headed", !.commit = commit, !.tags = tags ])
  BY <1>2
<1> DEFINE d == [ c EXCEPT !.stage = "headed", !.commit = commit, !.tags = tags ]
<1>4. c \in clones /\ DOMAIN c = CloneFields /\ c.cut \in BOOLEAN /\ IsAt(c, program[p].pick)
  BY DEF IInv, ClonesWell, InPlace
<1>5. DOMAIN d = CloneFields /\ d.cut = c.cut /\ d.source = c.source /\ d.at = c.at /\ d.stage = "headed"
  BY <1>4 DEF CloneFields
<1>6. Advance(p, d)
  BY <1>3
<1> HIDE DEF d
<1>7. /\ ClonesWell' /\ clones' = (clones \ {c}) \cup {d}
      /\ \A package : Fetched(package, clones) => Fetched(package, clones')
  BY <1>4, <1>5, <1>6, AdvanceWell DEF IInv
<1>8. LooksWell(program[p], clones') /\ DOMAIN program = Programs
  BY <1>7, StaysWell DEF IInv, ProgramsWell
<1>9. /\ LooksWell(program'[p], clones') /\ DOMAIN program' = Programs
      /\ \A q \in Programs \ {p} : program'[q] = program[q]
      /\ program'[p].pc = "checkout" /\ program'[p].pick = program[p].pick
  BY <1>1, <1>8, PcWell DEF Cloning
<1>10. ProgramsWell'
  BY <1>7, <1>9, StepWell DEF IInv
<1>11. HeadedIsBusy'
  <2> SUFFICES ASSUME NEW x \in clones', x.stage = "headed", x.cut = FALSE
               PROVE  \E q \in Programs : program'[q].pc = "checkout" /\ IsAt(x, program'[q].pick)
    BY DEF HeadedIsBusy
  <2>1. CASE x = d
    <3>1. IsAt(d, program[p].pick)
      BY <1>4, <1>5 DEF IsAt
    <3> QED
      BY <2>1, <3>1, <1>9
  <2>2. CASE x # d
    <3>1. PICK q \in Programs : program[q].pc = "checkout" /\ IsAt(x, program[q].pick)
      BY <1>7, <2>2 DEF IInv, HeadedIsBusy
    <3> QED
      BY <1>1, <1>9, <3>1
  <2> QED
    BY <2>1, <2>2
<1>12. RemotesWell'
  BY <1>6 DEF IInv, RemotesWell, Advance
<1> QED
  BY <1>7, <1>10, <1>11, <1>12 DEF IInv

LEMMA CheckOutWell ==
  ASSUME IInv, NEW p \in Programs, CheckOut(p)
  PROVE  IInv'
<1> DEFINE package == program[p].pick
<1>1. program[p].pc = "checkout" /\ Complete(p, Dependency(p), package)
  BY DEF CheckOut
<1>2. PICK c \in InPlace(p) : Advance(p, [ c EXCEPT !.stage = "whole" ])
  BY DEF CheckOut
<1> DEFINE d == [ c EXCEPT !.stage = "whole" ]
<1>3. c \in clones /\ DOMAIN c = CloneFields /\ c.cut \in BOOLEAN /\ IsAt(c, package)
  BY DEF IInv, ClonesWell, InPlace
<1>4. DOMAIN d = CloneFields /\ d.cut = c.cut /\ d.source = c.source /\ d.at = c.at /\ d.stage = "whole"
  BY <1>3 DEF CloneFields
<1>5. Advance(p, d)
  BY <1>2
<1> HIDE DEF d
<1>6. /\ ClonesWell' /\ clones' = (clones \ {c}) \cup {d}
      /\ \A x : Fetched(x, clones) => Fetched(x, clones')
  BY <1>3, <1>4, <1>5, AdvanceWell DEF IInv
<1>7. Fetched(package, clones')
  BY <1>3, <1>4, <1>6 DEF Fetched, IsAt
<1>8. LooksWell(program[p], clones') /\ DOMAIN program = Programs
  BY <1>6, StaysWell DEF IInv, ProgramsWell
<1>9. /\ LooksWell(program'[p], clones') /\ DOMAIN program' = Programs
      /\ \A q \in Programs \ {p} : program'[q] = program[q]
  <2> HIDE DEF package
  <2> QED
    BY <1>1, <1>7, <1>8, CompleteWell
<1>10. ProgramsWell'
  BY <1>6, <1>9, StepWell DEF IInv
<1>11. HeadedIsBusy'
  <2> SUFFICES ASSUME NEW x \in clones', x.stage = "headed", x.cut = FALSE
               PROVE  \E q \in Programs : program'[q].pc = "checkout" /\ IsAt(x, program'[q].pick)
    BY DEF HeadedIsBusy
  <2>1. x \in clones \ {c}
    BY <1>4, <1>6
  <2>2. PICK q \in Programs : program[q].pc = "checkout" /\ IsAt(x, program[q].pick)
    BY <2>1 DEF IInv, HeadedIsBusy
  <2>3. q # p
    BY <1>3, <2>1, <2>2 DEF IInv, ClonesWell, IsAt
  <2> QED
    BY <1>9, <2>2, <2>3
<1>12. RemotesWell'
  BY <1>5 DEF IInv, RemotesWell, Advance
<1> QED
  BY <1>6, <1>10, <1>11, <1>12 DEF IInv

\* What a process leaves behind may be cut short, and is what it was.
Left(c) == [ c EXCEPT !.cut = TRUE ]

\* What a process leaves behind is where it was.
LEMMA AbandonWell ==
  ASSUME ClonesWell, NEW p \in Programs, Abandon(p)
  PROVE  /\ ClonesWell'
         /\ \A package : Fetched(package, clones) => Fetched(package, clones')
         /\ \A x \in clones' : x.stage = "headed" /\ x.cut = FALSE =>
              x \in clones /\ (program[p].pc = "checkout" => ~IsAt(x, program[p].pick))
<1> DEFINE Cut(c) == /\ program[p].pc \in { "init", "fetch", "checkout" } /\ IsAt(c, program[p].pick)
                     /\ (program[p].pc = "init" => c.stage = "made")
           after(c) == IF Cut(c) THEN Left(c) ELSE c
<1>1. clones' = { after(c) : c \in clones }
  BY DEF Abandon, Left
<1>2. \A c \in clones : /\ DOMAIN after(c) = CloneFields /\ after(c).cut \in BOOLEAN
                        /\ after(c).source = c.source /\ after(c).at = c.at /\ after(c).stage = c.stage
                        /\ Cut(c) => after(c).cut = TRUE
                        /\ ~Cut(c) => after(c) = c
  BY DEF ClonesWell, CloneFields, Left
<1>3. \A c \in clones : program[p].pc = "checkout" /\ IsAt(c, program[p].pick) => Cut(c)
  OBVIOUS
<1> HIDE DEF Cut, after
<1>4. ClonesWell'
  BY <1>1, <1>2 DEF ClonesWell, IsAt
<1>5. \A package : Fetched(package, clones) => Fetched(package, clones')
  BY <1>1, <1>2 DEF Fetched, IsAt
<1>6. ASSUME NEW x \in clones', x.stage = "headed", x.cut = FALSE
      PROVE  x \in clones /\ (program[p].pc = "checkout" => ~IsAt(x, program[p].pick))
  <2>1. PICK c \in clones : x = after(c)
    BY <1>1
  <2>2. ~Cut(c) /\ x = c
    BY <1>2, <1>6, <2>1
  <2> QED
    BY <1>3, <2>2
<1> QED
  BY <1>4, <1>5, <1>6

\* A process gives up, as s.
LEMMA GivesUpWell ==
  ASSUME IInv, NEW p \in Programs, NEW s, program' = [ program EXCEPT ![p] = s ],
         LooksWell(s, clones), Abandon(p), remotes' = remotes
  PROVE  IInv'
<1>1. DOMAIN program' = Programs /\ program'[p] = s /\ \A q \in Programs \ {p} : program'[q] = program[q]
  BY DEF IInv, ProgramsWell
<1>2. /\ ClonesWell' /\ \A package : Fetched(package, clones) => Fetched(package, clones')
      /\ \A x \in clones' : x.stage = "headed" /\ x.cut = FALSE =>
           x \in clones /\ (program[p].pc = "checkout" => ~IsAt(x, program[p].pick))
  BY AbandonWell DEF IInv
<1>3. LooksWell(program'[p], clones')
  BY <1>1, <1>2, StaysWell
<1>4. ProgramsWell'
  BY <1>1, <1>2, <1>3, StepWell DEF IInv
<1>5. HeadedIsBusy'
  <2> SUFFICES ASSUME NEW x \in clones', x.stage = "headed", x.cut = FALSE
               PROVE  \E q \in Programs : program'[q].pc = "checkout" /\ IsAt(x, program'[q].pick)
    BY DEF HeadedIsBusy
  <2>1. PICK q \in Programs : program[q].pc = "checkout" /\ IsAt(x, program[q].pick)
    BY <1>2 DEF IInv, HeadedIsBusy
  <2>2. q # p
    BY <1>2, <2>1
  <2> QED
    BY <1>1, <2>1, <2>2
<1> QED
  BY <1>2, <1>4, <1>5 DEF IInv, RemotesWell

LEMMA CloneFailsWell ==
  ASSUME IInv, NEW p \in Programs, CloneFails(p)
  PROVE  IInv'
<1> DEFINE s == Continue(AfterTask(program[p], "clone"))
<1>1. LooksWell(s, clones)
  BY EndedWell DEF IInv, ProgramsWell
<1>2. program' = [ program EXCEPT ![p] = s ] /\ Abandon(p) /\ remotes' = remotes
  BY DEF CloneFails, EndTask
<1> HIDE DEF s
<1> QED
  BY <1>1, <1>2, GivesUpWell

LEMMA KillWell ==
  ASSUME IInv, NEW p \in Programs, Kill(p)
  PROVE  IInv'
<1> DEFINE s == Resolver(NoProject, FALSE, "closed")
<1>1. LooksWell(s, clones)
  BY ClosedWell
<1>2. program' = [ program EXCEPT ![p] = s ] /\ Abandon(p) /\ remotes' = remotes
  BY DEF Kill
<1> HIDE DEF s
<1> QED
  BY <1>1, <1>2, GivesUpWell

\* Every step keeps the invariant.
LEMMA NextWell == IInv /\ [InstallNext]_vars => IInv'
<1> SUFFICES ASSUME IInv, [InstallNext]_vars PROVE IInv'
  OBVIOUS
<1>1. CASE UNCHANGED vars
  BY <1>1 DEF vars, IInv, ProgramsWell, ClonesWell, HeadedIsBusy, RemotesWell
<1>2. ASSUME NEW p \in Programs, Run(p) PROVE IInv'
  BY <1>2, EnsureInstalledWell, DiscoverWell, TakeAvailableWell, NoteAbsentWell, ListRemoteWell, ListFailsWell,
     EndRunWell, MakeDirectoryWell, InitRepositoryWell, FetchReferencesWell, CheckOutWell, CloneFailsWell DEF Run
<1>3. ASSUME NEW p \in Programs, Session(p) PROVE IInv'
  BY <1>3, OpenWell, CloseWell, KillWell DEF Session
<1>4. ASSUME NEW u \in Unpublished, Publish(u[1], u[2]) PROVE IInv'
  BY <1>4, PublishWell
<1> QED
  BY <1>1, <1>2, <1>3, <1>4 DEF InstallNext

\* The invariant: packages are fetched, clones have one place each, and one that
\* is not checked out has somebody at it or was cut short (registry.go, clone).
THEOREM InstalledWell == Spec => []IInv
<1>1. Init => IInv
  BY InitWell
<1>2. IInv /\ [InstallNext]_vars => IInv'
  BY NextWell
<1> QED
  BY <1>1, <1>2, PTL DEF Spec

\* A package that is installed lies in a whole clone, but for one whose process
\* was cut short or is still at it: clone() writes straight into the directory
\* other programs look in.
THEOREM WholeClones == Spec => []WholeUnlessCutShort
<1>1. IInv => WholeUnlessCutShort
  <2> SUFFICES ASSUME IInv, NEW p \in Programs, NEW i \in DOMAIN program[p].installed,
                      program[p].installed[i].registry = "git"
               PROVE  \E c \in clones :
                        /\ IsAt(c, program[p].installed[i])
                        /\ \/ c.stage = "whole" \/ c.cut
                           \/ \E q \in Programs : program[q].pc = "checkout" /\ IsAt(c, program[q].pick)
    BY DEF WholeUnlessCutShort
  <2> DEFINE package == program[p].installed[i]
  <2>1. PICK c \in clones : IsAt(c, package) /\ c.stage \in { "headed", "whole" }
    BY DEF IInv, ProgramsWell, LooksWell, AllFetched, Fetched
  <2>2. c.cut \in BOOLEAN
    BY DEF IInv, ClonesWell
  <2>3. CASE c.stage = "whole" \/ c.cut = TRUE
    BY <2>1, <2>3
  <2>4. CASE c.stage = "headed" /\ c.cut = FALSE
    BY <2>1, <2>4 DEF IInv, HeadedIsBusy
  <2> QED
    BY <2>1, <2>2, <2>3, <2>4
<1>2. QED
  BY <1>1, InstalledWell, PTL

\* A directory that stands in the way of a clone was not there when the program
\* looked: Discover finds under its own name whatever clone() would make.
THEOREM NeverClonedTwice == Spec => []OwnClonesAreFound
<1>1. IInv => OwnClonesAreFound
  BY DEF IInv, ProgramsWell, LooksWell, OwnClonesAreFound
<1>2. QED
  BY <1>1, InstalledWell, PTL

-----------------------------------------------------------------------------
(* What a resolver holds: the invariant.                                   *)

\* How a resolver comes by its project, and by a dependency: it holds a package,
\* or has noted that there is none, or the project answers to it.
Own(r) == ProjectDependency(r.project)
Held(r, dep) == \E i \in DOMAIN r.installed : Provides(r.installed[i], dep, r.project)
Noted(r, dep) == r.readOnly /\ \E j \in DOMAIN r.missing : r.missing[j] = dep.name
OwnAnswers(r, dep) == dep.source \in Answers(Own(r), r.project) /\ HasDependency(r.installed, dep)
Settled(r, dep) == Held(r, dep) \/ Noted(r, dep) \/ OwnAnswers(r, dep)
AllSettled(r) == \A i \in DOMAIN r.project.dependencies : Settled(r, r.project.dependencies[i])
\* Before the first dependency is installed there is only the project itself.
OnlyOwn(r) == \A i \in DOMAIN r.installed : r.installed[i].source \in Answers(Own(r), r.project)

\* How much of its queue a task is done with, and what is next.
Done(r) == Len(r.completed) + Len(r.absent)
Wanted(r) == r.queue[Done(r) + 1]

\* What a resolver keeps in order.
Sequences(r) ==
  /\ IsSequence(r.installed) /\ IsSequence(r.missing) /\ IsSequence(r.completed)
  /\ IsSequence(r.absent) /\ IsSequence(r.queue) /\ IsSequence(r.project.dependencies)

\* How far a task has come.
Progress(r) ==
  /\ Done(r) <= Len(r.queue)
  /\ r.absent # << >> => r.readOnly
  /\ r.absent = << >> => \A k \in DOMAIN r.completed : Provides(r.completed[k], r.queue[k], r.project)

\* What a task that succeeds is enough for.
Enough(r) ==
  \/ /\ r.task = "dependencies" /\ r.failed = FALSE
     /\ \A i \in DOMAIN r.project.dependencies :
          \/ Settled(r, r.project.dependencies[i])
          \/ \E k \in DOMAIN r.queue : r.queue[k] = r.project.dependencies[i]
  \/ /\ r.task = "project" /\ r.queue = << Own(r) >>
     /\ r.failed = FALSE => AllSettled(r)

\* What is being cloned is what the manifest asks for.
Picked(r) ==
  /\ Done(r) < Len(r.queue)
  /\ r.pick.source \in Answers(Wanted(r), r.project)
  /\ MatchesAll(r.pick.version, Wanted(r).predicates)
  /\ Newest(r.pick.version, r.offered, Wanted(r).predicates)

Busy == { "discover", "next" } \cup Cloning

\* From the first task to the last: whatever failed before, either everything is
\* settled or nothing but the project is installed.
Resolves(r) ==
  /\ DOMAIN r = Fields /\ r.failed \in BOOLEAN
  /\ Sequences(r)
  /\ AllSettled(r) \/ OnlyOwn(r)
  /\ r.pc \in Busy => Progress(r) /\ Enough(r)
  /\ r.pc \in Cloning => Picked(r)
  /\ r.pc = "ready" => Held(r, Own(r)) /\ AllSettled(r)

ProgramsResolve == DOMAIN program = Programs /\ \A p \in Programs : Resolves(program[p])
RInv == ProgramsResolve /\ RemotesWell

-----------------------------------------------------------------------------

\* Whatever is in the one is in the other.
Grows(a, b) == \A i \in DOMAIN a : \E j \in DOMAIN b : b[j] = a[i]

LEMMA ConcatenationGrows ==
  ASSUME NEW s, NEW t, IsSequence(s), IsSequence(t)
  PROVE  Grows(s, s \o t) /\ Grows(t, s \o t)
<1> DEFINE u == s \o t
<1>1. /\ DOMAIN u = 1 .. Len(s) + Len(t) /\ DOMAIN s = 1 .. Len(s) /\ DOMAIN t = 1 .. Len(t)
      /\ Len(s) \in Nat /\ Len(t) \in Nat
      /\ \A i \in 1 .. Len(s) : u[i] = s[i]
      /\ \A i \in 1 .. Len(t) : u[Len(s) + i] = t[i]
  BY Concatenated, SequenceShape
<1> HIDE DEF u
<1>2. Grows(s, u)
  BY <1>1 DEF Grows
<1>3. Grows(t, u)
  <2> SUFFICES ASSUME NEW i \in 1 .. Len(t) PROVE \E j \in DOMAIN u : u[j] = t[i]
    BY <1>1 DEF Grows
  <2>1. Len(s) + i \in DOMAIN u
    BY <1>1
  <2> QED
    BY <1>1, <2>1
<1> QED
  BY <1>2, <1>3 DEF u

\* What is settled stays so while what is installed and noted grows.
LEMMA SettledStays ==
  ASSUME NEW r, NEW s, NEW dep, s.project = r.project, s.readOnly = r.readOnly,
         Grows(r.installed, s.installed), Grows(r.missing, s.missing), Settled(r, dep)
  PROVE  Settled(s, dep)
<1>1. Own(s) = Own(r)
  BY DEF Own
<1>2. CASE Held(r, dep)
  BY <1>2 DEF Held, Grows, Settled
<1>3. CASE Noted(r, dep)
  BY <1>3 DEF Noted, Grows, Settled
<1>4. CASE OwnAnswers(r, dep)
  BY <1>1, <1>4 DEF OwnAnswers, HasDependency, Grows, Settled
<1> QED
  BY <1>2, <1>3, <1>4 DEF Settled

\* So with all of them.
LEMMA AllSettledStays ==
  ASSUME NEW r, NEW s, s.project = r.project, s.readOnly = r.readOnly,
         Grows(r.installed, s.installed), Grows(r.missing, s.missing), AllSettled(r)
  PROVE  AllSettled(s)
BY SettledStays DEF AllSettled

\* A sequence with another behind it, if any.
LEMMA Longer ==
  ASSUME NEW s, NEW t, NEW u, IsSequence(s), IsSequence(t), u = s \/ u = s \o t
  PROVE  IsSequence(u) /\ Grows(s, u)
<1>1. CASE u = s
  BY <1>1 DEF Grows
<1>2. CASE u = s \o t
  BY <1>2, Concatenated, ConcatenationGrows
<1> QED
  BY <1>1, <1>2

\* A task has ended with an error that leaves nothing behind.
Loses(r, error) == error # "" /\ error # "not installed"

\* A task has come to its end.
RunsOut(r, error) ==
  /\ Done(r) = Len(r.queue)
  /\ error = IF r.absent = << >> THEN "" ELSE "not installed"

\* A task that ends leaves what it promised, or failed as a whole.
LEMMA EndedResolves ==
  ASSUME NEW r, NEW error, Resolves(r), r.pc \in Busy, Loses(r, error) \/ RunsOut(r, error)
  PROVE  Resolves(Continue(AfterTask(r, error)))
<1> DEFINE t == AfterTask(r, error)
           s == Continue(t)
           asked == Names(r.queue)
           kept == Kept(r, error)
<1>0. SUFFICES Resolves(s)
  OBVIOUS
<1>1. /\ DOMAIN r = Fields /\ r.failed \in BOOLEAN /\ Sequences(r) /\ Progress(r) /\ Enough(r)
      /\ AllSettled(r) \/ OnlyOwn(r)
  BY DEF Resolves
<1>2. /\ IsSequence(r.installed) /\ IsSequence(r.missing) /\ IsSequence(r.completed)
      /\ IsSequence(r.absent) /\ IsSequence(r.queue) /\ IsSequence(r.project.dependencies)
  BY <1>1 DEF Sequences
<1>3. IsSequence(asked) /\ DOMAIN asked = DOMAIN r.queue
  BY <1>2, SequenceShape, FunctionSequence DEF Names
<1>4. \A i \in DOMAIN r.queue : asked[i] = r.queue[i].name
  BY DEF Names
<1>a. IsAfterTask(t, r, error)
  BY <1>1, AfterTaskIs
<1> HIDE DEF t
<1>b. IsContinued(s, t)
  BY <1>a, ContinueIs DEF IsAfterTask
<1> HIDE DEF s, asked, kept
<1>5. /\ t.project = r.project /\ t.readOnly = r.readOnly /\ t.task = r.task /\ t.completed = << >>
      /\ kept => t.installed = r.installed \o r.completed /\ t.failed = r.failed
      /\ ~kept => t.installed = r.installed /\ t.failed = TRUE
      /\ t.missing = IF kept /\ error # "" THEN r.missing \o asked ELSE r.missing
      /\ t.absent = r.absent
  BY <1>a DEF IsAfterTask, kept, asked
<1>6. /\ DOMAIN s = Fields
      /\ s.project = r.project /\ s.readOnly = r.readOnly /\ s.completed = << >>
      /\ s.installed = t.installed /\ s.missing = t.missing /\ s.failed = t.failed
      /\ r.task = "dependencies" => /\ s.pc = "discover" /\ s.task = "project" /\ s.absent = << >>
                                    /\ s.queue = << Own(r) >>
      /\ r.task # "dependencies" => /\ s.pc = (IF t.failed THEN "failed" ELSE "ready")
                                    /\ s.queue = << >> /\ s.absent = r.absent
  BY <1>5, <1>b DEF IsContinued, Own
<1>7. s.project = r.project /\ s.readOnly = r.readOnly /\ Own(s) = Own(r) /\ s.failed \in BOOLEAN
  BY <1>1, <1>5, <1>6 DEF Own
<1>8. IsSequence(s.installed) /\ Grows(r.installed, s.installed)
  <2>1. s.installed = r.installed \/ s.installed = r.installed \o r.completed
    BY <1>5, <1>6
  <2> QED
    BY <1>2, <2>1, Longer
<1>9. IsSequence(s.missing) /\ Grows(r.missing, s.missing)
  <2>1. s.missing = r.missing \/ s.missing = r.missing \o asked
    BY <1>5, <1>6
  <2> QED
    BY <1>2, <1>3, <2>1, Longer
<1>10. Sequences(s)
  <2>1. IsSequence(s.queue) /\ IsSequence(s.absent)
    <3>1. CASE r.task = "dependencies"
      BY <1>6, <3>1, EmptySequence, OneElement
    <3>2. CASE r.task # "dependencies"
      BY <1>2, <1>6, <3>2, EmptySequence
    <3> QED
      BY <3>1, <3>2
  <2>2. IsSequence(s.completed)
    BY <1>6, EmptySequence
  <2> QED
    BY <1>2, <1>7, <1>8, <1>9, <2>1, <2>2 DEF Sequences
<1>11. AllSettled(r) => AllSettled(s)
  BY <1>7, <1>8, <1>9, AllSettledStays
<1>12. CASE ~kept
  <2>1. s.installed = r.installed /\ s.failed = TRUE
    BY <1>5, <1>6, <1>12
  <2>2. AllSettled(s) \/ OnlyOwn(s)
    BY <1>1, <1>7, <1>11, <2>1 DEF OnlyOwn
  <2>3. s.pc # "ready"
    BY <1>5, <1>6, <1>12
  <2>4. s.pc \in Busy => Progress(s) /\ Enough(s)
    <3> SUFFICES ASSUME s.pc \in Busy PROVE Progress(s) /\ Enough(s)
      OBVIOUS
    <3>1. r.task = "dependencies"
      BY <1>5, <1>6, <1>12 DEF Busy, Cloning
    <3>2. Len(s.queue) = 1 /\ Len(s.completed) = 0 /\ Len(s.absent) = 0 /\ DOMAIN s.completed = {}
      BY <1>6, <3>1, EmptySequence, OneElement
    <3>3. Progress(s)
      BY <1>6, <3>1, <3>2 DEF Progress, Done
    <3>4. Enough(s)
      BY <1>6, <1>7, <2>1, <3>1 DEF Enough, Own
    <3> QED
      BY <3>3, <3>4
  <2>5. s.pc \notin Cloning
    BY <1>6 DEF Cloning
  <2> QED
    BY <1>6, <1>7, <1>10, <2>2, <2>3, <2>4, <2>5 DEF Resolves
<1>13. CASE kept
  <2>1. /\ Done(r) = Len(r.queue) /\ (r.absent = << >> <=> error = "")
        /\ s.installed = r.installed \o r.completed /\ s.failed = r.failed
    BY <1>5, <1>6, <1>13 DEF kept, Kept, Loses, RunsOut
  <2>a. r.absent = << >> => Len(r.completed) = Len(r.queue) /\ DOMAIN r.completed = DOMAIN r.queue
    <3> SUFFICES ASSUME r.absent = << >>
                 PROVE  Len(r.completed) = Len(r.queue) /\ DOMAIN r.completed = DOMAIN r.queue
      OBVIOUS
    <3>1. Len(r.absent) = 0
      BY EmptySequence
    <3>a. Len(r.completed) + Len(r.absent) = Len(r.queue)
      BY <2>1 DEF Done
    <3>2. Len(r.completed) \in Nat /\ DOMAIN r.completed = 1 .. Len(r.completed)
      BY <1>2, SequenceShape
    <3>3. Len(r.queue) \in Nat /\ DOMAIN r.queue = 1 .. Len(r.queue)
      BY <1>2, SequenceShape
    <3>4. Len(r.completed) = Len(r.queue)
      BY <3>1, <3>a, <3>2, <3>3
    <3> QED
      BY <3>2, <3>3, <3>4
  <2>2. Grows(r.completed, s.installed)
    BY <1>2, <2>1, ConcatenationGrows
  <2>3. ASSUME error = "", NEW k \in DOMAIN r.queue
        PROVE  Held(s, r.queue[k])
    <3>1. r.absent = << >>
      BY <2>1, <2>3
    <3>3. k \in DOMAIN r.completed
      BY <2>3, <2>a, <3>1
    <3>4. Provides(r.completed[k], r.queue[k], r.project)
      BY <1>1, <3>1, <3>3 DEF Progress
    <3> QED
      BY <1>7, <2>2, <3>3, <3>4 DEF Grows, Held
  <2>4. ASSUME error # "", NEW k \in DOMAIN r.queue
        PROVE  Noted(s, r.queue[k])
    <3>1. r.readOnly /\ s.missing = r.missing \o asked
      BY <1>5, <1>6, <1>13, <2>4 DEF kept, Kept
    <3>2. Grows(asked, s.missing)
      BY <1>2, <1>3, <3>1, ConcatenationGrows
    <3> QED
      BY <1>3, <1>4, <1>7, <3>1, <3>2, SMTT(60) DEF Grows, Noted
  <2>5. \A k \in DOMAIN r.queue : Settled(s, r.queue[k])
    BY <2>3, <2>4 DEF Settled
  <2>6. CASE r.task = "dependencies"
    <3>1. AllSettled(s)
      <4> SUFFICES ASSUME NEW i \in DOMAIN r.project.dependencies
                   PROVE  Settled(s, r.project.dependencies[i])
        BY <1>7 DEF AllSettled
      <4>1. \/ Settled(r, r.project.dependencies[i])
            \/ \E k \in DOMAIN r.queue : r.queue[k] = r.project.dependencies[i]
        BY <1>1, <2>6 DEF Enough
      <4> QED
        BY <1>7, <1>8, <1>9, <2>5, <4>1, SettledStays
    <3>2. Len(s.queue) = 1 /\ Len(s.completed) = 0 /\ Len(s.absent) = 0 /\ DOMAIN s.completed = {}
      BY <1>6, <2>6, EmptySequence, OneElement
    <3>3. Progress(s)
      BY <1>6, <2>6, <3>2 DEF Progress, Done
    <3>4. Enough(s)
      BY <1>6, <1>7, <2>6, <3>1 DEF Enough, Own
    <3>5. s.pc \notin Cloning /\ s.pc # "ready"
      BY <1>6, <2>6 DEF Cloning
    <3> QED
      BY <1>6, <1>7, <1>10, <3>1, <3>3, <3>4, <3>5 DEF Resolves
  <2>7. CASE r.task # "dependencies"
    <3>1. r.task = "project" /\ r.queue = << Own(r) >> /\ (r.failed = FALSE => AllSettled(r)) /\ error = ""
      BY <1>1, <1>13, <2>7 DEF Enough, kept, Kept
    <3>2. Held(s, Own(s))
      <4>1. 1 \in DOMAIN r.queue /\ r.queue[1] = Own(s)
        BY <1>7, <3>1, OneElement
      <4> QED
        BY <2>3, <3>1, <4>1
    <3>3. OnlyOwn(r) => OnlyOwn(s)
      <4> SUFFICES ASSUME OnlyOwn(r), NEW i \in DOMAIN s.installed
                   PROVE  s.installed[i].source \in Answers(Own(r), r.project)
        BY <1>7 DEF OnlyOwn
      <4>1. \/ i \in DOMAIN r.installed /\ s.installed[i] = r.installed[i]
            \/ i - Len(r.installed) \in DOMAIN r.completed
               /\ s.installed[i] = r.completed[i - Len(r.installed)]
        <5> DEFINE a == r.installed
                   b == r.completed
                   u == a \o b
        <5>1. IsSequence(a) /\ IsSequence(b) /\ i \in DOMAIN u /\ s.installed = u
          BY <1>2, <2>1
        <5> HIDE DEF a, b
        <5>2. \/ i \in DOMAIN a /\ u[i] = a[i]
              \/ i - Len(a) \in DOMAIN b /\ u[i] = b[i - Len(a)]
          BY <5>1, Concatenated
        <5> QED
          BY <5>1, <5>2 DEF a, b
      <4>2. ASSUME NEW k \in DOMAIN r.completed
            PROVE  r.completed[k].source \in Answers(Own(r), r.project)
        <5>1. r.absent = << >>
          BY <2>1, <3>1
        <5>2. Provides(r.completed[k], r.queue[k], r.project)
          BY <1>1, <4>2, <5>1 DEF Progress
        <5>3. k \in DOMAIN r.queue
          BY <2>a, <4>2, <5>1
        <5>4. r.queue[k] = Own(r)
          BY <3>1, <5>3, OneElement
        <5> QED
          BY <5>2, <5>4 DEF Provides
      <4> QED
        BY <4>1, <4>2 DEF OnlyOwn
    <3>4. s.pc = "ready" => AllSettled(s)
      BY <1>1, <1>6, <1>11, <2>1, <2>7, <3>1
    <3>5. s.pc \notin Busy /\ s.pc \notin Cloning
      BY <1>6, <2>7 DEF Busy, Cloning
    <3> QED
      BY <1>1, <1>6, <1>7, <1>10, <1>11, <3>2, <3>3, <3>4, <3>5 DEF Resolves
  <2> QED
    BY <2>6, <2>7
<1> QED
  BY <1>12, <1>13

-----------------------------------------------------------------------------
(* What is missing.                                                        *)

\* What is missing is a sequence, and every dependency is there or missing.
LEMMA WhatIsMissing ==
  ASSUME NEW p, IsSequence(program[p].project.dependencies)
  PROVE  LET deps == program[p].project.dependencies
             missing == FilterMissingDependencies(p)
         IN  /\ IsSequence(missing)
             /\ \A i \in DOMAIN deps : \/ HasDependency(program[p].installed, deps[i])
                                       \/ \E k \in DOMAIN missing : missing[k] = deps[i]
<1> DEFINE deps == program[p].project.dependencies
           N == Len(deps)
           Those == { deps[i] : i \in 1 .. N }
           T == Seq(Those)
           There(n) == HasDependency(program[p].installed, deps[n])
           Next1(n, before) == IF There(n) THEN before ELSE Append(before, deps[n])
           IsFiltered(g) == g = [ n \in 0 .. N |-> IF n = 0 THEN << >> ELSE Next1(n, g[n - 1]) ]
           step == [ x \in (1 .. N) \X T |-> Next1(x[1], x[2]) ]
<1>1. N \in Nat /\ DOMAIN deps = 1 .. N /\ << >> \in T
  BY SequenceShape
<1>a. FilterMissingDependencies(p) = LET f == CHOOSE g : IsFiltered(g) IN f[N]
  BY DEF FilterMissingDependencies
<1> HIDE DEF deps, There
<1>2. \A n \in 1 .. N, before \in T : Next1(n, before) \in T
  <2> SUFFICES ASSUME NEW n \in 1 .. N, NEW before \in T PROVE Append(before, deps[n]) \in T
    OBVIOUS
  <2>1. deps[n] \in Those
    OBVIOUS
  <2> HIDE DEF Those
  <2> QED
    BY <2>1
<1>b. \A n \in 1 .. N, before \in T :
        /\ There(n) => Next1(n, before) = before
        /\ ~There(n) => /\ Len(Next1(n, before)) = Len(before) + 1
                        /\ Next1(n, before)[Len(before) + 1] = deps[n]
                        /\ \A k \in 1 .. Len(before) : Next1(n, before)[k] = before[k]
  <2> SUFFICES ASSUME NEW n \in 1 .. N, NEW before \in T, ~There(n)
               PROVE  LET a == Append(before, deps[n])
                      IN  /\ Len(a) = Len(before) + 1 /\ a[Len(before) + 1] = deps[n]
                          /\ \A k \in 1 .. Len(before) : a[k] = before[k]
    OBVIOUS
  <2>1. IsSequence(before)
    BY DEF IsSequence
  <2> QED
    BY <2>1, Appended
<1> HIDE DEF Next1
<1>3. step \in Steps(N, T)
  BY <1>2 DEF Steps
<1>4. \A n \in 1 .. N, before \in T : step[<< n, before >>] = Next1(n, before)
  OBVIOUS
<1>5. \E g : IsFiltered(g)
  <2> HIDE DEF step, T, N
  <2> DEFINE e == << >>
  <2>1. e \in T
    BY <1>1
  <2> HIDE DEF e
  <2>2. PICK g : Computes(g, N, T, e, step)
    BY <1>1, <1>3, <2>1, Computed
  <2>3. ASSUME NEW n \in 0 .. N
        PROVE  g[n] = IF n = 0 THEN << >> ELSE Next1(n, g[n - 1])
    <3>1. CASE n = 0
      BY <3>1, <2>2 DEF Computes, e
    <3>2. CASE n # 0
      <4>1. n \in 1 .. N /\ n - 1 \in 0 .. N
        BY <3>2, <1>1
      <4> QED
        BY <4>1, <3>2, <2>2, <1>4 DEF Computes
    <3> QED
      BY <3>1, <3>2
  <2>4. g = [ n \in 0 .. N |-> g[n] ]
    BY <2>2 DEF Computes
  <2>5. IsFiltered(g)
    BY <2>3, <2>4
  <2> QED
    BY <2>5
<1> DEFINE f == CHOOSE g : IsFiltered(g)
           Found(n) == \A i \in 1 .. n : There(i) \/ \E k \in 1 .. Len(f[n]) : f[n][k] = deps[i]
<1>6. IsFiltered(f)
  BY <1>5
<1>9. FilterMissingDependencies(p) = f[N]
  BY <1>a
<1> HIDE DEF f
<1>7. \A n \in 0 .. N : f[n] = IF n = 0 THEN << >> ELSE Next1(n, f[n - 1])
  BY <1>6
<1>8. \A n \in 0 .. N : f[n] \in T /\ Found(n)
  <2> DEFINE Bad == { n \in 0 .. N : ~(f[n] \in T /\ Found(n)) }
  <2> SUFFICES ASSUME Bad # {} PROVE FALSE
    OBVIOUS
  <2>1. PICK m \in Bad : \A n \in Bad : m <= n
    <3>1. Bad \in SUBSET Nat
      OBVIOUS
    <3> QED
      BY <3>1, Least
  <2>2. m # 0
    <3>1. 0 \in 0 .. N /\ f[0] = << >>
      BY <1>1, <1>7
    <3>2. f[0] \in T /\ Found(0)
      BY <1>1, <3>1
    <3> HIDE DEF T, Found
    <3> QED
      BY <2>1, <3>2
  <2>3. m - 1 \in 0 .. N /\ m - 1 \notin Bad /\ m \in 1 .. N
    BY <2>1, <2>2, <1>1
  <2> DEFINE b == f[m - 1]
             a == f[m]
  <2>4. a = Next1(m, b)
    BY <2>1, <2>2, <1>7
  <2>5. b \in T /\ Found(m - 1)
    BY <2>3
  <2>6. a \in T
    BY <2>3, <2>4, <2>5, <1>2
  <2>7. Len(b) \in Nat
    BY <2>5
  <2>8. \A i \in 1 .. m - 1 : There(i) \/ \E k \in 1 .. Len(b) : b[k] = deps[i]
    BY <2>5
  <2>9. \/ There(m) /\ a = b
        \/ Len(a) = Len(b) + 1 /\ a[Len(b) + 1] = deps[m] /\ \A k \in 1 .. Len(b) : a[k] = b[k]
    <3> HIDE DEF a, b, T
    <3>1. m \in 1 .. N /\ b \in T /\ a = Next1(m, b)
      BY <2>3, <2>4, <2>5
    <3> QED
      BY <3>1, <1>b
  <2>10. \A i \in 1 .. m : There(i) \/ \E k \in 1 .. Len(a) : a[k] = deps[i]
    <3> HIDE DEF a, b
    <3> SUFFICES ASSUME NEW i \in 1 .. m, ~There(i) PROVE \E k \in 1 .. Len(a) : a[k] = deps[i]
      OBVIOUS
    <3>1. CASE i = m
      BY <3>1, <2>7, <2>9
    <3>2. CASE i # m
      <4>1. i \in 1 .. m - 1
        BY <3>2, <2>3, <1>1
      <4>2. PICK k \in 1 .. Len(b) : b[k] = deps[i]
        BY <4>1, <2>8
      <4>3. k \in 1 .. Len(a) /\ a[k] = b[k]
        BY <2>7, <2>9
      <4> QED
        BY <4>2, <4>3
    <3> QED
      BY <3>1, <3>2
  <2> QED
    BY <2>1, <2>6, <2>10
<1> HIDE DEF T, Those
<1>10. f[N] \in Seq(Those) /\ Found(N)
  BY <1>1, <1>8 DEF T
<1>11. IsSequence(f[N])
  BY <1>10 DEF IsSequence
<1>12. DOMAIN f[N] = 1 .. Len(f[N])
  BY <1>11, SequenceShape
<1> QED
  BY <1>1, <1>9, <1>10, <1>11, <1>12 DEF deps, There

-----------------------------------------------------------------------------
(* Resolvers that begin, and tasks that end.                               *)

\* One process has taken a step, and is s now.
LEMMA OneResolves ==
  ASSUME RInv, NEW p \in Programs, NEW s, program' = [ program EXCEPT ![p] = s ],
         Resolves(s), remotes' = remotes
  PROVE  RInv'
<1>1. ProgramsResolve'
  BY DEF RInv, ProgramsResolve
<1> QED
  BY <1>1 DEF RInv, RemotesWell

\* A resolver with nothing installed has promised nothing.
LEMMA StartedResolves ==
  ASSUME NEW project, NEW readOnly, NEW pc \in { "closed", "open", "refused" },
         IsSequence(project.dependencies)
  PROVE  Resolves(Resolver(project, readOnly, pc))
<1> DEFINE r == Resolver(project, readOnly, pc)
<1>1. /\ DOMAIN r = Fields
      /\ r.pc = pc /\ r.project = project /\ r.failed = FALSE
      /\ r.installed = << >> /\ r.missing = << >> /\ r.queue = << >>
      /\ r.completed = << >> /\ r.absent = << >>
  BY DEF Fields, Resolver
<1> HIDE DEF r
<1>2. Sequences(r)
  BY <1>1, EmptySequence DEF Sequences
<1>3. OnlyOwn(r)
  BY <1>1, EmptySequence DEF OnlyOwn
<1>4. r.pc \notin Busy /\ r.pc \notin Cloning /\ r.pc # "ready"
  BY <1>1 DEF Busy, Cloning
<1>5. Resolves(r)
  BY <1>1, <1>2, <1>3, <1>4 DEF Resolves
<1> QED
  BY <1>5 DEF r

LEMMA NoDependencies == IsSequence(NoProject.dependencies)
BY EmptySequence DEF NoProject

LEMMA InitResolves == Init => RInv
<1> SUFFICES ASSUME Init PROVE RInv
  OBVIOUS
<1>1. DOMAIN program = Programs /\ \A p \in Programs : program[p] = Resolver(NoProject, FALSE, "closed")
  BY DEF Init
<1>2. Resolves(Resolver(NoProject, FALSE, "closed"))
  BY StartedResolves, NoDependencies
<1>3. RemotesWell
  BY InitWell DEF IInv
<1> QED
  BY <1>1, <1>2, <1>3 DEF RInv, ProgramsResolve

\* A manifest with the standard library is a manifest.
LEMMA OpenResolves ==
  ASSUME RInv, NEW p \in Programs, NEW project \in Projects, NEW readOnly, Open(p, project, readOnly)
  PROVE  RInv'
<1> DEFINE deps == project.dependencies
           all == EnsureStandardLibrary(deps)
           manifest == [ project EXCEPT !.dependencies = EnsureStandardLibrary(@) ]
           pc == IF SuitsLanguage(project.language) THEN "open" ELSE "refused"
           s == Resolver(manifest, readOnly, pc)
<1>1. program' = [ program EXCEPT ![p] = s ] /\ remotes' = remotes
  BY DEF Open
<1>2. IsSequence(deps) /\ DOMAIN project = DOMAIN NoProject
  BY InstallationAssumption DEF IsSequence
<1>3. "dependencies" \in DOMAIN project
  BY <1>2 DEF NoProject
<1>4. manifest.dependencies = all
  BY <1>3
<1>5. IsSequence(all)
  <2>1. all \in { deps, Append(deps, StdlibDependency) }
    BY DEF EnsureStandardLibrary
  <2> HIDE DEF deps, all
  <2>2. CASE all = deps
    BY <1>2, <2>2
  <2>3. CASE all = Append(deps, StdlibDependency)
    BY <1>2, <2>3, Appended
  <2> QED
    BY <2>1, <2>2, <2>3
<1>6. pc \in { "closed", "open", "refused" }
  OBVIOUS
<1> HIDE DEF manifest, pc, all, deps
<1>7. Resolves(s)
  BY <1>4, <1>5, <1>6, StartedResolves
<1> HIDE DEF s
<1> QED
  BY <1>1, <1>7, OneResolves

\* A process is closed, or killed.
LEMMA ClosedResolves ==
  ASSUME RInv, NEW p \in Programs, remotes' = remotes,
         program' = [ program EXCEPT ![p] = Resolver(NoProject, FALSE, "closed") ]
  PROVE  RInv'
<1> DEFINE s == Resolver(NoProject, FALSE, "closed")
<1>1. Resolves(s)
  BY StartedResolves, NoDependencies
<1> HIDE DEF s
<1> QED
  BY <1>1, OneResolves DEF s

\* A resolver asks for what is missing, or for its project, as s.
LEMMA AsksResolves ==
  ASSUME NEW r, NEW missing, NEW suits \in BOOLEAN, NEW s, Resolves(r), Asks(r, missing, suits, s),
         IsSequence(missing),
         \A i \in DOMAIN r.project.dependencies :
           \/ HasDependency(r.installed, r.project.dependencies[i])
           \/ \E k \in DOMAIN missing : missing[k] = r.project.dependencies[i]
  PROVE  Resolves(s)
<1>1. /\ DOMAIN r = Fields /\ Sequences(r) /\ (AllSettled(r) \/ OnlyOwn(r))
  BY DEF Resolves
<1>2. /\ DOMAIN s = Fields
      /\ s.pc = "discover" /\ s.completed = << >> /\ s.absent = << >>
      /\ s.project = r.project /\ s.readOnly = r.readOnly
      /\ s.installed = r.installed /\ s.missing = r.missing /\ s.failed = ~suits
      /\ \/ (missing = << >> \/ ~suits) /\ s.task = "project" /\ s.queue = << Own(r) >>
         \/ missing # << >> /\ suits /\ s.task = "dependencies" /\ s.queue = missing
  BY DEF Asks, Own
<1>3. Own(s) = Own(r)
  BY <1>2 DEF Own
<1>4. Grows(r.installed, s.installed) /\ Grows(r.missing, s.missing)
  BY <1>2 DEF Grows
<1>5. AllSettled(r) => AllSettled(s)
  BY <1>2, <1>4, AllSettledStays
<1>6. OnlyOwn(r) => OnlyOwn(s)
  BY <1>2, <1>3 DEF OnlyOwn
<1>7. IsSequence(s.queue)
  <2>1. CASE s.queue = << Own(r) >>
    BY <2>1, OneElement
  <2>2. CASE s.queue = missing
    BY <2>2
  <2> QED
    BY <1>2, <2>1, <2>2
<1>8. Sequences(s)
  BY <1>1, <1>2, <1>7, EmptySequence DEF Sequences
<1>9. ASSUME NEW i \in DOMAIN r.project.dependencies
      PROVE  \/ Settled(s, s.project.dependencies[i])
             \/ \E k \in DOMAIN missing : missing[k] = s.project.dependencies[i]
  <2> DEFINE dep == r.project.dependencies[i]
  <2> SUFFICES ASSUME HasDependency(r.installed, dep) PROVE Settled(s, dep)
    BY <1>2
  <2>1. CASE AllSettled(r)
    BY <1>2, <1>5, <2>1 DEF AllSettled
  <2>2. CASE OnlyOwn(r)
    <3>1. dep.source \in Answers(Own(s), s.project)
      <4>1. PICK j \in DOMAIN s.installed : s.installed[j].source = dep.source
        BY <1>2 DEF HasDependency
      <4> QED
        BY <1>6, <2>2, <4>1 DEF OnlyOwn
    <3> QED
      BY <1>2, <3>1 DEF Settled, OwnAnswers
  <2> QED
    BY <1>1, <2>1, <2>2
<1>10. Len(s.completed) = 0 /\ Len(s.absent) = 0 /\ DOMAIN s.completed = {}
  BY <1>2, EmptySequence
<1>11. Progress(s)
  <2>1. Len(s.queue) \in Nat
    BY <1>7, SequenceShape
  <2> QED
    BY <1>2, <1>10, <2>1 DEF Progress, Done
<1>12. Enough(s)
  <2>1. CASE missing # << >> /\ suits
    BY <1>2, <1>9, <2>1 DEF Enough
  <2>2. CASE ~suits
    BY <1>2, <1>3, <2>2 DEF Enough
  <2>3. CASE missing = << >>
    <3>1. AllSettled(s)
      BY <1>2, <1>9, <2>3, EmptySequence DEF AllSettled
    <3> QED
      BY <1>2, <1>3, <2>3, <3>1 DEF Enough
  <2> QED
    BY <2>1, <2>2, <2>3
<1>13. s.pc \notin Cloning /\ s.pc # "ready" /\ s.failed \in BOOLEAN
  BY <1>2 DEF Cloning
<1>14. AllSettled(s) \/ OnlyOwn(s)
  BY <1>1, <1>5, <1>6
<1> QED
  BY <1>2, <1>8, <1>11, <1>12, <1>13, <1>14 DEF Resolves

LEMMA EnsureInstalledResolves ==
  ASSUME RInv, NEW p \in Programs, EnsureInstalled(p)
  PROVE  RInv'
<1> DEFINE r == program[p]
           missing == FilterMissingDependencies(p)
           suits == AllSuit(missing)
<1>1. Resolves(r) /\ DOMAIN r = Fields /\ IsSequence(r.project.dependencies)
  BY DEF RInv, ProgramsResolve, Resolves, Sequences
<1>2. PICK s : program' = [ program EXCEPT ![p] = s ] /\ Asks(r, missing, suits, s)
  BY <1>1, EnsureInstalledIs
<1>3. suits \in BOOLEAN
  BY DEF AllSuit
<1>4. /\ IsSequence(missing)
      /\ \A i \in DOMAIN r.project.dependencies :
           \/ HasDependency(r.installed, r.project.dependencies[i])
           \/ \E k \in DOMAIN missing : missing[k] = r.project.dependencies[i]
  BY <1>1, WhatIsMissing
<1> HIDE DEF missing, suits
<1>5. Resolves(s)
  <2> HIDE DEF r
  <2> QED
    BY <1>1, <1>2, <1>3, <1>4, AsksResolves
<1>6. remotes' = remotes
  BY DEF EnsureInstalled
<1> QED
  BY <1>2, <1>5, <1>6, OneResolves

\* A task that ends, with whatever error it has.
LEMMA EndTaskResolves ==
  ASSUME RInv, NEW p \in Programs, NEW error, EndTask(p, error), program[p].pc \in Busy,
         Loses(program[p], error) \/ RunsOut(program[p], error), remotes' = remotes
  PROVE  RInv'
<1> DEFINE s == Continue(AfterTask(program[p], error))
<1>1. Resolves(s)
  BY EndedResolves DEF RInv, ProgramsResolve
<1>2. program' = [ program EXCEPT ![p] = s ]
  BY DEF EndTask
<1> HIDE DEF s
<1> QED
  BY <1>1, <1>2, OneResolves

-----------------------------------------------------------------------------
(* A task, one dependency at a time.                                       *)

\* What a task works through.
LEMMA WorksThrough ==
  ASSUME NEW p
  PROVE  /\ Dependency(p) = Wanted(program[p])
         /\ QueueDone(p) <=> Done(program[p]) = Len(program[p].queue)
BY DEF Dependency, QueueDone, Wanted, Done

\* The task of r has gone on, to s, and nothing else of it has changed.
GoesOn(r, s) ==
  /\ DOMAIN s = Fields
  /\ s.project = r.project /\ s.readOnly = r.readOnly /\ s.task = r.task
  /\ s.installed = r.installed /\ s.missing = r.missing /\ s.failed = r.failed /\ s.queue = r.queue

\* How many dependencies are done with.
LEMMA Tally ==
  ASSUME NEW r, IsSequence(r.completed), IsSequence(r.absent)
  PROVE  /\ Len(r.completed) \in Nat /\ Len(r.absent) \in Nat
         /\ Done(r) = Len(r.completed) + Len(r.absent) /\ Done(r) \in Nat
<1> DEFINE a == Len(r.completed)
           b == Len(r.absent)
<1>1. a \in Nat /\ b \in Nat
  BY SequenceShape
<1>2. Done(r) = a + b
  BY DEF Done
<1> HIDE DEF a, b
<1>3. Done(r) \in Nat
  BY <1>1, <1>2
<1> QED
  BY <1>1, <1>2, <1>3 DEF a, b

\* One more of the queue is done with.
LEMMA OneMoreDone ==
  ASSUME NEW r, NEW s, Sequences(r), IsSequence(s.completed), IsSequence(s.absent),
         \/ Len(s.completed) = Len(r.completed) + 1 /\ s.absent = r.absent
         \/ Len(s.absent) = Len(r.absent) + 1 /\ s.completed = r.completed
  PROVE  Done(s) = Done(r) + 1
<1> DEFINE a == Len(r.completed)
           b == Len(r.absent)
           c == Len(s.completed)
           d == Len(s.absent)
<1>1. a \in Nat /\ b \in Nat /\ c \in Nat /\ d \in Nat /\ Done(r) = a + b /\ Done(s) = c + d
  BY Tally DEF Sequences
<1>2. (c = a + 1 /\ d = b) \/ (d = b + 1 /\ c = a)
  OBVIOUS
<1> HIDE DEF a, b, c, d
<1> QED
  BY <1>1, <1>2

\* A task that goes on has promised what it had.
LEMMA GoneOn ==
  ASSUME NEW r, NEW s, Resolves(r), r.pc \in Busy, GoesOn(r, s),
         IsSequence(s.completed), IsSequence(s.absent), Progress(s), s.pc \in Busy,
         s.pc \in Cloning => Picked(s)
  PROVE  Resolves(s)
<1>1. /\ DOMAIN s = Fields
      /\ s.project = r.project /\ s.readOnly = r.readOnly /\ s.task = r.task
      /\ s.installed = r.installed /\ s.missing = r.missing /\ s.failed = r.failed /\ s.queue = r.queue
  BY DEF GoesOn
<1>2. /\ r.failed \in BOOLEAN /\ Sequences(r) /\ (AllSettled(r) \/ OnlyOwn(r)) /\ Enough(r)
  BY DEF Resolves
<1>3. Own(s) = Own(r)
  BY <1>1 DEF Own
<1>4. \A dep : Settled(r, dep) => Settled(s, dep)
  BY <1>1, <1>3 DEF Settled, Held, Noted, OwnAnswers
<1>5. AllSettled(r) => AllSettled(s)
  BY <1>1, <1>4 DEF AllSettled
<1>6. OnlyOwn(r) => OnlyOwn(s)
  BY <1>1, <1>3 DEF OnlyOwn
<1>7. Enough(s)
  BY <1>1, <1>2, <1>3, <1>4, <1>5 DEF Enough
<1>8. Sequences(s)
  BY <1>1, <1>2 DEF Sequences
<1>9. s.pc # "ready"
  BY DEF Busy, Cloning
<1> QED
  BY <1>1, <1>2, <1>5, <1>6, <1>7, <1>8, <1>9 DEF Resolves

LEMMA DiscoverResolves ==
  ASSUME RInv, NEW p \in Programs, Discover(p)
  PROVE  RInv'
<1>1. program[p].pc = "discover" /\ remotes' = remotes
  BY DEF Discover
<1>2. CASE DiscoverFails(clones)
  <2>1. EndTask(p, "discover")
    BY <1>2 DEF Discover
  <2>2. program[p].pc \in Busy /\ Loses(program[p], "discover")
    BY <1>1 DEF Busy, Loses
  <2> QED
    BY <1>1, <2>1, <2>2, EndTaskResolves
<1>3. CASE ~DiscoverFails(clones)
  <2> DEFINE r == program[p]
             s == [ r EXCEPT !.pc = "next", !.seen = clones ]
  <2>1. program' = [ program EXCEPT ![p] = s ]
    BY <1>3 DEF Discover
  <2>2. Resolves(r) /\ DOMAIN r = Fields /\ r.pc \in Busy
    BY <1>1 DEF RInv, ProgramsResolve, Resolves, Busy
  <2>3. /\ DOMAIN s = Fields /\ s.pc = "next"
        /\ s.project = r.project /\ s.readOnly = r.readOnly /\ s.task = r.task
        /\ s.installed = r.installed /\ s.missing = r.missing /\ s.failed = r.failed
        /\ s.queue = r.queue /\ s.absent = r.absent /\ s.completed = r.completed
    BY <2>2, FieldNames
  <2> HIDE DEF s
  <2>4. Resolves(s)
    <3> HIDE DEF r
    <3>1. Sequences(r) /\ Progress(r)
      BY <2>2 DEF Resolves
    <3>2. IsSequence(s.completed) /\ IsSequence(s.absent) /\ GoesOn(r, s)
      BY <2>3, <3>1 DEF Sequences, GoesOn
    <3>3. Progress(s)
      BY <2>3, <3>1 DEF Progress, Done
    <3>4. s.pc \in Busy /\ s.pc \notin Cloning
      BY <2>3 DEF Busy, Cloning
    <3> QED
      BY <2>2, <3>2, <3>3, <3>4, GoneOn
  <2> QED
    BY <1>1, <2>1, <2>4, OneResolves
<1> QED
  BY <1>2, <1>3

\* A package has been found for the dependency whose turn it is.
LEMMA CompleteResolves ==
  ASSUME RInv, NEW p \in Programs, NEW package, remotes' = remotes,
         program[p].pc \in Busy, Complete(p, Dependency(p), package),
         Done(program[p]) < Len(program[p].queue),
         package.source \in Answers(Dependency(p), program[p].project),
         MatchesAll(package.version, Dependency(p).predicates)
  PROVE  RInv'
<1> DEFINE r == program[p]
           s == program'[p]
           dep == Dependency(p)
           x == AliasDependency(package, dep)
<1>1. Resolves(r) /\ DOMAIN r = Fields /\ DOMAIN program = Programs /\ Sequences(r) /\ Progress(r)
  BY DEF RInv, ProgramsResolve, Resolves
<1>2. /\ DOMAIN program' = Programs /\ \A q \in Programs \ {p} : program'[q] = program[q]
      /\ GoesOn(r, s) /\ s.pc = "next" /\ s.completed = Append(r.completed, x) /\ s.absent = r.absent
  BY <1>1, CompleteIs DEF GoesOn
<1>3. Provides(x, dep, r.project)
  BY DEF Provides, AliasDependency
<1>4. dep = r.queue[Done(r) + 1]
  BY WorksThrough DEF Wanted
<1>5. s.project = r.project /\ s.readOnly = r.readOnly /\ s.queue = r.queue
  BY <1>2 DEF GoesOn
<1> HIDE DEF r, s, dep, x
<1>6. /\ IsSequence(r.completed) /\ IsSequence(r.absent) /\ IsSequence(r.queue)
      /\ Len(r.completed) \in Nat /\ Len(r.absent) \in Nat /\ Len(r.queue) \in Nat
      /\ DOMAIN r.completed = 1 .. Len(r.completed)
  BY <1>1, SequenceShape DEF Sequences
<1>7. /\ IsSequence(s.completed) /\ Len(s.completed) = Len(r.completed) + 1
      /\ DOMAIN s.completed = 1 .. Len(r.completed) + 1
      /\ \A i \in 1 .. Len(r.completed) : s.completed[i] = r.completed[i]
      /\ s.completed[Len(r.completed) + 1] = x
  BY <1>2, <1>6, Appended
<1>8. Progress(s)
  <2>1. Done(s) <= Len(s.queue)
    <3> DEFINE n == Len(s.queue)
    <3>1. Done(r) < n /\ n \in Nat /\ Done(r) \in Nat
      BY <1>5, <1>6, Tally DEF r
    <3>2. Done(s) = Done(r) + 1
      BY <1>1, <1>2, <1>6, <1>7, OneMoreDone
    <3> HIDE DEF n
    <3>3. Done(s) <= n
      BY <3>1, <3>2
    <3> QED
      BY <3>3 DEF n
  <2>2. s.absent # << >> => s.readOnly
    BY <1>1, <1>2, <1>5 DEF Progress
  <2>3. ASSUME s.absent = << >>, NEW k \in DOMAIN s.completed
        PROVE  Provides(s.completed[k], s.queue[k], s.project)
    <3>1. r.absent = << >> /\ Len(r.absent) = 0
      BY <1>2, <2>3, EmptySequence
    <3>2. CASE k \in 1 .. Len(r.completed)
      BY <1>1, <1>5, <1>6, <1>7, <3>1, <3>2 DEF Progress
    <3>3. CASE k = Len(r.completed) + 1
      <4>1. Done(r) + 1 = k
        BY <1>6, <3>1, <3>3 DEF Done
      <4> QED
        BY <1>3, <1>4, <1>5, <1>7, <3>3, <4>1
    <3> QED
      BY <1>6, <1>7, <2>3, <3>2, <3>3
  <2> QED
    BY <2>1, <2>2, <2>3 DEF Progress
<1>9. Resolves(s)
  <2>1. r.pc \in Busy
    BY DEF r
  <2>2. s.pc \in Busy /\ s.pc \notin Cloning
    BY <1>2 DEF Busy, Cloning
  <2>3. IsSequence(s.absent)
    BY <1>2, <1>6
  <2> QED
    BY <1>1, <1>2, <1>7, <1>8, <2>1, <2>2, <2>3, GoneOn
<1>10. ProgramsResolve'
  BY <1>2, <1>9 DEF RInv, ProgramsResolve, s
<1> QED
  BY <1>10 DEF RInv, RemotesWell

\* A task that is not through has a dependency left.
LEMMA ResolvesToGo ==
  ASSUME NEW r, Resolves(r), r.pc \in Busy, Done(r) # Len(r.queue)
  PROVE  Done(r) < Len(r.queue)
<1>1. Sequences(r) /\ Progress(r)
  BY DEF Resolves
<1> DEFINE n == Len(r.queue)
<1>2. Done(r) \in Nat /\ n \in Nat /\ Done(r) <= n
  BY <1>1, Tally, SequenceShape DEF Sequences, Progress
<1>3. Done(r) # n
  OBVIOUS
<1> HIDE DEF n
<1>4. Done(r) < n
  BY <1>2, <1>3
<1> QED
  BY <1>4 DEF n

\* What is available under a key answers to who asks.
LEMMA TakeAvailableResolves ==
  ASSUME RInv, NEW p \in Programs, TakeAvailable(p)
  PROVE  RInv'
<1> DEFINE dep == Dependency(p)
<1>1. program[p].pc \in Busy /\ remotes' = remotes /\ ~QueueDone(p)
  BY DEF TakeAvailable, Busy
<1>2. PICK i \in DOMAIN DependencyKeys(dep) :
        \E found \in FittingPackages(p, dep, i) : Complete(p, dep, found.package)
  BY DEF TakeAvailable
<1>3. PICK found \in FittingPackages(p, dep, i) : Complete(p, dep, found.package)
  BY <1>2
<1>4. found \in Available(DependencyKeys(dep)[i], program[p].project, program[p].seen)
      /\ MatchesAll(found.package.version, dep.predicates)
  BY DEF FittingPackages
<1>5. found.package.source = DependencyKeys(dep)[i]
  BY <1>4, AvailablePackages
<1>6. found.package.source \in Answers(dep, program[p].project)
  <2> HIDE DEF dep
  <2>1. DependencyKeys(dep)[i] \in { dep.source, dep.name }
    BY Keys
  <2> QED
    BY <1>5, <2>1 DEF Answers
<1>7. Done(program[p]) < Len(program[p].queue)
  BY <1>1, WorksThrough, ResolvesToGo DEF RInv, ProgramsResolve
<1> QED
  BY <1>1, <1>3, <1>4, <1>6, <1>7, CompleteResolves

\* Only a resolver that reads leaves a dependency out.
LEMMA NoteAbsentResolves ==
  ASSUME RInv, NEW p \in Programs, NoteAbsent(p)
  PROVE  RInv'
<1> DEFINE r == program[p]
           x == Dependency(p).name
           s == [ r EXCEPT !.absent = Append(@, Dependency(p).name) ]
<1>1. /\ program' = [ program EXCEPT ![p] = s ] /\ r.pc = "next" /\ remotes' = remotes
      /\ ~QueueDone(p) /\ r.readOnly
  BY DEF NoteAbsent
<1>2. Resolves(r) /\ DOMAIN r = Fields /\ Sequences(r) /\ Progress(r) /\ r.pc \in Busy
  BY <1>1 DEF RInv, ProgramsResolve, Resolves, Busy
<1>3. GoesOn(r, s) /\ s.pc = "next" /\ s.completed = r.completed /\ s.absent = Append(r.absent, x)
  BY <1>1, <1>2, FieldNames DEF GoesOn
<1>4. Done(r) < Len(r.queue)
  BY <1>1, <1>2, WorksThrough, ResolvesToGo
<1>5. s.project = r.project /\ s.readOnly = r.readOnly /\ s.queue = r.queue
  BY <1>3 DEF GoesOn
<1> HIDE DEF s, r, x
<1>6. /\ IsSequence(r.completed) /\ IsSequence(r.absent)
      /\ Len(r.completed) \in Nat /\ Len(r.absent) \in Nat /\ Len(r.queue) \in Nat
  BY <1>2, SequenceShape DEF Sequences
<1>7. IsSequence(s.absent) /\ Len(s.absent) = Len(r.absent) + 1
  BY <1>3, <1>6, Appended
<1>8. s.absent # << >>
  BY <1>6, <1>7, EmptySequence
<1>9. Done(s) <= Len(s.queue)
  <2> DEFINE n == Len(s.queue)
  <2>1. Done(r) < n /\ n \in Nat /\ Done(r) \in Nat
    BY <1>4, <1>5, <1>6, Tally
  <2>2. Done(s) = Done(r) + 1
    BY <1>2, <1>3, <1>6, <1>7, OneMoreDone
  <2> HIDE DEF n
  <2>3. Done(s) <= n
    BY <2>1, <2>2
  <2> QED
    BY <2>3 DEF n
<1>10. Progress(s)
  BY <1>1, <1>5, <1>8, <1>9 DEF Progress, r
<1>11. s.pc \in Busy /\ s.pc \notin Cloning /\ IsSequence(s.completed)
  BY <1>3, <1>6 DEF Busy, Cloning
<1>12. Resolves(s)
  BY <1>2, <1>3, <1>7, <1>10, <1>11, GoneOn
<1> QED
  BY <1>1, <1>12, OneResolves DEF r

\* What a registry offers is an answer to who asks.
LEMMA OfferAnswers ==
  ASSUME NEW p \in Programs, NEW dep, RemotesWell, NEW q \in Answering(p, dep)
  PROVE  LET package == FirstOffered(RegistryOf(q), KeyOf(dep, q), dep.predicates,
                                     program[p].project, remotes)
         IN  /\ package.registry = RegistryOf(q)
             /\ package.source \in Answers(dep, program[p].project)
             /\ MatchesAll(package.version, dep.predicates)
             /\ RegistryOf(q) = "git" =>
                  Newest(package.version, Listed(remotes[package.source]), dep.predicates)
<1> DEFINE project == program[p].project
           registry == RegistryOf(q)
           key == KeyOf(dep, q)
           package == FirstOffered(registry, key, dep.predicates, project, remotes)
<1>1. q \in Questions(dep) /\ Offers(registry, key, dep.predicates, project, remotes)
  BY DEF Answering
<1>2. registry \in { "cave", "local", "git", "embedded" } /\ key = DependencyKeys(dep)[q[1]]
      /\ q[1] \in DOMAIN DependencyKeys(dep)
  BY <1>1, QuestionIs
<1>3. key \in { dep.source, dep.name }
  BY <1>2, Keys
<1>4. /\ package.registry = registry
      /\ MatchesAll(package.version, dep.predicates)
      /\ registry = "git" => Newest(package.version, Listed(remotes[package.source]), dep.predicates)
      /\ registry = "cave" => package.source = OwnSource(project)
                              /\ key \in { OwnSource(project), project.name }
      /\ registry = "embedded" => package.source = StandardLibrary.source /\ key = StandardLibrary.name
      /\ registry \in { "local", "git" } => package.source = key
  BY <1>1, <1>2, OfferIs
<1> HIDE DEF package, registry, key, project
<1>5. package.source \in Answers(dep, project)
  <2>1. CASE registry \in { "local", "git" }
    BY <1>3, <1>4, <2>1 DEF Answers
  <2>2. CASE registry = "cave"
    <3>1. { dep.source, dep.name } \cap { OwnSource(project), project.name } # {}
      BY <1>3, <1>4, <2>2
    <3> QED
      BY <1>4, <2>2, <3>1 DEF Answers
  <2>3. CASE registry = "embedded"
    <3>1. StandardLibrary.name \in { dep.source, dep.name }
      BY <1>3, <1>4, <2>3
    <3> QED
      BY <1>4, <2>3, <3>1 DEF Answers
  <2> QED
    BY <1>2, <2>1, <2>2, <2>3
<1> QED
  BY <1>4, <1>5 DEF package, registry, key, project

-----------------------------------------------------------------------------
(* What the registries offer, and the theorem.                             *)

LEMMA TakeResolves ==
  ASSUME RInv, NEW p \in Programs, NEW q \in Answering(p, Dependency(p)),
         TakeFrom(p, Dependency(p), q), program[p].pc = "next",
         Done(program[p]) < Len(program[p].queue), remotes' = remotes
  PROVE  RInv'
<1> DEFINE r == program[p]
           dep == Dependency(p)
           package == FirstOffered(RegistryOf(q), KeyOf(dep, q), dep.predicates, r.project, remotes)
<1>1. /\ package.registry = RegistryOf(q)
      /\ package.source \in Answers(dep, r.project)
      /\ MatchesAll(package.version, dep.predicates)
      /\ RegistryOf(q) = "git" => Newest(package.version, Listed(remotes[package.source]), dep.predicates)
  BY OfferAnswers DEF RInv
<1>2. Take(p, dep, package)
  BY DEF TakeFrom
<1>3. r.pc \in Busy
  BY DEF Busy
<1> HIDE DEF package
<1>4. CASE RegistryOf(q) # "git"
  <2>1. Complete(p, dep, package)
    BY <1>1, <1>2, <1>4 DEF Take
  <2> QED
    BY <1>1, <1>3, <2>1, CompleteResolves
<1>5. CASE RegistryOf(q) = "git"
  <2> DEFINE s == program'[p]
  <2>1. Resolves(r) /\ DOMAIN r = Fields /\ DOMAIN program = Programs /\ Sequences(r) /\ Progress(r)
    BY <1>3 DEF RInv, ProgramsResolve, Resolves
  <2>2. /\ DOMAIN program' = Programs /\ \A x \in Programs \ {p} : program'[x] = program[x]
        /\ GoesOn(r, s) /\ s.pc = "directory" /\ s.pick = package
        /\ s.completed = r.completed /\ s.absent = r.absent
        /\ s.offered = Listed(remotes[package.source])
    BY <1>1, <1>2, <1>5, <2>1, TakeIs DEF GoesOn
  <2>3. Wanted(r) = dep /\ Done(r) < Len(r.queue)
    BY WorksThrough
  <2> HIDE DEF r, s, dep
  <2>4. s.project = r.project /\ s.readOnly = r.readOnly /\ s.queue = r.queue /\ Done(s) = Done(r)
    BY <2>2 DEF GoesOn, Done
  <2>5. Progress(s)
    BY <2>1, <2>2, <2>4 DEF Progress
  <2>6. Wanted(s) = dep
    BY <2>3, <2>4 DEF Wanted
  <2>7. Picked(s)
    BY <1>1, <1>5, <2>2, <2>3, <2>4, <2>6 DEF Picked
  <2>8. IsSequence(s.completed) /\ IsSequence(s.absent) /\ s.pc \in Busy
    BY <2>1, <2>2 DEF Sequences, Busy, Cloning
  <2>9. Resolves(s)
    BY <1>3, <2>1, <2>2, <2>5, <2>7, <2>8, GoneOn
  <2>10. ProgramsResolve'
    BY <2>2, <2>9 DEF RInv, ProgramsResolve, s
  <2> QED
    BY <2>10 DEF RInv, RemotesWell
<1> QED
  BY <1>4, <1>5

LEMMA ListRemoteResolves ==
  ASSUME RInv, NEW p \in Programs, ListRemote(p)
  PROVE  RInv'
<1> DEFINE dep == Dependency(p)
<1>1. program[p].pc = "next" /\ remotes' = remotes /\ ~QueueDone(p)
  BY DEF ListRemote
<1>2. program[p].pc \in Busy
  BY <1>1 DEF Busy
<1>3. Done(program[p]) < Len(program[p].queue)
  BY <1>1, <1>2, WorksThrough, ResolvesToGo DEF RInv, ProgramsResolve
<1>4. CASE EndTask(p, "no registry")
  <2>1. Loses(program[p], "no registry")
    BY DEF Loses
  <2> QED
    BY <1>1, <1>2, <1>4, <2>1, EndTaskResolves
<1>5. ASSUME NEW q \in Answering(p, dep), TakeFrom(p, dep, q)
      PROVE  RInv'
  BY <1>1, <1>3, <1>5, TakeResolves
<1>6. EndTask(p, "no registry") \/ \E q \in Answering(p, dep) : TakeFrom(p, dep, q)
  BY DEF ListRemote
<1> QED
  BY <1>4, <1>5, <1>6

LEMMA ListFailsResolves ==
  ASSUME RInv, NEW p \in Programs, ListFails(p)
  PROVE  RInv'
<1>1. program[p].pc \in Busy /\ remotes' = remotes /\ EndTask(p, "unreachable")
  BY DEF ListFails, Busy
<1>2. Loses(program[p], "unreachable")
  BY DEF Loses
<1> QED
  BY <1>1, <1>2, EndTaskResolves

LEMMA EndRunResolves ==
  ASSUME RInv, NEW p \in Programs, EndRun(p)
  PROVE  RInv'
<1> DEFINE error == IF program[p].absent = << >> THEN "" ELSE "not installed"
<1>1. program[p].pc \in Busy /\ remotes' = remotes /\ EndTask(p, error) /\ QueueDone(p)
  BY DEF EndRun, Busy
<1>2. RunsOut(program[p], error)
  BY <1>1, WorksThrough DEF RunsOut
<1> HIDE DEF error
<1> QED
  BY <1>1, <1>2, EndTaskResolves

\* From one step of cloning to the next.
LEMMA PcResolves ==
  ASSUME RInv, NEW p \in Programs, NEW pc \in Cloning, program[p].pc \in Cloning,
         program' = [ program EXCEPT ![p].pc = pc ], remotes' = remotes
  PROVE  RInv'
<1> DEFINE r == program[p]
           s == [ r EXCEPT !.pc = pc ]
<1>1. program' = [ program EXCEPT ![p] = s ]
  OBVIOUS
<1>2. Resolves(r) /\ DOMAIN r = Fields /\ r.pc \in Busy /\ Sequences(r) /\ Progress(r) /\ Picked(r)
  BY DEF RInv, ProgramsResolve, Resolves, Busy
<1>3. /\ GoesOn(r, s) /\ s.pc = pc /\ s.pick = r.pick /\ s.offered = r.offered
      /\ s.completed = r.completed /\ s.absent = r.absent
  BY <1>2, FieldNames DEF GoesOn
<1> HIDE DEF r, s
<1>4. s.project = r.project /\ s.readOnly = r.readOnly /\ s.queue = r.queue /\ Done(s) = Done(r)
  BY <1>3 DEF GoesOn, Done
<1>5. Progress(s)
  BY <1>2, <1>3, <1>4 DEF Progress
<1>6. Wanted(s) = Wanted(r)
  BY <1>4 DEF Wanted
<1>7. Picked(s)
  BY <1>2, <1>3, <1>4, <1>6 DEF Picked
<1>8. IsSequence(s.completed) /\ IsSequence(s.absent) /\ s.pc \in Busy
  BY <1>2, <1>3 DEF Sequences, Busy
<1>9. Resolves(s)
  BY <1>2, <1>3, <1>5, <1>7, <1>8, GoneOn
<1> QED
  BY <1>1, <1>9, OneResolves DEF r

\* The steps of a clone.
LEMMA MakeDirectoryResolves ==
  ASSUME RInv, NEW p \in Programs, MakeDirectory(p)
  PROVE  RInv'
BY PcResolves DEF MakeDirectory, Cloning

LEMMA InitRepositoryResolves ==
  ASSUME RInv, NEW p \in Programs, InitRepository(p)
  PROVE  RInv'
<1>1. program[p].pc \in Cloning /\ program[p].pc \in Busy /\ remotes' = remotes
  BY DEF InitRepository, Cloning, Busy, Advance
<1>2. CASE program' = [ program EXCEPT ![p].pc = "fetch" ]
  BY <1>1, <1>2, PcResolves DEF Cloning
<1>3. CASE EndTask(p, "exists")
  <2>1. Loses(program[p], "exists")
    BY DEF Loses
  <2> QED
    BY <1>1, <1>3, <2>1, EndTaskResolves
<1> QED
  BY <1>2, <1>3 DEF InitRepository

LEMMA FetchReferencesResolves ==
  ASSUME RInv, NEW p \in Programs, FetchReferences(p)
  PROVE  RInv'
BY PcResolves DEF FetchReferences, Cloning, Advance

LEMMA CheckOutResolves ==
  ASSUME RInv, NEW p \in Programs, CheckOut(p)
  PROVE  RInv'
<1> DEFINE package == program[p].pick
<1>1. program[p].pc \in Cloning /\ program[p].pc \in Busy /\ remotes' = remotes
      /\ Complete(p, Dependency(p), package)
  BY DEF CheckOut, Cloning, Busy, Advance
<1>2. Picked(program[p])
  BY <1>1 DEF RInv, ProgramsResolve, Resolves
<1>3. /\ Done(program[p]) < Len(program[p].queue)
      /\ package.source \in Answers(Dependency(p), program[p].project)
      /\ MatchesAll(package.version, Dependency(p).predicates)
  BY <1>2, WorksThrough DEF Picked
<1> QED
  BY <1>1, <1>3, CompleteResolves

LEMMA CloneFailsResolves ==
  ASSUME RInv, NEW p \in Programs, CloneFails(p)
  PROVE  RInv'
<1>1. program[p].pc \in Busy /\ remotes' = remotes /\ EndTask(p, "clone")
  BY DEF CloneFails, Busy, Cloning
<1>2. Loses(program[p], "clone")
  BY DEF Loses
<1> QED
  BY <1>1, <1>2, EndTaskResolves

LEMMA PublishResolves ==
  ASSUME RInv, NEW source, NEW ref, Publish(source, ref)
  PROVE  RInv'
BY RemotesStayWell DEF RInv, Publish, ProgramsResolve

\* Every step keeps what resolvers have promised.
LEMMA NextResolves == RInv /\ [InstallNext]_vars => RInv'
<1> SUFFICES ASSUME RInv, [InstallNext]_vars PROVE RInv'
  OBVIOUS
<1>1. CASE UNCHANGED vars
  BY <1>1 DEF vars, RInv, ProgramsResolve, RemotesWell
<1>2. ASSUME NEW p \in Programs, Run(p) PROVE RInv'
  BY <1>2, EnsureInstalledResolves, DiscoverResolves, TakeAvailableResolves, NoteAbsentResolves,
     ListRemoteResolves, ListFailsResolves, EndRunResolves, MakeDirectoryResolves, InitRepositoryResolves,
     FetchReferencesResolves, CheckOutResolves, CloneFailsResolves DEF Run
<1>3. ASSUME NEW p \in Programs, Session(p) PROVE RInv'
  BY <1>3, OpenResolves, ClosedResolves DEF Session, Close, Kill
<1>4. ASSUME NEW u \in Unpublished, Publish(u[1], u[2]) PROVE RInv'
  BY <1>4, PublishResolves
<1> QED
  BY <1>1, <1>2, <1>3, <1>4 DEF InstallNext

\* A resolver that is ready has for its project and every dependency a package
\* of that name, source and version, or, if it only reads, a note that there is
\* none: whatever failed on the way, and however often it tried again
\* (ensureInstalledLocked, filterMissingDependencies).
THEOREM ReadyIsResolved == Spec => []ReadyMeansResolved
<1>1. Init => RInv
  BY InitResolves
<1>2. RInv /\ [InstallNext]_vars => RInv'
  BY NextResolves
<1>3. RInv => ReadyMeansResolved
  BY DEF RInv, ProgramsResolve, Resolves, ReadyMeansResolved, Held, AllSettled, Settled, Noted, OwnAnswers, Own
<1> QED
  BY <1>1, <1>2, <1>3, PTL DEF Spec

\* A version that is cloned is the newest of those the manifest admits, for any
\* remotes and predicates, and in whatever order the references are listed, if
\* those are semantic versions that part alike, for semver.org and for strconv.Atoi
\* (gitreg's sort.Slice over version.Less).
THEOREM NewestIsCloned == Spec => []NewestTagIsCloned
<1>1. Init => RInv
  BY InitResolves
<1>2. RInv /\ [InstallNext]_vars => RInv'
  BY NextResolves
<1>3. RInv => NewestTagIsCloned
  <2> SUFFICES ASSUME RInv, NEW p \in Programs, program[p].pc \in Cloning, IsSemver(program[p].pick.version)
               PROVE  LET admitted == { v \in program[p].offered : MatchesAll(v, Dependency(p).predicates) }
                      IN  Orderly(admitted) => \A v \in admitted : ~Precedes(program[p].pick.version, v)
    BY DEF NewestTagIsCloned
  <2>1. Picked(program[p])
    BY DEF RInv, ProgramsResolve, Resolves
  <2>2. Wanted(program[p]) = Dependency(p)
    BY WorksThrough
  <2>3. Newest(program[p].pick.version, program[p].offered, Dependency(p).predicates)
    BY <2>1, <2>2 DEF Picked
  <2> QED
    BY <2>3 DEF Newest
<1> QED
  BY <1>1, <1>2, <1>3, PTL DEF Spec
=============================================================================
