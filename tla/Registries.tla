----------------------------- MODULE Registries -----------------------------
(***************************************************************************)
(* The registries a package manager asks, in the order orchestra.New adds  *)
(* them: the project itself, directories named by file://, the Git clones  *)
(* every program of a user shares, and the embedded standard library.      *)
(* What a registry knows is what these operators make of the shared disk   *)
(* and of the remote repositories; they change neither.                    *)
(***************************************************************************)
EXTENDS Versions, FiniteSets

CONSTANTS
  NearSources              \* the file:// sources whose directory exists

Registries == << "cave", "local", "git", "embedded" >>

LatestVersion == Verbal(<< 32 >>)       \* "latest", in gitreg and in defaults.go
LocalVersion == Verbal(<< 33 >>)        \* "local", in cavereg and in localreg

StandardLibrary == [ name |-> "stdlib", source |-> "std" ]

NoPackage == [ source |-> "none" ]

\* A package as a registry offers or resolves it, where it lies for Git.
Package(registry, source, version, at) ==
  [ registry |-> registry, source |-> source, version |-> version, at |-> at ]

\* cavereg.New: a project without a source is its own.
OwnSource(project) == IF project.source = "" THEN project.name ELSE project.source

\* sort by text, of texts that all differ.
InTextOrder(texts) ==
  [ i \in 1 .. Cardinality(texts) |->
      CHOOSE t \in texts : Cardinality({ s \in texts : TextBefore(s, t) }) = i - 1 ]

----------------------------------------------------------------------------
(* Discover: what is there already.                                        *)

\* A clone has been made (the directory), opened (an empty repository), headed
\* (its references fetched) and, once checked out, is whole.
Stages == << "made", "opened", "headed", "whole" >>

\* git.Open, Remote and Head on every directory below a package's: a version
\* with a slash in its name lies one level deeper, where none is looked for.
Unreadable(clone) ==
  \/ clone.stage \in { "made", "opened" }
  \/ SlashRank \in ToSet(Text(clone.at))

\* A package that is there, and its rank, a text, among those of its source.
Finding(rank, package) == [ rank |-> rank, package |-> package ]

TagsOf(clone) == { t \in clone.tags : t.commit = clone.commit }

\* Mutant: only what a reference of the repository is called.
AliasesOfTagsOnly(clone) ==
  { Finding(<< 2 >> \o Text(clone.at) \o << 0 >> \o t.text,
            Package("git", clone.source, Parse(t.text), clone.at)) : t \in TagsOf(clone) }

\* localPackageVersionAliasesInWorktree: the directory's own name, then the
\* tags on the commit that is checked out.
AliasesInWorktree(clone) ==
  LET named == Text(Parse(Text(clone.at)))
      texts == {named} \cup { Text(Parse(t.text)) : t \in TagsOf(clone) }
      behind(text) == IF text = named THEN << >> ELSE text
  IN  { Finding(<< 2 >> \o Text(clone.at) \o << 0 >> \o behind(text),
                Package("git", clone.source, Parse(text), clone.at)) : text \in texts }

\* localPackageVersionClones, of one source: by the names of the directories.
ClonesOf(source, clones) ==
  UNION { AliasesInWorktree(c) : c \in { c \in clones : c.source = source } }

\* Discover of every registry, grouped by source as Run does: the error of one
\* registry is the error of all.
DiscoverFails(clones) == \E c \in clones : Unreadable(c)

Available(source, project, clones) ==
  { Finding(<< 1 >>, Package("cave", own, LocalVersion, LocalVersion)) :
      own \in {source} \cap {OwnSource(project)} }
  \cup ClonesOf(source, clones)
  \cup { Finding(<< 3 >>, Package("embedded", own, LatestVersion, LatestVersion)) :
           own \in {source} \cap {StandardLibrary.source} }

----------------------------------------------------------------------------
(* DiscoverPackageVersions: what could be had.                             *)

\* The references of a remote that are versions, in the order it lists them:
\* HEAD, under the name "latest" and only if nothing is tagged, branches, tags.
Candidates(remote) ==
  LET named(kind) == InTextOrder({ ref.text : ref \in { ref \in remote.refs : ref.kind = kind } })
      tags        == named("tag")
      plain(kind) == [ i \in DOMAIN named(kind) |->
                         [ kind |-> kind, text |-> named(kind)[i], version |-> Parse(named(kind)[i]) ] ]
  IN  (IF tags = << >>
         THEN << [ kind |-> "branch", text |-> remote.head, version |-> LatestVersion ] >>
         ELSE << >>)
      \o plain("branch") \o plain("tag")

\* Mutant: sorted the other way round.
InsertOldestFirst(sorted, candidate) ==
  LET less  == { i \in DOMAIN sorted : Less(sorted[i].version, candidate.version) }
      place == IF less = {} THEN 0 ELSE CHOOSE i \in less : \A j \in less : j <= i
  IN  SubSeq(sorted, 1, place) \o << candidate >> \o SubSeq(sorted, place + 1, Len(sorted))

\* A candidate stops behind the last one it is less than.
Insert(sorted, candidate) ==
  LET greater == { i \in DOMAIN sorted : Less(candidate.version, sorted[i].version) }
      place   == IF greater = {} THEN 0 ELSE CHOOSE i \in greater : \A j \in greater : j <= i
  IN  SubSeq(sorted, 1, place) \o << candidate >> \o SubSeq(sorted, place + 1, Len(sorted))

InsertionSorted(remote, predicates) ==
  LET listed == Candidates(remote)
      sorted[n \in 0 .. Len(listed)] ==
        IF n = 0 THEN << >>
        ELSE IF MatchesAll(listed[n].version, predicates) THEN Insert(sorted[n - 1], listed[n])
        ELSE sorted[n - 1]
  IN  sorted[Len(listed)]

\* Versions that Less orders, and a list that goes down by it.
Orders(versions) ==
  /\ \A x \in versions : ~Less(x, x)
  /\ \A x, y, z \in versions : Less(x, y) /\ Less(y, z) => Less(x, z)
  /\ \A x, y \in versions : x = y \/ Less(x, y) \/ Less(y, x)
Descending(s) == \A i, j \in 1 .. Len(s) : i < j => ~Less(s[i].version, s[j].version)

\* sort.Slice by "not less": Go inserts up to twelve elements one after the other.
\* More it partitions, which puts them in order where Less is one, and otherwise
\* leaves them in some order.
InsertionLimit == 12
Partitioned(s) ==
  CHOOSE r \in { [ i \in DOMAIN s |-> s[p[i]] ] : p \in Surjection(DOMAIN s, DOMAIN s) } :
    Orders({ s[i].version : i \in DOMAIN s }) => Descending(r)

RemotePackageVersions(remote, predicates) ==
  LET inserted == InsertionSorted(remote, predicates)
  IN  IF Len(inserted) <= InsertionLimit THEN inserted ELSE Partitioned(inserted)

\* What the registries offer under a key, the project's own included.
OfferedByCave(key, predicates, project) ==
  key \in { OwnSource(project), project.name } /\ MatchesAll(LocalVersion, predicates)

OfferedByLocal(key, predicates) ==
  key \in NearSources /\ MatchesAll(LocalVersion, predicates)

OfferedByGit(key, predicates, remotes) ==
  /\ key \in DOMAIN remotes
  /\ RemotePackageVersions(remotes[key], predicates) # << >>

OfferedByEmbedded(key, predicates) ==
  key = StandardLibrary.name /\ MatchesAll(LatestVersion, predicates)

Offers(registry, key, predicates, project, remotes) ==
  CASE registry = "cave"     -> OfferedByCave(key, predicates, project)
    [] registry = "local"    -> OfferedByLocal(key, predicates)
    [] registry = "git"      -> OfferedByGit(key, predicates, remotes)
    [] registry = "embedded" -> OfferedByEmbedded(key, predicates)

\* The first package a registry that offers any names: from Git a reference
\* still to be cloned, from the others what is there already.
FirstOffered(registry, key, predicates, project, remotes) ==
  CASE registry = "cave"     -> Package("cave", OwnSource(project), LocalVersion, LocalVersion)
    [] registry = "local"    -> Package("local", key, LocalVersion, LocalVersion)
    [] registry = "embedded" -> Package("embedded", StandardLibrary.source, LatestVersion, LatestVersion)
    [] registry = "git"      ->
         LET first == RemotePackageVersions(remotes[key], predicates)[1]
         IN  [ registry |-> "git", source |-> key, version |-> first.version,
               at |-> first.version, kind |-> first.kind, text |-> first.text ]
=============================================================================
