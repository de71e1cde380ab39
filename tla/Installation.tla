---------------------------- MODULE Installation ----------------------------
(***************************************************************************)
(* Programs that install their dependencies: orchestra's ModuleResolver    *)
(* (resolver.go) driving pkgmanager's InstallationTask over the registries *)
(* it was given, several of them at once over one directory of clones.     *)
(*                                                                         *)
(* Each of Programs is a process: it opens a project, installs what the    *)
(* manifest asks for, may try again when that failed, and then resolves    *)
(* modules.  A remote may be unreachable, a clone may fail at any of its   *)
(* steps, and a process may be killed at any moment; the disk stays.       *)
(***************************************************************************)
EXTENDS Registries

CONSTANTS
  Programs,        \* processes that share the registry's directory
  Projects,        \* manifests: name, source, language version, dependencies
  Published,       \* the remotes at first: source -> references and HEAD
  Unpublished,     \* << source, reference >> that may appear later
  Toolchain,       \* the version this build was stamped with, or NoVersion
  MaxFaults,       \* bound on failures and kills
  MaxOpens         \* bound on how often a process starts

NoVersion == Verbal(<< >>)
NoProject == [ name |-> "no project", source |-> "no source",
               language |-> << >>, dependencies |-> << >> ]

\* A branch or a tag, and what it is called.
IsReference(ref) == ref.kind \in { "branch", "tag" } /\ ref.text \in Seq(Nat)

ASSUME InstallationAssumption ==
  /\ MaxFaults \in Nat /\ MaxOpens \in Nat
  /\ \A u \in Unpublished : u[1] \in DOMAIN Published /\ IsReference(u[2])
  /\ \A source \in DOMAIN Published :
       /\ DOMAIN Published[source] = { "refs", "head" } /\ IsFiniteSet(Published[source].refs)
       /\ \A ref \in Published[source].refs : IsReference(ref)
  /\ \A project \in Projects :
       /\ DOMAIN project = DOMAIN NoProject
       /\ project.dependencies \in Seq({ project.dependencies[i] : i \in DOMAIN project.dependencies })

VARIABLES
  program,         \* what each process holds: its resolver and its task
  clones,          \* the directories of the Git registry
  remotes,         \* what the remote repositories have published
  faults, opens    \* how much has happened, for the bounds

vars == << program, clones, remotes, faults, opens >>

\* A resolver with nothing installed, and a task that has not begun.
Resolver(project, readOnly, pc) ==
  [ pc |-> pc, project |-> project, readOnly |-> readOnly,
    installed |-> << >>, missing |-> << >>, failed |-> FALSE,
    task |-> "none", queue |-> << >>, seen |-> {}, completed |-> << >>, absent |-> << >>,
    pick |-> NoPackage, offered |-> {}, error |-> "" ]

Init ==
  /\ program = [ p \in Programs |-> Resolver(NoProject, FALSE, "closed") ]
  /\ clones = {} /\ remotes = Published
  /\ faults = 0 /\ opens = 0

----------------------------------------------------------------------------
(* Manifests.                                                              *)

StdlibDependency ==
  [ name |-> StandardLibrary.name, source |-> StandardLibrary.source, module |-> "",
    predicates |-> << [ comparison |-> "==", version |-> LatestVersion ] >>, language |-> << >> ]

\* ensureStandardLibraryDependency: a dependency on one of its modules is none
\* on the library.
EnsureStandardLibrary(dependencies) ==
  IF \E i \in DOMAIN dependencies :
        /\ dependencies[i].module = ""
        /\ \/ dependencies[i].name = StandardLibrary.name
           \/ dependencies[i].source = StandardLibrary.source
    THEN dependencies ELSE Append(dependencies, StdlibDependency)

\* checkLanguageVersion: of a project or a dependency, against this build.
SuitsLanguage(language) ==
  \/ language = << >> \/ Toolchain = NoVersion
  \/ Matches(Toolchain, ParsePredicate(language[1]))

\* dependencyKeys.
DependencyKeys(dep) ==
  (IF dep.source = "" THEN << >> ELSE << dep.source >>)
    \o (IF dep.name \in { "", dep.source } THEN << >> ELSE << dep.name >>)

\* aliasDependency: the package under the name the manifest gives it.
AliasDependency(package, dep) ==
  [ registry |-> package.registry, source |-> package.source, version |-> package.version,
    at |-> package.at, alias |-> dep.name, module |-> dep.module ]

\* hasDependency.
HasDependency(installed, dep) ==
  /\ dep.source # ""
  /\ \E i \in DOMAIN installed : /\ installed[i].source = dep.source
                                 /\ MatchesAll(installed[i].version, dep.predicates)

FilterMissingDependencies(p) ==
  LET deps == program[p].project.dependencies
      missing[n \in 0 .. Len(deps)] ==
        IF n = 0 THEN << >>
        ELSE IF HasDependency(program[p].installed, deps[n]) THEN missing[n - 1]
        ELSE Append(missing[n - 1], deps[n])
  IN  missing[Len(deps)]

ProjectDependency(project) ==
  [ name |-> project.name, source |-> project.source, module |-> "",
    predicates |-> << >>, language |-> << >> ]

----------------------------------------------------------------------------
(* A process begins, and ends.                                             *)

\* orchestra.New: a project this build does not suit is refused at once.
Open(p, project, readOnly) ==
  /\ program[p].pc = "closed" /\ opens < MaxOpens
  /\ LET manifest == [ project EXCEPT !.dependencies = EnsureStandardLibrary(@) ]
     IN  program' = [ program EXCEPT ![p] =
           Resolver(manifest, readOnly, IF SuitsLanguage(project.language) THEN "open" ELSE "refused") ]
  /\ opens' = opens + 1
  /\ UNCHANGED << clones, remotes, faults >>

Resting == { "refused", "ready", "failed" }

Close(p) ==
  /\ program[p].pc \in Resting
  /\ program' = [ program EXCEPT ![p] = Resolver(NoProject, FALSE, "closed") ]
  /\ UNCHANGED << clones, remotes, faults, opens >>

Publish(source, ref) ==
  /\ << source, ref >> \in Unpublished /\ ref \notin remotes[source].refs
  /\ remotes' = [ remotes EXCEPT ![source].refs = @ \cup {ref} ]
  /\ UNCHANGED << program, clones, faults, opens >>

----------------------------------------------------------------------------
(* ensureInstalledLocked, from its first line to the task for the project. *)

Task(p, name, queue) ==
  [ program[p] EXCEPT !.pc = "discover", !.task = name, !.queue = queue, !.seen = {},
                      !.completed = << >>, !.absent = << >>, !.pick = NoPackage ]

ProjectTask(p) ==
  Task(p, "project", << ProjectDependency(program[p].project) >>)

\* installMissingDependencies hands what is missing to a task; Run checks the
\* language versions before it asks any registry.
EnsureInstalled(p) ==
  /\ program[p].pc \in { "open", "failed" }
  /\ LET missing == FilterMissingDependencies(p)
         suits   == \A i \in DOMAIN missing : SuitsLanguage(missing[i].language)
         next    == IF missing = << >> \/ ~suits THEN ProjectTask(p)
                    ELSE Task(p, "dependencies", missing)
     IN  program' = [ program EXCEPT ![p] =
           [ next EXCEPT !.failed = ~suits, !.error = IF suits THEN "" ELSE "language" ] ]
  /\ UNCHANGED << clones, remotes, faults, opens >>

\* installMissingDependencies and ensureDependencies once a task's Run has
\* returned: what it installed is kept if it succeeded; a resolver that only
\* reads keeps what there was, and records the rest as missing.
AfterTask(state, error) ==
  LET kept  == [ state EXCEPT !.installed = @ \o state.completed, !.completed = << >> ]
      lost  == [ state EXCEPT !.completed = << >>, !.error = error ]
      asked == [ i \in DOMAIN state.queue |-> state.queue[i].name ]
  IN  IF error = "" THEN kept
      ELSE IF error = "not installed" /\ state.readOnly /\ state.task = "dependencies"
             THEN [ kept EXCEPT !.missing = @ \o asked ]
      ELSE [ lost EXCEPT !.failed = TRUE ]

\* Mutant: the error of the dependencies is forgotten.
ContinueRegardless(state) ==
  IF state.task = "dependencies"
    THEN [ state EXCEPT !.pc = "discover", !.task = "project", !.seen = {}, !.absent = << >>,
                        !.pick = NoPackage, !.offered = {}, !.queue = << ProjectDependency(state.project) >> ]
    ELSE [ state EXCEPT !.pc = "ready", !.task = "none", !.queue = << >>, !.pick = NoPackage, !.offered = {} ]

\* The project itself is installed even if a dependency failed.
Continue(state) ==
  IF state.task = "dependencies"
    THEN [ state EXCEPT !.pc = "discover", !.task = "project", !.seen = {}, !.absent = << >>,
                        !.pick = NoPackage, !.offered = {}, !.queue = << ProjectDependency(state.project) >> ]
    ELSE [ state EXCEPT !.pc = IF state.failed THEN "failed" ELSE "ready", !.task = "none",
                        !.queue = << >>, !.pick = NoPackage, !.offered = {} ]

EndTask(p, error) == program' = [ program EXCEPT ![p] = Continue(AfterTask(program[p], error)) ]

----------------------------------------------------------------------------
(* InstallationTask.Run, one registry question or disk operation at a time. *)

Dependency(p) ==
  LET done == Len(program[p].completed) + Len(program[p].absent)
  IN  program[p].queue[done + 1]
QueueDone(p) ==
  Len(program[p].completed) + Len(program[p].absent) = Len(program[p].queue)

\* Discover of every registry.
Discover(p) ==
  /\ program[p].pc = "discover"
  /\ IF DiscoverFails(clones) THEN EndTask(p, "discover")
     ELSE program' = [ program EXCEPT ![p].pc = "next", ![p].seen = clones ]
  /\ UNCHANGED << clones, remotes, faults, opens >>

\* tryResolveAvailable: what fits of the i-th key's packages, and the first of it.
FittingPackages(p, dep, i) ==
  { found \in Available(DependencyKeys(dep)[i], program[p].project, program[p].seen) :
      MatchesAll(found.package.version, dep.predicates) }

NothingFits(p, dep) == \A i \in DOMAIN DependencyKeys(dep) : FittingPackages(p, dep, i) = {}

FirstFitting(p, dep, package) ==
  \E i \in DOMAIN DependencyKeys(dep) :
    /\ \A j \in 1 .. i - 1 : FittingPackages(p, dep, j) = {}
    /\ \E found \in FittingPackages(p, dep, i) :
         /\ found.package = package
         /\ \A other \in FittingPackages(p, dep, i) \ {found} : TextBefore(found.rank, other.rank)

Complete(p, dep, package) ==
  program' = [ program EXCEPT ![p].pc = "next", ![p].pick = NoPackage, ![p].offered = {},
                              ![p].completed = Append(@, AliasDependency(package, dep)) ]

TakeAvailable(p) ==
  /\ program[p].pc = "next" /\ ~QueueDone(p)
  /\ \E i \in DOMAIN DependencyKeys(Dependency(p)) :
       \E found \in FittingPackages(p, Dependency(p), i) :
         /\ FirstFitting(p, Dependency(p), found.package)
         /\ Complete(p, Dependency(p), found.package)
  /\ UNCHANGED << clones, remotes, faults, opens >>

NoteAbsent(p) ==
  /\ program[p].pc = "next" /\ ~QueueDone(p) /\ program[p].readOnly
  /\ NothingFits(p, Dependency(p))
  /\ program' = [ program EXCEPT ![p].absent = Append(@, Dependency(p).name) ]
  /\ UNCHANGED << clones, remotes, faults, opens >>

\* tryResolveRemote: every registry for the first key, then for the second.
Questions(dep) == (DOMAIN DependencyKeys(dep)) \X (DOMAIN Registries)
AskedBefore(q, r) == q[1] < r[1] \/ (q[1] = r[1] /\ q[2] < r[2])
RegistryOf(question) == Registries[question[2]]
KeyOf(dep, question) == DependencyKeys(dep)[question[1]]

Answering(p, dep) ==
  { q \in Questions(dep) :
      Offers(RegistryOf(q), KeyOf(dep, q), dep.predicates, program[p].project, remotes) }

\* A package offered is resolved at once, but one from Git has to be cloned.
Take(p, dep, package) ==
  IF package.registry # "git" THEN Complete(p, dep, package)
  ELSE program' = [ program EXCEPT
         ![p].pc = "directory", ![p].pick = package,
         ![p].offered = { Parse(ref.text) : ref \in remotes[package.source].refs } ]

TakeFrom(p, dep, question) ==
  Take(p, dep, FirstOffered(RegistryOf(question), KeyOf(dep, question), dep.predicates,
                            program[p].project, remotes))

ListRemote(p) ==
  /\ program[p].pc = "next" /\ ~QueueDone(p) /\ ~program[p].readOnly
  /\ NothingFits(p, Dependency(p))
  /\ \/ Answering(p, Dependency(p)) = {} /\ EndTask(p, "no registry")
     \/ \E q \in Answering(p, Dependency(p)) :
          /\ \A r \in Answering(p, Dependency(p)) : ~AskedBefore(r, q)
          /\ TakeFrom(p, Dependency(p), q)
  /\ UNCHANGED << clones, remotes, faults, opens >>

\* The answer of the Git registry is an error: Run gives up, whatever another
\* registry might have offered.
ListFails(p) ==
  /\ faults < MaxFaults
  /\ program[p].pc = "next" /\ ~QueueDone(p) /\ ~program[p].readOnly
  /\ NothingFits(p, Dependency(p))
  /\ \E q \in Questions(Dependency(p)) :
       /\ RegistryOf(q) = "git"
       /\ \A r \in Answering(p, Dependency(p)) : ~AskedBefore(r, q)
  /\ EndTask(p, "unreachable")
  /\ faults' = faults + 1
  /\ UNCHANGED << clones, remotes, opens >>

EndRun(p) ==
  /\ program[p].pc = "next" /\ QueueDone(p)
  /\ EndTask(p, IF program[p].absent = << >> THEN "" ELSE "not installed")
  /\ UNCHANGED << clones, remotes, faults, opens >>

----------------------------------------------------------------------------
(* GitRegistry.clone, straight into the directory it will be found in.     *)

Cloning == { "directory", "init", "fetch", "checkout" }
IsAt(clone, package) == clone.source = package.source /\ clone.at = package.at
InPlace(p) == { c \in clones : IsAt(c, program[p].pick) }

MakeDirectory(p) ==
  /\ program[p].pc = "directory"
  /\ clones' = IF InPlace(p) # {} THEN clones
               ELSE clones \cup {[ source |-> program[p].pick.source, at |-> program[p].pick.at,
                                   stage |-> "made", commit |-> "", tags |-> {}, cut |-> FALSE ]}
  /\ program' = [ program EXCEPT ![p].pc = "init" ]
  /\ UNCHANGED << remotes, faults, opens >>

Advance(p, clone) ==
  /\ clones' = (clones \ InPlace(p)) \cup { clone }
  /\ UNCHANGED << remotes, faults, opens >>

\* git.Init refuses a directory that holds a repository.
InitRepository(p) ==
  /\ program[p].pc = "init"
  /\ \E c \in InPlace(p) :
       IF c.stage = "made"
         THEN /\ Advance(p, [ c EXCEPT !.stage = "opened" ])
              /\ program' = [ program EXCEPT ![p].pc = "fetch" ]
         ELSE /\ EndTask(p, "exists")
              /\ UNCHANGED << clones, remotes, faults, opens >>

\* Mutant: the clone counts as done once the references are there.
FetchAndReturn(p) ==
  /\ program[p].pc = "fetch"
  /\ \E c \in InPlace(p), ref \in remotes[program[p].pick.source].refs :
       /\ ref.kind = program[p].pick.kind /\ ref.text = program[p].pick.text
       /\ Advance(p, [ c EXCEPT !.stage = "headed", !.commit = ref.commit,
            !.tags = { t \in remotes[program[p].pick.source].refs : t.kind = "tag" } ])
  /\ Complete(p, Dependency(p), program[p].pick)

FetchReferences(p) ==
  /\ program[p].pc = "fetch"
  /\ \E c \in InPlace(p), ref \in remotes[program[p].pick.source].refs :
       /\ ref.kind = program[p].pick.kind /\ ref.text = program[p].pick.text
       /\ Advance(p, [ c EXCEPT !.stage = "headed", !.commit = ref.commit,
            !.tags = { t \in remotes[program[p].pick.source].refs : t.kind = "tag" } ])
  /\ program' = [ program EXCEPT ![p].pc = "checkout" ]

CheckOut(p) ==
  /\ program[p].pc = "checkout"
  /\ \E c \in InPlace(p) : Advance(p, [ c EXCEPT !.stage = "whole" ])
  /\ Complete(p, Dependency(p), program[p].pick)

\* What has been written stays where it is.
Abandon(p) ==
  clones' = { IF program[p].pc \in { "init", "fetch", "checkout" } /\ IsAt(c, program[p].pick)
                   /\ (program[p].pc = "init" => c.stage = "made")
                THEN [ c EXCEPT !.cut = TRUE ] ELSE c : c \in clones }

CloneFails(p) ==
  /\ faults < MaxFaults
  /\ program[p].pc \in { "fetch", "checkout" }
  /\ Abandon(p) /\ EndTask(p, "clone")
  /\ faults' = faults + 1
  /\ UNCHANGED << remotes, opens >>

Kill(p) ==
  /\ faults < MaxFaults
  /\ program[p].pc \notin Resting \cup { "closed", "open" }
  /\ Abandon(p)
  /\ program' = [ program EXCEPT ![p] = Resolver(NoProject, FALSE, "closed") ]
  /\ faults' = faults + 1
  /\ UNCHANGED << remotes, opens >>

----------------------------------------------------------------------------
(* The programs together.                                                  *)

Run(p) ==
  \/ EnsureInstalled(p) \/ Discover(p)
  \/ TakeAvailable(p) \/ NoteAbsent(p) \/ ListRemote(p) \/ ListFails(p) \/ EndRun(p)
  \/ MakeDirectory(p) \/ InitRepository(p) \/ FetchReferences(p) \/ CheckOut(p) \/ CloneFails(p)

Session(p) ==
  \/ \E project \in Projects, readOnly \in BOOLEAN : Open(p, project, readOnly)
  \/ Close(p) \/ Kill(p)

InstallNext ==
  \/ \E p \in Programs : Run(p) \/ Session(p)
  \/ \E u \in Unpublished : Publish(u[1], u[2])

Spec == Init /\ [][InstallNext]_vars

----------------------------------------------------------------------------
(* Properties.                                                             *)

\* Where what answers to a dependency may come from: its source or its name,
\* the project under either of its own, the embedded library under its name.
Answers(dep, project) ==
  LET keys == { dep.source, dep.name }
  IN  keys
      \cup { own \in { OwnSource(project) } : keys \cap { OwnSource(project), project.name } # {} }
      \cup { std \in { StandardLibrary.source } : StandardLibrary.name \in keys }

Provides(package, dep, project) ==
  /\ package.source \in Answers(dep, project) /\ package.alias = dep.name
  /\ MatchesAll(package.version, dep.predicates)

\* A resolver that is ready holds its own project, and for every dependency of
\* the manifest a package of that name, source and version; one that only
\* reads may have recorded the dependency as missing instead, and one that
\* tried before holds the project itself only under the project's own name.
\* Whatever failed and was tried again on the way.
ReadyMeansResolved ==
  \A p \in Programs : program[p].pc = "ready" =>
    LET project   == program[p].project
        held(dep) == \E i \in DOMAIN program[p].installed :
                        Provides(program[p].installed[i], dep, project)
    IN  /\ held(ProjectDependency(project))
        /\ \A i \in DOMAIN project.dependencies :
             LET dep == project.dependencies[i]
             IN  \/ held(dep)
                 \/ program[p].readOnly /\ \E j \in DOMAIN program[p].missing : program[p].missing[j] = dep.name
                 \/ /\ dep.source \in Answers(ProjectDependency(project), project)
                    /\ HasDependency(program[p].installed, dep)

\* A clone somebody has installed is whole, unless the process that made it was
\* cut short, or is still at it.
WholeUnlessCutShort ==
  \A p \in Programs : \A i \in DOMAIN program[p].installed :
    LET package == program[p].installed[i]
    IN  package.registry = "git" =>
          \E c \in clones :
             /\ IsAt(c, package)
             /\ \/ c.stage = "whole" \/ c.cut
                \/ \E q \in Programs : program[q].pc = "checkout" /\ IsAt(c, program[q].pick)

\* A program never clones again what it could have found: the directory that
\* stands in its way was not there when it looked.
OwnClonesAreFound ==
  \A p \in Programs : program[p].pc \in Cloning =>
    \A c \in program[p].seen : ~IsAt(c, program[p].pick)

\* Precedence as semver.org defines it: the numbers first, a pre-release before
\* its release, and pre-releases by their identifiers.
NumbersOf(v) == << v.major, v.minor, v.patch >>
Precedes(v, w) ==
  LET n == NumbersOf(v)
      m == NumbersOf(w)
      first(a, b) == CHOOSE i \in DOMAIN a \cap DOMAIN b :
                       a[i] # b[i] /\ \A j \in 1 .. i - 1 : a[j] = b[j]
  IN  IF n # m THEN n[first(n, m)] < m[first(n, m)]
      ELSE IF v.pre = << >> \/ w.pre = << >> THEN v.pre # << >> /\ w.pre = << >>
      ELSE IF IsPrefix(v.pre, w.pre) THEN v.pre # w.pre
      ELSE IF IsPrefix(w.pre, v.pre) THEN FALSE
      ELSE LET i == first(v.pre, w.pre)
               a == v.pre[i]
               b == w.pre[i]
           IN  IF IsNumeric(a) /\ IsNumeric(b) THEN Value(a) < Value(b)
               ELSE IsNumeric(a) \/ (~IsNumeric(b) /\ TextBefore(a, b))

\* Where Less is an order, and that of semver.org: semantic versions of which no
\* two, where their pre-releases part, have a number on the one side and a word on
\* the other, nor a word that Atoi takes for a number (a hyphen and digits), nor a
\* number beyond its reach.  Elsewhere Compare goes by the text, or by such a
\* word's value, and which version is cloned is not what semver.org says.
PartAlike(p, q) ==
  \A i \in DOMAIN p \cap DOMAIN q :
     (\A j \in 1 .. i - 1 : p[j] = q[j]) =>
        /\ IsNumeric(p[i]) <=> IsNumeric(q[i])
        /\ \A a \in { p[i], q[i] } : IsInt(a) <=> IsNumeric(a)
Orderly(versions) ==
  \A v, w \in versions : IsSemver(v) /\ IsSemver(w) /\ PartAlike(v.pre, w.pre)

\* A version that is cloned is the newest the manifest admits, in whatever
\* order the remote lists them, where the code's order is semver.org's.
NewestTagIsCloned ==
  \A p \in Programs : program[p].pc \in Cloning /\ IsSemver(program[p].pick.version) =>
    LET admitted == { v \in program[p].offered : MatchesAll(v, Dependency(p).predicates) }
    IN  Orderly(admitted) => \A v \in admitted : ~Precedes(program[p].pick.version, v)
=============================================================================
