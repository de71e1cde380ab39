----------------------------- MODULE LangServer -----------------------------
(***************************************************************************)
(* The language server's diagnostics: pkg/langsrv, with the module cache   *)
(* of orchestra's ModuleResolver behind it.                                *)
(*                                                                         *)
(* The connection's thread handles one notification or request after the   *)
(* other.  A notification changes the open documents, cancels the pass in  *)
(* progress, drops the two caches of parsed modules and starts a new pass, *)
(* which judges every open document in the background; a request parses    *)
(* and analyzes on the connection's own thread.  What one step reads, it   *)
(* reads while the other thread may be writing.                            *)
(*                                                                         *)
(* A file is << directory, name >>; every directory is a module, imported  *)
(* as a whole.  A text is the number of the edit that made it, 0 for what  *)
(* the disk held at first.                                                 *)
(***************************************************************************)
EXTENDS Naturals, FiniteSets

CONSTANTS
  Files,            \* the project's files, all of them on disk
  Documents,        \* those of them the client may open
  Root,             \* the project's own directory
  Imports,          \* directory -> the directories its files import
  Broken,           \* texts that do not parse
  MaxEvents         \* bound on what the client sends

Dirs == { f[1] : f \in Files }
FilesOf(d) == { f \in Files : f[1] = d }

ASSUME LangServerAssumption ==
  /\ \A f \in Files : f = << f[1], f[2] >>
  /\ Documents \subseteq Files
  /\ Imports \in [ Dirs -> SUBSET Dirs ]
  /\ Broken \subseteq Nat \ {0} /\ MaxEvents \in Nat

Main == "main"                 \* the connection's thread
Pass == "pass"                 \* whichever pass holds diagRunMu
Threads == { Main, Pass }

VARIABLES
  docs,             \* open document -> its text; ls.openDocs has the same keys
  disk,             \* file -> what is saved
  handler,          \* how far the connection's thread is with a notification
  latest,           \* the newest pass: every other one has been cancelled
  marked,           \* ls.diagURIs
  waiting,          \* passes that do not hold diagRunMu yet
  running,          \* the one that does
  work,             \* what each thread parses or analyzes
  moduleCache,      \* directory -> the texts its module was parsed from
  modules,          \* the same in the resolver, by canonical URI
  shown,            \* file -> the diagnostics the client was sent last
  events            \* how many there have been, and so the number of a text

vars == << docs, disk, handler, latest, marked, waiting, running, work,
           moduleCache, modules, shown, events >>

Nothing == [ f \in {} |-> 0 ]
NoPass == [ id |-> 0, open |-> {}, gone |-> {} ]
Resting == [ pc |-> "idle", file |-> << >>, dir |-> Root, got |-> Nothing,
             own |-> Nothing, text |-> 0, todo |-> {}, judged |-> Nothing ]

Init ==
  /\ docs = Nothing /\ disk = [ f \in Files |-> 0 ]
  /\ handler = [ pc |-> "idle", pass |-> NoPass ]
  /\ latest = 0 /\ marked = {} /\ waiting = {} /\ running = NoPass
  /\ work = [ t \in Threads |-> Resting ]
  /\ moduleCache = Nothing /\ modules = Nothing
  /\ shown = [ f \in Files |-> [ as |-> "nothing" ] ]
  /\ events = 0

----------------------------------------------------------------------------
(* The overlay of open documents over the disk.                            *)

Current(f) == IF f \in DOMAIN docs THEN docs[f] ELSE disk[f]

\* The resolver reads a module through overlayFS.Chroot of its directory, which
\* keeps the documents under the names they have from the root.
Rooted(f) ==
  IF << Root, f[2] >> \in DOMAIN docs THEN docs[<< Root, f[2] >>] ELSE disk[f]

CurrentTexts(d) == [ f \in FilesOf(d) |-> Current(f) ]
RootedTexts(d) == [ f \in FilesOf(d) |-> Rooted(f) ]

FailsToParse(texts) == \E f \in DOMAIN texts : texts[f] \in Broken

With(f, key, value) == [ k \in DOMAIN f \cup {key} |-> IF k = key THEN value ELSE f[k] ]
Without(f, key) == [ k \in DOMAIN f \ {key} |-> f[k] ]

\* Who holds moduleCacheMu, and who the resolver's mutex.
CacheHeld == \E t \in Threads : work[t].pc = "read"
ResolverHeld == \E t \in Threads : work[t].pc = "resolve"

----------------------------------------------------------------------------
(* Notifications.                                                          *)

Receives ==
  /\ handler.pc = "idle" /\ events < MaxEvents
  /\ events' = events + 1

Refresh ==
  /\ handler' = [ handler EXCEPT !.pc = "begin" ]
  /\ UNCHANGED << latest, marked, waiting, running, work, moduleCache, modules, shown >>

DidOpen(f) ==
  /\ Receives /\ f \notin DOMAIN docs
  /\ docs' = With(docs, f, disk[f])
  /\ Refresh /\ UNCHANGED disk

DidChange(f) ==
  /\ Receives /\ f \in DOMAIN docs
  /\ docs' = With(docs, f, events')
  /\ Refresh /\ UNCHANGED disk

\* The editor has written the file by then.
DidSave(f) ==
  /\ Receives /\ f \in DOMAIN docs
  /\ disk' = [ disk EXCEPT ![f] = docs[f] ]
  /\ Refresh /\ UNCHANGED docs

DidClose(f) ==
  /\ Receives /\ f \in DOMAIN docs
  /\ docs' = Without(docs, f)
  /\ Refresh /\ UNCHANGED disk

\* beginDiagnosticsPass: under ls.mu the snapshot and the cancellation, then
\* the two caches, one mutex after the other.
Begin ==
  /\ handler.pc = "begin"
  /\ latest' = latest + 1
  /\ handler' = [ pc |-> "clear",
       pass |-> [ id |-> latest + 1, open |-> DOMAIN docs, gone |-> marked \ DOMAIN docs ] ]
  /\ marked' = DOMAIN docs
  /\ UNCHANGED << docs, disk, waiting, running, work, moduleCache, modules, shown, events >>

Cleared(pc) ==
  /\ handler' = [ handler EXCEPT !.pc = pc ]
  /\ UNCHANGED << docs, disk, latest, marked, running, work, shown, events >>

\* Mutant: a map is swapped without asking for its mutex.
ClearWithoutWaiting ==
  /\ handler.pc = "clear"
  /\ moduleCache' = Nothing
  /\ Cleared("invalidate") /\ UNCHANGED << waiting, modules >>

Clear ==
  /\ handler.pc = "clear" /\ ~CacheHeld
  /\ moduleCache' = Nothing
  /\ Cleared("invalidate") /\ UNCHANGED << waiting, modules >>

\* InvalidateModules, and the pass is on its way.
Invalidate ==
  /\ handler.pc = "invalidate" /\ ~ResolverHeld
  /\ modules' = Nothing
  /\ waiting' = waiting \cup { handler.pass }
  /\ Cleared("idle") /\ UNCHANGED moduleCache

----------------------------------------------------------------------------
(* parseModuleFilesForPath and Analyze, by either thread.                  *)

Works(t, state) ==
  /\ work' = [ work EXCEPT ![t] = state ]
  /\ UNCHANGED << docs, disk, latest, marked, waiting, events >>

\* moduleCacheMu is held from here until the module is registered.
StartParse(t) ==
  LET w == work[t]
      d == w.file[1]
  IN  /\ w.pc = "parse" /\ ~CacheHeld
      /\ IF d \in DOMAIN moduleCache
           THEN Works(t, [ w EXCEPT !.pc = "text", !.own = moduleCache[d] ])
           ELSE Works(t, [ w EXCEPT !.pc = "read", !.dir = d, !.got = Nothing ])
      /\ UNCHANGED << handler, running, moduleCache, modules, shown >>

\* The files of a directory one after the other, by name.
NextOf(w) ==
  CHOOSE f \in FilesOf(w.dir) \ DOMAIN w.got : \A g \in FilesOf(w.dir) \ DOMAIN w.got : f[2] <= g[2]

ReadFile(t) ==
  LET w == work[t]
  IN  /\ w.pc = "read" /\ DOMAIN w.got # FilesOf(w.dir)
      /\ Works(t, [ w EXCEPT !.got = With(w.got, NextOf(w), Current(NextOf(w))) ])
      /\ UNCHANGED << handler, running, moduleCache, modules, shown >>

\* ParseModule registers what it parsed with the resolver before the language
\* server caches it, and so does a module that failed to parse.
Register(t) ==
  LET w == work[t]
  IN  /\ w.pc = "read" /\ DOMAIN w.got = FilesOf(w.dir) /\ ~ResolverHeld
      /\ modules' = With(modules, w.dir, w.got)
      /\ moduleCache' = With(moduleCache, w.dir, w.got)
      /\ Works(t, [ w EXCEPT !.pc = "text", !.own = w.got ])
      /\ UNCHANGED << handler, running, shown >>

\* The text is read again, to place what was found; no file of the module may
\* fail to parse for it to be analyzed.
ReadText(t) ==
  LET w == work[t]
  IN  /\ w.pc = "text"
      /\ Works(t, [ w EXCEPT !.pc = "analyze", !.text = Current(w.file), !.judged = Nothing,
                    !.todo = IF FailsToParse(w.own) THEN {} ELSE Imports[w.file[1]] ])
      /\ UNCHANGED << handler, running, moduleCache, modules, shown >>

\* An import's module as validateImport finds it: one that fails is unknown to
\* its importer, one that does not is analyzed in turn.
Judge(w, d, texts, failed) ==
  LET more == IF failed THEN {} ELSE Imports[d]
      done == DOMAIN w.judged \cup {d}
  IN  [ w EXCEPT !.pc = "analyze", !.got = Nothing, !.todo = (@ \cup more) \ done,
                 !.judged = With(w.judged, d, [ texts |-> texts, failed |-> failed ]) ]

FindImport(t) ==
  LET w == work[t]
  IN  /\ w.pc = "analyze" /\ ~ResolverHeld
      /\ \E d \in w.todo :
           IF d \in DOMAIN modules
             THEN Works(t, Judge(w, d, modules[d], FALSE))
             ELSE Works(t, [ w EXCEPT !.pc = "resolve", !.dir = d, !.got = Nothing ])
      /\ UNCHANGED << handler, running, moduleCache, modules, shown >>

ReadImport(t) ==
  LET w == work[t]
  IN  /\ w.pc = "resolve" /\ DOMAIN w.got # FilesOf(w.dir)
      /\ Works(t, [ w EXCEPT !.got = With(w.got, NextOf(w), Rooted(NextOf(w))) ])
      /\ UNCHANGED << handler, running, moduleCache, modules, shown >>

\* Even what failed to parse is cached, and found without an error next time.
CacheImport(t) ==
  LET w == work[t]
  IN  /\ w.pc = "resolve" /\ DOMAIN w.got = FilesOf(w.dir)
      /\ modules' = With(modules, w.dir, w.got)
      /\ Works(t, Judge(w, w.dir, w.got, FailsToParse(w.got)))
      /\ UNCHANGED << handler, running, moduleCache, shown >>

Analyzed(t) == work[t].pc = "analyze" /\ work[t].todo = {}

----------------------------------------------------------------------------
(* Requests, such as for the references to a name.                         *)

Ask(f) ==
  /\ Receives
  /\ handler' = [ handler EXCEPT !.pc = "busy" ]
  /\ work' = [ work EXCEPT ![Main] = [ Resting EXCEPT !.pc = "parse", !.file = f ] ]
  /\ UNCHANGED << docs, disk, latest, marked, waiting, running, moduleCache, modules, shown >>

Reply ==
  /\ Analyzed(Main)
  /\ handler' = [ handler EXCEPT !.pc = "idle" ]
  /\ Works(Main, Resting)
  /\ UNCHANGED << running, moduleCache, modules, shown >>

----------------------------------------------------------------------------
(* runDiagnosticsPass.                                                     *)

TakeTurn ==
  /\ running = NoPass
  /\ \E p \in waiting : running' = p /\ waiting' = waiting \ {p}
  /\ UNCHANGED << docs, disk, handler, latest, marked, work, moduleCache, modules, shown, events >>

\* Mutant: the pass that was just begun counts as cancelled.
CancelledByItself(p) == p.id <= latest

Cancelled(p) == p.id < latest

PassStep ==
  /\ running # NoPass /\ work[Pass].pc = "idle"
  /\ UNCHANGED << docs, disk, handler, latest, marked, waiting, moduleCache, modules, events >>

\* Mutant: a pass that was cancelled returns without giving the mutex back.
ReturnHolding ==
  /\ PassStep /\ running.open # {} /\ Cancelled(running)
  /\ running' = [ running EXCEPT !.gone = {} ]
  /\ UNCHANGED << work, shown >>

ReturnCancelled ==
  /\ PassStep /\ running.open # {} /\ Cancelled(running)
  /\ running' = NoPass
  /\ UNCHANGED << work, shown >>

\* A map is walked in any order.
NextDocument ==
  /\ PassStep /\ ~Cancelled(running)
  /\ \E f \in running.open :
       /\ running' = [ running EXCEPT !.open = @ \ {f} ]
       /\ work' = [ work EXCEPT ![Pass] = [ Resting EXCEPT !.pc = "parse", !.file = f ] ]
  /\ UNCHANGED shown

\* The version is the document's by now, whatever was parsed.
Publish ==
  LET w == work[Pass]
  IN  /\ Analyzed(Pass)
      /\ shown' = [ shown EXCEPT ![w.file] =
           [ as |-> "judged", own |-> w.own, text |-> w.text, imports |-> w.judged, version |-> Current(w.file) ] ]
      /\ Works(Pass, Resting)
      /\ UNCHANGED << handler, running, moduleCache, modules >>

\* Nobody asks here whether the pass has been cancelled.
ClearGone ==
  /\ PassStep /\ running.open = {}
  /\ shown' = [ f \in Files |-> IF f \in running.gone THEN [ as |-> "cleared" ] ELSE shown[f] ]
  /\ running' = NoPass
  /\ UNCHANGED work

----------------------------------------------------------------------------
(* The whole.                                                              *)

Client ==
  \E f \in Documents : DidOpen(f) \/ DidChange(f) \/ DidSave(f) \/ DidClose(f) \/ Ask(f)

Work(t) ==
  \/ StartParse(t) \/ ReadFile(t) \/ Register(t) \/ ReadText(t)
  \/ FindImport(t) \/ ReadImport(t) \/ CacheImport(t)

Connection == Begin \/ Clear \/ Invalidate \/ Reply \/ Work(Main)
Background == TakeTurn \/ ReturnCancelled \/ NextDocument \/ Publish \/ ClearGone \/ Work(Pass)

Settled ==
  handler.pc = "idle" /\ waiting = {} /\ running = NoPass

\* The client may have nothing more to say.
Silence == Settled /\ events = MaxEvents /\ UNCHANGED vars

Next == Client \/ Connection \/ Background \/ Silence

Spec == Init /\ [][Next]_vars

\* Go runs both threads, and a mutex is handed to whoever waits for it.
FairSpec == Spec /\ WF_vars(Connection) /\ WF_vars(Background)

----------------------------------------------------------------------------
(* Properties.                                                             *)

\* Once a notification has been dealt with, nothing that was parsed from an
\* older text is cached anywhere, whoever was reading while it arrived.
CachesAreFresh ==
  handler.pc \in { "idle", "busy" } =>
    /\ \A d \in DOMAIN moduleCache : moduleCache[d] = CurrentTexts(d)
    /\ \A d \in DOMAIN modules : modules[d] \in { CurrentTexts(d), RootedTexts(d) }

\* When everything has settled, the diagnostics an open document shows are
\* those of the present texts, of its own module and of those it imports,
\* unless a late pass has cleared them.
LatestIsJudged ==
  Settled => \A f \in DOMAIN docs :
    LET s == shown[f]
    IN  \/ s.as = "cleared"
        \/ /\ s.as = "judged"
           /\ s.text = docs[f] /\ s.version = docs[f] /\ s.own = CurrentTexts(f[1])
           /\ \A d \in DOMAIN s.imports :
                s.imports[d].texts \in { CurrentTexts(d), RootedTexts(d) }

\* Whatever the client sends, the server comes to rest.
Settles == []<>Settled

=============================================================================
