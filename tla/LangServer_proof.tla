--------------------------- MODULE LangServer_proof ---------------------------
(***************************************************************************)
(* For any files, documents and imports, and however many notifications:   *)
(* no cache outlives the texts it was made from, and once the newest pass  *)
(* has run every open document is judged by what it now says.              *)
(*                                                                         *)
(* The clearing alone does not show it, for whoever is reading files at    *)
(* that moment caches them afterwards.  What does is that a cache is       *)
(* cleared under the very mutex its readers hold while they read: past the *)
(* clearing nobody has read a line that is old.                            *)
(*                                                                         *)
(* On that rests the second.  The newest pass is asked for after its       *)
(* notification has cleared both caches, and no notification has been      *)
(* handled since; an older pass may still publish while the newest waits,  *)
(* but none has its turn after it.  So what the newest publishes is made   *)
(* of the present texts, and nothing is put over it.                       *)
(***************************************************************************)
EXTENDS LangServer, Editing, FiniteSetTheorems, FunctionTheorems, SequenceTheorems, WellFoundedInduction, TLAPS

\* Records and functions are what they are written as.
Shape(w) ==
  w \in [ pc : {w.pc}, file : {w.file}, dir : {w.dir}, got : {w.got},
          own : {w.own}, text : {w.text}, todo : {w.todo}, judged : {w.judged} ]
IsFunction(g) == g = [ f \in DOMAIN g |-> g[f] ]

WorkShape ==
  /\ work = [ t \in Threads |-> work[t] ]
  /\ \A t \in Threads : Shape(work[t]) /\ IsFunction(work[t].got)
HandlerShape == handler \in [ pc : {handler.pc}, pass : {handler.pass} ]

\* The connection's thread works on a request only while it handles that one.
MainIsAsked == work[Main].pc # "idle" => handler.pc = "busy"

\* Texts have changed and the first cache, or the second, is not cleared yet.
BeforeClear == handler.pc \in { "begin", "clear" }
BeforeInvalidate == handler.pc \in { "begin", "clear", "invalidate" }

FreshOwn(got) == \A f \in DOMAIN got : got[f] = Current(f)
FreshImport(got) == \A f \in DOMAIN got : got[f] = Rooted(f)

ReadsAreFresh ==
  ~BeforeClear => \A t \in Threads : work[t].pc = "read" => FreshOwn(work[t].got)
CacheIsFresh ==
  ~BeforeClear => \A d \in DOMAIN moduleCache : moduleCache[d] = CurrentTexts(d)
ImportsAreFresh ==
  ~BeforeInvalidate => \A t \in Threads : work[t].pc = "resolve" => FreshImport(work[t].got)
ModulesAreFresh ==
  ~BeforeInvalidate => \A d \in DOMAIN modules : modules[d] \in { CurrentTexts(d), RootedTexts(d) }

IInv ==
  /\ WorkShape /\ HandlerShape /\ MainIsAsked
  /\ ReadsAreFresh /\ CacheIsFresh /\ ImportsAreFresh /\ ModulesAreFresh

-----------------------------------------------------------------------------
(* Steps that leave the texts alone.                                       *)

\* As long as no document is edited or saved, what is current stays so.
LEMMA TextsStay ==
  ASSUME docs' = docs, disk' = disk
  PROVE  /\ \A f : Current(f)' = Current(f) /\ Rooted(f)' = Rooted(f)
         /\ \A d : CurrentTexts(d)' = CurrentTexts(d) /\ RootedTexts(d)' = RootedTexts(d)
         /\ \A g : (FreshOwn(g)' <=> FreshOwn(g)) /\ (FreshImport(g)' <=> FreshImport(g))
<1>1. \A f : Current(f)' = Current(f) /\ Rooted(f)' = Rooted(f)
  BY DEF Current, Rooted
<1>2. \A d : CurrentTexts(d)' = CurrentTexts(d) /\ RootedTexts(d)' = RootedTexts(d)
  BY <1>1 DEF CurrentTexts, RootedTexts
<1>3. \A g : (FreshOwn(g)' <=> FreshOwn(g)) /\ (FreshImport(g)' <=> FreshImport(g))
  BY <1>1 DEF FreshOwn, FreshImport
<1>4. QED BY <1>1, <1>2, <1>3

\* The handler is, or is not, between an edit and the clearing as it was.
SameStage ==
  /\ docs' = docs /\ disk' = disk
  /\ BeforeClear' = BeforeClear /\ BeforeInvalidate' = BeforeInvalidate

LEMMA StageStays ==
  ASSUME docs' = docs, disk' = disk, handler' = handler
  PROVE  SameStage
BY DEF SameStage, BeforeClear, BeforeInvalidate

\* A cache that is not touched is as fresh as before.
LEMMA CachesStay ==
  ASSUME IInv, SameStage
  PROVE  /\ moduleCache' = moduleCache => CacheIsFresh'
         /\ modules' = modules => ModulesAreFresh'
<1>1. /\ BeforeClear' = BeforeClear /\ BeforeInvalidate' = BeforeInvalidate
      /\ docs' = docs /\ disk' = disk /\ CacheIsFresh /\ ModulesAreFresh
  BY DEF SameStage, IInv
<1>2. moduleCache' = moduleCache => CacheIsFresh'
  BY <1>1, TextsStay DEF CacheIsFresh
<1>3. modules' = modules => ModulesAreFresh'
  BY <1>1, TextsStay DEF ModulesAreFresh
<1>4. QED BY <1>2, <1>3

\* A thread's work becomes other work, which has read nothing old.
LEMMA WorkStep ==
  ASSUME IInv, NEW t \in Threads, NEW state, SameStage, HandlerShape', MainIsAsked',
         work' = [ work EXCEPT ![t] = state ],
         Shape(state), IsFunction(state.got),
         state.pc = "read" /\ ~BeforeClear => FreshOwn(state.got),
         state.pc = "resolve" /\ ~BeforeInvalidate => FreshImport(state.got)
  PROVE  WorkShape' /\ HandlerShape' /\ MainIsAsked' /\ ReadsAreFresh' /\ ImportsAreFresh'
<1>1. /\ work = [ u \in Threads |-> work[u] ]
      /\ BeforeClear' = BeforeClear /\ BeforeInvalidate' = BeforeInvalidate
      /\ docs' = docs /\ disk' = disk
  BY DEF IInv, WorkShape, SameStage
<1>2. work'[t] = state /\ \A u \in Threads \ {t} : work'[u] = work[u]
  BY <1>1
<1>3. WorkShape'
  <2>1. work' = [ u \in Threads |-> work'[u] ]
    BY <1>1
  <2>2. \A u \in Threads : Shape(work'[u]) /\ IsFunction(work'[u].got)
    BY <1>2 DEF IInv, WorkShape
  <2>3. QED BY <2>1, <2>2 DEF WorkShape, Shape, IsFunction
<1>4. ReadsAreFresh'
  BY <1>2, <1>1, TextsStay DEF IInv, ReadsAreFresh
<1>5. ImportsAreFresh'
  BY <1>2, <1>1, TextsStay DEF IInv, ImportsAreFresh
<1>6. QED BY <1>3, <1>4, <1>5

\* A thread goes on with its work, or the passes' thread begins some.
LEMMA ThreadStep ==
  ASSUME IInv, NEW t \in Threads, NEW state,
         Works(t, state), handler' = handler,
         t = Main => handler.pc = "busy",
         Shape(state), IsFunction(state.got),
         state.pc = "read" /\ ~BeforeClear => FreshOwn(state.got),
         state.pc = "resolve" /\ ~BeforeInvalidate => FreshImport(state.got)
  PROVE  WorkShape' /\ HandlerShape' /\ MainIsAsked' /\ ReadsAreFresh' /\ ImportsAreFresh'
<1>1. /\ work = [ u \in Threads |-> work[u] ]
      /\ work' = [ work EXCEPT ![t] = state ] /\ docs' = docs /\ disk' = disk
  BY DEF IInv, WorkShape, Works
<1>2. HandlerShape' /\ MainIsAsked'
  BY <1>1 DEF IInv, HandlerShape, MainIsAsked, Threads, Main, Pass
<1>3. SameStage
  BY <1>1, StageStays
<1>4. QED BY <1>1, <1>2, <1>3, WorkStep

\* What an idle thread is not, a working one is.
LEMMA MainWorks ==
  ASSUME IInv, NEW t \in Threads, work[t].pc # "idle"
  PROVE  t = Main => handler.pc = "busy"
BY DEF IInv, MainIsAsked

\* Adding what is current to what is current.
LEMMA AddedIsFresh ==
  ASSUME NEW g, NEW f
  PROVE  /\ IsFunction(With(g, f, Current(f))) /\ IsFunction(With(g, f, Rooted(f)))
         /\ FreshOwn(g) => FreshOwn(With(g, f, Current(f)))
         /\ FreshImport(g) => FreshImport(With(g, f, Rooted(f)))
BY DEF With, IsFunction, FreshOwn, FreshImport

LEMMA NothingIsFresh == IsFunction(Nothing) /\ FreshOwn(Nothing) /\ FreshImport(Nothing)
BY DEF Nothing, IsFunction, FreshOwn, FreshImport

\* All the files of a directory, as they are now.
LEMMA WholeIsCurrent ==
  ASSUME NEW g, NEW d, IsFunction(g), DOMAIN g = FilesOf(d)
  PROVE  /\ FreshOwn(g) => g = CurrentTexts(d)
         /\ FreshImport(g) => g = RootedTexts(d)
BY DEF IsFunction, FreshOwn, FreshImport, CurrentTexts, RootedTexts

-----------------------------------------------------------------------------
(* The threads' steps.                                                     *)

\* A record with one field replaced.
LEMMA GotReplaced ==
  ASSUME NEW w, Shape(w), NEW got
  PROVE  /\ Shape([ w EXCEPT !.got = got ])
         /\ [ w EXCEPT !.got = got ].pc = w.pc
         /\ [ w EXCEPT !.got = got ].got = got
BY DEF Shape

\* A thread that analyzes has read nothing that it will cache.
LEMMA JudgedIsShaped ==
  ASSUME NEW w, Shape(w), NEW d, NEW texts, NEW failed
  PROVE  /\ Shape(Judge(w, d, texts, failed))
         /\ Judge(w, d, texts, failed).pc = "analyze"
         /\ Judge(w, d, texts, failed).got = Nothing
BY DEF Shape, Judge

LEMMA StartParsePreserves ==
  ASSUME IInv, NEW t \in Threads, StartParse(t)
  PROVE  IInv'
<1> DEFINE w == work[t]
<1>1. /\ w.pc = "parse" /\ Shape(w) /\ IsFunction(w.got)
      /\ handler' = handler /\ moduleCache' = moduleCache /\ modules' = modules
  BY DEF StartParse, IInv, WorkShape
<1>2. t = Main => handler.pc = "busy"
  BY <1>1, MainWorks
<1>3. \E state : /\ Works(t, state) /\ Shape(state) /\ IsFunction(state.got)
                 /\ \/ state.pc = "text"
                    \/ state.pc = "read" /\ FreshOwn(state.got)
  <2>1. CASE w.file[1] \in DOMAIN moduleCache
    <3> DEFINE state == [ w EXCEPT !.pc = "text", !.own = moduleCache[w.file[1]] ]
    <3>1. Works(t, state)
      BY <2>1 DEF StartParse
    <3>2. Shape(state) /\ state.pc = "text" /\ state.got = w.got
      BY <1>1 DEF Shape
    <3>3. QED BY <1>1, <3>1, <3>2
  <2>2. CASE w.file[1] \notin DOMAIN moduleCache
    <3> DEFINE state == [ w EXCEPT !.pc = "read", !.dir = w.file[1], !.got = Nothing ]
    <3>1. Works(t, state)
      BY <2>2 DEF StartParse
    <3>2. Shape(state) /\ state.pc = "read" /\ state.got = Nothing
      BY <1>1 DEF Shape
    <3>3. QED BY <3>1, <3>2, NothingIsFresh
  <2>3. QED BY <2>1, <2>2
<1>4. WorkShape' /\ HandlerShape' /\ MainIsAsked' /\ ReadsAreFresh' /\ ImportsAreFresh'
  BY <1>1, <1>2, <1>3, ThreadStep
<1>5. docs' = docs /\ disk' = disk
  BY <1>3 DEF Works
<1>6. QED BY <1>1, <1>4, <1>5, StageStays, CachesStay DEF IInv

LEMMA ReadFilePreserves ==
  ASSUME IInv, NEW t \in Threads, ReadFile(t)
  PROVE  IInv'
<1> DEFINE w == work[t]
           state == [ w EXCEPT !.got = With(w.got, NextOf(w), Current(NextOf(w))) ]
<1>1. /\ w.pc = "read" /\ Shape(w) /\ IsFunction(w.got) /\ Works(t, state)
      /\ handler' = handler /\ moduleCache' = moduleCache /\ modules' = modules
  BY DEF ReadFile, IInv, WorkShape
<1>2. t = Main => handler.pc = "busy"
  BY <1>1, MainWorks
<1>3. /\ Shape(state) /\ state.pc = "read"
      /\ state.got = With(w.got, NextOf(w), Current(NextOf(w)))
  BY <1>1, GotReplaced
<1>4. ~BeforeClear => FreshOwn(w.got)
  BY <1>1 DEF IInv, ReadsAreFresh
<1>5. IsFunction(state.got) /\ (~BeforeClear => FreshOwn(state.got))
  BY <1>3, <1>4, AddedIsFresh
<1> HIDE DEF state
<1>6. WorkShape' /\ HandlerShape' /\ MainIsAsked' /\ ReadsAreFresh' /\ ImportsAreFresh'
  BY <1>1, <1>2, <1>3, <1>5, ThreadStep
<1>7. QED BY <1>1, <1>6, StageStays, CachesStay DEF IInv, Works

LEMMA RegisterPreserves ==
  ASSUME IInv, NEW t \in Threads, Register(t)
  PROVE  IInv'
<1> DEFINE w == work[t]
           state == [ w EXCEPT !.pc = "text", !.own = w.got ]
<1>1. /\ w.pc = "read" /\ Shape(w) /\ IsFunction(w.got) /\ Works(t, state)
      /\ DOMAIN w.got = FilesOf(w.dir) /\ handler' = handler
      /\ modules' = With(modules, w.dir, w.got) /\ moduleCache' = With(moduleCache, w.dir, w.got)
  BY DEF Register, IInv, WorkShape
<1>2. t = Main => handler.pc = "busy"
  BY <1>1, MainWorks
<1>3. Shape(state) /\ state.pc = "text" /\ state.got = w.got
  BY <1>1 DEF Shape
<1>4. WorkShape' /\ HandlerShape' /\ MainIsAsked' /\ ReadsAreFresh' /\ ImportsAreFresh'
  BY <1>1, <1>2, <1>3, ThreadStep
<1>5. docs' = docs /\ disk' = disk
  BY <1>1 DEF Works
<1>6. ~BeforeClear => w.got = CurrentTexts(w.dir)
  BY <1>1, WholeIsCurrent DEF IInv, ReadsAreFresh
<1>7. /\ BeforeClear' = BeforeClear /\ BeforeInvalidate' = BeforeInvalidate
      /\ BeforeClear => BeforeInvalidate
  BY <1>1 DEF BeforeClear, BeforeInvalidate
<1>8. CacheIsFresh'
  <2>1. SUFFICES ASSUME ~BeforeClear, NEW d \in DOMAIN moduleCache'
                 PROVE  moduleCache'[d] = CurrentTexts(d)
    BY <1>5, <1>7, TextsStay DEF CacheIsFresh
  <2>2. CASE d = w.dir
    BY <1>1, <1>6, <2>1, <2>2 DEF With
  <2>3. CASE d # w.dir
    BY <1>1, <2>1, <2>3 DEF With, IInv, CacheIsFresh
  <2>4. QED BY <2>2, <2>3
<1>9. ModulesAreFresh'
  <2>1. SUFFICES ASSUME ~BeforeInvalidate, NEW d \in DOMAIN modules'
                 PROVE  modules'[d] \in { CurrentTexts(d), RootedTexts(d) }
    BY <1>5, <1>7, TextsStay DEF ModulesAreFresh
  <2>2. CASE d = w.dir
    BY <1>1, <1>6, <1>7, <2>1, <2>2 DEF With
  <2>3. CASE d # w.dir
    BY <1>1, <2>1, <2>3 DEF With, IInv, ModulesAreFresh
  <2>4. QED BY <2>2, <2>3
<1>10. QED BY <1>4, <1>8, <1>9 DEF IInv

LEMMA ReadTextPreserves ==
  ASSUME IInv, NEW t \in Threads, ReadText(t)
  PROVE  IInv'
<1> DEFINE w == work[t]
           todo == IF FailsToParse(w.own) THEN {} ELSE Imports[w.file[1]]
           state == [ w EXCEPT !.pc = "analyze", !.text = Current(w.file), !.judged = Nothing,
                               !.todo = todo ]
<1>1. /\ w.pc = "text" /\ Shape(w) /\ IsFunction(w.got) /\ Works(t, state)
      /\ handler' = handler /\ moduleCache' = moduleCache /\ modules' = modules
  BY DEF ReadText, IInv, WorkShape
<1>2. t = Main => handler.pc = "busy"
  BY <1>1, MainWorks
<1> HIDE DEF todo
<1>3. Shape(state) /\ state.pc = "analyze" /\ state.got = w.got
  BY <1>1 DEF Shape
<1>4. WorkShape' /\ HandlerShape' /\ MainIsAsked' /\ ReadsAreFresh' /\ ImportsAreFresh'
  BY <1>1, <1>2, <1>3, ThreadStep
<1>5. QED BY <1>1, <1>4, StageStays, CachesStay DEF IInv, Works

LEMMA FindImportPreserves ==
  ASSUME IInv, NEW t \in Threads, FindImport(t)
  PROVE  IInv'
<1> DEFINE w == work[t]
<1>1. /\ w.pc = "analyze" /\ Shape(w)
      /\ handler' = handler /\ moduleCache' = moduleCache /\ modules' = modules
  BY DEF FindImport, IInv, WorkShape
<1>2. t = Main => handler.pc = "busy"
  BY <1>1, MainWorks
<1>3. PICK d \in w.todo :
        IF d \in DOMAIN modules
          THEN Works(t, Judge(w, d, modules[d], FALSE))
          ELSE Works(t, [ w EXCEPT !.pc = "resolve", !.dir = d, !.got = Nothing ])
  BY DEF FindImport
<1>4. \E state : /\ Works(t, state) /\ Shape(state) /\ state.got = Nothing
                 /\ state.pc \in { "analyze", "resolve" }
  <2>1. CASE d \in DOMAIN modules
    <3> DEFINE state == Judge(w, d, modules[d], FALSE)
    <3>1. Works(t, state)
      BY <1>3, <2>1
    <3>2. Shape(state) /\ state.pc = "analyze" /\ state.got = Nothing
      BY <1>1 DEF Shape, Judge
    <3>3. QED BY <3>1, <3>2
  <2>2. CASE d \notin DOMAIN modules
    <3> DEFINE state == [ w EXCEPT !.pc = "resolve", !.dir = d, !.got = Nothing ]
    <3>1. Works(t, state)
      BY <1>3, <2>2
    <3>2. Shape(state) /\ state.pc = "resolve" /\ state.got = Nothing
      BY <1>1 DEF Shape
    <3>3. QED BY <3>1, <3>2
  <2>3. QED BY <2>1, <2>2
<1>5. WorkShape' /\ HandlerShape' /\ MainIsAsked' /\ ReadsAreFresh' /\ ImportsAreFresh'
  BY <1>1, <1>2, <1>4, NothingIsFresh, ThreadStep
<1>6. docs' = docs /\ disk' = disk
  BY <1>4 DEF Works
<1>7. QED BY <1>1, <1>5, <1>6, StageStays, CachesStay DEF IInv

LEMMA ReadImportPreserves ==
  ASSUME IInv, NEW t \in Threads, ReadImport(t)
  PROVE  IInv'
<1> DEFINE w == work[t]
           state == [ w EXCEPT !.got = With(w.got, NextOf(w), Rooted(NextOf(w))) ]
<1>1. /\ w.pc = "resolve" /\ Shape(w) /\ IsFunction(w.got) /\ Works(t, state)
      /\ handler' = handler /\ moduleCache' = moduleCache /\ modules' = modules
  BY DEF ReadImport, IInv, WorkShape
<1>2. t = Main => handler.pc = "busy"
  BY <1>1, MainWorks
<1>3. /\ Shape(state) /\ state.pc = "resolve"
      /\ state.got = With(w.got, NextOf(w), Rooted(NextOf(w)))
  BY <1>1, GotReplaced
<1>4. ~BeforeInvalidate => FreshImport(w.got)
  BY <1>1 DEF IInv, ImportsAreFresh
<1>5. IsFunction(state.got) /\ (~BeforeInvalidate => FreshImport(state.got))
  BY <1>3, <1>4, AddedIsFresh
<1> HIDE DEF state
<1>6. WorkShape' /\ HandlerShape' /\ MainIsAsked' /\ ReadsAreFresh' /\ ImportsAreFresh'
  BY <1>1, <1>2, <1>3, <1>5, ThreadStep
<1>7. QED BY <1>1, <1>6, StageStays, CachesStay DEF IInv, Works

LEMMA CacheImportPreserves ==
  ASSUME IInv, NEW t \in Threads, CacheImport(t)
  PROVE  IInv'
<1> DEFINE w == work[t]
           state == Judge(w, w.dir, w.got, FailsToParse(w.got))
<1>1. /\ w.pc = "resolve" /\ Shape(w) /\ IsFunction(w.got) /\ Works(t, state)
      /\ DOMAIN w.got = FilesOf(w.dir) /\ handler' = handler
      /\ modules' = With(modules, w.dir, w.got) /\ moduleCache' = moduleCache
  BY DEF CacheImport, IInv, WorkShape
<1>2. t = Main => handler.pc = "busy"
  BY <1>1, MainWorks
<1>3. Shape(state) /\ state.pc = "analyze" /\ state.got = Nothing
  BY <1>1, JudgedIsShaped
<1>4. WorkShape' /\ HandlerShape' /\ MainIsAsked' /\ ReadsAreFresh' /\ ImportsAreFresh'
  BY <1>1, <1>2, <1>3, NothingIsFresh, ThreadStep
<1>5. docs' = docs /\ disk' = disk
  BY <1>1 DEF Works
<1>6. ~BeforeInvalidate => w.got = RootedTexts(w.dir)
  BY <1>1, WholeIsCurrent DEF IInv, ImportsAreFresh
<1>7. BeforeInvalidate' = BeforeInvalidate
  BY <1>1 DEF BeforeInvalidate
<1>8. CacheIsFresh'
  BY <1>1, <1>5, StageStays, CachesStay
<1>9. ModulesAreFresh'
  <2>1. SUFFICES ASSUME ~BeforeInvalidate, NEW d \in DOMAIN modules'
                 PROVE  modules'[d] \in { CurrentTexts(d), RootedTexts(d) }
    BY <1>5, <1>7, TextsStay DEF ModulesAreFresh
  <2>2. CASE d = w.dir
    BY <1>1, <1>6, <2>1, <2>2 DEF With
  <2>3. CASE d # w.dir
    BY <1>1, <2>1, <2>3 DEF With, IInv, ModulesAreFresh
  <2>4. QED BY <2>2, <2>3
<1>10. QED BY <1>4, <1>8, <1>9 DEF IInv

\* A thread takes up a document, or is done with it.
LEMMA RestingIsShaped ==
  ASSUME NEW f
  PROVE  /\ Shape(Resting) /\ Resting.pc = "idle" /\ Resting.got = Nothing
         /\ LET taken == [ Resting EXCEPT !.pc = "parse", !.file = f ]
            IN  Shape(taken) /\ taken.pc = "parse" /\ taken.got = Nothing
<1>1. Shape(Resting) /\ Resting.pc = "idle" /\ Resting.got = Nothing
  BY DEF Shape, Resting
<1>2. LET taken == [ Resting EXCEPT !.pc = "parse", !.file = f ]
      IN  Shape(taken) /\ taken.pc = "parse" /\ taken.got = Nothing
  BY <1>1 DEF Shape
<1>3. QED BY <1>1, <1>2

LEMMA NextDocumentPreserves ==
  ASSUME IInv, NextDocument
  PROVE  IInv'
<1>1. /\ handler' = handler /\ moduleCache' = moduleCache /\ modules' = modules
      /\ docs' = docs /\ disk' = disk
      /\ work = [ t \in Threads |-> work[t] ]
  BY DEF NextDocument, PassStep, IInv, WorkShape
<1>2. PICK f : work' = [ work EXCEPT ![Pass] = [ Resting EXCEPT !.pc = "parse", !.file = f ] ]
  BY DEF NextDocument
<1>3. SameStage
  BY <1>1, StageStays
<1>4. HandlerShape' /\ MainIsAsked'
  BY <1>1, <1>2 DEF IInv, HandlerShape, MainIsAsked, Threads, Main, Pass
<1>5. Pass \in Threads
  BY DEF Threads
<1>6. WorkShape' /\ ReadsAreFresh' /\ ImportsAreFresh'
  BY <1>2, <1>3, <1>4, <1>5, RestingIsShaped, NothingIsFresh, WorkStep
<1>7. QED BY <1>1, <1>3, <1>4, <1>6, CachesStay DEF IInv

LEMMA PublishPreserves ==
  ASSUME IInv, Publish
  PROVE  IInv'
<1>1. /\ handler' = handler /\ moduleCache' = moduleCache /\ modules' = modules
      /\ Works(Pass, Resting) /\ Pass \in Threads /\ Pass # Main
  BY DEF Publish, Threads, Pass, Main
<1>2. docs' = docs /\ disk' = disk
  BY <1>1 DEF Works
<1>3. WorkShape' /\ HandlerShape' /\ MainIsAsked' /\ ReadsAreFresh' /\ ImportsAreFresh'
  BY <1>1, RestingIsShaped, NothingIsFresh, ThreadStep
<1>4. QED BY <1>1, <1>2, <1>3, StageStays, CachesStay DEF IInv

\* The pass waits, begins or ends: nobody works, nothing is cached.
LEMMA OtherStepPreserves ==
  ASSUME IInv,
         UNCHANGED << docs, disk, handler, work, moduleCache, modules >>
  PROVE  IInv'
BY DEF IInv, WorkShape, HandlerShape, MainIsAsked, ReadsAreFresh, CacheIsFresh, ImportsAreFresh,
       ModulesAreFresh, Shape, IsFunction, BeforeClear, BeforeInvalidate, FreshOwn, FreshImport,
       CurrentTexts, RootedTexts, Current, Rooted

-----------------------------------------------------------------------------
(* The handler's steps.                                                    *)

\* As long as the handler has a cache to clear, nothing need be said of it.
LEMMA Unsaid ==
  ASSUME work' = work, handler'.pc \in { "begin", "clear" }, WorkShape, HandlerShape', MainIsAsked'
  PROVE  IInv'
<1>1. WorkShape'
  BY DEF WorkShape, Shape, IsFunction
<1>2. BeforeClear' /\ BeforeInvalidate'
  BY DEF BeforeClear, BeforeInvalidate
<1>3. QED BY <1>1, <1>2 DEF IInv, ReadsAreFresh, CacheIsFresh, ImportsAreFresh, ModulesAreFresh

LEMMA NotificationPreserves ==
  ASSUME IInv, Receives, Refresh
  PROVE  IInv'
<1>1. /\ handler.pc = "idle" /\ work' = work /\ HandlerShape
      /\ handler' = [ handler EXCEPT !.pc = "begin" ]
  BY DEF Receives, Refresh, IInv
<1>2. HandlerShape' /\ handler'.pc = "begin"
  BY <1>1 DEF HandlerShape
<1>3. MainIsAsked'
  BY <1>1 DEF IInv, MainIsAsked
<1>4. QED BY <1>1, <1>2, <1>3, Unsaid DEF IInv

LEMMA BeginPreserves ==
  ASSUME IInv, Begin
  PROVE  IInv'
<1>1. handler.pc = "begin" /\ work' = work /\ HandlerShape' /\ handler'.pc = "clear"
  BY DEF Begin, HandlerShape
<1>2. MainIsAsked'
  BY <1>1 DEF IInv, MainIsAsked
<1>3. QED BY <1>1, <1>2, Unsaid DEF IInv

\* The mutex is free: what is read from now on is read after the edit.
LEMMA ClearPreserves ==
  ASSUME IInv, Clear
  PROVE  IInv'
<1>1. /\ handler.pc = "clear" /\ ~CacheHeld /\ moduleCache' = Nothing
      /\ handler' = [ handler EXCEPT !.pc = "invalidate" ] /\ HandlerShape /\ work' = work
  BY DEF Clear, Cleared, IInv
<1>2. HandlerShape' /\ handler'.pc = "invalidate"
  BY <1>1 DEF HandlerShape
<1>3. MainIsAsked'
  BY <1>1 DEF IInv, MainIsAsked
<1>4. WorkShape'
  BY <1>1 DEF IInv, WorkShape, Shape, IsFunction
<1>5. ReadsAreFresh'
  BY <1>1 DEF CacheHeld, ReadsAreFresh
<1>6. CacheIsFresh'
  BY <1>1 DEF CacheIsFresh, Nothing
<1>7. ImportsAreFresh' /\ ModulesAreFresh'
  BY <1>2 DEF ImportsAreFresh, ModulesAreFresh, BeforeInvalidate
<1>8. QED BY <1>2, <1>3, <1>4, <1>5, <1>6, <1>7 DEF IInv

LEMMA InvalidatePreserves ==
  ASSUME IInv, Invalidate
  PROVE  IInv'
<1>1. /\ handler.pc = "invalidate" /\ ~ResolverHeld /\ modules' = Nothing
      /\ handler' = [ handler EXCEPT !.pc = "idle" ] /\ HandlerShape /\ work' = work
      /\ moduleCache' = moduleCache /\ docs' = docs /\ disk' = disk
  BY DEF Invalidate, Cleared, IInv
<1>2. HandlerShape' /\ handler'.pc = "idle"
  BY <1>1 DEF HandlerShape
<1>3. MainIsAsked'
  BY <1>1 DEF IInv, MainIsAsked
<1>4. WorkShape'
  BY <1>1 DEF IInv, WorkShape, Shape, IsFunction
<1>5. ~BeforeClear /\ ~BeforeClear'
  BY <1>1, <1>2 DEF BeforeClear
<1>6. ReadsAreFresh' /\ CacheIsFresh'
  BY <1>1, <1>5, TextsStay DEF IInv, ReadsAreFresh, CacheIsFresh
<1>7. ImportsAreFresh'
  BY <1>1 DEF ResolverHeld, ImportsAreFresh
<1>8. ModulesAreFresh'
  BY <1>1 DEF ModulesAreFresh, Nothing
<1>9. QED BY <1>2, <1>3, <1>4, <1>6, <1>7, <1>8 DEF IInv

\* A request begins and ends between two notifications.
LEMMA RequestPreserves ==
  ASSUME IInv, Reply \/ \E f \in Documents : Ask(f)
  PROVE  IInv'
<1>1. PICK state :
        /\ work' = [ work EXCEPT ![Main] = state ] /\ Shape(state)
        /\ state.pc \in { "idle", "parse" } /\ state.got = Nothing
        /\ \/ state.pc = "idle" /\ handler' = [ handler EXCEPT !.pc = "idle" ]
           \/ handler' = [ handler EXCEPT !.pc = "busy" ]
        /\ handler.pc \in { "idle", "busy" }
        /\ moduleCache' = moduleCache /\ modules' = modules /\ docs' = docs /\ disk' = disk
  <2>1. CASE Reply
    <3>1. handler.pc = "busy"
      BY <2>1 DEF Reply, Analyzed, IInv, MainIsAsked
    <3>2. QED BY <2>1, <3>1, RestingIsShaped DEF Reply, Works
  <2>2. CASE \E f \in Documents : Ask(f)
    BY <2>2, RestingIsShaped DEF Ask, Receives
  <2>3. QED BY <2>1, <2>2
<1>2. HandlerShape' /\ handler'.pc \in { "idle", "busy" } /\ (state.pc = "idle" \/ handler'.pc = "busy")
  BY <1>1 DEF IInv, HandlerShape
<1>3. Main \in Threads /\ work = [ t \in Threads |-> work[t] ]
  BY DEF Threads, IInv, WorkShape
<1>4. MainIsAsked'
  BY <1>1, <1>2, <1>3 DEF MainIsAsked
<1>5. SameStage
  BY <1>1, <1>2 DEF SameStage, BeforeClear, BeforeInvalidate
<1>6. WorkShape' /\ ReadsAreFresh' /\ ImportsAreFresh'
  BY <1>1, <1>2, <1>3, <1>4, <1>5, NothingIsFresh, WorkStep
<1>7. QED BY <1>1, <1>2, <1>4, <1>5, <1>6, CachesStay DEF IInv

-----------------------------------------------------------------------------
(* The whole.                                                              *)

LEMMA InitIsFresh == Init => IInv
<1>1. SUFFICES ASSUME Init PROVE IInv
  OBVIOUS
<1>2. WorkShape /\ \A t \in Threads : work[t].pc = "idle"
  BY <1>1, RestingIsShaped, NothingIsFresh DEF Init, WorkShape
<1>3. HandlerShape
  BY <1>1 DEF Init, HandlerShape
<1>4. MainIsAsked /\ ReadsAreFresh /\ ImportsAreFresh
  BY <1>2 DEF MainIsAsked, ReadsAreFresh, ImportsAreFresh, Threads
<1>5. CacheIsFresh /\ ModulesAreFresh
  BY <1>1 DEF Init, CacheIsFresh, ModulesAreFresh, Nothing
<1>6. QED BY <1>2, <1>3, <1>4, <1>5 DEF IInv

LEMMA StepIsFresh == IInv /\ [Next]_vars => IInv'
<1>1. SUFFICES ASSUME IInv, [Next]_vars PROVE IInv'
  OBVIOUS
<1>2. CASE Client
  BY <1>1, <1>2, NotificationPreserves, RequestPreserves DEF Client, DidOpen, DidChange, DidSave, DidClose
<1>3. ASSUME NEW t \in Threads, Work(t) PROVE IInv'
  BY <1>1, <1>3, StartParsePreserves, ReadFilePreserves, RegisterPreserves, ReadTextPreserves,
     FindImportPreserves, ReadImportPreserves, CacheImportPreserves DEF Work
<1>4. CASE Connection
  BY <1>1, <1>3, <1>4, BeginPreserves, ClearPreserves, InvalidatePreserves, RequestPreserves
     DEF Connection, Threads
<1>5. CASE TakeTurn \/ ReturnCancelled \/ ClearGone
  BY <1>1, <1>5, OtherStepPreserves DEF TakeTurn, ReturnCancelled, ClearGone, PassStep
<1>6. CASE Background
  BY <1>1, <1>3, <1>5, <1>6, NextDocumentPreserves, PublishPreserves DEF Background, Threads
<1>7. CASE Silence \/ UNCHANGED vars
  BY <1>1, <1>7, OtherStepPreserves DEF Silence, vars
<1>8. QED BY <1>1, <1>2, <1>4, <1>6, <1>7 DEF Next

\* Whoever was reading while a text changed, nothing parsed from an older text is
\* cached when the notification has been dealt with: beginDiagnosticsPass and
\* parseModuleFilesForPath, for any project and any number of notifications.
THEOREM CachesAreAlwaysFresh == Spec => []CachesAreFresh
<1>1. IInv => CachesAreFresh
  BY DEF IInv, CacheIsFresh, ModulesAreFresh, BeforeClear, BeforeInvalidate, CachesAreFresh
<1>2. QED BY <1>1, InitIsFresh, StepIsFresh, PTL DEF Spec

-----------------------------------------------------------------------------
(* What the newest pass owes.                                              *)

Handled == handler.pc \in { "idle", "busy" }
HandlerStages == { "idle", "busy", "begin", "clear", "invalidate" }

\* The diagnostics a document shows are of the present texts, or cleared.
Judged(f) ==
  LET s == shown[f]
  IN  \/ s.as = "cleared"
      \/ /\ s.as = "judged"
         /\ s.text = Current(f) /\ s.version = Current(f) /\ s.own = CurrentTexts(f[1])
         /\ \A d \in DOMAIN s.imports :
              s.imports[d].texts \in { CurrentTexts(d), RootedTexts(d) }

\* What thread w has parsed and judged so far is of the present texts.
FreshWork(w) ==
  /\ w.pc = "read" => w.dir = w.file[1]
  /\ w.pc \in { "text", "analyze", "resolve" } => w.own = CurrentTexts(w.file[1])
  /\ w.pc \in { "analyze", "resolve" } =>
       /\ w.text = Current(w.file)
       /\ \A d \in DOMAIN w.judged : w.judged[d].texts \in { CurrentTexts(d), RootedTexts(d) }

\* Passes are numbered, and the newest is the last one begun.
PassesAreNumbered ==
  /\ handler.pc \in HandlerStages /\ latest \in Nat
  /\ \A p \in waiting : p.id \in Nat \ {0} /\ p.id <= latest
  /\ running.id \in Nat /\ running.id <= latest /\ (running.id = 0 => running = NoPass)
  /\ handler.pc \in { "clear", "invalidate" } =>
       /\ handler.pass.id = latest /\ handler.pass.open = DOMAIN docs
       /\ running.id < latest /\ \A p \in waiting : p.id < latest
  /\ work[Pass].pc # "idle" => running # NoPass
  /\ DOMAIN docs \subseteq Files /\ DOMAIN shown = Files

PassShape(p) == p \in [ id : {p.id}, open : {p.open}, gone : {p.gone} ]
PassesAreShaped ==
  PassShape(running) /\ PassShape(handler.pass) /\ \A p \in waiting : PassShape(p)

\* The newest pass waits, whatever an older one is still at ...
NewestWaits ==
  /\ running.id < latest
  /\ \E p \in waiting :
       /\ p.id = latest /\ p.open = DOMAIN docs
       /\ \A q \in waiting \ {p} : q.id < latest
\* ... or is at work, and what it has not judged is still ahead of it ...
NewestRuns ==
  /\ running.id = latest /\ running # NoPass /\ \A p \in waiting : p.id < latest
  /\ FreshWork(work[Pass])
  /\ \A f \in DOMAIN docs :
       f \in running.open \/ Judged(f) \/ (work[Pass].pc # "idle" /\ work[Pass].file = f)
\* ... or has ended, and no older pass judges anything any more.
NewestIsDone ==
  /\ running = NoPass \/ running.id < latest
  /\ \A p \in waiting : p.id < latest
  /\ work[Pass].pc = "idle"
  /\ \A f \in DOMAIN docs : Judged(f)

DInv == PassesAreNumbered /\ (Handled => NewestWaits \/ NewestRuns \/ NewestIsDone)

LEMMA JudgedStays ==
  ASSUME docs' = docs, disk' = disk, NEW f
  PROVE  shown'[f] = shown[f] => Judged(f)' = Judged(f)
<1>1. \A g : Current(g)' = Current(g)
  BY TextsStay
<1>2. \A d : CurrentTexts(d)' = CurrentTexts(d) /\ RootedTexts(d)' = RootedTexts(d)
  BY TextsStay
<1>3. QED BY <1>1, <1>2 DEF Judged

LEMMA WorkStaysFresh ==
  ASSUME docs' = docs, disk' = disk, NEW w
  PROVE  FreshWork(w)' = FreshWork(w)
<1>1. \A g : Current(g)' = Current(g)
  BY TextsStay
<1>2. \A d : CurrentTexts(d)' = CurrentTexts(d) /\ RootedTexts(d)' = RootedTexts(d)
  BY TextsStay
<1>3. QED BY <1>1, <1>2 DEF FreshWork

\* What nobody but the other thread, or a handler that is at no notification,
\* has changed.
LEMMA QuietKeeps ==
  ASSUME DInv, UNCHANGED << docs, disk, latest, waiting, running, shown >>,
         work'[Pass] = work[Pass],
         handler' = handler \/ (Handled /\ handler'.pc \in { "idle", "busy" })
  PROVE  DInv'
<1>1. Handled' => Handled
  BY DEF Handled
<1>2. PassesAreNumbered'
  BY DEF DInv, PassesAreNumbered, HandlerStages
<1>3. NewestWaits => NewestWaits'
  BY DEF NewestWaits
<1>4. NewestRuns => NewestRuns'
  BY WorkStaysFresh, JudgedStays DEF NewestRuns
<1>5. NewestIsDone => NewestIsDone'
  BY JudgedStays DEF NewestIsDone
<1>6. QED BY <1>1, <1>2, <1>3, <1>4, <1>5 DEF DInv

\* The pass at work goes on with its document.
LEMMA PassWorks ==
  ASSUME IInv, DInv, NEW state, Works(Pass, state), UNCHANGED << handler, running, shown >>,
         work[Pass].pc # "idle", state.file = work[Pass].file, state.pc # "idle",
         Handled /\ NewestRuns => FreshWork(state)
  PROVE  DInv'
<1>1. /\ work'[Pass] = state /\ UNCHANGED << docs, disk, latest, waiting >>
  BY DEF Works, IInv, WorkShape, Threads
<1>2. PassesAreNumbered' /\ running # NoPass
  BY <1>1 DEF DInv, PassesAreNumbered
<1>3. NewestWaits => NewestWaits'
  BY <1>1 DEF NewestWaits
<1>4. Handled /\ NewestRuns => NewestRuns'
  <2>1. SUFFICES ASSUME Handled, NewestRuns PROVE NewestRuns'
    OBVIOUS
  <2>2. FreshWork(state)'
    BY <1>1, <2>1, WorkStaysFresh
  <2>3. \A f \in DOMAIN docs :
          f \in running.open \/ Judged(f)' \/ (state.pc # "idle" /\ state.file = f)
    BY <1>1, <2>1, JudgedStays DEF NewestRuns
  <2>4. QED BY <1>1, <2>1, <2>2, <2>3 DEF NewestRuns
<1>5. ~NewestIsDone
  BY DEF NewestIsDone
<1>6. Handled' = Handled
  BY DEF Handled
<1>7. QED BY <1>2, <1>3, <1>4, <1>5, <1>6 DEF DInv

\* Fresh caches, past a notification.
LEMMA PastIsFresh ==
  ASSUME IInv, Handled
  PROVE  /\ ReadsAreFresh /\ ~BeforeClear /\ ~BeforeInvalidate
         /\ \A d \in DOMAIN moduleCache : moduleCache[d] = CurrentTexts(d)
         /\ \A d \in DOMAIN modules : modules[d] \in { CurrentTexts(d), RootedTexts(d) }
         /\ \A t \in Threads : work[t].pc = "read" => FreshOwn(work[t].got)
         /\ \A t \in Threads : work[t].pc = "resolve" => FreshImport(work[t].got)
BY DEF Handled, IInv, BeforeClear, BeforeInvalidate, ReadsAreFresh, CacheIsFresh, ImportsAreFresh,
       ModulesAreFresh

\* An import is judged by its texts as they are.
LEMMA JudgingIsFresh ==
  ASSUME NEW w, Shape(w), FreshWork(w), w.pc \in { "analyze", "resolve" }, NEW d, NEW texts,
         texts \in { CurrentTexts(d), RootedTexts(d) }, NEW failed
  PROVE  /\ FreshWork(Judge(w, d, texts, failed))
         /\ Judge(w, d, texts, failed).file = w.file
         /\ Judge(w, d, texts, failed).pc = "analyze"
<1> DEFINE j == Judge(w, d, texts, failed)
           verdict == [ texts |-> texts, failed |-> failed ]
<1>1. /\ j.file = w.file /\ j.pc = "analyze" /\ j.own = w.own /\ j.text = w.text
      /\ j.judged = With(w.judged, d, verdict)
  BY DEF Shape, Judge
<1>2. /\ w.own = CurrentTexts(w.file[1]) /\ w.text = Current(w.file)
      /\ \A x \in DOMAIN w.judged : w.judged[x].texts \in { CurrentTexts(x), RootedTexts(x) }
  BY DEF FreshWork
<1>3. verdict.texts = texts
  OBVIOUS
<1> HIDE DEF j, verdict
<1>4. \A x \in DOMAIN j.judged : j.judged[x].texts \in { CurrentTexts(x), RootedTexts(x) }
  BY <1>1, <1>2, <1>3 DEF With
<1>5. FreshWork(j)
  BY <1>1, <1>2, <1>4 DEF FreshWork
<1>6. QED BY <1>1, <1>5 DEF j

LEMMA StartParseJudges ==
  ASSUME IInv, DInv, StartParse(Pass)
  PROVE  DInv'
<1> DEFINE w == work[Pass]
           d == w.file[1]
<1>1. /\ w.pc = "parse" /\ Shape(w) /\ UNCHANGED << handler, running, shown >>
  BY DEF StartParse, IInv, WorkShape, Threads
<1>2. CASE d \in DOMAIN moduleCache
  <2> DEFINE state == [ w EXCEPT !.pc = "text", !.own = moduleCache[d] ]
  <2>1. Works(Pass, state)
    BY <1>2 DEF StartParse
  <2>2. state.pc = "text" /\ state.file = w.file /\ state.own = moduleCache[d]
    BY <1>1 DEF Shape
  <2> HIDE DEF state
  <2>3. Handled => FreshWork(state)
    BY <1>2, <2>2, PastIsFresh DEF FreshWork
  <2>4. QED BY <1>1, <2>1, <2>2, <2>3, PassWorks
<1>3. CASE d \notin DOMAIN moduleCache
  <2> DEFINE state == [ w EXCEPT !.pc = "read", !.dir = d, !.got = Nothing ]
  <2>1. Works(Pass, state)
    BY <1>3 DEF StartParse
  <2>2. state.pc = "read" /\ state.file = w.file /\ state.dir = d
    BY <1>1 DEF Shape
  <2> HIDE DEF state
  <2>3. FreshWork(state)
    BY <2>2 DEF FreshWork
  <2>4. QED BY <1>1, <2>1, <2>2, <2>3, PassWorks
<1>4. QED BY <1>2, <1>3

LEMMA ReadFileJudges ==
  ASSUME IInv, DInv, ReadFile(Pass)
  PROVE  DInv'
<1> DEFINE w == work[Pass]
           got == With(w.got, NextOf(w), Current(NextOf(w)))
           state == [ w EXCEPT !.got = got ]
<1>1. /\ w.pc = "read" /\ Shape(w) /\ UNCHANGED << handler, running, shown >>
      /\ Works(Pass, state)
  BY DEF ReadFile, IInv, WorkShape, Threads
<1> HIDE DEF got
<1>2. state.pc = "read" /\ state.file = w.file /\ state.dir = w.dir
  BY <1>1 DEF Shape
<1> HIDE DEF state
<1>3. NewestRuns => FreshWork(state)
  BY <1>1, <1>2 DEF FreshWork, NewestRuns
<1>4. QED BY <1>1, <1>2, <1>3, PassWorks

LEMMA RegisterJudges ==
  ASSUME IInv, DInv, Register(Pass)
  PROVE  DInv'
<1> DEFINE w == work[Pass]
           state == [ w EXCEPT !.pc = "text", !.own = w.got ]
<1>1. /\ w.pc = "read" /\ Shape(w) /\ IsFunction(w.got) /\ DOMAIN w.got = FilesOf(w.dir)
      /\ UNCHANGED << handler, running, shown >> /\ Works(Pass, state)
  BY DEF Register, IInv, WorkShape, Threads
<1>2. state.pc = "text" /\ state.file = w.file /\ state.own = w.got
  BY <1>1 DEF Shape
<1> HIDE DEF state
<1>3. Handled /\ NewestRuns => FreshWork(state)
  <2>1. Handled => w.got = CurrentTexts(w.dir)
    BY <1>1, PastIsFresh, WholeIsCurrent DEF Threads
  <2>2. NewestRuns => w.dir = w.file[1]
    BY <1>1 DEF NewestRuns, FreshWork
  <2>3. QED BY <1>2, <2>1, <2>2 DEF FreshWork
<1>4. QED BY <1>1, <1>2, <1>3, PassWorks

LEMMA ReadTextJudges ==
  ASSUME IInv, DInv, ReadText(Pass)
  PROVE  DInv'
<1> DEFINE w == work[Pass]
           todo == IF FailsToParse(w.own) THEN {} ELSE Imports[w.file[1]]
           state == [ w EXCEPT !.pc = "analyze", !.text = Current(w.file), !.judged = Nothing,
                               !.todo = todo ]
<1>1. /\ w.pc = "text" /\ Shape(w) /\ UNCHANGED << handler, running, shown >>
      /\ Works(Pass, state)
  BY DEF ReadText, IInv, WorkShape, Threads
<1> HIDE DEF todo
<1>2. /\ state.pc = "analyze" /\ state.file = w.file /\ state.own = w.own
      /\ state.text = Current(w.file) /\ state.judged = Nothing
  BY <1>1 DEF Shape
<1> HIDE DEF state
<1>3. NewestRuns => FreshWork(state)
  BY <1>1, <1>2 DEF FreshWork, NewestRuns, Nothing
<1>4. QED BY <1>1, <1>2, <1>3, PassWorks

LEMMA FindImportJudges ==
  ASSUME IInv, DInv, FindImport(Pass)
  PROVE  DInv'
<1> DEFINE w == work[Pass]
<1>1. /\ w.pc = "analyze" /\ Shape(w) /\ UNCHANGED << handler, running, shown >>
  BY DEF FindImport, IInv, WorkShape, Threads
<1>2. PICK d \in w.todo :
        IF d \in DOMAIN modules
          THEN Works(Pass, Judge(w, d, modules[d], FALSE))
          ELSE Works(Pass, [ w EXCEPT !.pc = "resolve", !.dir = d, !.got = Nothing ])
  BY DEF FindImport
<1>3. CASE d \in DOMAIN modules
  <2> DEFINE state == Judge(w, d, modules[d], FALSE)
  <2>1. Works(Pass, state)
    BY <1>2, <1>3
  <2>2. state.pc = "analyze" /\ state.file = w.file
    BY <1>1 DEF Shape, Judge
  <2>3. Handled /\ NewestRuns => FreshWork(state)
    BY <1>1, <1>3, PastIsFresh, JudgingIsFresh, ZenonT(60) DEF NewestRuns
  <2> HIDE DEF state
  <2>4. QED BY <1>1, <2>1, <2>2, <2>3, PassWorks
<1>4. CASE d \notin DOMAIN modules
  <2> DEFINE state == [ w EXCEPT !.pc = "resolve", !.dir = d, !.got = Nothing ]
  <2>1. Works(Pass, state)
    BY <1>2, <1>4
  <2>2. /\ state.pc = "resolve" /\ state.file = w.file /\ state.own = w.own
        /\ state.text = w.text /\ state.judged = w.judged
    BY <1>1 DEF Shape
  <2> HIDE DEF state
  <2>3. NewestRuns => FreshWork(state)
    BY <1>1, <2>2 DEF FreshWork, NewestRuns
  <2>4. QED BY <1>1, <2>1, <2>2, <2>3, PassWorks
<1>5. QED BY <1>3, <1>4

LEMMA ReadImportJudges ==
  ASSUME IInv, DInv, ReadImport(Pass)
  PROVE  DInv'
<1> DEFINE w == work[Pass]
           got == With(w.got, NextOf(w), Rooted(NextOf(w)))
           state == [ w EXCEPT !.got = got ]
<1>1. /\ w.pc = "resolve" /\ Shape(w) /\ UNCHANGED << handler, running, shown >>
      /\ Works(Pass, state)
  BY DEF ReadImport, IInv, WorkShape, Threads
<1> HIDE DEF got
<1>2. /\ state.pc = "resolve" /\ state.file = w.file /\ state.own = w.own
      /\ state.text = w.text /\ state.judged = w.judged
  BY <1>1 DEF Shape
<1> HIDE DEF state
<1>3. NewestRuns => FreshWork(state)
  BY <1>1, <1>2 DEF FreshWork, NewestRuns
<1>4. QED BY <1>1, <1>2, <1>3, PassWorks

LEMMA CacheImportJudges ==
  ASSUME IInv, DInv, CacheImport(Pass)
  PROVE  DInv'
<1> DEFINE w == work[Pass]
           state == Judge(w, w.dir, w.got, FailsToParse(w.got))
<1>1. /\ w.pc = "resolve" /\ Shape(w) /\ IsFunction(w.got) /\ DOMAIN w.got = FilesOf(w.dir)
      /\ UNCHANGED << handler, running, shown >> /\ Works(Pass, state)
  BY DEF CacheImport, IInv, WorkShape, Threads
<1>2. state.pc = "analyze" /\ state.file = w.file
  BY <1>1 DEF Shape, Judge
<1>3. Handled /\ NewestRuns => FreshWork(state)
  <2>1. Handled => w.got = RootedTexts(w.dir)
    BY <1>1, PastIsFresh, WholeIsCurrent DEF Threads
  <2>2. QED BY <1>1, <2>1, JudgingIsFresh DEF NewestRuns
<1> HIDE DEF state
<1>4. QED BY <1>1, <1>2, <1>3, PassWorks

\* Whoever asks waits for its own thread alone.
LEMMA RequestJudges ==
  ASSUME IInv, DInv, Reply \/ \E f \in Documents : Ask(f)
  PROVE  DInv'
<1>1. Main \in Threads /\ Pass \in Threads /\ Main # Pass /\ work = [ t \in Threads |-> work[t] ]
      /\ HandlerShape
  BY DEF Threads, Main, Pass, IInv, WorkShape
<1>2. CASE Reply
  <2>1. Handled /\ handler'.pc = "idle"
    BY <1>1, <1>2 DEF Reply, Analyzed, IInv, MainIsAsked, Handled, HandlerShape
  <2>2. UNCHANGED << docs, disk, latest, waiting, running, shown >> /\ work'[Pass] = work[Pass]
    BY <1>1, <1>2 DEF Reply, Works
  <2>3. QED BY <2>1, <2>2, QuietKeeps
<1>3. CASE \E f \in Documents : Ask(f)
  <2>1. Handled /\ handler'.pc = "busy"
    BY <1>1, <1>3 DEF Ask, Receives, Handled, HandlerShape
  <2>2. UNCHANGED << docs, disk, latest, waiting, running, shown >> /\ work'[Pass] = work[Pass]
    BY <1>1, <1>3 DEF Ask, Receives
  <2>3. QED BY <2>1, <2>2, QuietKeeps
<1>4. QED BY <1>2, <1>3

LEMMA MainWorkJudges ==
  ASSUME IInv, DInv, Work(Main)
  PROVE  DInv'
<1>1. Main \in Threads /\ Pass \in Threads /\ Main # Pass /\ work = [ t \in Threads |-> work[t] ]
  BY DEF Threads, Main, Pass, IInv, WorkShape
<1>2. /\ UNCHANGED << docs, disk, latest, waiting, handler, running, shown >>
      /\ \E state : work' = [ work EXCEPT ![Main] = state ]
  BY DEF Work, StartParse, ReadFile, Register, ReadText, FindImport, ReadImport, CacheImport, Works
<1>3. work'[Pass] = work[Pass]
  BY <1>1, <1>2
<1>4. QED BY <1>2, <1>3, QuietKeeps

\* A notification: who has judged has judged an older text.
LEMMA NotificationJudges ==
  ASSUME IInv, DInv, NEW f \in Documents,
         DidOpen(f) \/ DidChange(f) \/ DidSave(f) \/ DidClose(f)
  PROVE  DInv'
<1>1. /\ handler.pc = "idle" /\ HandlerShape
      /\ handler' = [ handler EXCEPT !.pc = "begin" ]
      /\ UNCHANGED << latest, waiting, running, work, shown >>
  BY DEF DidOpen, DidChange, DidSave, DidClose, Receives, Refresh, IInv
<1>2. handler'.pc = "begin"
  BY <1>1 DEF HandlerShape
<1>3. DOMAIN docs' \subseteq DOMAIN docs \cup {f} /\ f \in Files
  BY LangServerAssumption DEF DidOpen, DidChange, DidSave, DidClose, With, Without
<1>4. PassesAreNumbered'
  BY <1>1, <1>2, <1>3 DEF DInv, PassesAreNumbered, HandlerStages
<1>5. QED BY <1>2, <1>4 DEF DInv, Handled

LEMMA BeginJudges ==
  ASSUME IInv, DInv, Begin
  PROVE  DInv'
<1> DEFINE p == [ id |-> latest + 1, open |-> DOMAIN docs, gone |-> marked \ DOMAIN docs ]
<1>1. /\ handler' = [ pc |-> "clear", pass |-> p ] /\ latest' = latest + 1
      /\ UNCHANGED << docs, disk, waiting, running, work, shown >>
  BY DEF Begin
<1>2. p.id = latest + 1 /\ p.open = DOMAIN docs
  OBVIOUS
<1> HIDE DEF p
<1>3. handler'.pc = "clear" /\ handler'.pass = p
  BY <1>1
<1>4. /\ latest \in Nat /\ running.id \in Nat /\ running.id <= latest
      /\ \A x \in waiting : x.id \in Nat \ {0} /\ x.id <= latest
  BY DEF DInv, PassesAreNumbered
<1>5. latest' \in Nat /\ running.id < latest' /\ \A x \in waiting : x.id < latest'
  BY <1>1, <1>4
<1>6. PassesAreNumbered'
  BY <1>1, <1>2, <1>3, <1>4, <1>5 DEF DInv, PassesAreNumbered, HandlerStages
<1>7. QED BY <1>3, <1>6 DEF DInv, Handled

LEMMA ClearJudges ==
  ASSUME IInv, DInv, Clear
  PROVE  DInv'
<1>1. /\ handler.pc = "clear" /\ HandlerShape
      /\ handler' = [ handler EXCEPT !.pc = "invalidate" ]
      /\ UNCHANGED << docs, disk, latest, waiting, running, work, shown >>
  BY DEF Clear, Cleared, IInv
<1>2. handler'.pc = "invalidate" /\ handler'.pass = handler.pass
  BY <1>1 DEF HandlerShape
<1>3. PassesAreNumbered'
  BY <1>1, <1>2 DEF DInv, PassesAreNumbered, HandlerStages
<1>4. QED BY <1>2, <1>3 DEF DInv, Handled

\* The newest pass is on its way, with all the documents there are.
LEMMA InvalidateJudges ==
  ASSUME IInv, DInv, Invalidate
  PROVE  DInv'
<1> DEFINE p == handler.pass
<1>1. /\ handler.pc = "invalidate" /\ HandlerShape
      /\ handler' = [ handler EXCEPT !.pc = "idle" ]
      /\ waiting' = waiting \cup {p}
      /\ UNCHANGED << docs, disk, latest, running, work, shown >>
  BY DEF Invalidate, Cleared, IInv
<1>2. handler'.pc = "idle"
  BY <1>1 DEF HandlerShape
<1>3. /\ p.id = latest /\ p.open = DOMAIN docs /\ latest \in Nat /\ running.id \in Nat
      /\ running.id < latest /\ \A x \in waiting : x.id < latest
  BY <1>1 DEF DInv, PassesAreNumbered
<1> HIDE DEF p
<1>4. p.id \in Nat \ {0} /\ p.id <= latest
  BY <1>3
<1>5. PassesAreNumbered'
  BY <1>1, <1>2, <1>3, <1>4 DEF DInv, PassesAreNumbered, HandlerStages
<1>6. NewestWaits'
  BY <1>1, <1>3 DEF NewestWaits
<1>7. QED BY <1>5, <1>6 DEF DInv

-----------------------------------------------------------------------------
(* The passes' steps.                                                      *)

LEMMA TakeTurnJudges ==
  ASSUME IInv, DInv, TakeTurn
  PROVE  DInv'
<1>1. PICK p \in waiting :
        /\ running = NoPass /\ running' = p /\ waiting' = waiting \ {p}
        /\ UNCHANGED << docs, disk, handler, latest, work, shown >>
  BY DEF TakeTurn
<1>2. work[Pass].pc = "idle" /\ p.id \in Nat \ {0} /\ p.id <= latest /\ latest \in Nat
  BY <1>1 DEF DInv, PassesAreNumbered
<1>3. p # NoPass
  BY <1>2 DEF NoPass
<1>4. PassesAreNumbered'
  BY <1>1, <1>2, <1>3 DEF DInv, PassesAreNumbered, HandlerStages
<1>5. NewestWaits => NewestWaits' \/ NewestRuns'
  <2>1. SUFFICES ASSUME NewestWaits PROVE NewestWaits' \/ NewestRuns'
    OBVIOUS
  <2>2. PICK n \in waiting :
          n.id = latest /\ n.open = DOMAIN docs /\ \A q \in waiting \ {n} : q.id < latest
    BY <2>1 DEF NewestWaits
  <2>3. CASE p = n
    <3>1. \A q \in waiting' : q.id < latest
      BY <1>1, <2>2, <2>3
    <3>2. FreshWork(work[Pass])'
      BY <1>1, <1>2 DEF FreshWork
    <3>3. QED BY <1>1, <1>3, <2>2, <2>3, <3>1, <3>2 DEF NewestRuns
  <2>4. CASE p # n
    BY <1>1, <2>2, <2>4 DEF NewestWaits
  <2>5. QED BY <2>3, <2>4
<1>6. ~NewestRuns
  BY <1>1 DEF NewestRuns
<1>7. NewestIsDone => NewestIsDone'
  BY <1>1, JudgedStays DEF NewestIsDone
<1>8. Handled' = Handled
  BY <1>1 DEF Handled
<1>9. QED BY <1>4, <1>5, <1>6, <1>7, <1>8 DEF DInv

LEMMA ReturnJudges ==
  ASSUME IInv, DInv, ReturnCancelled
  PROVE  DInv'
<1>1. /\ running.id < latest /\ running' = NoPass /\ work[Pass].pc = "idle"
      /\ UNCHANGED << docs, disk, handler, latest, waiting, work, shown >>
  BY DEF ReturnCancelled, PassStep, Cancelled
<1>2. NoPass.id = 0 /\ latest \in Nat /\ running.id \in Nat
  BY DEF NoPass, DInv, PassesAreNumbered
<1>3. 0 < latest
  BY <1>1, <1>2
<1>4. PassesAreNumbered'
  BY <1>1, <1>2, <1>3 DEF DInv, PassesAreNumbered, HandlerStages
<1>5. NewestWaits => NewestWaits'
  BY <1>1, <1>2, <1>3 DEF NewestWaits
<1>6. ~NewestRuns
  BY <1>1, <1>2 DEF NewestRuns
<1>7. NewestIsDone => NewestIsDone'
  BY <1>1, JudgedStays DEF NewestIsDone
<1>8. Handled' = Handled
  BY <1>1 DEF Handled
<1>9. QED BY <1>4, <1>5, <1>6, <1>7, <1>8 DEF DInv

LEMMA NextDocumentJudges ==
  ASSUME IInv, DInv, PassesAreShaped, NextDocument
  PROVE  DInv'
<1>1. PICK f \in running.open :
        /\ running' = [ running EXCEPT !.open = @ \ {f} ]
        /\ work' = [ work EXCEPT ![Pass] = [ Resting EXCEPT !.pc = "parse", !.file = f ] ]
  BY DEF NextDocument
<1>2. /\ running # NoPass /\ work[Pass].pc = "idle" /\ ~(running.id < latest)
      /\ UNCHANGED << docs, disk, handler, latest, waiting, shown >>
  BY DEF NextDocument, PassStep, Cancelled
<1>3. /\ running.id \in Nat /\ latest \in Nat /\ running.id <= latest
      /\ running.id # 0
  BY <1>2 DEF DInv, PassesAreNumbered
<1>4. running.id = latest
  BY <1>2, <1>3
<1> DEFINE state == [ Resting EXCEPT !.pc = "parse", !.file = f ]
<1>5. state.pc = "parse" /\ state.file = f /\ work'[Pass] = state
  BY <1>1 DEF Resting, IInv, WorkShape, Threads
<1> HIDE DEF state
<1>6. running'.id = running.id /\ running' # NoPass /\ running'.open = running.open \ {f}
  BY <1>1, <1>3 DEF NoPass, PassesAreShaped, PassShape
<1>7. PassesAreNumbered'
  BY <1>2, <1>3, <1>6 DEF DInv, PassesAreNumbered, HandlerStages
<1>8. ~NewestWaits /\ ~NewestIsDone
  BY <1>2, <1>3, <1>4 DEF NewestWaits, NewestIsDone
<1>9. NewestRuns => NewestRuns'
  <2>1. SUFFICES ASSUME NewestRuns PROVE NewestRuns'
    OBVIOUS
  <2>2. FreshWork(state)'
    BY <1>5 DEF FreshWork
  <2>3. \A g \in DOMAIN docs : g \in running.open \/ Judged(g)
    BY <1>2, <2>1 DEF NewestRuns
  <2>4. \A g \in DOMAIN docs :
          g \in running'.open \/ Judged(g)' \/ (state.pc # "idle" /\ state.file = g)
    BY <1>2, <1>5, <1>6, <2>3, JudgedStays
  <2>5. QED BY <1>2, <1>5, <1>6, <2>1, <2>2, <2>4 DEF NewestRuns
<1>10. Handled' = Handled
  BY <1>2 DEF Handled
<1>11. QED BY <1>7, <1>8, <1>9, <1>10 DEF DInv

LEMMA PublishJudges ==
  ASSUME IInv, DInv, Publish
  PROVE  DInv'
<1> DEFINE w == work[Pass]
           verdict == [ as |-> "judged", own |-> w.own, text |-> w.text,
                        imports |-> w.judged, version |-> Current(w.file) ]
<1>1. /\ w.pc = "analyze" /\ shown' = [ shown EXCEPT ![w.file] = verdict ]
      /\ work' = [ work EXCEPT ![Pass] = Resting ]
      /\ UNCHANGED << docs, disk, handler, latest, waiting, running >>
  BY DEF Publish, Analyzed, Works
<1>2. verdict.as = "judged" /\ verdict.own = w.own /\ verdict.text = w.text
      /\ verdict.imports = w.judged /\ verdict.version = Current(w.file)
  OBVIOUS
<1> HIDE DEF verdict
<1>3. work'[Pass] = Resting /\ Resting.pc = "idle"
  BY <1>1 DEF IInv, WorkShape, Threads, Resting
<1>4. /\ DOMAIN shown = Files /\ DOMAIN docs \subseteq Files /\ running # NoPass
  BY <1>1 DEF DInv, PassesAreNumbered
<1>5. PassesAreNumbered'
  BY <1>1, <1>3, <1>4 DEF DInv, PassesAreNumbered, HandlerStages
<1>6. NewestWaits => NewestWaits'
  BY <1>1 DEF NewestWaits
<1>7. ~NewestIsDone
  BY <1>1 DEF NewestIsDone
<1>8. NewestRuns => NewestRuns'
  <2>1. SUFFICES ASSUME NewestRuns PROVE NewestRuns'
    OBVIOUS
  <2>2. FreshWork(work[Pass])'
    BY <1>3 DEF FreshWork
  <2>3. ASSUME NEW f \in DOMAIN docs, f = w.file PROVE Judged(f)'
    <3>1. shown'[f] = verdict
      BY <1>1, <1>4, <2>3
    <3>2. /\ w.own = CurrentTexts(f[1]) /\ w.text = Current(f)
          /\ \A d \in DOMAIN w.judged : w.judged[d].texts \in { CurrentTexts(d), RootedTexts(d) }
      BY <1>1, <2>1, <2>3 DEF NewestRuns, FreshWork
    <3>3. Current(f)' = Current(f)
      BY <1>1, TextsStay
    <3>4. \A d : CurrentTexts(d)' = CurrentTexts(d) /\ RootedTexts(d)' = RootedTexts(d)
      BY <1>1, TextsStay
    <3>5. QED BY <1>2, <2>3, <3>1, <3>2, <3>3, <3>4 DEF Judged
  <2>4. ASSUME NEW f \in DOMAIN docs, f # w.file PROVE f \in running.open \/ Judged(f)'
    <3>1. shown'[f] = shown[f]
      BY <1>1, <1>4, <2>4
    <3>2. f \in running.open \/ Judged(f)
      BY <2>1, <2>4 DEF NewestRuns
    <3>3. QED BY <1>1, <3>1, <3>2, JudgedStays
  <2>5. QED BY <1>1, <2>1, <2>2, <2>3, <2>4 DEF NewestRuns
<1>9. Handled' = Handled
  BY <1>1 DEF Handled
<1>10. QED BY <1>5, <1>6, <1>7, <1>8, <1>9 DEF DInv

\* The pass that has judged them all is the newest, or nobody asks for its own.
LEMMA ClearGoneJudges ==
  ASSUME IInv, DInv, ClearGone
  PROVE  DInv'
<1>1. /\ running.open = {} /\ running' = NoPass /\ work[Pass].pc = "idle" /\ running # NoPass
      /\ shown' = [ f \in Files |->
                     IF f \in running.gone THEN [ as |-> "cleared" ] ELSE shown[f] ]
      /\ UNCHANGED << docs, disk, handler, latest, waiting, work >>
  BY DEF ClearGone, PassStep
<1>2. /\ NoPass.id = 0 /\ latest \in Nat /\ running.id \in Nat /\ running.id <= latest
      /\ running.id # 0 /\ DOMAIN docs \subseteq Files
  BY <1>1 DEF NoPass, DInv, PassesAreNumbered
<1>3. 0 < latest
  BY <1>2
<1>4. PassesAreNumbered'
  <2>1. DOMAIN shown' = Files
    BY <1>1
  <2>2. QED BY <1>1, <1>2, <1>3, <2>1 DEF DInv, PassesAreNumbered, HandlerStages
<1>5. ASSUME NEW f \in DOMAIN docs, Judged(f) PROVE Judged(f)'
  <2>1. CASE f \in running.gone
    <3>1. shown'[f].as = "cleared"
      BY <1>1, <1>2, <2>1
    <3>2. QED BY <3>1 DEF Judged
  <2>2. CASE f \notin running.gone
    <3>1. shown'[f] = shown[f]
      BY <1>1, <1>2, <2>2
    <3>2. QED BY <1>1, <1>5, <3>1, JudgedStays
  <2>3. QED BY <2>1, <2>2
<1>6. NewestWaits => NewestWaits'
  BY <1>1, <1>2, <1>3 DEF NewestWaits
<1>7. NewestRuns \/ NewestIsDone => NewestIsDone'
  BY <1>1, <1>5 DEF NewestRuns, NewestIsDone
<1>8. Handled' = Handled
  BY <1>1 DEF Handled
<1>9. QED BY <1>4, <1>6, <1>7, <1>8 DEF DInv

-----------------------------------------------------------------------------
(* Every step judges.                                                      *)

LEMMA InitJudges == Init => DInv /\ PassesAreShaped
<1>1. SUFFICES ASSUME Init PROVE DInv /\ PassesAreShaped
  OBVIOUS
<1>2. NoPass.id = 0 /\ PassShape(NoPass)
  BY DEF NoPass, PassShape
<1>3. handler.pc = "idle" /\ handler.pass = NoPass /\ waiting = {} /\ running = NoPass
  BY <1>1 DEF Init
<1>4. DOMAIN docs = {} /\ DOMAIN shown = Files /\ work[Pass].pc = "idle" /\ latest = 0
  BY <1>1 DEF Init, Nothing, Threads, Resting
<1>5. PassesAreShaped
  BY <1>2, <1>3 DEF PassesAreShaped
<1>6. PassesAreNumbered /\ NewestIsDone
  BY <1>2, <1>3, <1>4 DEF PassesAreNumbered, HandlerStages, NewestIsDone
<1>7. QED BY <1>5, <1>6 DEF DInv

LEMMA ShapesStay == IInv /\ PassesAreShaped /\ [Next]_vars => PassesAreShaped'
<1>1. SUFFICES ASSUME IInv, PassesAreShaped, [Next]_vars PROVE PassesAreShaped'
  OBVIOUS
<1>2. ASSUME running' = running, waiting' = waiting, handler'.pass = handler.pass
      PROVE  PassesAreShaped'
  BY <1>1, <1>2 DEF PassesAreShaped, PassShape
<1>3. HandlerShape
  BY <1>1 DEF IInv
<1>4. CASE Client
  <2>1. /\ running' = running /\ waiting' = waiting
        /\ \E pc : handler' = [ handler EXCEPT !.pc = pc ]
    BY <1>4 DEF Client, DidOpen, DidChange, DidSave, DidClose, Refresh, Ask
  <2>2. handler'.pass = handler.pass
    BY <1>3, <2>1 DEF HandlerShape
  <2>3. QED BY <1>2, <2>1, <2>2
<1>5. CASE Begin
  <2> DEFINE p == [ id |-> latest + 1, open |-> DOMAIN docs, gone |-> marked \ DOMAIN docs ]
  <2>1. PassShape(p)
    BY DEF PassShape
  <2> HIDE DEF p
  <2>2. handler'.pass = p /\ running' = running /\ waiting' = waiting
    BY <1>5 DEF Begin, p
  <2>3. QED BY <1>1, <2>1, <2>2 DEF PassesAreShaped, PassShape
<1>6. CASE Clear \/ Reply
  <2>1. /\ running' = running /\ waiting' = waiting
        /\ \E pc : handler' = [ handler EXCEPT !.pc = pc ]
    BY <1>6 DEF Clear, Cleared, Reply, Works
  <2>2. handler'.pass = handler.pass
    BY <1>3, <2>1 DEF HandlerShape
  <2>3. QED BY <1>2, <2>1, <2>2
<1>7. CASE Invalidate
  <2>1. /\ running' = running /\ waiting' = waiting \cup {handler.pass}
        /\ handler' = [ handler EXCEPT !.pc = "idle" ]
    BY <1>7 DEF Invalidate, Cleared
  <2>2. handler'.pass = handler.pass
    BY <1>3, <2>1 DEF HandlerShape
  <2>3. QED BY <1>1, <2>1, <2>2 DEF PassesAreShaped, PassShape
<1>8. ASSUME NEW t \in Threads, Work(t) PROVE PassesAreShaped'
  <2>1. UNCHANGED << handler, running, waiting >>
    BY <1>8 DEF Work, StartParse, ReadFile, Register, ReadText, FindImport, ReadImport,
                CacheImport, Works
  <2>2. QED BY <1>2, <2>1
<1>9. CASE TakeTurn
  <2>1. PICK p \in waiting : running' = p /\ waiting' = waiting \ {p} /\ handler' = handler
    BY <1>9 DEF TakeTurn
  <2>2. QED BY <1>1, <2>1 DEF PassesAreShaped, PassShape
<1>10. CASE ReturnCancelled \/ ClearGone
  <2>1. running' = NoPass /\ UNCHANGED << handler, waiting >>
    BY <1>10 DEF ReturnCancelled, ClearGone, PassStep
  <2>2. PassShape(NoPass)
    BY DEF NoPass, PassShape
  <2>3. QED BY <1>1, <2>1, <2>2 DEF PassesAreShaped, PassShape
<1>11. CASE NextDocument
  <2>1. PICK f : running' = [ running EXCEPT !.open = @ \ {f} ]
    BY <1>11 DEF NextDocument
  <2>2. UNCHANGED << handler, waiting >>
    BY <1>11 DEF NextDocument, PassStep
  <2>3. PassShape(running')
    BY <1>1, <2>1 DEF PassesAreShaped, PassShape
  <2>4. QED BY <1>1, <2>2, <2>3 DEF PassesAreShaped, PassShape
<1>12. CASE Publish \/ Silence \/ UNCHANGED vars
  <2>1. UNCHANGED << handler, running, waiting >>
    BY <1>12 DEF Publish, Works, Silence, vars
  <2>2. QED BY <1>2, <2>1
<1>13. QED
  BY <1>1, <1>4, <1>5, <1>6, <1>7, <1>8, <1>9, <1>10, <1>11, <1>12
     DEF Next, Connection, Background, Threads

LEMMA StepJudges == IInv /\ DInv /\ PassesAreShaped /\ [Next]_vars => DInv'
<1>1. SUFFICES ASSUME IInv, DInv, PassesAreShaped, [Next]_vars PROVE DInv'
  OBVIOUS
<1>2. CASE Client
  BY <1>1, <1>2, NotificationJudges, RequestJudges DEF Client
<1>3. CASE Work(Pass)
  BY <1>1, <1>3, StartParseJudges, ReadFileJudges, RegisterJudges, ReadTextJudges,
     FindImportJudges, ReadImportJudges, CacheImportJudges DEF Work
<1>4. CASE Connection
  BY <1>1, <1>4, BeginJudges, ClearJudges, InvalidateJudges, RequestJudges, MainWorkJudges
     DEF Connection
<1>5. CASE Background
  BY <1>1, <1>3, <1>5, TakeTurnJudges, ReturnJudges, NextDocumentJudges, PublishJudges,
     ClearGoneJudges DEF Background
<1>6. CASE Silence \/ UNCHANGED vars
  BY <1>1, <1>6, QuietKeeps DEF Silence, vars
<1>7. QED BY <1>1, <1>2, <1>4, <1>5, <1>6 DEF Next

\* runDiagnosticsPass and its cancellation: when everything has settled, an open
\* document shows the diagnostics of the present texts, its own, its module's and
\* those of the modules it imports, unless a late pass has cleared them; for any
\* project, whatever notifications and requests the passes overlapped with.
THEOREM LatestIsAlwaysJudged == Spec => []LatestIsJudged
<1>1. DInv => LatestIsJudged
  <2>1. SUFFICES ASSUME DInv, Settled PROVE \A f \in DOMAIN docs : Judged(f)
    BY DEF LatestIsJudged, Judged, Current
  <2>2. Handled /\ waiting = {} /\ running = NoPass
    BY <2>1 DEF Settled, Handled
  <2>3. QED BY <2>1, <2>2 DEF DInv, NewestWaits, NewestRuns, NewestIsDone
<1>2. Init => IInv /\ DInv /\ PassesAreShaped
  BY InitIsFresh, InitJudges
<1>3. IInv /\ DInv /\ PassesAreShaped /\ [Next]_vars => IInv' /\ DInv' /\ PassesAreShaped'
  BY StepIsFresh, StepJudges, ShapesStay
<1>4. QED BY <1>1, <1>2, <1>3, PTL DEF Spec

-----------------------------------------------------------------------------
(***************************************************************************)
(* An open document's text, for any documents and whatever is typed: the   *)
(* server always has the text the editor has, laying it out leaves what    *)
(* zirric fmt would write, and the diff of zirric fmt --diff is one.       *)
(*                                                                         *)
(* Three counts of places must agree: the editor's, the protocol library's *)
(* and the server's own.  And a text is its lines put together, so what    *)
(* two texts have alike, line by line, at either end may stay; and a diff  *)
(* shows either text whole, whichever of the two goes on at each step, so  *)
(* that each hunk has its place and nothing is lost in between.            *)
(***************************************************************************)

-----------------------------------------------------------------------------
(* What holds step by step.                                                *)

\* A set of natural numbers has a least.
LEMMA Least ==
  ASSUME NEW S \in SUBSET Nat, S # {}
  PROVE  \E m \in S : \A n \in S : m <= n
<1> DEFINE R == OpToRel(<, Nat)
<1>1. IsWellFoundedOn(R, Nat)
  BY NatLessThanWellFounded
<1>2. \A x, y \in Nat : x < y => << x, y >> \in R
  BY DEF OpToRel
<1> HIDE DEF R
<1>3. PICK m \in S : \A n \in S : << n, m >> \notin R
  BY <1>1, WFMin
<1>4. \A n \in S : n \in Nat
  OBVIOUS
<1> QED
  <2> SUFFICES ASSUME NEW n \in S PROVE m <= n
    OBVIOUS
  <2>1. ~(n < m)
    BY <1>2, <1>3, <1>4
  <2> QED
    BY <1>4, <2>1

\* A function can be computed step by step.
\* What follows what, of elements of T, along a sequence of N.
Steps(N, T) == [(1 .. N) \X T -> T]
Computes(f, N, T, base, step) ==
  /\ f \in [0 .. N -> T]
  /\ \A n \in 0 .. N : f[n] = IF n = 0 THEN base ELSE step[<< n, f[n - 1] >>]

\* A function that computes along a sequence exists.
LEMMA Computed ==
  ASSUME NEW N \in Nat, NEW T, NEW base \in T, NEW step \in Steps(N, T)
  PROVE  \E f : Computes(f, N, T, base, step)
<1>0. step \in [(1 .. N) \X T -> T]
  BY DEF Steps
<1> DEFINE Solves(f, k) ==
             /\ f \in [0 .. k -> T]
             /\ \A n \in 0 .. k : f[n] = IF n = 0 THEN base ELSE step[<< n, f[n - 1] >>]
           Bad == {k \in 0 .. N : ~\E f : Solves(f, k)}
<1>1. SUFFICES Bad = {}
  <2>1. N \in 0 .. N /\ \A f : Solves(f, N) <=> Computes(f, N, T, base, step)
    BY DEF Computes
  <2> QED
    BY <2>1
<1>2. SUFFICES ASSUME Bad # {} PROVE FALSE
  OBVIOUS
<1>3. PICK m \in Bad : \A n \in Bad : m <= n
  <2>1. Bad \in SUBSET Nat
    OBVIOUS
  <2> QED
    BY <1>2, <2>1, Least
<1>4. m # 0
  <2>1. Solves([n \in 0 .. 0 |-> base], 0)
    OBVIOUS
  <2> QED BY <2>1, <1>3
<1>5. m - 1 \in 0 .. N /\ m - 1 \notin Bad
  BY <1>3, <1>4
<1>6. PICK f : Solves(f, m - 1)
  BY <1>5
<1> DEFINE g == [n \in 0 .. m |-> IF n = m THEN step[<< m, f[m - 1] >>] ELSE f[n]]
<1>7. f[m - 1] \in T /\ m \in 1 .. N
  BY <1>3, <1>4, <1>6
<1>8. \A n \in 0 .. m : n # m => n \in 0 .. m - 1 /\ (n # 0 => n - 1 \in 0 .. m - 1)
  BY <1>7
<1>9. Solves(g, m)
  <2>1. ASSUME NEW n \in 0 .. m
        PROVE  g[n] \in T /\ g[n] = IF n = 0 THEN base ELSE step[<< n, g[n - 1] >>]
    <3>1. CASE n = m
      <4>1. n # 0 /\ g[n] = step[<< m, f[m - 1] >>] /\ g[n - 1] = f[m - 1]
        BY <3>1, <1>7
      <4>2. << m, f[m - 1] >> \in (1 .. N) \X T
        BY <1>7
      <4> QED
        BY <3>1, <4>1, <4>2, <1>0
    <3>2. CASE n # m
      <4>1. g[n] = f[n] /\ f[n] \in T
        BY <3>2, <1>6, <1>8
      <4>2. CASE n = 0
        BY <4>1, <4>2, <1>6, <1>8, <3>2
      <4>3. CASE n # 0
        <5>1. n - 1 \in 0 .. m /\ n - 1 # m
          BY <4>3, <3>2
        <5>2. g[n - 1] = f[n - 1]
          BY <5>1
        <5> QED
          BY <4>1, <4>3, <5>2, <1>6, <1>8, <3>2
      <4> QED
        BY <4>2, <4>3
    <3> QED
      BY <3>1, <3>2
  <2>2. g = [n \in 0 .. m |-> g[n]]
    OBVIOUS
  <2> HIDE DEF g
  <2> QED
    BY <2>1, <2>2
<1>10. m \in 0 .. N /\ ~\E h : Solves(h, m)
  BY <1>3
<1> QED
  BY <1>9, <1>10

\* What holds of zero, and of a number if of the one before, holds of all.
LEMMA Upward ==
  ASSUME NEW N \in Nat, NEW S, 0 \in S, \A n \in 1 .. N : n - 1 \in S => n \in S
  PROVE  \A n \in 0 .. N : n \in S
<1> DEFINE Bad == { n \in 0 .. N : n \notin S }
<1> SUFFICES ASSUME Bad # {} PROVE FALSE
  OBVIOUS
<1>1. PICK m \in Bad : \A n \in Bad : m <= n
  <2>1. Bad \in SUBSET Nat
    OBVIOUS
  <2> QED
    BY <2>1, Least
<1>2. m \in 1 .. N /\ m \notin S
  BY <1>1
<1>3. m - 1 \in 0 .. N /\ m - 1 \notin Bad
  BY <1>1, <1>2
<1> QED
  BY <1>2, <1>3

\* The largest of some numbers is one of them.
LEMMA Largest ==
  ASSUME NEW N \in Nat, NEW S \in SUBSET (0 .. N), S # {}
  PROVE  Max(S) \in S /\ \A n \in S : n <= Max(S)
<1> DEFINE D == { N - n : n \in S }
<1>0. \A n \in S : n \in 0 .. N /\ N - n \in Nat
  OBVIOUS
<1>1. D \in SUBSET Nat /\ D # {}
  <2>1. PICK n \in S : TRUE
    OBVIOUS
  <2>2. N - n \in D
    OBVIOUS
  <2> QED
    BY <1>0, <2>2
<1>2. PICK d \in D : \A e \in D : d <= e
  BY <1>1, Least
<1>3. PICK m \in S : d = N - m
  BY <1>2
<1>4. \A n \in S : m >= n
  <2> TAKE n \in S
  <2>1. N - m <= N - n
    BY <1>2, <1>3
  <2> QED
    BY <2>1
<1>5. \E x \in S : \A y \in S : x >= y
  BY <1>3, <1>4
<1>6. Max(S) \in S /\ \A y \in S : Max(S) >= y
  BY <1>5 DEF Max
<1> QED
  BY <1>6

\* A number of some that none exceeds is their largest.
LEMMA LargestIs ==
  ASSUME NEW N \in Nat, NEW S \in SUBSET (0 .. N), NEW m \in S, \A n \in S : n <= m
  PROVE  Max(S) = m
<1>1. Max(S) \in S /\ m <= Max(S)
  BY Largest
<1>2. \A n \in S : n \in Int /\ n <= m
  OBVIOUS
<1> DEFINE M == Max(S)
<1> HIDE DEF M
<1>3. M \in S /\ m <= M
  BY <1>1 DEF M
<1>4. M = m
  BY <1>2, <1>3
<1> QED
  BY <1>4 DEF M

\* The smallest of some numbers is one of them.
LEMMA Smallest ==
  ASSUME NEW S \in SUBSET Nat, S # {}
  PROVE  Min(S) \in S /\ \A n \in S : Min(S) <= n
<1>1. PICK m \in S : \A n \in S : m <= n
  BY Least
<1>2. \E x \in S : \A y \in S : x =< y
  BY <1>1
<1> QED
  BY <1>2 DEF Min

\* The smaller of two numbers, and the larger.
LEMMA OfTwo ==
  ASSUME NEW a \in Nat, NEW b \in Nat
  PROVE  /\ Min({ a, b }) = IF a <= b THEN a ELSE b
         /\ Max({ a, b }) = IF a <= b THEN b ELSE a
<1> DEFINE S == { a, b }
<1>1. Min(S) \in S /\ \A n \in S : Min(S) <= n
  <2>1. S \in SUBSET Nat /\ S # {}
    OBVIOUS
  <2> QED
    BY <2>1, Smallest
<1>2. Max(S) = IF a <= b THEN b ELSE a
  <2> DEFINE N == a + b
  <2>1. S \in SUBSET (0 .. N) /\ N \in Nat
    OBVIOUS
  <2>2. CASE a <= b
    <3>1. b \in S /\ \A n \in S : n <= b
      BY <2>2
    <3> QED
      BY <2>1, <2>2, <3>1, LargestIs
  <2>3. CASE ~(a <= b)
    <3>1. a \in S /\ \A n \in S : n <= a
      BY <2>3
    <3> QED
      BY <2>1, <2>3, <3>1, LargestIs
  <2> QED
    BY <2>2, <2>3
<1> QED
  BY <1>1, <1>2

-----------------------------------------------------------------------------
(* A text and its places.                                                  *)

\* What is known of the documents and the fragments.
LEMMA EditingConstants ==
  /\ Newline \in Characters /\ Fragments \subseteq Seq(Characters)
  /\ \A s \in Starts :
       /\ s.text \in Seq(Characters) /\ s.edits \in Nat
       /\ s.path \in Seq(STRING) /\ s.path # << >> /\ Last(s.path) \in Sources
       /\ s.excludes \subseteq Seq([ deep : BOOLEAN, names : SUBSET STRING ])
  /\ DiffContext \in Nat
BY EditingAssumption, DiffContextAssumption

\* A sequence has a length, and a place for each number up to it.
LEMMA SeqShape ==
  ASSUME NEW T, NEW s \in Seq(T)
  PROVE  Len(s) \in Nat /\ DOMAIN s = 1 .. Len(s) /\ \A k \in 1 .. Len(s) : s[k] \in T
OBVIOUS

\* A stretch of a sequence.
LEMMA Stretch ==
  ASSUME NEW T, NEW s \in Seq(T), NEW m \in Nat, NEW n \in Nat, 1 <= m, m <= n + 1, n <= Len(s)
  PROVE  /\ SubSeq(s, m, n) \in Seq(T) /\ Len(SubSeq(s, m, n)) = n - m + 1
         /\ \A i \in 1 .. n - m + 1 : SubSeq(s, m, n)[i] = s[m + i - 1]
<1>1. m \in Int /\ n \in Int /\ \A i \in m .. n : s[i] \in T
  OBVIOUS
<1>2. CASE m <= n
  BY <1>1, <1>2, SubSeqProperties
<1>3. CASE m = n + 1
  BY <1>1, <1>3, SubSeqProperties
<1> QED
  BY <1>2, <1>3

\* A stretch with one more at its end.
LEMMA LongerStretch ==
  ASSUME NEW T, NEW s \in Seq(T), NEW m \in Nat, NEW n \in Nat, 1 <= m, m <= n, n <= Len(s)
  PROVE  SubSeq(s, m, n) = Append(SubSeq(s, m, n - 1), s[n])
<1> DEFINE a == SubSeq(s, m, n)
           b == SubSeq(s, m, n - 1)
<1>1. a \in Seq(T) /\ Len(a) = n - m + 1 /\ \A i \in 1 .. n - m + 1 : a[i] = s[m + i - 1]
  BY Stretch
<1>2. b \in Seq(T) /\ Len(b) = n - m /\ \A i \in 1 .. n - m : b[i] = s[m + i - 1]
  <2>1. n - 1 \in Nat /\ m <= (n - 1) + 1 /\ n - 1 <= Len(s) /\ (n - 1) - m + 1 = n - m
    OBVIOUS
  <2> HIDE DEF b
  <2>2. b = SubSeq(s, m, n - 1)
    BY DEF b
  <2> QED
    BY <2>1, <2>2, Stretch
<1>3. s[n] \in T
  OBVIOUS
<1> DEFINE c == Append(b, s[n])
<1> HIDE DEF a, b
<1>4. c \in Seq(T) /\ Len(c) = n - m + 1 /\ \A i \in 1 .. n - m + 1 : c[i] = IF i <= n - m THEN b[i] ELSE s[n]
  BY <1>2, <1>3
<1> HIDE DEF c
<1>5. \A i \in 1 .. n - m + 1 : a[i] = c[i]
  <2> TAKE i \in 1 .. n - m + 1
  <2>1. CASE i <= n - m
    BY <2>1, <1>1, <1>2, <1>4
  <2>2. CASE i = n - m + 1
    <3>1. m + i - 1 = n /\ ~(i <= n - m)
      BY <2>2
    <3>2. a[i] = s[n]
      BY <3>1, <1>1
    <3>3. c[i] = s[n]
      BY <3>1, <1>4
    <3> QED
      BY <3>2, <3>3
  <2> QED
    BY <2>1, <2>2
<1>6. a = c
  BY <1>1, <1>4, <1>5, SeqEqual
<1> QED
  BY <1>6 DEF a, b, c

\* The units of a text are counted one character after the other.
UnitsFollow(f, text) ==
  /\ f \in [ 0 .. Len(text) -> Nat ] /\ f[0] = 0
  /\ \A n \in 1 .. Len(text) : f[n] = f[n - 1] + Units(text[n])
LEMMA UnitsCounted ==
  ASSUME NEW text \in Seq(Characters)
  PROVE  \E f : UnitsFollow(f, text) /\ UnitsOf(text) = f[Len(text)]
<1> DEFINE N == Len(text)
           Following(n, before) == before + Units(text[n])
           Counts(g) == g = [ n \in 0 .. N |-> IF n = 0 THEN 0 ELSE Following(n, g[n - 1]) ]
           step == [ x \in (1 .. N) \X Nat |-> Following(x[1], x[2]) ]
           f == CHOOSE g : Counts(g)
<1>1. N \in Nat
  OBVIOUS
<1>2. \A n, before : before \in Nat => Following(n, before) \in Nat
  BY DEF Units
<1>3. UnitsOf(text) = f[N]
  BY DEF UnitsOf
<1> HIDE DEF N, Following
<1>4. step \in Steps(N, Nat) /\ \A n \in 1 .. N, before \in Nat : step[<< n, before >>] = Following(n, before)
  BY <1>2 DEF Steps
<1> HIDE DEF step
<1>5. PICK g : Computes(g, N, Nat, 0, step)
  <2>1. 0 \in Nat
    OBVIOUS
  <2> QED
    BY <2>1, <1>1, <1>4, Computed
<1>6. Counts(g)
  <2>1. g \in [ 0 .. N -> Nat ] /\ \A n \in 0 .. N : g[n] = IF n = 0 THEN 0 ELSE step[<< n, g[n - 1] >>]
    BY <1>5 DEF Computes
  <2>2. \A n \in 0 .. N : g[n] = IF n = 0 THEN 0 ELSE Following(n, g[n - 1])
    <3> TAKE n \in 0 .. N
    <3>1. CASE n # 0
      <4>1. n \in 1 .. N /\ n - 1 \in 0 .. N
        BY <1>1, <3>1
      <4> QED
        BY <2>1, <3>1, <4>1, <1>4
    <3> QED
      BY <2>1, <3>1
  <2> QED
    BY <2>1, <2>2
<1>7. Counts(f)
  BY <1>6
<1> HIDE DEF f
<1>8. f = [ n \in 0 .. N |-> f[n] ] /\ f[0] = 0 /\ \A n \in 1 .. N : f[n] = Following(n, f[n - 1])
  BY <1>1, <1>7
<1>9. \A n \in 0 .. N : f[n] \in Nat
  <2> DEFINE S == { n \in 0 .. N : f[n] \in Nat }
  <2>1. 0 \in S /\ \A n \in 1 .. N : n - 1 \in S => n \in S
    BY <1>1, <1>2, <1>8
  <2>2. \A n \in 0 .. N : n \in S
    <3> HIDE DEF S
    <3> QED
      BY <1>1, <2>1, Upward
  <2> QED
    BY <2>2
<1> QED
  BY <1>3, <1>8, <1>9 DEF UnitsFollow, N, Following

\* So are those of a longer text.
LEMMA UnitsOfMore ==
  ASSUME NEW text \in Seq(Characters), NEW character \in Characters
  PROVE  UnitsOf(text) \in Nat /\ UnitsOf(Append(text, character)) = UnitsOf(text) + Units(character)
<1> DEFINE longer == Append(text, character)
           N == Len(text)
<1>1. /\ longer \in Seq(Characters) /\ Len(longer) = N + 1 /\ N \in Nat /\ longer[N + 1] = character
      /\ \A n \in 1 .. N : longer[n] = text[n]
  OBVIOUS
<1>2. PICK f : UnitsFollow(f, text) /\ UnitsOf(text) = f[N]
  BY UnitsCounted
<1> HIDE DEF longer
<1>3. PICK g : UnitsFollow(g, longer) /\ UnitsOf(longer) = g[N + 1]
  BY <1>1, UnitsCounted
<1> HIDE DEF N
<1>4. /\ f \in [ 0 .. N -> Nat ] /\ f[0] = 0
      /\ \A n \in 1 .. N : f[n] = f[n - 1] + Units(text[n])
  BY <1>2 DEF UnitsFollow, N
<1>5. /\ g[0] = 0 /\ \A n \in 1 .. N + 1 : g[n] = g[n - 1] + Units(longer[n])
  BY <1>1, <1>3 DEF UnitsFollow
<1>6. \A n \in 0 .. N : g[n] = f[n]
  <2> DEFINE S == { n \in 0 .. N : g[n] = f[n] }
  <2>1. 0 \in S /\ \A n \in 1 .. N : n - 1 \in S => n \in S
    BY <1>1, <1>4, <1>5
  <2>2. \A n \in 0 .. N : n \in S
    <3> HIDE DEF S
    <3> QED
      BY <1>1, <2>1, Upward
  <2> QED
    BY <2>2
<1>7. g[N + 1] = g[N] + Units(character)
  BY <1>1, <1>5
<1> QED
  BY <1>1, <1>2, <1>3, <1>4, <1>6, <1>7 DEF longer

\* A text of no characters has no units.
LEMMA NoUnits == UnitsOf(<< >>) = 0
<1>1. << >> \in Seq(Characters) /\ Len(<< >>) = 0
  OBVIOUS
<1> QED
  BY <1>1, UnitsCounted DEF UnitsFollow

\* The server counts a place one character after the other.
Positions == [ line : Nat, character : Nat ]
LEMMA PositionIs ==
  ASSUME NEW text \in Seq(Characters)
  PROVE  /\ PositionForOffset(text, 0) = [ line |-> 0, character |-> 0 ]
         /\ \A n \in 0 .. Len(text) : PositionForOffset(text, n) \in Positions
         /\ \A n \in 1 .. Len(text) : PositionForOffset(text, n) = Behind(PositionForOffset(text, n - 1), text[n])
<1> DEFINE N == Len(text)
           zero == [ line |-> 0, character |-> 0 ]
           Following(n, before) == Behind(before, text[n])
           Counts(g) == g = [ n \in 0 .. N |-> IF n = 0 THEN zero ELSE Following(n, g[n - 1]) ]
           step == [ x \in (1 .. N) \X Positions |-> Following(x[1], x[2]) ]
           f == CHOOSE g : Counts(g)
<1>1. N \in Nat /\ zero \in Positions
  BY DEF Positions
<1>2. \A n, before : before \in Positions => Following(n, before) \in Positions
  BY DEF Behind, Units, Positions
<1>3. \A n : PositionForOffset(text, n) = f[n]
  BY DEF PositionForOffset
<1> HIDE DEF N, Following, zero
<1>4. step \in Steps(N, Positions) /\ \A n \in 1 .. N, before \in Positions : step[<< n, before >>] = Following(n, before)
  BY <1>2 DEF Steps
<1> HIDE DEF step
<1>5. PICK g : Computes(g, N, Positions, zero, step)
  BY <1>1, <1>4, Computed
<1>6. Counts(g)
  <2>1. g \in [ 0 .. N -> Positions ] /\ \A n \in 0 .. N : g[n] = IF n = 0 THEN zero ELSE step[<< n, g[n - 1] >>]
    BY <1>5 DEF Computes
  <2>2. \A n \in 0 .. N : g[n] = IF n = 0 THEN zero ELSE Following(n, g[n - 1])
    <3> TAKE n \in 0 .. N
    <3>1. CASE n # 0
      <4>1. n \in 1 .. N /\ n - 1 \in 0 .. N
        BY <1>1, <3>1
      <4> QED
        BY <2>1, <3>1, <4>1, <1>4
    <3> QED
      BY <2>1, <3>1
  <2> QED
    BY <2>1, <2>2
<1>7. Counts(f)
  BY <1>6
<1> HIDE DEF f
<1>8. f[0] = zero /\ \A n \in 1 .. N : f[n] = Following(n, f[n - 1])
  BY <1>1, <1>7
<1>9. \A n \in 0 .. N : f[n] \in Positions
  <2> DEFINE S == { n \in 0 .. N : f[n] \in Positions }
  <2>1. 0 \in S /\ \A n \in 1 .. N : n - 1 \in S => n \in S
    BY <1>1, <1>2, <1>8
  <2>2. \A n \in 0 .. N : n \in S
    <3> HIDE DEF S
    <3> QED
      BY <1>1, <2>1, Upward
  <2> QED
    BY <2>2
<1> QED
  BY <1>3, <1>8, <1>9 DEF N, Following, zero

\* The line breaks in front of a place, and where its line starts.
BreaksTo(text, n) == { i \in 1 .. n : text[i] = Newline }
StartOf(text, n) == IF BreaksTo(text, n) = {} THEN 0 ELSE Max(BreaksTo(text, n))

\* The line breaks in front of a character that is none, and of one that is.
LEMMA BreaksGrow ==
  ASSUME NEW text \in Seq(Characters), NEW n \in 1 .. Len(text)
  PROVE  /\ IsFiniteSet(BreaksTo(text, n - 1))
         /\ text[n] = Newline => /\ Cardinality(BreaksTo(text, n)) = Cardinality(BreaksTo(text, n - 1)) + 1
                                 /\ StartOf(text, n) = n
         /\ text[n] # Newline => /\ BreaksTo(text, n) = BreaksTo(text, n - 1)
                                 /\ StartOf(text, n) = StartOf(text, n - 1)
<1> DEFINE B == BreaksTo(text, n - 1)
<1>1. n \in Nat /\ n \notin B /\ B \subseteq 1 .. n - 1
  BY DEF BreaksTo
<1>2. IsFiniteSet(B)
  <2>1. IsFiniteSet(1 .. n - 1)
    BY <1>1, FS_Interval
  <2> QED
    BY <1>1, <2>1, FS_Subset
<1>3. CASE text[n] = Newline
  <2>1. BreaksTo(text, n) = B \cup { n }
    BY <1>3 DEF BreaksTo
  <2> DEFINE A == BreaksTo(text, n)
  <2>2. A \in SUBSET (0 .. n) /\ n \in A /\ \A i \in A : i <= n
    BY <2>1, <1>1
  <2> HIDE DEF A, B
  <2>3. Max(A) = n /\ A # {}
    BY <2>2, <1>1, LargestIs
  <2>4. Cardinality(B \cup { n }) = Cardinality(B) + 1
    BY <1>1, <1>2, FS_AddElement
  <2> QED
    BY <1>2, <1>3, <2>1, <2>3, <2>4 DEF A, B, StartOf
<1>4. CASE text[n] # Newline
  <2>1. BreaksTo(text, n) = B
    BY <1>4, <1>1 DEF BreaksTo
  <2> QED
    BY <1>2, <1>4, <2>1 DEF StartOf
<1> QED
  BY <1>3, <1>4

\* Where a line starts is in front of what is on it.
LEMMA StartIsBefore ==
  ASSUME NEW text, NEW n \in Nat
  PROVE  StartOf(text, n) \in 0 .. n
<1>1. BreaksTo(text, n) \in SUBSET (0 .. n)
  BY DEF BreaksTo
<1>2. CASE BreaksTo(text, n) = {}
  BY <1>2 DEF StartOf
<1>3. CASE BreaksTo(text, n) # {}
  <2>1. Max(BreaksTo(text, n)) \in BreaksTo(text, n)
    BY <1>1, <1>3, Largest
  <2> QED
    BY <1>1, <1>3, <2>1 DEF StartOf
<1> QED
  BY <1>2, <1>3

\* The editor counts the same.
LEMMA SamePlace ==
  ASSUME NEW text \in Seq(Characters)
  PROVE  \A n \in 0 .. Len(text) :
           /\ Place(text, n) = PositionForOffset(text, n)
           /\ Cardinality(BreaksTo(text, n)) = PositionForOffset(text, n).line
<1> DEFINE N == Len(text)
           at(n) == PositionForOffset(text, n)
           Same(n) == /\ Cardinality(BreaksTo(text, n)) = at(n).line
                      /\ UnitsOf(SubSeq(text, StartOf(text, n) + 1, n)) = at(n).character
           S == { n \in 0 .. N : Same(n) }
<1>1. \A n : Place(text, n) = [ line |-> Cardinality(BreaksTo(text, n)),
                                character |-> UnitsOf(SubSeq(text, StartOf(text, n) + 1, n)) ]
  BY DEF Place, BreaksTo, StartOf
<1>2. /\ at(0) = [ line |-> 0, character |-> 0 ]
      /\ \A n \in 0 .. N : at(n) \in Positions
      /\ \A n \in 1 .. N : at(n) = Behind(at(n - 1), text[n])
  BY PositionIs
<1>3. N \in Nat /\ \A n \in 1 .. N : text[n] \in Characters
  OBVIOUS
<1>4. \A n \in Nat : SubSeq(text, n + 1, n) = << >>
  BY SubSeqEmpty
<1> HIDE DEF at, N
<1>5. 0 \in S
  <2>1. BreaksTo(text, 0) = {}
    BY DEF BreaksTo
  <2>2. StartOf(text, 0) = 0 /\ Cardinality(BreaksTo(text, 0)) = 0
    BY <2>1, FS_EmptySet DEF StartOf
  <2>3. SubSeq(text, StartOf(text, 0) + 1, 0) = << >>
    BY <2>2, <1>4
  <2>4. UnitsOf(SubSeq(text, StartOf(text, 0) + 1, 0)) = 0
    BY <2>3, NoUnits
  <2>5. at(0).line = 0 /\ at(0).character = 0
    BY <1>2
  <2>6. Same(0)
    BY <2>2, <2>4, <2>5
  <2> HIDE DEF Same
  <2> QED
    BY <1>3, <2>6
<1>6. ASSUME NEW n \in 1 .. N, n - 1 \in S PROVE n \in S
  <2>1. /\ at(n) = Behind(at(n - 1), text[n]) /\ at(n - 1) \in Positions /\ n - 1 \in 0 .. N /\ n \in Nat
        /\ Same(n - 1) /\ text[n] \in Characters
    BY <1>2, <1>3, <1>6
  <2> DEFINE s == StartOf(text, n - 1)
  <2>2. s \in 0 .. n - 1
    BY <2>1, StartIsBefore, <1>3
  <2>3. CASE text[n] = Newline
    <3>1. Cardinality(BreaksTo(text, n)) = Cardinality(BreaksTo(text, n - 1)) + 1 /\ StartOf(text, n) = n
      BY <2>3, BreaksGrow DEF N
    <3>2. at(n) = [ line |-> at(n - 1).line + 1, character |-> 0 ]
      BY <2>1, <2>3 DEF Behind
    <3>3. SubSeq(text, StartOf(text, n) + 1, n) = << >>
      BY <3>1, <1>4, <2>1
    <3>4. Cardinality(BreaksTo(text, n)) = at(n).line
      BY <2>1, <3>1, <3>2
    <3>5. at(n).character = 0
      BY <3>2
    <3>6. UnitsOf(SubSeq(text, StartOf(text, n) + 1, n)) = at(n).character
      BY <3>3, <3>5, NoUnits
    <3> QED
      BY <3>4, <3>6
  <2>4. CASE text[n] # Newline
    <3>1. BreaksTo(text, n) = BreaksTo(text, n - 1) /\ StartOf(text, n) = s
      BY <2>4, BreaksGrow DEF N
    <3>2. at(n) = [ line |-> at(n - 1).line, character |-> at(n - 1).character + Units(text[n]) ]
      BY <2>1, <2>4 DEF Behind
    <3> HIDE DEF s
    <3> DEFINE shorter == SubSeq(text, s + 1, n - 1)
    <3>3. SubSeq(text, s + 1, n) = Append(shorter, text[n])
      <4>1. s + 1 \in Nat /\ 1 <= s + 1 /\ s + 1 <= n /\ n <= Len(text)
        BY <2>1, <2>2 DEF N
      <4> QED
        BY <2>1, <4>1, LongerStretch
    <3>4. shorter \in Seq(Characters)
      <4>1. s + 1 \in Nat /\ 1 <= s + 1 /\ n - 1 \in Nat /\ s + 1 <= (n - 1) + 1 /\ n - 1 <= Len(text)
        BY <2>1, <2>2 DEF N
      <4> QED
        BY <2>1, <4>1, Stretch
    <3> HIDE DEF shorter
    <3>5. UnitsOf(SubSeq(text, s + 1, n)) = UnitsOf(shorter) + Units(text[n])
      BY <2>1, <3>3, <3>4, UnitsOfMore
    <3>6. UnitsOf(shorter) = at(n - 1).character
      BY <2>1 DEF shorter, s
    <3>7. Cardinality(BreaksTo(text, n)) = at(n).line
      BY <2>1, <3>1, <3>2
    <3>8. UnitsOf(SubSeq(text, StartOf(text, n) + 1, n)) = at(n).character
      BY <3>1, <3>2, <3>5, <3>6
    <3> QED
      BY <3>7, <3>8
  <2>5. Same(n)
    BY <2>3, <2>4
  <2> HIDE DEF Same
  <2> QED
    BY <2>5
<1>7. \A n \in 0 .. N : n \in S
  <2> HIDE DEF S
  <2> QED
    BY <1>3, <1>5, <1>6, Upward
<1> QED
  <2> SUFFICES ASSUME NEW n \in 0 .. N
               PROVE  /\ Place(text, n) = at(n) /\ Cardinality(BreaksTo(text, n)) = at(n).line
    BY DEF N, at
  <2>1. Same(n) /\ at(n) \in Positions
    BY <1>2, <1>7
  <2>2. at(n) = [ line |-> at(n).line, character |-> at(n).character ]
    BY <2>1 DEF Positions
  <2> QED
    BY <1>1, <2>1, <2>2

\* What comes later in a text has a later place.
Before(p, q) == p.line < q.line \/ (p.line = q.line /\ p.character < q.character)
LEMMA PlacesAscend ==
  ASSUME NEW text \in Seq(Characters), NEW i \in 0 .. Len(text), NEW j \in 0 .. Len(text), i < j
  PROVE  Before(PositionForOffset(text, i), PositionForOffset(text, j))
<1> DEFINE N == Len(text)
           at(n) == PositionForOffset(text, n)
           S == { n \in 0 .. N : i < n => Before(at(i), at(n)) }
<1>1. /\ \A n \in 0 .. N : at(n) \in Positions
      /\ \A n \in 1 .. N : at(n) = Behind(at(n - 1), text[n])
  BY PositionIs
<1>2. N \in Nat /\ i \in 0 .. N /\ j \in 0 .. N
  OBVIOUS
<1> HIDE DEF at, N
<1>3. \A n \in 1 .. N : Before(at(n - 1), at(n))
  <2> TAKE n \in 1 .. N
  <2>1. at(n - 1) \in Positions /\ at(n) = Behind(at(n - 1), text[n])
    BY <1>1, <1>2
  <2> QED
    BY <2>1 DEF Positions, Before, Behind, Units
<1>4. 0 \in S
  BY <1>2
<1>5. ASSUME NEW n \in 1 .. N, n - 1 \in S PROVE n \in S
  <2> SUFFICES ASSUME i < n PROVE Before(at(i), at(n))
    BY <1>2
  <2>1. Before(at(n - 1), at(n)) /\ at(n - 1) \in Positions /\ at(n) \in Positions /\ at(i) \in Positions
    BY <1>1, <1>2, <1>3
  <2>2. CASE i = n - 1
    BY <2>1, <2>2
  <2>3. CASE i # n - 1
    <3>1. i < n - 1
      BY <1>2, <2>3
    <3>2. Before(at(i), at(n - 1))
      BY <1>5, <3>1
    <3> QED
      BY <2>1, <3>2 DEF Before, Positions
  <2> QED
    BY <2>2, <2>3
<1>6. \A n \in 0 .. N : n \in S
  <2> HIDE DEF S
  <2> QED
    BY <1>2, <1>4, <1>5, Upward
<1> QED
  BY <1>2, <1>6 DEF at

\* The editor finds what the server says of one of its places.
LEMMA EditorFinds ==
  ASSUME NEW text \in Seq(Characters), NEW i \in 0 .. Len(text)
  PROVE  Offset(text, PositionForOffset(text, i)) = i
<1> DEFINE N == Len(text)
           at(n) == PositionForOffset(text, n)
           S == { n \in 0 .. N : at(n).line < at(i).line \/ (at(n).line = at(i).line /\ at(n).character <= at(i).character) }
<1>1. Offset(text, at(i)) = Max(S)
  <2>1. \A n \in 0 .. N : Place(text, n) = at(n)
    BY SamePlace
  <2>2. S = { n \in 0 .. N :
          LET p == Place(text, n)
          IN  p.line < at(i).line \/ (p.line = at(i).line /\ p.character <= at(i).character) }
    BY <2>1
  <2> QED
    BY <2>2 DEF Offset
<1>2. \A n \in 0 .. N : at(n) \in Positions /\ (i < n => Before(at(i), at(n)))
  BY PositionIs, PlacesAscend
<1>3. N \in Nat /\ i \in 0 .. N
  OBVIOUS
<1> HIDE DEF at, N
<1>4. i \in S
  BY <1>2, <1>3 DEF Positions
<1>5. \A n \in S : n <= i
  <2> SUFFICES ASSUME NEW n \in S, i < n PROVE FALSE
    BY <1>3
  <2> QED
    BY <1>2, <1>3, SMTT(60) DEF Before, Positions
<1>6. S \in SUBSET (0 .. N)
  OBVIOUS
<1> HIDE DEF S
<1>7. Max(S) = i
  BY <1>3, <1>4, <1>5, <1>6, LargestIs
<1> QED
  BY <1>1, <1>7 DEF at

\* A line's offsets are those of its places, and begin where its line starts.
LEMMA RowIs ==
  ASSUME NEW text \in Seq(Characters), NEW line
  PROVE  /\ Row(text, line) = { i \in 0 .. Len(text) : PositionForOffset(text, i).line = line }
         /\ \A i \in Row(text, line) : Min(Row(text, line)) = StartOf(text, i)
<1> DEFINE N == Len(text)
           at(n) == PositionForOffset(text, n)
           row == Row(text, line)
<1>1. /\ \A n \in 0 .. N : at(n) \in Positions
      /\ \A n \in 1 .. N : at(n) = Behind(at(n - 1), text[n])
      /\ \A n \in 0 .. N : Cardinality(BreaksTo(text, n)) = at(n).line
  BY PositionIs, SamePlace
<1>2. N \in Nat /\ DOMAIN text = 1 .. N
  OBVIOUS
<1>3. row = { i \in 0 .. N : at(i).line = line }
  <2>1. \A i \in 0 .. N : { b \in { k \in DOMAIN text : text[k] = Newline } : b <= i } = BreaksTo(text, i)
    BY <1>2 DEF BreaksTo
  <2>2. row = { i \in 0 .. N : Cardinality(BreaksTo(text, i)) = line }
    BY <2>1 DEF Row
  <2> QED
    BY <2>2, <1>1
<1>4. \A k, m \in 0 .. N : k < m => Before(at(k), at(m))
  BY PlacesAscend
<1> HIDE DEF at, N, row
<1>5. ASSUME NEW i \in row PROVE Min(row) = StartOf(text, i)
  <2> DEFINE s == StartOf(text, i)
  <2>1. i \in 0 .. N /\ i \in Nat /\ at(i).line = line
    BY <1>2, <1>3
  <2>2. s \in 0 .. i
    BY <2>1, StartIsBefore
  <2>3. BreaksTo(text, s) = BreaksTo(text, i) /\ (s = 0 \/ text[s] = Newline)
    <3>1. CASE BreaksTo(text, i) = {}
      BY <3>1 DEF StartOf, BreaksTo
    <3>2. CASE BreaksTo(text, i) # {}
      <4>1. BreaksTo(text, i) \in SUBSET (0 .. i)
        BY DEF BreaksTo
      <4>2. s \in BreaksTo(text, i) /\ \A b \in BreaksTo(text, i) : b <= s
        BY <2>1, <3>2, <4>1, Largest DEF StartOf
      <4> HIDE DEF s
      <4> QED
        BY <2>1, <2>2, <4>2 DEF BreaksTo
    <3> QED
      BY <3>1, <3>2
  <2> HIDE DEF s
  <2>4. s \in 0 .. N /\ at(s).line = line
    <3>1. s \in 0 .. N
      BY <1>2, <2>1, <2>2
    <3> QED
      BY <3>1, <2>1, <2>3, <1>1
  <2>5. s \in row
    BY <2>4, <1>3
  <2>6. \A k \in row : s <= k
    <3> SUFFICES ASSUME NEW k \in row, k < s PROVE FALSE
      BY <1>2, <1>3, <2>4
    <3>1. k \in 0 .. N /\ at(k).line = line /\ s \in 1 .. N /\ s - 1 \in 0 .. N /\ text[s] = Newline
      BY <1>2, <1>3, <2>3, <2>4
    <3>2. at(s) = Behind(at(s - 1), text[s]) /\ at(s - 1) \in Positions /\ at(k) \in Positions
      BY <3>1, <1>1
    <3>3. at(s).line = at(s - 1).line + 1
      BY <3>1, <3>2 DEF Behind
    <3>4. at(k).line <= at(s - 1).line
      <4>1. CASE k = s - 1
        BY <3>2, <4>1 DEF Positions
      <4>2. CASE k # s - 1
        <5>1. k < s - 1
          BY <3>1, <4>2, <1>2
        <5>2. Before(at(k), at(s - 1))
          BY <5>1, <3>1, <1>4
        <5> QED
          BY <5>2, <3>2 DEF Before, Positions
      <4> QED
        BY <4>1, <4>2
    <3> QED
      BY <2>4, <3>1, <3>2, <3>3, <3>4 DEF Positions
  <2>7. row \in SUBSET Nat /\ row # {}
    BY <1>2, <1>3, <2>5
  <2>8. Min(row) \in row /\ \A k \in row : Min(row) <= k
    BY <2>7, Smallest
  <2> DEFINE m == Min(row)
  <2>9. m \in row /\ m <= s /\ s <= m /\ m \in Nat /\ s \in Nat
    BY <2>5, <2>6, <2>7, <2>8
  <2> HIDE DEF m
  <2>10. m = s
    BY <2>9
  <2> QED
    BY <2>10 DEF m, s
<1> QED
  BY <1>3, <1>5 DEF row, N, at

\* The library finds what the editor says of one of its places.
LEMMA LibraryFinds ==
  ASSUME NEW text \in Seq(Characters), NEW i \in 0 .. Len(text)
  PROVE  IndexIn(text, Place(text, i)) = i
<1> DEFINE N == Len(text)
           at(n) == PositionForOffset(text, n)
           row == Row(text, at(i).line)
           S == { n \in row : at(n).character <= at(i).character }
<1>1. /\ \A n \in 0 .. N : at(n) \in Positions
      /\ \A n \in 0 .. N : Place(text, n) = at(n)
      /\ \A k, m \in 0 .. N : k < m => Before(at(k), at(m))
  BY PositionIs, SamePlace, PlacesAscend
<1>2. N \in Nat /\ i \in 0 .. N
  OBVIOUS
<1>3. row = { n \in 0 .. N : at(n).line = at(i).line } /\ \A n \in row : Min(row) = StartOf(text, n)
  BY RowIs
<1>4. \A n \in 0 .. N : Place(text, n).character = UnitsOf(SubSeq(text, StartOf(text, n) + 1, n))
  BY DEF Place, StartOf, BreaksTo
<1> HIDE DEF at, N, row
<1>5. \A n \in row : UnitsOf(SubSeq(text, Min(row) + 1, n)) = at(n).character
  <2> TAKE n \in row
  <2>1. n \in 0 .. N /\ Min(row) = StartOf(text, n)
    BY <1>3
  <2>2. Place(text, n).character = UnitsOf(SubSeq(text, StartOf(text, n) + 1, n)) /\ Place(text, n) = at(n)
    BY <2>1, <1>1, <1>4
  <2> QED
    BY <2>1, <2>2
<1>6. S = { n \in row : UnitsOf(SubSeq(text, Min(row) + 1, n)) <= at(i).character }
  BY <1>5
<1>7. i \in row
  BY <1>2, <1>3
<1>8. IndexIn(text, Place(text, i)) = Max(S)
  <2>1. Place(text, i) = at(i)
    BY <1>1, <1>2
  <2>2. IndexIn(text, at(i)) = IF row = {} THEN 0 ELSE Reached(text, row, at(i).character)
    BY DEF IndexIn, row
  <2> QED
    BY <2>1, <2>2, <1>6, <1>7 DEF Reached
<1>9. i \in S /\ S \in SUBSET (0 .. N)
  BY <1>1, <1>2, <1>3, <1>7 DEF Positions
<1>10. \A n \in S : n <= i
  <2> SUFFICES ASSUME NEW n \in S, i < n PROVE FALSE
    BY <1>2, <1>3
  <2>1. n \in 0 .. N /\ at(n).line = at(i).line /\ at(n).character <= at(i).character
    BY <1>3
  <2>2. Before(at(i), at(n)) /\ at(i) \in Positions /\ at(n) \in Positions
    BY <1>1, <1>2, <2>1
  <2> QED
    BY <2>1, <2>2 DEF Before, Positions
<1> HIDE DEF S
<1>11. Max(S) = i
  BY <1>2, <1>9, <1>10, LargestIs
<1> QED
  BY <1>8, <1>11

\* What the editor does to its text, the store does to the same text.
LEMMA StoreFollows ==
  ASSUME NEW text \in Seq(Characters), NEW start \in 0 .. Len(text), NEW end \in 0 .. Len(text), start <= end, NEW new
  PROVE  ApplyContentChanges(text, [ start |-> Place(text, start), end |-> Place(text, end), text |-> new ])
           = Spliced(text, start, end, new)
<1> DEFINE change == [ start |-> Place(text, start), end |-> Place(text, end), text |-> new ]
<1>1. IndexIn(text, change.start) = start /\ IndexIn(text, change.end) = end
  BY LibraryFinds
<1>2. Place(text, 0) = [ line |-> 0, character |-> 0 ]
  BY SamePlace, PositionIs
<1>3. \A i \in 0 .. Len(text) : i = 0 => Place(text, i).line = 0 /\ Place(text, i).character = 0
  BY <1>2
<1>4. /\ start = 0 => change.start.line = 0 /\ change.start.character = 0
      /\ end = 0 => change.end.line = 0 /\ change.end.character = 0
  BY <1>3
<1>5. change.text = new
  OBVIOUS
<1> HIDE DEF change
<1>6. ~IsRangeIndexInvalid(change, start, end)
  BY <1>4 DEF IsRangeIndexInvalid
<1>7. ApplyContentChanges(text, change) = Spliced(text, start, end, new)
  BY <1>1, <1>5, <1>6 DEF ApplyContentChanges
<1> QED
  BY <1>7 DEF change

-----------------------------------------------------------------------------
(* Texts one behind the other.                                             *)

\* Sequences are put behind each other one at a time.
FlattenFollows(f, seqs, T) ==
  /\ f \in [ 0 .. Len(seqs) -> Seq(T) ] /\ f[0] = << >>
  /\ \A n \in 1 .. Len(seqs) : f[n] = f[n - 1] \o seqs[n]
LEMMA FlattenIs ==
  ASSUME NEW T, NEW seqs \in Seq(Seq(T))
  PROVE  \E f : FlattenFollows(f, seqs, T) /\ FlattenSeq(seqs) = f[Len(seqs)]
<1> DEFINE N == Len(seqs)
           R == Seq(T)
           Following(n, before) == before \o seqs[n]
           Counts(g) == g = [ n \in 1 .. N |-> IF n = 1 THEN seqs[n] ELSE Following(n, g[n - 1]) ]
           step == [ x \in (1 .. N) \X R |-> Following(x[1], x[2]) ]
           f == CHOOSE g : Counts(g)
<1>1. N \in Nat /\ (\A n \in 1 .. N : seqs[n] \in R) /\ << >> \in R /\ (N = 0 => seqs = << >>)
  OBVIOUS
<1>2. \A n \in 1 .. N, before \in R : Following(n, before) \in R
  BY <1>1, ConcatProperties
<1>3. FlattenSeq(seqs) = IF N = 0 THEN seqs ELSE f[N]
  BY DEF FlattenSeq
<1>0. \A n \in 1 .. N : Following(n, << >>) = seqs[n]
  <2> SUFFICES ASSUME NEW n \in 1 .. N PROVE Following(n, << >>) = seqs[n]
    OBVIOUS
  <2>1. seqs[n] \in Seq(T)
    BY <1>1
  <2> QED
    BY <2>1, ConcatEmptySeq
<1> HIDE DEF N, R, Following
<1>4. step \in Steps(N, R) /\ \A n \in 1 .. N, before \in R : step[<< n, before >>] = Following(n, before)
  BY <1>2 DEF Steps
<1> HIDE DEF step
<1>5. PICK h : Computes(h, N, R, << >>, step)
  BY <1>1, <1>4, Computed
<1>6. h \in [ 0 .. N -> R ] /\ h[0] = << >>
  <2>1. h \in [ 0 .. N -> R ] /\ \A n \in 0 .. N : n = 0 => h[n] = << >>
    BY <1>5 DEF Computes
  <2>2. 0 \in 0 .. N
    BY <1>1
  <2> QED
    BY <2>1, <2>2
<1>7. \A n \in 1 .. N : h[n] = Following(n, h[n - 1])
  <2> TAKE n \in 1 .. N
  <2>1. n \in 0 .. N /\ n # 0 /\ n - 1 \in 0 .. N
    BY <1>1
  <2>2. h[n - 1] \in R
    BY <1>6, <2>1
  <2>3. h[n] = step[<< n, h[n - 1] >>]
    BY <1>5, <2>1 DEF Computes
  <2> QED
    BY <2>2, <2>3, <1>4
<1>8. N > 0 => h[1] = seqs[1]
  <2> SUFFICES ASSUME N > 0 PROVE h[1] = seqs[1]
    OBVIOUS
  <2>1. 1 \in 1 .. N /\ 1 - 1 = 0
    BY <1>1
  <2> QED
    BY <2>1, <1>0, <1>6, <1>7
<1> DEFINE d == [ n \in 1 .. N |-> h[n] ]
<1>9. Counts(d)
  <2>1. \A n \in 1 .. N : d[n] = IF n = 1 THEN seqs[n] ELSE Following(n, d[n - 1])
    <3> TAKE n \in 1 .. N
    <3>1. CASE n = 1
      BY <3>1, <1>1, <1>8
    <3>2. CASE n # 1
      <4>1. n - 1 \in 1 .. N
        BY <1>1, <3>2
      <4>2. d[n] = h[n] /\ d[n - 1] = h[n - 1]
        BY <4>1
      <4>3. h[n] = Following(n, h[n - 1])
        BY <1>7
      <4> QED
        BY <3>2, <4>2, <4>3
    <3> QED
      BY <3>1, <3>2
  <2> QED
    BY <2>1
<1>10. Counts(f)
  BY <1>9
<1> HIDE DEF f
<1>11. \A n \in 1 .. N : f[n] = IF n = 1 THEN seqs[n] ELSE Following(n, f[n - 1])
  BY <1>10
<1>12. \A n \in 0 .. N : n > 0 => f[n] = h[n]
  <2> DEFINE S == { n \in 0 .. N : n > 0 => f[n] = h[n] }
  <2>1. 0 \in S
    BY <1>1
  <2>2. ASSUME NEW n \in 1 .. N, n - 1 \in S PROVE n \in S
    <3>1. n \in 0 .. N /\ n > 0
      BY <1>1
    <3>2. CASE n = 1
      <4>1. f[1] = seqs[1] /\ h[1] = seqs[1]
        BY <3>2, <1>1, <1>8, <1>11
      <4> QED
        BY <3>1, <3>2, <4>1
    <3>3. CASE n # 1
      <4>1. n - 1 > 0
        BY <1>1, <3>3
      <4>2. f[n - 1] = h[n - 1]
        BY <2>2, <4>1
      <4>3. f[n] = Following(n, f[n - 1])
        BY <1>11, <3>3
      <4>4. h[n] = Following(n, h[n - 1])
        BY <1>7
      <4> QED
        BY <3>1, <4>2, <4>3, <4>4
    <3> QED
      BY <3>2, <3>3
  <2>3. \A n \in 0 .. N : n \in S
    <3> HIDE DEF S
    <3> QED
      BY <1>1, <2>1, <2>2, Upward
  <2> QED
    BY <2>3
<1>13. FlattenSeq(seqs) = h[N]
  <2>1. CASE N = 0
    BY <2>1, <1>1, <1>3, <1>6
  <2>2. CASE N # 0
    <3>1. N \in 0 .. N /\ N > 0
      BY <1>1, <2>2
    <3>2. f[N] = h[N]
      BY <3>1, <1>12
    <3> QED
      BY <3>2, <2>2, <1>3
  <2> QED
    BY <2>1, <2>2
<1>14. FlattenFollows(h, seqs, T)
  BY <1>6, <1>7 DEF FlattenFollows, N, R, Following
<1> QED
  BY <1>13, <1>14 DEF N

\* No sequences, put behind each other, are none.
LEMMA FlattenNothing == FlattenSeq(<< >>) = << >>
BY DEF FlattenSeq

\* Two functions of a sequence that continues another.
LEMMA FlattenOfMore ==
  ASSUME NEW T, NEW seqs \in Seq(Seq(T)), NEW seq \in Seq(T)
  PROVE  /\ FlattenSeq(seqs) \in Seq(T)
         /\ FlattenSeq(Append(seqs, seq)) = FlattenSeq(seqs) \o seq
<1> DEFINE longer == Append(seqs, seq)
           N == Len(seqs)
<1>1. /\ longer \in Seq(Seq(T)) /\ Len(longer) = N + 1 /\ longer[N + 1] = seq
      /\ \A n \in 1 .. N : longer[n] = seqs[n]
  BY AppendProperties
<1>2. PICK f : FlattenFollows(f, seqs, T) /\ FlattenSeq(seqs) = f[N]
  BY FlattenIs
<1>0. N \in Nat
  OBVIOUS
<1> HIDE DEF longer
<1>3. PICK g : FlattenFollows(g, longer, T) /\ FlattenSeq(longer) = g[N + 1]
  BY <1>1, FlattenIs
<1> HIDE DEF N
<1>4. /\ f \in [ 0 .. N -> Seq(T) ] /\ f[0] = << >>
      /\ \A n \in 1 .. N : f[n] = f[n - 1] \o seqs[n]
  BY <1>2 DEF FlattenFollows, N
<1>5. /\ g[0] = << >> /\ \A n \in 1 .. N + 1 : g[n] = g[n - 1] \o longer[n]
  BY <1>1, <1>3 DEF FlattenFollows
<1>6. \A n \in 0 .. N : g[n] = f[n]
  <2> DEFINE S == { n \in 0 .. N : g[n] = f[n] }
  <2>1. 0 \in S
    BY <1>0, <1>4, <1>5
  <2>2. ASSUME NEW n \in 1 .. N, n - 1 \in S PROVE n \in S
    <3>1. n \in 0 .. N /\ n \in 1 .. N + 1
      BY <1>0
    <3>2. g[n] = g[n - 1] \o longer[n] /\ f[n] = f[n - 1] \o seqs[n] /\ longer[n] = seqs[n] /\ g[n - 1] = f[n - 1]
      BY <2>2, <3>1, <1>1, <1>4, <1>5
    <3> QED
      BY <3>1, <3>2
  <2>3. \A n \in 0 .. N : n \in S
    <3> HIDE DEF S
    <3> QED
      BY <1>0, <2>1, <2>2, Upward
  <2> QED
    BY <2>3
<1>7. N + 1 \in 1 .. N + 1 /\ (N + 1) - 1 = N /\ N \in 0 .. N
  BY <1>0
<1>8. g[N + 1] = g[N] \o seq
  BY <1>1, <1>5, <1>7
<1>9. g[N] = f[N] /\ f[N] \in Seq(T)
  BY <1>4, <1>6, <1>7
<1> QED
  BY <1>2, <1>3, <1>8, <1>9 DEF longer

\* Three sequences.
LEMMA InAnyOrder ==
  ASSUME NEW T
  PROVE  \A s, t, u \in Seq(T) : (s \o t) \o u = s \o (t \o u)
BY ConcatAssociative

\* Stretches that meet.
LEMMA Meet ==
  ASSUME NEW T, NEW s \in Seq(T), NEW a \in Nat, NEW b \in Nat, NEW c \in Nat, 1 <= a, a <= b + 1, b <= c, c <= Len(s)
  PROVE  SubSeq(s, a, b) \o SubSeq(s, b + 1, c) = SubSeq(s, a, c)
<1>1. a \in 1 .. Len(s) + 1 /\ b \in a - 1 .. Len(s) /\ c \in b .. Len(s)
  OBVIOUS
<1> QED
  BY <1>1, ConcatAdjacentSubSeq

\* The whole of a sequence, and nothing of it.
LEMMA Whole ==
  ASSUME NEW T, NEW s \in Seq(T)
  PROVE  SubSeq(s, 1, Len(s)) = s /\ SubSeq(s, 1, 0) = << >>
BY SubSeqFull, SubSeqEmpty

\* Two sequences of sequences put behind each other.
LEMMA FlattenConcat ==
  ASSUME NEW T, NEW s \in Seq(Seq(T)), NEW t \in Seq(Seq(T))
  PROVE  /\ FlattenSeq(s) \in Seq(T) /\ FlattenSeq(t) \in Seq(T)
         /\ FlattenSeq(s \o t) = FlattenSeq(s) \o FlattenSeq(t)
<1> DEFINE N == Len(t)
           part(n) == SubSeq(t, 1, n)
           Splits(n) == FlattenSeq(s \o part(n)) = FlattenSeq(s) \o FlattenSeq(part(n))
           S == { n \in 0 .. N : Splits(n) }
<1>0. /\ \A x, y, z \in Seq(T) : (x \o y) \o z = x \o (y \o z)
      /\ \A x, y, z \in Seq(Seq(T)) : (x \o y) \o z = x \o (y \o z)
  <2>1. \A x, y, z \in Seq(T) : (x \o y) \o z = x \o (y \o z)
    BY InAnyOrder, SMTT(60)
  <2>2. \A x, y, z \in Seq(Seq(T)) : (x \o y) \o z = x \o (y \o z)
    <3> DEFINE R == Seq(T)
    <3> HIDE DEF R
    <3>1. \A x, y, z \in Seq(R) : (x \o y) \o z = x \o (y \o z)
      BY InAnyOrder, SMTT(60)
    <3> QED
      BY <3>1 DEF R
  <2> QED
    BY <2>1, <2>2
<1>1. N \in Nat /\ part(0) = << >> /\ part(N) = t
  BY Whole
<1>2. \A x \in Seq(Seq(T)) : FlattenSeq(x) \in Seq(T)
  <2> SUFFICES ASSUME NEW x \in Seq(Seq(T)) PROVE FlattenSeq(x) \in Seq(T)
    OBVIOUS
  <2>1. << >> \in Seq(T)
    OBVIOUS
  <2> QED
    BY <2>1, FlattenOfMore
<1>3. \A n \in 0 .. N : part(n) \in Seq(Seq(T))
  <2> SUFFICES ASSUME NEW n \in 0 .. N PROVE part(n) \in Seq(Seq(T))
    OBVIOUS
  <2>1. n \in Nat /\ 1 \in Nat /\ 1 <= 1 /\ 1 <= n + 1 /\ n <= Len(t)
    OBVIOUS
  <2> QED
    BY <2>1, Stretch
<1>4. ASSUME NEW n \in 1 .. N
      PROVE  n - 1 \in 0 .. N /\ t[n] \in Seq(T) /\ part(n) = Append(part(n - 1), t[n])
  <2>1. 1 \in Nat /\ n \in Nat /\ 1 <= 1 /\ 1 <= n /\ n <= Len(t)
    OBVIOUS
  <2> QED
    BY <2>1, LongerStretch
<1> HIDE DEF N, part
<1>5. Splits(0)
  <2>1. s \o << >> = s /\ FlattenSeq(s) \o << >> = FlattenSeq(s)
    <3> HIDE DEF FlattenSeq
    <3> QED
      BY <1>2, ConcatEmptySeq
  <2> QED
    BY <2>1, <1>1, FlattenNothing
<1>6. ASSUME NEW n \in 1 .. N, n - 1 \in S PROVE Splits(n)
  <2> DEFINE p == part(n - 1)
  <2>1. p \in Seq(Seq(T)) /\ t[n] \in Seq(T) /\ part(n) = Append(p, t[n]) /\ FlattenSeq(s \o p) = FlattenSeq(s) \o FlattenSeq(p)
    BY <1>3, <1>4, <1>6
  <2> HIDE DEF p
  <2>2. s \o p \in Seq(Seq(T))
    BY <2>1, ConcatProperties
  <2>3. s \o Append(p, t[n]) = Append(s \o p, t[n])
    <3>1. Append(p, t[n]) = p \o << t[n] >> /\ Append(s \o p, t[n]) = (s \o p) \o << t[n] >> /\ << t[n] >> \in Seq(Seq(T))
      BY <2>1, <2>2, AppendIsConcat, SMTT(60)
    <3>2. (s \o p) \o << t[n] >> = s \o (p \o << t[n] >>)
      BY <2>1, <3>1, <1>0
    <3> QED
      BY <3>1, <3>2, Zenon
  <2>4. FlattenSeq(Append(s \o p, t[n])) = FlattenSeq(s \o p) \o t[n]
    BY <2>1, <2>2, FlattenOfMore
  <2>5. FlattenSeq(Append(p, t[n])) = FlattenSeq(p) \o t[n]
    BY <2>1, FlattenOfMore
  <2>6. (FlattenSeq(s) \o FlattenSeq(p)) \o t[n] = FlattenSeq(s) \o (FlattenSeq(p) \o t[n])
    <3>1. FlattenSeq(s) \in Seq(T) /\ FlattenSeq(p) \in Seq(T)
      BY <1>2, <2>1
    <3> QED
      BY <2>1, <3>1, <1>0
  <2> QED
    BY <2>1, <2>3, <2>4, <2>5, <2>6
<1>7. \A n \in 0 .. N : n \in S
  <2>1. 0 \in S /\ \A n \in 1 .. N : n - 1 \in S => n \in S
    <3> HIDE DEF Splits
    <3> QED
      BY <1>1, <1>5, <1>6
  <2> HIDE DEF S
  <2> QED
    BY <1>1, <2>1, Upward
<1>8. N \in 0 .. N
  BY <1>1
<1>9. Splits(N)
  BY <1>7, <1>8
<1> QED
  BY <1>1, <1>2, <1>9

\* A sequence with an element at least is one with an element more.
LEMMA ButTheLast ==
  ASSUME NEW T, NEW s \in Seq(T), Len(s) > 0
  PROVE  \E front \in Seq(T), e \in T : s = Append(front, e) /\ Len(s) = Len(front) + 1
<1>1. s # << >>
  OBVIOUS
<1>2. PICK front \in Seq(T), e \in T : s = Append(front, e)
  BY <1>1, SequenceEmptyOrAppend
<1>3. Len(s) = Len(front) + 1
  BY <1>2, AppendProperties
<1> QED
  BY <1>2, <1>3

\* An element more behind two sequences.
LEMMA AppendBehind ==
  ASSUME NEW T, NEW s \in Seq(T), NEW t \in Seq(T), NEW e \in T
  PROVE  s \o Append(t, e) = Append(s \o t, e)
<1>1. Append(t, e) = t \o << e >> /\ << e >> \in Seq(T)
  BY AppendIsConcat
<1>2. s \o t \in Seq(T)
  BY ConcatProperties
<1>3. Append(s \o t, e) = (s \o t) \o << e >>
  BY <1>2, AppendIsConcat
<1>4. (s \o t) \o << e >> = s \o (t \o << e >>)
  BY <1>1, InAnyOrder
<1> QED
  BY <1>1, <1>3, <1>4

\* The lines of a text, of which there is always one.
Rows == { ls \in Seq(Seq(Characters)) : Len(ls) > 0 }
LEMMA OneMoreIs ==
  ASSUME NEW front \in Seq(Seq(Characters)), NEW last \in Seq(Characters), NEW character \in Characters
  PROVE  /\ Append(front, last) \in Rows
         /\ character = Newline => OneMore(Append(front, last), character) = Append(Append(front, last), << >>)
         /\ character # Newline => OneMore(Append(front, last), character) = Append(front, Append(last, character))
         /\ OneMore(Append(front, last), character) \in Rows
<1> DEFINE ls == Append(front, last)
           N == Len(front)
           R == Seq(Characters)
<1>1. last \in R /\ << >> \in R /\ Append(last, character) \in R
  BY AppendProperties
<1> HIDE DEF R
<1>2. front \in Seq(R)
  BY DEF R
<1>3. N \in Nat /\ ls \in Seq(R) /\ Len(ls) = N + 1 /\ ls[N + 1] = last /\ \A i \in 1 .. N : ls[i] = front[i]
  BY <1>1, <1>2, AppendProperties
<1>4. Append(ls, << >>) \in Seq(R) /\ Len(Append(ls, << >>)) = N + 1 + 1
  BY <1>1, <1>3, AppendProperties
<1> DEFINE other == Append(front, Append(last, character))
           changed == [ ls EXCEPT ![N + 1] = Append(ls[N + 1], character) ]
<1>5. /\ other \in Seq(R) /\ Len(other) = N + 1 /\ other[N + 1] = Append(last, character)
      /\ \A i \in 1 .. N : other[i] = front[i]
  BY <1>1, <1>2, AppendProperties
<1>6. /\ changed \in Seq(R) /\ Len(changed) = N + 1
      /\ \A i \in 1 .. N + 1 : changed[i] = IF i = N + 1 THEN Append(last, character) ELSE ls[i]
  <2>1. N + 1 \in 1 .. Len(ls) /\ Append(ls[N + 1], character) \in R
    BY <1>1, <1>3
  <2> HIDE DEF ls
  <2> QED
    BY <2>1, <1>3, ExceptSeq
<1>7. character # Newline => OneMore(ls, character) = changed
  BY <1>3 DEF OneMore
<1>8. character = Newline => OneMore(ls, character) = Append(ls, << >>)
  BY DEF OneMore
<1> HIDE DEF other, changed, ls, N
<1>9. changed = other
  <2>1. \A i \in 1 .. N + 1 : changed[i] = other[i]
    <3> TAKE i \in 1 .. N + 1
    <3>1. CASE i = N + 1
      BY <3>1, <1>5, <1>6
    <3>2. CASE i # N + 1
      <4>1. i \in 1 .. N
        BY <1>3, <3>2
      <4>2. changed[i] = ls[i] /\ ls[i] = front[i] /\ other[i] = front[i]
        BY <4>1, <3>2, <1>3, <1>5, <1>6
      <4> QED
        BY <4>2
    <3> QED
      BY <3>1, <3>2
  <2> QED
    BY <2>1, <1>5, <1>6, SeqEqual
<1>10. ls \in Rows /\ other \in Rows /\ Append(ls, << >>) \in Rows
  BY <1>3, <1>4, <1>5 DEF Rows, R
<1> QED
  BY <1>7, <1>8, <1>9, <1>10 DEF ls, other

\* One more character leaves some lines.
LEMMA OneMoreRows ==
  ASSUME NEW ls \in Rows, NEW character \in Characters
  PROVE  OneMore(ls, character) \in Rows
<1>1. PICK front \in Seq(Seq(Characters)), last \in Seq(Characters) : ls = Append(front, last)
  BY ButTheLast DEF Rows
<1> QED
  BY <1>1, OneMoreIs

LinesFollow(f, text) ==
  /\ f \in [ 0 .. Len(text) -> Rows ] /\ f[0] = << << >> >>
  /\ \A n \in 1 .. Len(text) : f[n] = OneMore(f[n - 1], text[n])
\* Lines computes such a function.
LEMMA LinesCounted ==
  ASSUME NEW text \in Seq(Characters)
  PROVE  \E f : LinesFollow(f, text) /\ Lines(text) = f[Len(text)]
<1> DEFINE N == Len(text)
           none == << << >> >>
           Following(n, before) == OneMore(before, text[n])
           Counts(g) == g = [ n \in 0 .. N |-> IF n = 0 THEN none ELSE Following(n, g[n - 1]) ]
           step == [ x \in (1 .. N) \X Rows |-> Following(x[1], x[2]) ]
           f == CHOOSE g : Counts(g)
<1>1. N \in Nat /\ none \in Rows /\ \A n \in 1 .. N : text[n] \in Characters
  BY DEF Rows
<1>2. \A n \in 1 .. N, before \in Rows : Following(n, before) \in Rows
  BY <1>1, OneMoreRows
<1>3. Lines(text) = f[N]
  BY DEF Lines
<1> HIDE DEF N, Following, none
<1>4. step \in Steps(N, Rows) /\ \A n \in 1 .. N, before \in Rows : step[<< n, before >>] = Following(n, before)
  BY <1>2 DEF Steps
<1> HIDE DEF step
<1>5. PICK g : Computes(g, N, Rows, none, step)
  BY <1>1, <1>4, Computed
<1>6. Counts(g)
  <2>1. g \in [ 0 .. N -> Rows ] /\ \A n \in 0 .. N : g[n] = IF n = 0 THEN none ELSE step[<< n, g[n - 1] >>]
    BY <1>5 DEF Computes
  <2>2. \A n \in 0 .. N : g[n] = IF n = 0 THEN none ELSE Following(n, g[n - 1])
    <3> TAKE n \in 0 .. N
    <3>1. CASE n # 0
      <4>1. n \in 1 .. N /\ n - 1 \in 0 .. N
        BY <1>1, <3>1
      <4> QED
        BY <2>1, <3>1, <4>1, <1>4
    <3> QED
      BY <2>1, <3>1
  <2> QED
    BY <2>1, <2>2
<1>7. Counts(f)
  BY <1>6
<1> HIDE DEF f
<1>8. f = [ n \in 0 .. N |-> f[n] ] /\ f[0] = none /\ \A n \in 1 .. N : f[n] = Following(n, f[n - 1])
  <2>1. f = [ n \in 0 .. N |-> IF n = 0 THEN none ELSE Following(n, f[n - 1]) ]
    BY <1>7
  <2>2. 0 \in 0 .. N /\ \A n \in 1 .. N : n \in 0 .. N /\ n # 0
    BY <1>1
  <2> QED
    BY <2>1, <2>2
<1>9. \A n \in 0 .. N : f[n] \in Rows
  <2> DEFINE S == { n \in 0 .. N : f[n] \in Rows }
  <2>1. 0 \in S
    BY <1>1, <1>8
  <2>2. ASSUME NEW n \in 1 .. N, n - 1 \in S PROVE n \in S
    <3>1. n \in 0 .. N /\ f[n - 1] \in Rows /\ f[n] = Following(n, f[n - 1])
      BY <2>2, <1>1, <1>8
    <3> QED
      BY <3>1, <1>2
  <2>3. \A n \in 0 .. N : n \in S
    <3> HIDE DEF S
    <3> QED
      BY <1>1, <2>1, <2>2, Upward
  <2> QED
    BY <2>3
<1>10. LinesFollow(f, text)
  BY <1>8, <1>9 DEF LinesFollow, N, Following, none
<1> QED
  BY <1>3, <1>10 DEF N

\* The lines of a text with a character more.
LEMMA LinesOfMore ==
  ASSUME NEW text \in Seq(Characters), NEW character \in Characters
  PROVE  Lines(text) \in Rows /\ Lines(Append(text, character)) = OneMore(Lines(text), character)
<1> DEFINE longer == Append(text, character)
           N == Len(text)
<1>1. /\ longer \in Seq(Characters) /\ Len(longer) = N + 1 /\ N \in Nat /\ longer[N + 1] = character
      /\ \A n \in 1 .. N : longer[n] = text[n]
  OBVIOUS
<1>2. PICK f : LinesFollow(f, text) /\ Lines(text) = f[N]
  BY LinesCounted
<1> HIDE DEF longer
<1>3. PICK g : LinesFollow(g, longer) /\ Lines(longer) = g[N + 1]
  BY <1>1, LinesCounted
<1> HIDE DEF N
<1>4. /\ f \in [ 0 .. N -> Rows ] /\ f[0] = << << >> >>
      /\ \A n \in 1 .. N : f[n] = OneMore(f[n - 1], text[n])
  BY <1>2 DEF LinesFollow, N
<1>5. /\ g[0] = << << >> >> /\ \A n \in 1 .. N + 1 : g[n] = OneMore(g[n - 1], longer[n])
  BY <1>1, <1>3 DEF LinesFollow
<1>6. \A n \in 0 .. N : g[n] = f[n]
  <2> DEFINE S == { n \in 0 .. N : g[n] = f[n] }
  <2>1. 0 \in S
    <3>1. g[0] = f[0]
      BY <1>4, <1>5, Zenon
    <3>2. 0 \in 0 .. N
      BY <1>1
    <3> QED
      BY <3>1, <3>2
  <2>2. ASSUME NEW n \in 1 .. N, n - 1 \in S PROVE n \in S
    <3>1. n \in 0 .. N /\ n \in 1 .. N + 1
      BY <1>1
    <3>2. g[n] = OneMore(g[n - 1], longer[n]) /\ f[n] = OneMore(f[n - 1], text[n]) /\ longer[n] = text[n] /\ g[n - 1] = f[n - 1]
      BY <2>2, <3>1, <1>1, <1>4, <1>5
    <3> QED
      BY <3>1, <3>2
  <2>3. \A n \in 0 .. N : n \in S
    <3> HIDE DEF S
    <3> QED
      BY <1>1, <2>1, <2>2, Upward
  <2> QED
    BY <2>3
<1>7. N + 1 \in 1 .. N + 1 /\ (N + 1) - 1 = N /\ N \in 0 .. N
  BY <1>1
<1>8. g[N + 1] = OneMore(g[N], character)
  BY <1>1, <1>5, <1>7
<1>9. g[N] = f[N] /\ f[N] \in Rows
  BY <1>4, <1>6, <1>7
<1> QED
  BY <1>2, <1>3, <1>8, <1>9 DEF longer

\* An empty text is one empty line.
LEMMA LinesOfNothing == Lines(<< >>) = << << >> >>
<1>1. << >> \in Seq(Characters) /\ Len(<< >>) = 0
  OBVIOUS
<1> QED
  BY <1>1, LinesCounted DEF LinesFollow

\* The lines of a text are texts.
LEMMA LinesTyped ==
  ASSUME NEW text \in Seq(Characters)
  PROVE  Lines(text) \in Rows
BY LinesOfMore, EditingConstants

\* Lines with the line breaks that end them: all but the last.
Ended(lines) == [ i \in DOMAIN lines |-> IF i < Len(lines) THEN Append(lines[i], Newline) ELSE lines[i] ]
LineBroken(lines) == [ i \in DOMAIN lines |-> Append(lines[i], Newline) ]

\* The lines with their breaks, where a line goes on or another begins.
LEMMA LineBrokenIs ==
  ASSUME NEW lines \in Seq(Seq(Characters))
  PROVE  LineBroken(lines) \in Seq(Seq(Characters)) /\ Len(LineBroken(lines)) = Len(lines)
<1> DEFINE R == Seq(Characters)
           N == Len(lines)
           ended(i) == Append(lines[i], Newline)
<1>1. \A l \in R : Append(l, Newline) \in R
  BY EditingConstants
<1>2. N \in Nat /\ DOMAIN lines = 1 .. N /\ \A i \in 1 .. N : lines[i] \in R
  OBVIOUS
<1>3. \A i \in 1 .. N : ended(i) \in R
  BY <1>1, <1>2
<1>4. LineBroken(lines) = [ i \in 1 .. N |-> ended(i) ]
  BY <1>2 DEF LineBroken
<1> HIDE DEF R, N, ended
<1>5. [ i \in 1 .. N |-> ended(i) ] \in Seq(R) /\ Len([ i \in 1 .. N |-> ended(i) ]) = N
  BY <1>2, <1>3
<1> QED
  BY <1>4, <1>5 DEF R, N

\* Only the last line has no break.
LEMMA LastEnded ==
  ASSUME NEW front \in Seq(Seq(Characters)), NEW last \in Seq(Characters)
  PROVE  /\ Ended(Append(front, last)) = Append(LineBroken(front), last)
         /\ LineBroken(Append(front, last)) = Append(LineBroken(front), Append(last, Newline))
<1> DEFINE R == Seq(Characters)
           ls == Append(front, last)
           N == Len(front)
           both == Append(LineBroken(front), last)
           all == Append(LineBroken(front), Append(last, Newline))
<1>1. last \in R /\ Append(last, Newline) \in R
  BY EditingConstants
<1>2. LineBroken(front) \in Seq(R) /\ Len(LineBroken(front)) = N /\ \A i \in 1 .. N : LineBroken(front)[i] = Append(front[i], Newline)
  <2>1. LineBroken(front) \in Seq(R) /\ Len(LineBroken(front)) = N
    BY LineBrokenIs
  <2>2. DOMAIN front = 1 .. N
    OBVIOUS
  <2> HIDE DEF N
  <2> QED
    BY <2>1, <2>2 DEF LineBroken
<1> HIDE DEF R
<1>3. /\ N \in Nat /\ front \in Seq(R) /\ Len(ls) = N + 1 /\ DOMAIN ls = 1 .. N + 1 /\ ls[N + 1] = last
      /\ \A i \in 1 .. N : ls[i] = front[i]
  <2>1. front \in Seq(R)
    BY DEF R
  <2> QED
    BY <2>1, <1>1, AppendProperties
<1>4. /\ DOMAIN both = 1 .. N + 1 /\ both[N + 1] = last /\ \A i \in 1 .. N : both[i] = LineBroken(front)[i]
      /\ both = [ i \in 1 .. N + 1 |-> both[i] ]
  <2>1. /\ both \in Seq(R) /\ Len(both) = N + 1
        /\ both[N + 1] = last /\ \A i \in 1 .. N : both[i] = LineBroken(front)[i]
    BY <1>1, <1>2, AppendProperties
  <2> HIDE DEF N, both
  <2> QED
    BY <2>1
<1>5. /\ DOMAIN all = 1 .. N + 1 /\ all[N + 1] = Append(last, Newline) /\ \A i \in 1 .. N : all[i] = LineBroken(front)[i]
      /\ all = [ i \in 1 .. N + 1 |-> all[i] ]
  <2>1. /\ all \in Seq(R) /\ Len(all) = N + 1
        /\ all[N + 1] = Append(last, Newline) /\ \A i \in 1 .. N : all[i] = LineBroken(front)[i]
    BY <1>1, <1>2, AppendProperties
  <2> HIDE DEF N, all
  <2> QED
    BY <2>1
<1> HIDE DEF ls, N, both, all
<1>6. \A i \in 1 .. N + 1 : i # N + 1 => i \in 1 .. N /\ i < N + 1
  BY <1>3
<1>7. ~(N + 1 < N + 1)
  BY <1>3
<1>8. Ended(ls) = [ i \in 1 .. N + 1 |-> IF i < N + 1 THEN Append(ls[i], Newline) ELSE ls[i] ]
  BY <1>3 DEF Ended
<1>9. LineBroken(ls) = [ i \in 1 .. N + 1 |-> Append(ls[i], Newline) ]
  BY <1>3 DEF LineBroken
<1>10. \A i \in 1 .. N + 1 : both[i] = IF i < N + 1 THEN Append(ls[i], Newline) ELSE ls[i]
  BY <1>2, <1>3, <1>4, <1>6, <1>7
<1>11. \A i \in 1 .. N + 1 : all[i] = Append(ls[i], Newline)
  BY <1>2, <1>3, <1>5, <1>6
<1>12. Ended(ls) = both
  BY <1>4, <1>8, <1>10
<1>13. LineBroken(ls) = all
  BY <1>5, <1>9, <1>11
<1> QED
  BY <1>12, <1>13 DEF ls, both, all

\* Their text.
LEMMA TextOfRow ==
  ASSUME NEW front \in Seq(Seq(Characters)), NEW last \in Seq(Characters)
  PROVE  /\ FlattenSeq(Ended(Append(front, last))) = FlattenSeq(LineBroken(front)) \o last
         /\ FlattenSeq(LineBroken(Append(front, last))) = FlattenSeq(LineBroken(front)) \o Append(last, Newline)
         /\ FlattenSeq(LineBroken(front)) \in Seq(Characters)
<1>1. LineBroken(front) \in Seq(Seq(Characters))
  BY LineBrokenIs
<1>2. Append(last, Newline) \in Seq(Characters)
  BY EditingConstants
<1>3. Ended(Append(front, last)) = Append(LineBroken(front), last)
  BY LastEnded
<1>4. LineBroken(Append(front, last)) = Append(LineBroken(front), Append(last, Newline))
  BY LastEnded
<1> DEFINE b == LineBroken(front)
           l == Append(last, Newline)
<1> HIDE DEF b, l
<1>5. b \in Seq(Seq(Characters)) /\ l \in Seq(Characters)
  BY <1>1, <1>2 DEF b, l
<1>6. FlattenSeq(Append(b, last)) = FlattenSeq(b) \o last /\ FlattenSeq(b) \in Seq(Characters)
  BY <1>5, FlattenOfMore
<1>7. FlattenSeq(Append(b, l)) = FlattenSeq(b) \o l
  BY <1>5, FlattenOfMore
<1> QED
  BY <1>3, <1>4, <1>6, <1>7 DEF b, l

\* It grows with the text.
LEMMA RowGrows ==
  ASSUME NEW ls \in Rows, NEW character \in Characters
  PROVE  /\ FlattenSeq(Ended(ls)) \in Seq(Characters)
         /\ FlattenSeq(Ended(OneMore(ls, character))) = Append(FlattenSeq(Ended(ls)), character)
<1>1. PICK front \in Seq(Seq(Characters)), last \in Seq(Characters) : ls = Append(front, last)
  BY ButTheLast DEF Rows
<1> DEFINE b == FlattenSeq(LineBroken(front))
<1>2. FlattenSeq(Ended(ls)) = b \o last /\ b \in Seq(Characters)
  BY <1>1, TextOfRow
<1>3. b \o last \in Seq(Characters)
  <2> HIDE DEF b
  <2> QED
    BY <1>2, ConcatProperties
<1>4. b \o Append(last, character) = Append(b \o last, character)
  <2> HIDE DEF b
  <2> QED
    BY <1>2, AppendBehind
<1>5. CASE character = Newline
  <2>1. OneMore(ls, character) = Append(ls, << >>) /\ ls \in Seq(Seq(Characters))
    BY <1>1, <1>5, OneMoreIs DEF Rows
  <2>2. << >> \in Seq(Characters)
    OBVIOUS
  <2>3. FlattenSeq(Ended(Append(ls, << >>))) = FlattenSeq(LineBroken(ls)) \o << >> /\ FlattenSeq(LineBroken(ls)) \in Seq(Characters)
    BY <2>1, <2>2, TextOfRow
  <2>4. FlattenSeq(LineBroken(ls)) \o << >> = FlattenSeq(LineBroken(ls))
    <3> DEFINE t == FlattenSeq(LineBroken(ls))
    <3> HIDE DEF t
    <3>1. t \in Seq(Characters)
      BY <2>3 DEF t
    <3> QED
      BY <3>1, ConcatEmptySeq DEF t
  <2>5. FlattenSeq(LineBroken(ls)) = b \o Append(last, Newline)
    BY <1>1, TextOfRow
  <2> HIDE DEF b
  <2> QED
    BY <1>2, <1>3, <1>4, <1>5, <2>1, <2>3, <2>4, <2>5
<1>6. CASE character # Newline
  <2>1. OneMore(ls, character) = Append(front, Append(last, character)) /\ Append(last, character) \in Seq(Characters)
    BY <1>1, <1>6, OneMoreIs
  <2>2. FlattenSeq(Ended(Append(front, Append(last, character)))) = b \o Append(last, character)
    BY <2>1, TextOfRow
  <2> HIDE DEF b
  <2> QED
    BY <1>2, <1>3, <1>4, <2>1, <2>2
<1> QED
  BY <1>5, <1>6

\* The lines of a text, put together, are the text.
LEMMA SplitAfterIs ==
  ASSUME NEW text \in Seq(Characters)
  PROVE  /\ SplitAfter(text) \in Seq(Seq(Characters))
         /\ FlattenSeq(SplitAfter(text)) = text
<1> DEFINE N == Len(text)
           part(n) == SubSeq(text, 1, n)
           S == { n \in 0 .. N : FlattenSeq(SplitAfter(part(n))) = part(n) }
<1>1. N \in Nat /\ part(0) = << >> /\ part(N) = text
  BY Whole
<1>2. \A t : SplitAfter(t) = Ended(Lines(t))
  BY DEF SplitAfter, Ended
<1>3. ASSUME NEW n \in 1 .. N
      PROVE  /\ n - 1 \in 0 .. N /\ text[n] \in Characters /\ part(n) = Append(part(n - 1), text[n])
             /\ part(n - 1) \in Seq(Characters)
  <2>1. 1 \in Nat /\ n \in Nat /\ n - 1 \in Nat /\ 1 <= 1 /\ 1 <= n /\ n <= Len(text) /\ 1 <= (n - 1) + 1 /\ n - 1 <= Len(text)
    OBVIOUS
  <2>2. part(n - 1) \in Seq(Characters)
    BY <2>1, Stretch
  <2> QED
    BY <2>1, <2>2, LongerStretch
<1> HIDE DEF N, part
<1>4. 0 \in S
  <2>1. << >> \in Seq(Seq(Characters)) /\ << >> \in Seq(Characters)
    OBVIOUS
  <2>2. LineBroken(<< >>) = << >>
    BY DEF LineBroken
  <2>3. FlattenSeq(Ended(Append(<< >>, << >>))) = FlattenSeq(LineBroken(<< >>)) \o << >>
    BY <2>1, TextOfRow
  <2>4. Append(<< >>, << >>) = << << >> >> /\ << >> \o << >> = << >>
    OBVIOUS
  <2>5. FlattenSeq(Ended(<< << >> >>)) = << >>
    BY <2>2, <2>3, <2>4, FlattenNothing
  <2>6. FlattenSeq(SplitAfter(part(0))) = part(0)
    BY <1>1, <1>2, <2>5, LinesOfNothing
  <2> QED
    BY <2>6, <1>1
<1>5. ASSUME NEW n \in 1 .. N, n - 1 \in S PROVE n \in S
  <2> DEFINE p == part(n - 1)
  <2>1. p \in Seq(Characters) /\ text[n] \in Characters /\ part(n) = Append(p, text[n]) /\ FlattenSeq(Ended(Lines(p))) = p
    BY <1>2, <1>3, <1>5
  <2> HIDE DEF p
  <2>2. Lines(p) \in Rows /\ Lines(Append(p, text[n])) = OneMore(Lines(p), text[n])
    BY <2>1, LinesOfMore
  <2>3. FlattenSeq(Ended(OneMore(Lines(p), text[n]))) = Append(FlattenSeq(Ended(Lines(p))), text[n])
    BY <2>1, <2>2, RowGrows
  <2>4. FlattenSeq(SplitAfter(part(n))) = part(n)
    BY <1>2, <2>1, <2>2, <2>3
  <2>5. n \in 0 .. N
    BY <1>1
  <2> QED
    BY <2>4, <2>5
<1>6. \A n \in 0 .. N : n \in S
  <2> HIDE DEF S
  <2> QED
    BY <1>1, <1>4, <1>5, Upward
<1>7. FlattenSeq(SplitAfter(text)) = text
  BY <1>1, <1>6
<1>8. SplitAfter(text) \in Seq(Seq(Characters))
  <2>1. Lines(text) \in Rows
    BY LinesTyped
  <2>2. PICK front \in Seq(Seq(Characters)), last \in Seq(Characters) : Lines(text) = Append(front, last)
    BY <2>1, ButTheLast DEF Rows
  <2>3. SplitAfter(text) = Append(LineBroken(front), last) /\ LineBroken(front) \in Seq(Seq(Characters))
    BY <1>2, <2>2, LastEnded, LineBrokenIs
  <2> DEFINE R == Seq(Characters)
             b == LineBroken(front)
  <2> HIDE DEF R, b
  <2>4. b \in Seq(R) /\ last \in R
    BY <2>3 DEF R, b
  <2>5. Append(b, last) \in Seq(R)
    BY <2>4, AppendProperties
  <2> QED
    BY <2>3, <2>5 DEF R, b
<1> QED
  BY <1>7, <1>8

\* The parts of two sequences put behind each other.
LEMMA Parts ==
  ASSUME NEW T, NEW s \in Seq(T), NEW t \in Seq(T)
  PROVE  /\ s \o t \in Seq(T) /\ Len(s \o t) = Len(s) + Len(t)
         /\ SubSeq(s \o t, 1, Len(s)) = s
         /\ SubSeq(s \o t, Len(s) + 1, Len(s) + Len(t)) = t
<1> DEFINE u == s \o t
           M == Len(s)
           N == Len(t)
           a == SubSeq(u, 1, M)
           b == SubSeq(u, M + 1, M + N)
<1>1. /\ M \in Nat /\ N \in Nat /\ u \in Seq(T) /\ Len(u) = M + N
      /\ \A i \in 1 .. M + N : u[i] = IF i <= M THEN s[i] ELSE t[i - M]
  BY ConcatProperties
<1> HIDE DEF u
<1>2. a \in Seq(T) /\ Len(a) = M /\ \A i \in 1 .. M : a[i] = u[i]
  <2> HIDE DEF M, N
  <2>1. 1 \in Nat /\ M \in Nat /\ 1 <= 1 /\ 1 <= M + 1 /\ M <= Len(u) /\ M - 1 + 1 = M
    BY <1>1
  <2>2. SubSeq(u, 1, M) \in Seq(T) /\ Len(SubSeq(u, 1, M)) = M - 1 + 1 /\ \A i \in 1 .. M - 1 + 1 : SubSeq(u, 1, M)[i] = u[1 + i - 1]
    BY <1>1, <2>1, Stretch
  <2>3. \A i \in 1 .. M : 1 + i - 1 = i
    BY <1>1
  <2> QED
    BY <2>1, <2>2, <2>3
<1>3. b \in Seq(T) /\ Len(b) = N /\ \A i \in 1 .. N : b[i] = u[M + i]
  <2> HIDE DEF M, N
  <2>1. M + 1 \in Nat /\ M + N \in Nat /\ 1 <= M + 1 /\ M + 1 <= (M + N) + 1 /\ M + N <= Len(u) /\ (M + N) - (M + 1) + 1 = N
    BY <1>1
  <2>2. /\ SubSeq(u, M + 1, M + N) \in Seq(T) /\ Len(SubSeq(u, M + 1, M + N)) = (M + N) - (M + 1) + 1
        /\ \A i \in 1 .. (M + N) - (M + 1) + 1 : SubSeq(u, M + 1, M + N)[i] = u[(M + 1) + i - 1]
    BY <1>1, <2>1, Stretch
  <2>3. \A i \in 1 .. N : (M + 1) + i - 1 = M + i
    BY <1>1
  <2> QED
    BY <2>1, <2>2, <2>3
<1>4. a = s
  <2> HIDE DEF a
  <2>1. \A i \in 1 .. Len(a) : a[i] = s[i]
    BY <1>1, <1>2
  <2> QED
    BY <1>2, <2>1, SeqEqual
<1>5. b = t
  <2> HIDE DEF b
  <2>1. \A i \in 1 .. Len(b) : b[i] = t[i]
    <3> SUFFICES ASSUME NEW i \in 1 .. N PROVE b[i] = t[i]
      BY <1>3
    <3> HIDE DEF M, N
    <3>1. M + i \in 1 .. M + N /\ ~(M + i <= M) /\ (M + i) - M = i
      BY <1>1
    <3> QED
      BY <3>1, <1>1, <1>3
  <2> QED
    BY <1>3, <2>1, SeqEqual
<1> QED
  BY <1>1, <1>4, <1>5 DEF u

\* What is between two parts gives way to something else.
LEMMA SplicedParts ==
  ASSUME NEW A \in Seq(Characters), NEW M \in Seq(Characters), NEW Z \in Seq(Characters), NEW new \in Seq(Characters)
  PROVE  /\ Spliced((A \o M) \o Z, Len(A), Len((A \o M) \o Z) - Len(Z), new) = (A \o new) \o Z
         /\ Len((A \o M) \o Z) - Len(Z) \in Len(A) .. Len((A \o M) \o Z)
<1> DEFINE m == A \o M
           t == m \o Z
           r == M \o Z
           a == Len(A)
           b == Len(M)
           z == Len(Z)
<1>1. m \in Seq(Characters) /\ Len(m) = a + b /\ r \in Seq(Characters) /\ Len(r) = b + z
  BY Parts
<1>2. a \in Nat /\ b \in Nat /\ z \in Nat
  OBVIOUS
<1>3. t = A \o r
  BY InAnyOrder
<1>4. SubSeq(A \o r, 1, a) = A
  <2> HIDE DEF r
  <2> QED
    BY <1>1, Parts
<1>5. Len(t) = Len(m) + z /\ SubSeq(t, Len(m) + 1, Len(m) + z) = Z
  <2> HIDE DEF m
  <2>1. m \in Seq(Characters)
    BY <1>1
  <2> QED
    BY <2>1, Parts
<1>6. Len(t) - z = Len(m) /\ Len(m) \in a .. Len(t)
  <2> HIDE DEF m, t, a, b, z
  <2> QED
    BY <1>1, <1>2, <1>5
<1>7. Spliced(t, a, Len(t) - z, new) = (SubSeq(t, 1, a) \o new) \o SubSeq(t, Len(m) + 1, Len(m) + z)
  BY <1>5, <1>6 DEF Spliced
<1>8. Spliced(t, a, Len(t) - z, new) = (A \o new) \o Z
  BY <1>3, <1>4, <1>5, <1>7
<1> QED
  BY <1>6, <1>8

\* Sequences put behind each other, in three parts.
LEMMA ThreeParts ==
  ASSUME NEW T, NEW s \in Seq(Seq(T)), NEW a \in Nat, NEW b \in Nat, a <= b, b <= Len(s)
  PROVE  /\ FlattenSeq(SubSeq(s, 1, a)) \in Seq(T) /\ FlattenSeq(SubSeq(s, a + 1, b)) \in Seq(T)
         /\ FlattenSeq(SubSeq(s, b + 1, Len(s))) \in Seq(T)
         /\ FlattenSeq(s) = (FlattenSeq(SubSeq(s, 1, a)) \o FlattenSeq(SubSeq(s, a + 1, b))) \o FlattenSeq(SubSeq(s, b + 1, Len(s)))
<1> DEFINE R == Seq(T)
           N == Len(s)
           x == SubSeq(s, 1, a)
           y == SubSeq(s, a + 1, b)
           z == SubSeq(s, b + 1, N)
           w == SubSeq(s, 1, b)
<1>0. N \in Nat /\ s \in Seq(R)
  OBVIOUS
<1> HIDE DEF R, N
<1>1. b <= N
  BY DEF N
<1>2. x \in Seq(R)
  BY <1>0, <1>1, Stretch DEF N
<1>3. y \in Seq(R)
  <2>1. a + 1 \in Nat /\ 1 <= a + 1 /\ a + 1 <= b + 1 /\ b <= Len(s)
    OBVIOUS
  <2> QED
    BY <1>0, <2>1, Stretch
<1>4. z \in Seq(R)
  <2>1. b + 1 \in Nat /\ 1 <= b + 1 /\ b + 1 <= N + 1 /\ N <= Len(s)
    BY <1>0, <1>1 DEF N
  <2> QED
    BY <1>0, <2>1, Stretch
<1>5. x \o y = w
  <2>1. 1 \in Nat /\ 1 <= 1 /\ 1 <= a + 1
    OBVIOUS
  <2> QED
    BY <1>0, <2>1, Meet
<1>6. w \o z = s
  <2>1. 1 \in Nat /\ 1 <= 1 /\ 1 <= b + 1 /\ N <= Len(s) /\ b <= N
    BY <1>0, <1>1 DEF N
  <2>2. w \o z = SubSeq(s, 1, N)
    BY <1>0, <2>1, Meet
  <2>3. SubSeq(s, 1, N) = s
    BY Whole DEF N
  <2> QED
    BY <2>2, <2>3
<1> HIDE DEF x, y, z, w
<1>7. x \in Seq(Seq(T)) /\ y \in Seq(Seq(T)) /\ z \in Seq(Seq(T))
  BY <1>2, <1>3, <1>4 DEF R
<1>8. FlattenSeq(x) \in Seq(T) /\ FlattenSeq(y) \in Seq(T) /\ FlattenSeq(x \o y) = FlattenSeq(x) \o FlattenSeq(y)
  BY <1>7, FlattenConcat
<1>9. w \in Seq(Seq(T))
  <2>1. x \o y \in Seq(R)
    BY <1>2, <1>3, Parts
  <2> QED
    BY <2>1, <1>5 DEF R
<1>10. FlattenSeq(z) \in Seq(T) /\ FlattenSeq(w \o z) = FlattenSeq(w) \o FlattenSeq(z)
  BY <1>7, <1>9, FlattenConcat
<1> QED
  BY <1>5, <1>6, <1>8, <1>10 DEF x, y, z, N

\* How many lines are alike.
LEMMA AlikeIs ==
  ASSUME NEW lines, NEW others, NEW most \in Nat
  PROVE  /\ Alike(lines, others, most) \in 0 .. most
         /\ \A i \in 1 .. Alike(lines, others, most) : lines[i] = others[i]
<1> DEFINE same == { n \in 0 .. most : \A i \in 1 .. n : lines[i] = others[i] }
<1>1. 0 \in same
  OBVIOUS
<1>2. Alike(lines, others, most) = Max(same)
  BY DEF Alike
<1>3. same \in SUBSET (0 .. most) /\ same # {}
  BY <1>1
<1>4. Max(same) \in same
  <2> HIDE DEF same
  <2> QED
    BY <1>3, Largest
<1> QED
  BY <1>2, <1>4

\* Stretches of the same lines.
SameFrom(s, t, a, b, n) == \A i \in 1 .. n : s[a + i] = t[b + i]
LEMMA SameStretch ==
  ASSUME NEW T, NEW s \in Seq(T), NEW t \in Seq(T), NEW n \in Nat,
         NEW a \in Nat, a + n <= Len(s), NEW b \in Nat, b + n <= Len(t),
         SameFrom(s, t, a, b, n)
  PROVE  SubSeq(s, a + 1, a + n) = SubSeq(t, b + 1, b + n)
<1> DEFINE x == SubSeq(s, a + 1, a + n)
           y == SubSeq(t, b + 1, b + n)
<1>1. x \in Seq(T) /\ Len(x) = n /\ \A i \in 1 .. n : x[i] = s[a + i]
  <2>1. a + 1 \in Nat /\ a + n \in Nat /\ 1 <= a + 1 /\ a + 1 <= (a + n) + 1 /\ (a + n) - (a + 1) + 1 = n
    OBVIOUS
  <2>2. /\ x \in Seq(T) /\ Len(x) = (a + n) - (a + 1) + 1
        /\ \A i \in 1 .. (a + n) - (a + 1) + 1 : x[i] = s[(a + 1) + i - 1]
    BY <2>1, Stretch
  <2>3. \A i \in 1 .. n : (a + 1) + i - 1 = a + i
    OBVIOUS
  <2> HIDE DEF x
  <2> QED
    BY <2>1, <2>2, <2>3
<1>2. y \in Seq(T) /\ Len(y) = n /\ \A i \in 1 .. n : y[i] = t[b + i]
  <2>1. b + 1 \in Nat /\ b + n \in Nat /\ 1 <= b + 1 /\ b + 1 <= (b + n) + 1 /\ (b + n) - (b + 1) + 1 = n
    OBVIOUS
  <2>2. /\ y \in Seq(T) /\ Len(y) = (b + n) - (b + 1) + 1
        /\ \A i \in 1 .. (b + n) - (b + 1) + 1 : y[i] = t[(b + 1) + i - 1]
    BY <2>1, Stretch
  <2>3. \A i \in 1 .. n : (b + 1) + i - 1 = b + i
    OBVIOUS
  <2> HIDE DEF y
  <2> QED
    BY <2>1, <2>2, <2>3
<1> HIDE DEF x, y
<1>3. \A i \in 1 .. Len(x) : x[i] = y[i]
  BY <1>1, <1>2 DEF SameFrom
<1>4. x = y
  BY <1>1, <1>2, <1>3, SeqEqual
<1> QED
  BY <1>4 DEF x, y

\* Where the editor finds the places of a reply, and what the reply puts between
\* them, make the one text of the other.
LEMMA MinimalEditIs ==
  ASSUME NEW before \in Seq(Characters), NEW after \in Seq(Characters)
  PROVE  LET edit == MinimalEdit(before, after)
             start == Offset(before, edit.start)
             end == Offset(before, edit.end)
         IN  /\ start \in 0 .. Len(before) /\ end \in 0 .. Len(before) /\ start <= end
             /\ Spliced(before, start, end, edit.text) = after /\ edit.text \in Seq(Characters)
<1> DEFINE olds == SplitAfter(before)
           news == SplitAfter(after)
           O == Len(olds)
           N == Len(news)
           least == Min({ O, N })
           p == Alike(olds, news, least)
           q == Alike(Reverse(olds), Reverse(news), least - p)
           A == FlattenSeq(SubSeq(olds, 1, p))
           M == FlattenSeq(SubSeq(olds, p + 1, O - q))
           Z == FlattenSeq(SubSeq(olds, O - q + 1, O))
           text == FlattenSeq(SubSeq(news, p + 1, N - q))
           start == Len(A)
           end == Len(before) - Len(Z)
           range == RangeForOffsets(before, start, end)
<1>1. MinimalEdit(before, after) = [ start |-> range.start, end |-> range.end, text |-> text ]
  BY DEF MinimalEdit
<1>2. /\ olds \in Seq(Seq(Characters)) /\ FlattenSeq(olds) = before
      /\ news \in Seq(Seq(Characters)) /\ FlattenSeq(news) = after
  BY SplitAfterIs
<1> HIDE DEF olds, news
<1>3. O \in Nat /\ N \in Nat
  BY <1>2
<1>4. least \in Nat /\ least <= O /\ least <= N
  <2> HIDE DEF O, N
  <2> QED
    BY <1>3, OfTwo
<1> HIDE DEF least
<1>5. p \in 0 .. least /\ \A i \in 1 .. p : olds[i] = news[i]
  BY <1>4, AlikeIs
<1> HIDE DEF p
<1>6. q \in 0 .. least - p /\ \A i \in 1 .. q : Reverse(olds)[i] = Reverse(news)[i]
  <2>1. least - p \in Nat
    BY <1>4, <1>5
  <2> QED
    BY <2>1, AlikeIs
<1> HIDE DEF q
<1>7. \A i \in 1 .. q : olds[(O - i) + 1] = news[(N - i) + 1]
  <2> TAKE i \in 1 .. q
  <2>1. i \in 1 .. O /\ i \in 1 .. N
    <3> HIDE DEF O, N
    <3> QED
      BY <1>3, <1>4, <1>5, <1>6
  <2>2. Reverse(olds)[i] = olds[(O - i) + 1] /\ Reverse(news)[i] = news[(N - i) + 1]
    BY <2>1 DEF Reverse
  <2> QED
    BY <2>2, <1>6
<1> DEFINE a == O - q
           b == N - q
<1> HIDE DEF O, N
<1>8. /\ p \in Nat /\ q \in Nat /\ a \in Nat /\ b \in Nat /\ p <= a /\ p <= b /\ a <= O /\ b <= N
      /\ a + q = O /\ b + q = N
  BY <1>3, <1>4, <1>5, <1>6
<1>9. \A i \in 1 .. q : olds[a + i] = news[b + i]
  <2> TAKE i \in 1 .. q
  <2> DEFINE j == (q - i) + 1
  <2>1. j \in 1 .. q /\ (O - j) + 1 = a + i /\ (N - j) + 1 = b + i
    BY <1>3, <1>8
  <2> HIDE DEF j
  <2> QED
    BY <2>1, <1>7
<1> HIDE DEF a, b
<1>10. SubSeq(olds, 1, p) = SubSeq(news, 1, p)
  <2> DEFINE R == Seq(Characters)
  <2> HIDE DEF R
  <2>1. olds \in Seq(R) /\ news \in Seq(R)
    BY <1>2 DEF R
  <2>2. /\ 0 \in Nat /\ 0 + p <= Len(olds) /\ 0 + p <= Len(news) /\ 0 + 1 = 1 /\ 0 + p = p
        /\ SameFrom(olds, news, 0, 0, p)
    BY <1>3, <1>5, <1>8 DEF O, N, SameFrom
  <2>3. SubSeq(olds, 0 + 1, 0 + p) = SubSeq(news, 0 + 1, 0 + p)
    BY <1>8, <2>1, <2>2, SameStretch
  <2> QED
    BY <2>2, <2>3
<1>11. SubSeq(olds, a + 1, O) = SubSeq(news, b + 1, N)
  <2> DEFINE R == Seq(Characters)
  <2> HIDE DEF R
  <2>1. olds \in Seq(R) /\ news \in Seq(R) /\ a + q <= Len(olds) /\ b + q <= Len(news)
    BY <1>2, <1>3, <1>8 DEF R, O, N
  <2>2. SubSeq(olds, a + 1, a + q) = SubSeq(news, b + 1, b + q)
    <3>1. q \in Nat /\ a \in Nat /\ b \in Nat
      BY <1>8
    <3>2. SameFrom(olds, news, a, b, q)
      BY <1>9 DEF SameFrom
    <3> QED
      BY <2>1, <3>1, <3>2, SameStretch
  <2> QED
    BY <2>2, <1>8
<1>12. A \in Seq(Characters) /\ M \in Seq(Characters) /\ Z \in Seq(Characters) /\ before = (A \o M) \o Z
  BY <1>2, <1>8, ThreeParts, ZenonT(60) DEF a, O
<1>13. text \in Seq(Characters) /\ after = (A \o text) \o Z
  <2>1. /\ FlattenSeq(SubSeq(news, p + 1, b)) \in Seq(Characters)
        /\ FlattenSeq(news) = (FlattenSeq(SubSeq(news, 1, p)) \o FlattenSeq(SubSeq(news, p + 1, b))) \o FlattenSeq(SubSeq(news, b + 1, N))
    BY <1>2, <1>8, ThreeParts DEF N
  <2> QED
    BY <2>1, <1>2, <1>10, <1>11 DEF a, b
<1> HIDE DEF A, M, Z, text
<1>14. Spliced(before, start, end, text) = after /\ end \in start .. Len(before)
  <2>1. /\ Spliced((A \o M) \o Z, Len(A), Len((A \o M) \o Z) - Len(Z), text) = (A \o text) \o Z
        /\ Len((A \o M) \o Z) - Len(Z) \in Len(A) .. Len((A \o M) \o Z)
    BY <1>12, <1>13, SplicedParts
  <2> QED
    BY <2>1, <1>12, <1>13
<1>15. start \in Nat /\ Len(before) \in Nat
  BY <1>12
<1> DEFINE L == Len(before)
<1> HIDE DEF start, end
<1>16. range = [ start |-> PositionForOffset(before, start), end |-> PositionForOffset(before, end) ]
  <2>1. start \in Nat /\ end \in Nat /\ L \in Nat /\ start <= end /\ end <= L
    BY <1>14, <1>15
  <2> HIDE DEF L
  <2>2. Min({ start, L }) = start /\ Max({ start, end }) = end /\ Min({ end, L }) = end
    <3>1. Min({ start, L }) = start
      <4>1. start <= L
        BY <2>1
      <4> QED
        BY <2>1, <4>1, OfTwo
    <3>2. Max({ start, end }) = end
      BY <2>1, OfTwo
    <3>3. Min({ end, L }) = end
      BY <2>1, OfTwo
    <3> QED
      BY <3>1, <3>2, <3>3
  <2> QED
    BY <2>2 DEF RangeForOffsets, L
<1>17. start \in 0 .. Len(before) /\ end \in 0 .. Len(before) /\ start <= end
  BY <1>14, <1>15
<1>18. Offset(before, range.start) = start /\ Offset(before, range.end) = end
  BY <1>16, <1>17, EditorFinds
<1> HIDE DEF range
<1> QED
  BY <1>1, <1>13, <1>14, <1>17, <1>18, SMTT(60)

-----------------------------------------------------------------------------
(* Diffs.                                                                  *)

\* An edit, and what a sequence of them shows.
Ops == { " ", "-", "+" }
EditsOf(L) == [ op : Ops, line : L ]
Grown(lines, edit, other) == IF edit.op = other THEN lines ELSE Append(lines, edit.line)

\* A side with an edit more is a side.
LEMMA GrownIs ==
  ASSUME NEW L, NEW lines \in Seq(L), NEW edit \in EditsOf(L), NEW other
  PROVE  /\ Grown(lines, edit, other) \in Seq(L)
         /\ Len(Grown(lines, edit, other)) = IF edit.op = other THEN Len(lines) ELSE Len(lines) + 1
         /\ edit.line \in L
<1>1. edit.line \in L
  BY DEF EditsOf
<1>2. Append(lines, edit.line) \in Seq(L) /\ Len(Append(lines, edit.line)) = Len(lines) + 1
  BY <1>1, AppendProperties
<1> QED
  BY <1>1, <1>2 DEF Grown

SideFollows(f, diff, other, L) ==
  /\ f \in [ 0 .. Len(diff) -> Seq(L) ] /\ f[0] = << >>
  /\ \A n \in 1 .. Len(diff) : f[n] = Grown(f[n - 1], diff[n], other)
\* Side computes such a function.
LEMMA SideCounted ==
  ASSUME NEW L, NEW diff \in Seq(EditsOf(L)), NEW other
  PROVE  \E f : SideFollows(f, diff, other, L) /\ Side(diff, other) = f[Len(diff)]
<1> DEFINE N == Len(diff)
           T == Seq(L)
           none == << >>
           Following(n, before) == Grown(before, diff[n], other)
           Counts(g) == g = [ n \in 0 .. N |-> IF n = 0 THEN none ELSE Following(n, g[n - 1]) ]
           step == [ x \in (1 .. N) \X T |-> Following(x[1], x[2]) ]
           f == CHOOSE g : Counts(g)
<1>1. N \in Nat /\ none \in T /\ \A n \in 1 .. N : diff[n] \in EditsOf(L)
  OBVIOUS
<1>2. \A n \in 1 .. N, before \in T : Following(n, before) \in T
  BY <1>1, GrownIs
<1>3. Side(diff, other) = f[N]
  <2>1. \A g : Counts(g) <=>
          g = [ n \in 0 .. N |-> IF n = 0 THEN << >>
                ELSE IF diff[n].op = other THEN g[n - 1] ELSE Append(g[n - 1], diff[n].line) ]
    BY DEF Grown
  <2> DEFINE Spelt(g) ==
               g = [ n \in 0 .. N |-> IF n = 0 THEN << >>
                     ELSE IF diff[n].op = other THEN g[n - 1] ELSE Append(g[n - 1], diff[n].line) ]
  <2>2. Side(diff, other) = (CHOOSE g : Spelt(g))[N]
    BY DEF Side
  <2>3. \A g : Counts(g) <=> Spelt(g)
    BY <2>1
  <2> HIDE DEF Counts, Spelt
  <2>4. (CHOOSE g : Spelt(g)) = (CHOOSE g : Counts(g))
    BY <2>3
  <2> QED
    BY <2>2, <2>4
<1> HIDE DEF N, Following, none, T
<1>4. step \in Steps(N, T) /\ \A n \in 1 .. N, before \in T : step[<< n, before >>] = Following(n, before)
  BY <1>2 DEF Steps
<1> HIDE DEF step
<1>5. PICK g : Computes(g, N, T, none, step)
  BY <1>1, <1>4, Computed
<1>6. Counts(g)
  <2>1. g \in [ 0 .. N -> T ] /\ \A n \in 0 .. N : g[n] = IF n = 0 THEN none ELSE step[<< n, g[n - 1] >>]
    BY <1>5 DEF Computes
  <2>2. \A n \in 0 .. N : g[n] = IF n = 0 THEN none ELSE Following(n, g[n - 1])
    <3> TAKE n \in 0 .. N
    <3>1. CASE n # 0
      <4>1. n \in 1 .. N /\ n - 1 \in 0 .. N
        BY <1>1, <3>1
      <4> QED
        BY <2>1, <3>1, <4>1, <1>4
    <3> QED
      BY <2>1, <3>1
  <2> QED
    BY <2>1, <2>2
<1>7. Counts(f)
  BY <1>6
<1> HIDE DEF f
<1>8. f = [ n \in 0 .. N |-> f[n] ] /\ f[0] = none /\ \A n \in 1 .. N : f[n] = Following(n, f[n - 1])
  <2>1. f = [ n \in 0 .. N |-> IF n = 0 THEN none ELSE Following(n, f[n - 1]) ]
    BY <1>7
  <2>2. 0 \in 0 .. N /\ \A n \in 1 .. N : n \in 0 .. N /\ n # 0
    BY <1>1
  <2> QED
    BY <2>1, <2>2
<1>9. \A n \in 0 .. N : f[n] \in T
  <2> DEFINE S == { n \in 0 .. N : f[n] \in T }
  <2>1. 0 \in S
    BY <1>1, <1>8
  <2>2. ASSUME NEW n \in 1 .. N, n - 1 \in S PROVE n \in S
    <3>1. n \in 0 .. N /\ f[n - 1] \in T /\ f[n] = Following(n, f[n - 1])
      BY <2>2, <1>1, <1>8
    <3> QED
      BY <3>1, <1>2
  <2>3. \A n \in 0 .. N : n \in S
    <3> HIDE DEF S
    <3> QED
      BY <1>1, <2>1, <2>2, Upward
  <2> QED
    BY <2>3
<1>10. SideFollows(f, diff, other, L)
  BY <1>8, <1>9 DEF SideFollows, N, Following, none, T
<1> QED
  BY <1>3, <1>10 DEF N

\* A side of some edits and one more.
LEMMA SideOfMore ==
  ASSUME NEW L, NEW diff \in Seq(EditsOf(L)), NEW edit \in EditsOf(L), NEW other
  PROVE  Side(diff, other) \in Seq(L) /\ Side(Append(diff, edit), other) = Grown(Side(diff, other), edit, other)
<1> DEFINE longer == Append(diff, edit)
           N == Len(diff)
<1>1. /\ longer \in Seq(EditsOf(L)) /\ Len(longer) = N + 1 /\ longer[N + 1] = edit
      /\ \A n \in 1 .. N : longer[n] = diff[n]
  BY AppendProperties
<1>2. PICK f : SideFollows(f, diff, other, L) /\ Side(diff, other) = f[N]
  BY SideCounted
<1>0. N \in Nat
  OBVIOUS
<1> HIDE DEF longer
<1>3. PICK g : SideFollows(g, longer, other, L) /\ Side(longer, other) = g[N + 1]
  BY <1>1, SideCounted
<1> HIDE DEF N
<1>4. /\ f \in [ 0 .. N -> Seq(L) ] /\ f[0] = << >>
      /\ \A n \in 1 .. N : f[n] = Grown(f[n - 1], diff[n], other)
  BY <1>2 DEF SideFollows, N
<1>5. g[0] = << >> /\ \A n \in 1 .. N + 1 : g[n] = Grown(g[n - 1], longer[n], other)
  BY <1>1, <1>3 DEF SideFollows
<1>6. \A n \in 0 .. N : g[n] = f[n]
  <2> DEFINE S == { n \in 0 .. N : g[n] = f[n] }
  <2>1. 0 \in S
    BY <1>0, <1>4, <1>5
  <2>2. ASSUME NEW n \in 1 .. N, n - 1 \in S PROVE n \in S
    <3>1. n \in 0 .. N /\ n \in 1 .. N + 1
      BY <1>0
    <3>2. /\ g[n] = Grown(g[n - 1], longer[n], other) /\ f[n] = Grown(f[n - 1], diff[n], other)
          /\ longer[n] = diff[n] /\ g[n - 1] = f[n - 1]
      BY <2>2, <3>1, <1>1, <1>4, <1>5
    <3> QED
      BY <3>1, <3>2
  <2>3. \A n \in 0 .. N : n \in S
    <3> HIDE DEF S
    <3> QED
      BY <1>0, <2>1, <2>2, Upward
  <2> QED
    BY <2>3
<1>7. N + 1 \in 1 .. N + 1 /\ (N + 1) - 1 = N /\ N \in 0 .. N
  BY <1>0
<1>8. g[N + 1] = Grown(g[N], edit, other)
  BY <1>1, <1>5, <1>7
<1>9. g[N] = f[N] /\ f[N] \in Seq(L)
  BY <1>4, <1>6, <1>7
<1> QED
  BY <1>2, <1>3, <1>8, <1>9 DEF longer

\* No edits show nothing.
LEMMA SideOfNothing ==
  ASSUME NEW other
  PROVE  Side(<< >>, other) = << >>
<1>1. << >> \in Seq(EditsOf({})) /\ Len(<< >>) = 0
  OBVIOUS
<1> DEFINE L == {}
<1> HIDE DEF L
<1>2. << >> \in Seq(EditsOf(L))
  BY <1>1 DEF L
<1>3. PICK f : SideFollows(f, << >>, other, L) /\ Side(<< >>, other) = f[Len(<< >>)]
  BY <1>2, SideCounted
<1> QED
  BY <1>1, <1>3 DEF SideFollows

\* What some edits show are lines.
LEMMA SideTyped ==
  ASSUME NEW L, NEW diff \in Seq(EditsOf(L)), NEW other
  PROVE  Side(diff, other) \in Seq(L)
<1>1. PICK f : SideFollows(f, diff, other, L) /\ Side(diff, other) = f[Len(diff)]
  BY SideCounted
<1>2. Len(diff) \in 0 .. Len(diff)
  OBVIOUS
<1> QED
  BY <1>1, <1>2 DEF SideFollows

\* Where the walk along two texts is.
Walks(L) == [ i : Nat \ { 0 }, j : Nat \ { 0 }, edits : Seq(EditsOf(L)) ]

DiffStepped(next, at, a, b, L) ==
  \/ /\ at.i <= Len(a) /\ at.j <= Len(b) /\ a[at.i] = b[at.j] /\ a[at.i] \in L
     /\ next = [ i |-> at.i + 1, j |-> at.j + 1, edits |-> Append(at.edits, Edit(" ", a[at.i])) ]
  \/ /\ at.i <= Len(a) /\ a[at.i] \in L
     /\ next = [ i |-> at.i + 1, j |-> at.j, edits |-> Append(at.edits, Edit("-", a[at.i])) ]
  \/ /\ at.j <= Len(b) /\ b[at.j] \in L
     /\ next = [ i |-> at.i, j |-> at.j + 1, edits |-> Append(at.edits, Edit("+", b[at.j])) ]
  \/ at.i > Len(a) /\ at.j > Len(b) /\ next = at
\* diffLines takes a line of one text or of both, or is done.
LEMMA DiffStepIs ==
  ASSUME NEW L, NEW a \in Seq(L), NEW b \in Seq(L), NEW lcs, NEW at \in Walks(L)
  PROVE  DiffStep(a, b, lcs, at) \in Walks(L) /\ DiffStepped(DiffStep(a, b, lcs, at), at, a, b, L)
<1> DEFINE i == at.i
           j == at.j
           E == at.edits
           next == DiffStep(a, b, lcs, at)
<1>1. /\ i \in Nat /\ i >= 1 /\ j \in Nat /\ j >= 1 /\ E \in Seq(EditsOf(L))
      /\ i + 1 \in Nat \ { 0 } /\ j + 1 \in Nat \ { 0 } /\ i \in Nat \ { 0 } /\ j \in Nat \ { 0 }
  BY DEF Walks
<1>2. \A op \in Ops, line \in L : Append(E, Edit(op, line)) \in Seq(EditsOf(L))
  <2> SUFFICES ASSUME NEW op \in Ops, NEW line \in L PROVE Append(E, Edit(op, line)) \in Seq(EditsOf(L))
    OBVIOUS
  <2>1. Edit(op, line) \in EditsOf(L)
    BY DEF Edit, EditsOf
  <2> HIDE DEF E
  <2> QED
    BY <1>1, <2>1, AppendProperties
<1>3. Len(a) \in Nat /\ Len(b) \in Nat
  OBVIOUS
<1>4. (i <= Len(a) => a[i] \in L) /\ (j <= Len(b) => b[j] \in L)
  BY <1>1, <1>3
<1> DEFINE both == i <= Len(a) /\ j <= Len(b) /\ a[i] = b[j]
           goes == Goes(a, b, lcs, i, j)
           kept == [ i |-> i + 1, j |-> j + 1, edits |-> Append(E, Edit(" ", a[i])) ]
           gone == [ i |-> i + 1, j |-> j, edits |-> Append(E, Edit("-", a[i])) ]
           come == [ i |-> i, j |-> j + 1, edits |-> Append(E, Edit("+", b[j])) ]
<1>5. next = IF both THEN kept ELSE IF goes THEN gone ELSE IF j <= Len(b) THEN come ELSE at
  BY DEF DiffStep
<1>6. (goes => i <= Len(a)) /\ (~goes /\ j > Len(b) => i > Len(a))
  BY <1>1, <1>3 DEF Goes
<1> HIDE DEF next, goes, i, j, E
<1>7. CASE both
  <2>1. next = kept
    BY <1>5, <1>7
  <2>2. kept \in Walks(L)
    <3>1. a[i] \in L /\ " " \in Ops
      BY <1>1, <1>2, <1>4, <1>7 DEF Ops
    <3>2. Append(E, Edit(" ", a[i])) \in Seq(EditsOf(L))
      BY <3>1, <1>2
    <3> QED
      BY <3>2, <1>1 DEF Walks
  <2> QED
    BY <2>1, <2>2, <1>4, <1>7 DEF DiffStepped, next, i, j, E
<1>8. CASE ~both /\ goes
  <2>1. next = gone
    BY <1>5, <1>8
  <2>2. gone \in Walks(L)
    <3>1. a[i] \in L /\ "-" \in Ops
      BY <1>1, <1>2, <1>4, <1>6, <1>8 DEF Ops
    <3>2. Append(E, Edit("-", a[i])) \in Seq(EditsOf(L))
      BY <3>1, <1>2
    <3> QED
      BY <3>2, <1>1 DEF Walks
  <2> QED
    BY <2>1, <2>2, <1>4, <1>6, <1>8 DEF DiffStepped, next, i, j, E
<1>9. CASE ~both /\ ~goes /\ j <= Len(b)
  <2>1. next = come
    BY <1>5, <1>9
  <2>2. come \in Walks(L)
    <3>1. b[j] \in L /\ "+" \in Ops
      BY <1>1, <1>2, <1>4, <1>9 DEF Ops
    <3>2. Append(E, Edit("+", b[j])) \in Seq(EditsOf(L))
      BY <3>1, <1>2
    <3> QED
      BY <3>2, <1>1 DEF Walks
  <2> QED
    BY <2>1, <2>2, <1>4, <1>9 DEF DiffStepped, next, i, j, E
<1>10. CASE ~both /\ ~goes /\ ~(j <= Len(b))
  <2>1. next = at
    BY <1>5, <1>10
  <2>2. j > Len(b) /\ i > Len(a)
    BY <1>1, <1>3, <1>6, <1>10
  <2> QED
    BY <2>1, <2>2 DEF DiffStepped, next, i, j
<1> QED
  BY <1>7, <1>8, <1>9, <1>10

WalkFollows(f, a, b, lcs, N, L) ==
  /\ f \in [ 0 .. N -> Walks(L) ] /\ f[0] = [ i |-> 1, j |-> 1, edits |-> << >> ]
  /\ \A n \in 1 .. N : f[n] = DiffStep(a, b, lcs, f[n - 1])
\* DiffFrom computes such a function.
LEMMA WalkCounted ==
  ASSUME NEW L, NEW a \in Seq(L), NEW b \in Seq(L), NEW lcs
  PROVE  \E f : WalkFollows(f, a, b, lcs, Len(a) + Len(b), L) /\ DiffFrom(a, b, lcs) = f[Len(a) + Len(b)].edits
<1> DEFINE N == Len(a) + Len(b)
           T == Walks(L)
           none == [ i |-> 1, j |-> 1, edits |-> << >> ]
           Following(before) == DiffStep(a, b, lcs, before)
           Counts(g) == g = [ n \in 0 .. N |-> IF n = 0 THEN none ELSE Following(g[n - 1]) ]
           step == [ x \in (1 .. N) \X T |-> Following(x[2]) ]
           f == CHOOSE g : Counts(g)
<1>1. N \in Nat /\ none \in T
  BY DEF Walks
<1>2. \A before \in T : Following(before) \in T
  BY DiffStepIs
<1>3. DiffFrom(a, b, lcs) = f[N].edits
  BY DEF DiffFrom
<1> HIDE DEF N, Following, none, T
<1>4. step \in Steps(N, T) /\ \A n \in 1 .. N, before \in T : step[<< n, before >>] = Following(before)
  BY <1>2 DEF Steps
<1> HIDE DEF step
<1>5. PICK g : Computes(g, N, T, none, step)
  BY <1>1, <1>4, Computed
<1>6. Counts(g)
  <2>1. g \in [ 0 .. N -> T ] /\ \A n \in 0 .. N : g[n] = IF n = 0 THEN none ELSE step[<< n, g[n - 1] >>]
    BY <1>5 DEF Computes
  <2>2. \A n \in 0 .. N : g[n] = IF n = 0 THEN none ELSE Following(g[n - 1])
    <3> TAKE n \in 0 .. N
    <3>1. CASE n # 0
      <4>1. n \in 1 .. N /\ n - 1 \in 0 .. N
        BY <1>1, <3>1
      <4> QED
        BY <2>1, <3>1, <4>1, <1>4
    <3> QED
      BY <2>1, <3>1
  <2> QED
    BY <2>1, <2>2
<1>7. Counts(f)
  BY <1>6
<1> HIDE DEF f
<1>8. f = [ n \in 0 .. N |-> f[n] ] /\ f[0] = none /\ \A n \in 1 .. N : f[n] = Following(f[n - 1])
  <2>1. f = [ n \in 0 .. N |-> IF n = 0 THEN none ELSE Following(f[n - 1]) ]
    BY <1>7
  <2>2. 0 \in 0 .. N /\ \A n \in 1 .. N : n \in 0 .. N /\ n # 0
    BY <1>1
  <2> QED
    BY <2>1, <2>2
<1>9. \A n \in 0 .. N : f[n] \in T
  <2> DEFINE S == { n \in 0 .. N : f[n] \in T }
  <2>1. 0 \in S
    BY <1>1, <1>8
  <2>2. ASSUME NEW n \in 1 .. N, n - 1 \in S PROVE n \in S
    <3>1. n \in 0 .. N
      BY <1>1
    <3>2. f[n - 1] \in T
      BY <2>2
    <3>3. f[n] = Following(f[n - 1])
      BY <1>8
    <3> QED
      BY <3>1, <3>2, <3>3, <1>2
  <2>3. \A n \in 0 .. N : n \in S
    <3> HIDE DEF S
    <3> QED
      BY <1>1, <2>1, <2>2, Upward
  <2> QED
    BY <2>3
<1>10. WalkFollows(f, a, b, lcs, N, L)
  BY <1>8, <1>9 DEF WalkFollows, Following, none, T
<1> QED
  BY <1>3, <1>10 DEF N

\* So far the edits show the lines in front of the walk.
Walked(at, a, b) ==
  /\ at.i <= Len(a) + 1 /\ at.j <= Len(b) + 1
  /\ OldSide(at.edits) = SubSeq(a, 1, at.i - 1) /\ NewSide(at.edits) = SubSeq(b, 1, at.j - 1)

\* A line more of a text.
LEMMA OneLineOn ==
  ASSUME NEW L, NEW a \in Seq(L), NEW i \in Nat, 1 <= i, i <= Len(a)
  PROVE  SubSeq(a, 1, (i + 1) - 1) = Append(SubSeq(a, 1, i - 1), a[i])
<1>1. 1 \in Nat /\ 1 <= 1 /\ (i + 1) - 1 = i
  OBVIOUS
<1> QED
  BY <1>1, LongerStretch

\* Each step shows the lines it takes, and takes one at least until the end.
LEMMA WalkedOn ==
  ASSUME NEW L, NEW a \in Seq(L), NEW b \in Seq(L), NEW lcs, NEW at \in Walks(L), Walked(at, a, b)
  PROVE  /\ Walked(DiffStep(a, b, lcs, at), a, b)
         /\ \/ DiffStep(a, b, lcs, at).i + DiffStep(a, b, lcs, at).j >= at.i + at.j + 1
            \/ at.i = Len(a) + 1 /\ at.j = Len(b) + 1 /\ DiffStep(a, b, lcs, at) = at
<1> DEFINE next == DiffStep(a, b, lcs, at)
           i == at.i
           j == at.j
           E == at.edits
           both == /\ i <= Len(a) /\ j <= Len(b) /\ a[i] = b[j] /\ a[i] \in L
                   /\ next = [ i |-> i + 1, j |-> j + 1, edits |-> Append(at.edits, Edit(" ", a[i])) ]
           gone == /\ i <= Len(a) /\ a[i] \in L
                   /\ next = [ i |-> i + 1, j |-> j, edits |-> Append(at.edits, Edit("-", a[i])) ]
           come == /\ j <= Len(b) /\ b[j] \in L
                   /\ next = [ i |-> i, j |-> j + 1, edits |-> Append(at.edits, Edit("+", b[j])) ]
           over == i > Len(a) /\ j > Len(b) /\ next = at
<1>1. both \/ gone \/ come \/ over
  <2>1. DiffStepped(next, at, a, b, L)
    BY DiffStepIs
  <2> QED
    BY <2>1 DEF DiffStepped
<1>2. /\ i \in Nat /\ 1 <= i /\ j \in Nat /\ 1 <= j /\ E \in Seq(EditsOf(L)) /\ Len(a) \in Nat /\ Len(b) \in Nat
      /\ i <= Len(a) + 1 /\ j <= Len(b) + 1 /\ Side(E, "+") = SubSeq(a, 1, i - 1) /\ Side(E, "-") = SubSeq(b, 1, j - 1)
  BY DEF Walks, Walked, OldSide, NewSide
<1>3. \A op \in Ops, line \in L :
        /\ Side(Append(E, Edit(op, line)), "+") = Grown(Side(E, "+"), Edit(op, line), "+")
        /\ Side(Append(E, Edit(op, line)), "-") = Grown(Side(E, "-"), Edit(op, line), "-")
  <2> SUFFICES ASSUME NEW op \in Ops, NEW line \in L, NEW other
               PROVE  Side(Append(E, Edit(op, line)), other) = Grown(Side(E, other), Edit(op, line), other)
    BY Zenon
  <2>1. Edit(op, line) \in EditsOf(L)
    BY DEF Edit, EditsOf
  <2> DEFINE e == Edit(op, line)
  <2> HIDE DEF e, E
  <2>2. Side(Append(E, e), other) = Grown(Side(E, other), e, other)
    BY <1>2, <2>1, SideOfMore DEF e
  <2> QED
    BY <2>2 DEF e
<1>4. /\ i <= Len(a) => SubSeq(a, 1, (i + 1) - 1) = Append(SubSeq(a, 1, i - 1), a[i])
      /\ j <= Len(b) => SubSeq(b, 1, (j + 1) - 1) = Append(SubSeq(b, 1, j - 1), b[j])
  <2> HIDE DEF i, j
  <2> QED
    BY <1>2, OneLineOn
<1>5. " " \in Ops /\ "-" \in Ops /\ "+" \in Ops
  BY DEF Ops
<1> HIDE DEF next, i, j, E
<1>6. CASE both
  <2>1. next.i = i + 1 /\ next.j = j + 1 /\ next.edits = Append(E, Edit(" ", a[i])) /\ a[i] \in L /\ a[i] = b[j]
    BY <1>6 DEF E
  <2>2. Side(next.edits, "+") = Append(Side(E, "+"), a[i]) /\ Side(next.edits, "-") = Append(Side(E, "-"), b[j])
    <3>1. /\ Side(next.edits, "+") = Grown(Side(E, "+"), Edit(" ", a[i]), "+")
          /\ Side(next.edits, "-") = Grown(Side(E, "-"), Edit(" ", a[i]), "-")
      BY <2>1, <1>3, <1>5
    <3> QED
      BY <3>1, <2>1 DEF Grown, Edit
  <2>3. Side(next.edits, "+") = SubSeq(a, 1, next.i - 1) /\ Side(next.edits, "-") = SubSeq(b, 1, next.j - 1)
    <3>1. SubSeq(a, 1, (i + 1) - 1) = Append(SubSeq(a, 1, i - 1), a[i]) /\ SubSeq(b, 1, (j + 1) - 1) = Append(SubSeq(b, 1, j - 1), b[j])
      BY <1>4, <1>6
    <3>2. Side(next.edits, "+") = SubSeq(a, 1, next.i - 1)
      BY <2>1, <2>2, <3>1, <1>2
    <3>3. Side(next.edits, "-") = SubSeq(b, 1, next.j - 1)
      BY <2>1, <2>2, <3>1, <1>2
    <3> QED
      BY <3>2, <3>3
  <2>4. next.i <= Len(a) + 1 /\ next.j <= Len(b) + 1 /\ next.i + next.j >= i + j + 1
    <3>1. next.i = i + 1 /\ next.j = j + 1 /\ i \in Nat /\ j \in Nat /\ i <= Len(a) /\ j <= Len(b)
      BY <2>1, <1>2, <1>6
    <3>2. Len(a) \in Nat /\ Len(b) \in Nat
      BY <1>2
    <3> QED
      BY <3>1, <3>2
  <2> QED
    BY <2>3, <2>4 DEF Walked, OldSide, NewSide, next, i, j
<1>7. CASE gone
  <2>1. next.i = i + 1 /\ next.j = j /\ next.edits = Append(E, Edit("-", a[i])) /\ a[i] \in L
    BY <1>7 DEF E
  <2>2. Side(next.edits, "+") = Append(Side(E, "+"), a[i]) /\ Side(next.edits, "-") = Side(E, "-")
    <3>1. /\ Side(next.edits, "+") = Grown(Side(E, "+"), Edit("-", a[i]), "+")
          /\ Side(next.edits, "-") = Grown(Side(E, "-"), Edit("-", a[i]), "-")
      BY <2>1, <1>3, <1>5
    <3> QED
      BY <3>1, <2>1 DEF Grown, Edit
  <2>3. Side(next.edits, "+") = SubSeq(a, 1, next.i - 1) /\ Side(next.edits, "-") = SubSeq(b, 1, next.j - 1)
    <3>1. SubSeq(a, 1, (i + 1) - 1) = Append(SubSeq(a, 1, i - 1), a[i])
      BY <1>4, <1>7
    <3> QED
      BY <2>1, <2>2, <3>1, <1>2
  <2>4. next.i <= Len(a) + 1 /\ next.j <= Len(b) + 1 /\ next.i + next.j >= i + j + 1
    BY <2>1, <1>2, <1>7
  <2> QED
    BY <2>3, <2>4 DEF Walked, OldSide, NewSide, next, i, j
<1>8. CASE come
  <2>1. next.i = i /\ next.j = j + 1 /\ next.edits = Append(E, Edit("+", b[j])) /\ b[j] \in L
    BY <1>8 DEF E
  <2>2. Side(next.edits, "+") = Side(E, "+") /\ Side(next.edits, "-") = Append(Side(E, "-"), b[j])
    <3>1. /\ Side(next.edits, "+") = Grown(Side(E, "+"), Edit("+", b[j]), "+")
          /\ Side(next.edits, "-") = Grown(Side(E, "-"), Edit("+", b[j]), "-")
      BY <2>1, <1>3, <1>5
    <3> QED
      BY <3>1, <2>1 DEF Grown, Edit
  <2>3. Side(next.edits, "+") = SubSeq(a, 1, next.i - 1) /\ Side(next.edits, "-") = SubSeq(b, 1, next.j - 1)
    <3>1. SubSeq(b, 1, (j + 1) - 1) = Append(SubSeq(b, 1, j - 1), b[j])
      BY <1>4, <1>8
    <3> QED
      BY <2>1, <2>2, <3>1, <1>2
  <2>4. next.i <= Len(a) + 1 /\ next.j <= Len(b) + 1 /\ next.i + next.j >= i + j + 1
    BY <2>1, <1>2, <1>8
  <2> QED
    BY <2>3, <2>4 DEF Walked, OldSide, NewSide, next, i, j
<1>9. CASE over
  <2>1. next = at /\ i = Len(a) + 1 /\ j = Len(b) + 1
    BY <1>2, <1>9
  <2> QED
    BY <2>1 DEF next, i, j
<1> QED
  BY <1>1, <1>6, <1>7, <1>8, <1>9

\* The edits of a diff show both texts.
LEMMA DiffShowsBoth ==
  ASSUME NEW L, NEW a \in Seq(L), NEW b \in Seq(L)
  PROVE  /\ DiffLines(a, b) \in Seq(EditsOf(L))
         /\ OldSide(DiffLines(a, b)) = a /\ NewSide(DiffLines(a, b)) = b
<1> DEFINE lcs == Lcs(a, b)
           A == Len(a)
           B == Len(b)
           N == A + B
<1>1. PICK f : WalkFollows(f, a, b, lcs, N, L) /\ DiffFrom(a, b, lcs) = f[N].edits
  <2> HIDE DEF lcs
  <2> QED
    BY WalkCounted
<1>2. DiffLines(a, b) = f[N].edits
  BY <1>1 DEF DiffLines
<1>3. A \in Nat /\ B \in Nat /\ N \in Nat
  OBVIOUS
<1> HIDE DEF lcs, N
<1>4. /\ f \in [ 0 .. N -> Walks(L) ] /\ f[0] = [ i |-> 1, j |-> 1, edits |-> << >> ]
      /\ \A n \in 1 .. N : f[n] = DiffStep(a, b, lcs, f[n - 1])
  BY <1>1 DEF WalkFollows
<1> DEFINE Fine(n) == Walked(f[n], a, b) /\ (f[n].i + f[n].j >= n + 2 \/ (f[n].i = A + 1 /\ f[n].j = B + 1))
           S == { n \in 0 .. N : Fine(n) }
<1>5. 0 \in S
  <2>1. f[0].i = 1 /\ f[0].j = 1 /\ f[0].edits = << >>
    BY <1>4
  <2>2. OldSide(f[0].edits) = << >> /\ NewSide(f[0].edits) = << >>
    BY <2>1, SideOfNothing DEF OldSide, NewSide
  <2>3. SubSeq(a, 1, 1 - 1) = << >> /\ SubSeq(b, 1, 1 - 1) = << >>
    BY SubSeqEmpty
  <2>4. Walked(f[0], a, b)
    <3>1. f[0].i <= Len(a) + 1 /\ f[0].j <= Len(b) + 1
      BY <2>1, <1>3
    <3>2. OldSide(f[0].edits) = SubSeq(a, 1, f[0].i - 1) /\ NewSide(f[0].edits) = SubSeq(b, 1, f[0].j - 1)
      BY <2>1, <2>2, <2>3
    <3> QED
      BY <3>1, <3>2 DEF Walked
  <2> QED
    BY <2>1, <2>4, <1>3
<1>6. ASSUME NEW n \in 1 .. N, n - 1 \in S PROVE n \in S
  <2> DEFINE at == f[n - 1]
             next == DiffStep(a, b, lcs, at)
  <2>1. n - 1 \in 0 .. N /\ n \in 0 .. N /\ f[n] = next /\ at \in Walks(L)
    BY <1>3, <1>4
  <2>2. Walked(at, a, b) /\ (at.i + at.j >= (n - 1) + 2 \/ (at.i = A + 1 /\ at.j = B + 1))
    BY <1>6
  <2>3. next \in Walks(L)
    <3> HIDE DEF at, next
    <3> QED
      BY <2>1, DiffStepIs DEF next
  <2> HIDE DEF at
  <2>4. /\ Walked(next, a, b)
        /\ \/ next.i + next.j >= at.i + at.j + 1
           \/ at.i = A + 1 /\ at.j = B + 1 /\ next = at
    BY <2>1, <2>2, WalkedOn
  <2> HIDE DEF next
  <2>5. /\ at.i \in Nat /\ at.j \in Nat /\ next.i \in Nat /\ next.j \in Nat
        /\ at.i <= A + 1 /\ at.j <= B + 1 /\ next.i <= A + 1 /\ next.j <= B + 1
    BY <2>1, <2>2, <2>3, <2>4 DEF Walks, Walked
  <2>6. next.i + next.j >= n + 2 \/ (next.i = A + 1 /\ next.j = B + 1)
    <3> HIDE DEF A, B
    <3>1. CASE at.i = A + 1 /\ at.j = B + 1 /\ next = at
      BY <3>1
    <3>2. CASE next.i + next.j >= at.i + at.j + 1 /\ at.i + at.j >= (n - 1) + 2
      BY <3>2, <2>5, <1>3
    <3>3. CASE next.i + next.j >= at.i + at.j + 1 /\ at.i = A + 1 /\ at.j = B + 1
      BY <3>3, <2>5, <1>3
    <3> QED
      BY <2>2, <2>4, <3>1, <3>2, <3>3
  <2> QED
    BY <2>1, <2>4, <2>6
<1>7. \A n \in 0 .. N : n \in S
  <2> HIDE DEF S
  <2> QED
    BY <1>3, <1>5, <1>6, Upward
<1> DEFINE end == f[N]
<1>8. Fine(N) /\ end \in Walks(L)
  BY <1>3, <1>4, <1>7
<1> HIDE DEF end
<1>9. end.i = A + 1 /\ end.j = B + 1
  <2>1. end.i \in Nat /\ end.j \in Nat /\ end.i <= A + 1 /\ end.j <= B + 1
    BY <1>8 DEF Walks, Walked, end
  <2>2. end.i + end.j >= N + 2 \/ (end.i = A + 1 /\ end.j = B + 1)
    BY <1>8 DEF end
  <2>3. N = A + B
    BY DEF N
  <2> HIDE DEF A, B
  <2> QED
    BY <2>1, <2>2, <2>3, <1>3
<1>10. SubSeq(a, 1, (A + 1) - 1) = a /\ SubSeq(b, 1, (B + 1) - 1) = b
  <2>1. (A + 1) - 1 = A /\ (B + 1) - 1 = B
    BY <1>3
  <2> QED
    BY <2>1, Whole
<1>11. OldSide(end.edits) = a /\ NewSide(end.edits) = b
  BY <1>8, <1>9, <1>10 DEF Walked, end
<1>12. end.edits \in Seq(EditsOf(L))
  BY <1>8 DEF Walks
<1> QED
  BY <1>2, <1>11, <1>12 DEF end

\* What is in front of the end stays where it is.
LEMMA StaysWhere ==
  ASSUME NEW L, NEW s \in Seq(L), NEW edit \in EditsOf(L), NEW other, NEW m \in Nat, NEW n \in Nat, 1 <= m, n <= Len(s)
  PROVE  SubSeq(Grown(s, edit, other), m, n) = SubSeq(s, m, n) /\ SubSeq(s, m, n) \in Seq(L)
<1> DEFINE g == Grown(s, edit, other)
           x == SubSeq(g, m, n)
           y == SubSeq(s, m, n)
<1>1. g \in Seq(L) /\ Len(g) \in { Len(s), Len(s) + 1 } /\ \A i \in 1 .. Len(s) : g[i] = s[i]
  <2>1. edit.line \in L
    BY GrownIs
  <2>2. CASE edit.op = other
    BY <2>2 DEF Grown
  <2>3. CASE edit.op # other
    BY <2>1, <2>3, AppendProperties DEF Grown
  <2> QED
    BY <2>2, <2>3
<1> HIDE DEF g
<1>2. Len(s) \in Nat /\ \A i \in m .. n : i \in 1 .. Len(s) /\ g[i] = s[i] /\ s[i] \in L
  BY <1>1
<1>3. \A i \in m .. n : s[i] \in L /\ g[i] \in L
  BY <1>2
<1>4. m \in Int /\ n \in Int
  OBVIOUS
<1>5. x \in Seq(L) /\ Len(x) = (IF m <= n THEN n - m + 1 ELSE 0) /\ \A i \in 1 .. n - m + 1 : x[i] = g[m + i - 1]
  BY <1>3, <1>4, SubSeqProperties
<1>6. y \in Seq(L) /\ Len(y) = (IF m <= n THEN n - m + 1 ELSE 0) /\ \A i \in 1 .. n - m + 1 : y[i] = s[m + i - 1]
  BY <1>3, <1>4, SubSeqProperties
<1> HIDE DEF x, y
<1>7. \A i \in 1 .. Len(x) : x[i] = y[i]
  <2> SUFFICES ASSUME NEW i \in 1 .. Len(x) PROVE x[i] = y[i]
    OBVIOUS
  <2>1. i \in 1 .. n - m + 1 /\ m + i - 1 \in m .. n
    BY <1>5
  <2> QED
    BY <2>1, <1>2, <1>5, <1>6
<1>8. x = y
  BY <1>5, <1>6, <1>7, SeqEqual
<1> QED
  BY <1>6, <1>8 DEF x, y, g

\* A side of a hunk is in the text where the hunk says.
Shows(lines, from, side) ==
  /\ from \in Nat /\ from >= 1 /\ from + Len(side) <= Len(lines) + 1
  /\ SubSeq(lines, from, from + Len(side) - 1) = side

\* It is still there in a longer text.
LEMMA ShowsLonger ==
  ASSUME NEW L, NEW lines \in Seq(L), NEW edit \in EditsOf(L), NEW other, NEW from, NEW side \in Seq(L),
         Shows(lines, from, side)
  PROVE  Shows(Grown(lines, edit, other), from, side)
<1> DEFINE g == Grown(lines, edit, other)
           n == from + Len(side) - 1
<1>1. /\ from \in Nat /\ 1 <= from /\ n \in Nat /\ n <= Len(lines) /\ from + Len(side) <= Len(lines) + 1
      /\ Len(lines) \in Nat /\ Len(side) \in Nat
  BY DEF Shows
<1>2. Len(g) \in { Len(lines), Len(lines) + 1 }
  BY GrownIs
<1>3. SubSeq(g, from, n) = SubSeq(lines, from, n)
  <2> HIDE DEF n
  <2> QED
    BY <1>1, StaysWhere
<1> HIDE DEF g
<1>4. from + Len(side) <= Len(g) + 1
  BY <1>1, <1>2
<1> QED
  BY <1>1, <1>3, <1>4 DEF Shows, g

\* A side that ends with its text grows with it.
LEMMA ShowsMore ==
  ASSUME NEW L, NEW lines \in Seq(L), NEW edit \in EditsOf(L), NEW other, NEW from, NEW side \in Seq(L),
         Shows(lines, from, side), from + Len(side) = Len(lines) + 1
  PROVE  /\ Shows(Grown(lines, edit, other), from, Grown(side, edit, other))
         /\ from + Len(Grown(side, edit, other)) = Len(Grown(lines, edit, other)) + 1
<1> DEFINE N == Len(lines)
           M == Len(side)
           l == edit.line
<1>1. from \in Nat /\ 1 <= from /\ N \in Nat /\ M \in Nat /\ from + M - 1 = N /\ SubSeq(lines, from, N) = side /\ l \in L
  <2>1. l \in L
    BY GrownIs
  <2>2. from \in Nat /\ from >= 1 /\ SubSeq(lines, from, from + M - 1) = side
    BY DEF Shows
  <2>3. N \in Nat /\ M \in Nat
    OBVIOUS
  <2>4. from + M - 1 = N
    <3> HIDE DEF N, M
    <3>1. from + M = N + 1
      BY DEF N, M
    <3> QED
      BY <3>1, <2>2, <2>3
  <2> QED
    BY <2>1, <2>2, <2>3, <2>4
<1>2. CASE edit.op = other
  BY <1>2 DEF Grown
<1>3. CASE edit.op # other
  <2> DEFINE more == Append(lines, l)
             longer == Append(side, l)
  <2>1. Grown(lines, edit, other) = more /\ Grown(side, edit, other) = longer
    BY <1>3 DEF Grown
  <2>2. more \in Seq(L) /\ Len(more) = N + 1 /\ more[N + 1] = l /\ longer \in Seq(L) /\ Len(longer) = M + 1
    BY <1>1, AppendProperties
  <2>3. SubSeq(more, from, N) = side
    <3> HIDE DEF more, longer
    <3>1. SubSeq(Grown(lines, edit, other), from, N) = SubSeq(lines, from, N)
      <4>1. from \in Nat /\ N \in Nat /\ 1 <= from /\ N <= Len(lines)
        BY <1>1
      <4> HIDE DEF N
      <4> QED
        BY <4>1, StaysWhere
    <3> QED
      BY <1>1, <2>1, <3>1
  <2>4. SubSeq(more, from, N + 1) = Append(SubSeq(more, from, (N + 1) - 1), more[N + 1])
    <3> HIDE DEF more
    <3>1. N + 1 \in Nat /\ from <= N + 1 /\ N + 1 <= Len(more)
      BY <1>1, <2>2
    <3> QED
      BY <1>1, <2>2, <3>1, LongerStretch
  <2> HIDE DEF more, longer, N, M
  <2>5. (N + 1) - 1 = N /\ from + Len(longer) - 1 = N + 1 /\ from + Len(longer) = Len(more) + 1
    BY <1>1, <2>2
  <2>6. SubSeq(more, from, from + Len(longer) - 1) = longer
    BY <2>2, <2>3, <2>4, <2>5 DEF longer
  <2>7. from + Len(longer) <= Len(more) + 1
    BY <1>1, <2>2, <2>5
  <2> QED
    BY <1>1, <2>1, <2>5, <2>6, <2>7 DEF Shows
<1> QED
  BY <1>2, <1>3

\* A side of no lines is where the text ends.
LEMMA ShowsNothing ==
  ASSUME NEW L, NEW lines \in Seq(L)
  PROVE  Shows(lines, Len(lines) + 1, << >>)
<1>1. Len(lines) + 1 \in Nat /\ Len(lines) + 1 >= 1 /\ Len(<< >>) = 0 /\ (Len(lines) + 1) + 0 - 1 = Len(lines)
  OBVIOUS
<1>2. SubSeq(lines, Len(lines) + 1, Len(lines)) = << >>
  BY <1>1, SubSeqEmpty
<1> QED
  BY <1>1, <1>2 DEF Shows

-----------------------------------------------------------------------------
\* A text put together of its hunks and of what the old one has in between.
HunksOf(L) == [ oldLine : Nat, newLine : Nat, edits : Seq(EditsOf(L)) ]
OldOf(hunk) == OldSide(hunk.edits)
NewOf(hunk) == NewSide(hunk.edits)
Past(hunks, k) == IF k = 0 THEN 1 ELSE hunks[k].oldLine + Len(OldOf(hunks[k]))
Filled(hunks, k) == IF k = 0 THEN << >> ELSE NewOf(hunks[k])
Piece(hunks, old, k, to) == Filled(hunks, k) \o SubSeq(old, Past(hunks, k), to)
Pieces(hunks, old) == [ k \in 1 .. Len(hunks) |-> Piece(hunks, old, k - 1, hunks[k].oldLine - 1) ]

Placed(hunks, old, new) ==
  \A k \in 1 .. Len(hunks) :
    Shows(old, hunks[k].oldLine, OldOf(hunks[k])) /\ Shows(new, hunks[k].newLine, NewOf(hunks[k]))
Rebuilds(hunks, old, new) ==
  /\ Placed(hunks, old, new)
  /\ new = FlattenSeq(Pieces(hunks, old)) \o Piece(hunks, old, Len(hunks), Len(old))
\* The last hunk ends where the texts do.
AtEnd(hunk, old, new) ==
  /\ hunk.oldLine + Len(OldOf(hunk)) = Len(old) + 1
  /\ hunk.newLine + Len(NewOf(hunk)) = Len(new) + 1

\* A hunk has two places and two sides.
LEMMA HunkIs ==
  ASSUME NEW L, NEW hunk \in HunksOf(L)
  PROVE  /\ hunk.oldLine \in Nat /\ hunk.newLine \in Nat /\ hunk.edits \in Seq(EditsOf(L))
         /\ OldOf(hunk) \in Seq(L) /\ NewOf(hunk) \in Seq(L)
<1>1. hunk.oldLine \in Nat /\ hunk.newLine \in Nat /\ hunk.edits \in Seq(EditsOf(L))
  BY DEF HunksOf
<1> DEFINE E == hunk.edits
<1> HIDE DEF E
<1>2. E \in Seq(EditsOf(L))
  BY <1>1 DEF E
<1>3. Side(E, "+") \in Seq(L) /\ Side(E, "-") \in Seq(L)
  BY <1>2, SideTyped
<1> QED
  BY <1>1, <1>3 DEF E, OldOf, NewOf, OldSide, NewSide

\* A piece is made of lines in front of the end, so that a longer text has the same.
LEMMA PieceTyped ==
  ASSUME NEW L, NEW hunks \in Seq(HunksOf(L)), NEW old \in Seq(L), NEW new, Placed(hunks, old, new),
         NEW k \in 0 .. Len(hunks), NEW to \in Nat, to <= Len(old)
  PROVE  /\ Past(hunks, k) \in Nat /\ 1 <= Past(hunks, k) /\ Past(hunks, k) <= Len(old) + 1
         /\ Filled(hunks, k) \in Seq(L) /\ Piece(hunks, old, k, to) \in Seq(L)
         /\ \A edit \in EditsOf(L) : \A other : Piece(hunks, Grown(old, edit, other), k, to) = Piece(hunks, old, k, to)
<1>1. Past(hunks, k) \in Nat /\ 1 <= Past(hunks, k) /\ Past(hunks, k) <= Len(old) + 1 /\ Filled(hunks, k) \in Seq(L)
  <2>1. CASE k = 0
    BY <2>1 DEF Past, Filled
  <2>2. CASE k # 0
    <3>1. k \in 1 .. Len(hunks) /\ hunks[k] \in HunksOf(L)
      BY <2>2
    <3>2. OldOf(hunks[k]) \in Seq(L) /\ NewOf(hunks[k]) \in Seq(L)
      BY <3>1, HunkIs
    <3>3. Shows(old, hunks[k].oldLine, OldOf(hunks[k]))
      BY <3>1 DEF Placed
    <3>4. Len(OldOf(hunks[k])) \in Nat
      BY <3>2
    <3> DEFINE o == OldOf(hunks[k])
               m == hunks[k].oldLine
    <3>5. Past(hunks, k) = m + Len(o) /\ Filled(hunks, k) = NewOf(hunks[k])
      BY <2>2 DEF Past, Filled
    <3> HIDE DEF o, m
    <3>6. m \in Nat /\ 1 <= m /\ m + Len(o) <= Len(old) + 1 /\ Len(o) \in Nat
      BY <3>3, <3>4 DEF Shows, o, m
    <3>7. m + Len(o) \in Nat /\ 1 <= m + Len(o)
      BY <3>6
    <3> QED
      BY <3>2, <3>5, <3>6, <3>7
  <2> QED
    BY <2>1, <2>2
<1> DEFINE p == Past(hunks, k)
           f == Filled(hunks, k)
<1> HIDE DEF p, f
<1>2. p \in Nat /\ 1 <= p /\ f \in Seq(L)
  BY <1>1 DEF p, f
<1>3. ASSUME NEW edit \in EditsOf(L), NEW other
      PROVE  SubSeq(Grown(old, edit, other), p, to) = SubSeq(old, p, to)
  BY <1>2, StaysWhere
<1>4. SubSeq(old, p, to) \in Seq(L)
  <2>1. \A i \in p .. to : old[i] \in L
    <3>1. \A i \in p .. to : i \in 1 .. Len(old)
      BY <1>2
    <3> QED
      BY <3>1
  <2>2. p \in Int /\ to \in Int
    BY <1>2
  <2> QED
    BY <2>1, <2>2, SubSeqProperties
<1>5. f \o SubSeq(old, p, to) \in Seq(L)
  BY <1>2, <1>4, ConcatProperties
<1> QED
  BY <1>1, <1>3, <1>5 DEF Piece, p, f

\* So are all the pieces.
LEMMA PiecesTyped ==
  ASSUME NEW L, NEW hunks \in Seq(HunksOf(L)), NEW old \in Seq(L), NEW new, Placed(hunks, old, new)
  PROVE  /\ Pieces(hunks, old) \in Seq(Seq(L)) /\ Len(Pieces(hunks, old)) = Len(hunks)
         /\ \A edit \in EditsOf(L) : \A other : Pieces(hunks, Grown(old, edit, other)) = Pieces(hunks, old)
<1> DEFINE K == Len(hunks)
           R == Seq(L)
           piece(k) == Piece(hunks, old, k - 1, hunks[k].oldLine - 1)
<1>1. K \in Nat
  OBVIOUS
<1>2. ASSUME NEW k \in 1 .. K
      PROVE  /\ piece(k) \in Seq(L)
             /\ \A edit \in EditsOf(L) : \A other : Piece(hunks, Grown(old, edit, other), k - 1, hunks[k].oldLine - 1) = piece(k)
  <2> DEFINE to == hunks[k].oldLine - 1
  <2>1. hunks[k] \in HunksOf(L) /\ Shows(old, hunks[k].oldLine, OldOf(hunks[k])) /\ k - 1 \in 0 .. Len(hunks)
    BY DEF Placed
  <2>2. hunks[k].oldLine \in Nat /\ OldOf(hunks[k]) \in Seq(L)
    BY <2>1, HunkIs
  <2>3. Len(OldOf(hunks[k])) \in Nat
    BY <2>2
  <2>4. to \in Nat /\ to <= Len(old)
    BY <2>1, <2>2, <2>3, SMTT(60) DEF Shows
  <2> HIDE DEF to
  <2>5. /\ Piece(hunks, old, k - 1, to) \in Seq(L)
        /\ \A edit \in EditsOf(L) : \A other : Piece(hunks, Grown(old, edit, other), k - 1, to) = Piece(hunks, old, k - 1, to)
    <3> DEFINE j == k - 1
    <3>1. j \in 0 .. Len(hunks)
      BY <2>1
    <3> HIDE DEF j
    <3>2. /\ Piece(hunks, old, j, to) \in Seq(L)
          /\ \A edit \in EditsOf(L) : \A other : Piece(hunks, Grown(old, edit, other), j, to) = Piece(hunks, old, j, to)
      BY <3>1, <2>4, PieceTyped
    <3> QED
      BY <3>2 DEF j
  <2> QED
    BY <2>5 DEF to
<1>3. \A k \in 1 .. K : piece(k) \in R
  BY <1>2
<1>4. Pieces(hunks, old) = [ k \in 1 .. K |-> piece(k) ]
  BY DEF Pieces
<1>5. \A edit \in EditsOf(L) : \A other : Pieces(hunks, Grown(old, edit, other)) = Pieces(hunks, old)
  BY <1>2 DEF Pieces
<1> HIDE DEF R, K, piece
<1>6. [ k \in 1 .. K |-> piece(k) ] \in Seq(R) /\ Len([ k \in 1 .. K |-> piece(k) ]) = K
  BY <1>1, <1>3
<1> QED
  BY <1>4, <1>5, <1>6 DEF R, K

\* What is in front of the last hunk is the same in a longer text.
Steady(hunks, old, L) ==
  \A edit \in EditsOf(L) : \A other : FlattenSeq(Pieces(hunks, Grown(old, edit, other))) = FlattenSeq(Pieces(hunks, old))

\* A hunk more.
LEMMA PiecesOfMore ==
  ASSUME NEW L, NEW hunks \in Seq(HunksOf(L)), NEW hunk \in HunksOf(L), NEW old \in Seq(L), NEW new, Placed(hunks, old, new),
         hunk.oldLine >= 1, hunk.oldLine <= Len(old) + 1
  PROVE  LET piece == Piece(hunks, old, Len(hunks), hunk.oldLine - 1)
         IN  /\ Pieces(Append(hunks, hunk), old) = Append(Pieces(hunks, old), piece) /\ piece \in Seq(L)
             /\ FlattenSeq(Pieces(Append(hunks, hunk), old)) = FlattenSeq(Pieces(hunks, old)) \o piece
             /\ FlattenSeq(Pieces(hunks, old)) \in Seq(L)
             /\ Steady(Append(hunks, hunk), old, L)
<1> DEFINE K == Len(hunks)
           more == Append(hunks, hunk)
           to == hunk.oldLine - 1
           R == Seq(L)
<1>1. K \in Nat /\ more \in Seq(HunksOf(L)) /\ Len(more) = K + 1 /\ more[K + 1] = hunk /\ \A k \in 1 .. K : more[k] = hunks[k]
  BY AppendProperties
<1>2. hunk.oldLine \in Nat
  BY HunkIs
<1>3. to \in Nat /\ to <= Len(old)
  <2>1. Len(old) \in Nat
    OBVIOUS
  <2> QED
    BY <1>2, <2>1
<1> HIDE DEF more
<1>4. \A any : \A k \in 0 .. K : \A n : Piece(more, any, k, n) = Piece(hunks, any, k, n)
  <2> TAKE any
  <2> TAKE k \in 0 .. K
  <2> TAKE n
  <2>1. k # 0 => more[k] = hunks[k]
    BY <1>1
  <2> QED
    BY <2>1 DEF Piece, Past, Filled
<1> HIDE DEF K, to
<1>5. Piece(hunks, old, K, to) \in Seq(L)
      /\ \A edit \in EditsOf(L) : \A other : Piece(hunks, Grown(old, edit, other), K, to) = Piece(hunks, old, K, to)
  <2>1. K \in 0 .. Len(hunks)
    BY <1>1 DEF K
  <2> QED
    BY <1>3, <2>1, PieceTyped
<1>6. /\ Pieces(hunks, old) \in Seq(R) /\ Len(Pieces(hunks, old)) = K
      /\ \A edit \in EditsOf(L) : \A other : Pieces(hunks, Grown(old, edit, other)) = Pieces(hunks, old)
  BY PiecesTyped DEF R, K
<1>7. \A any :
        Pieces(more, any) = [ k \in 1 .. K + 1 |-> IF k = K + 1 THEN Piece(hunks, any, K, to) ELSE Pieces(hunks, any)[k] ]
  <2> TAKE any
  <2>1. \A k \in 1 .. K + 1 : Piece(more, any, k - 1, more[k].oldLine - 1)
           = IF k = K + 1 THEN Piece(hunks, any, K, to) ELSE Pieces(hunks, any)[k]
    <3> TAKE k \in 1 .. K + 1
    <3>1. k - 1 \in 0 .. K
      BY <1>1
    <3>2. Piece(more, any, k - 1, more[k].oldLine - 1) = Piece(hunks, any, k - 1, more[k].oldLine - 1)
      BY <3>1, <1>4
    <3>3. CASE k = K + 1
      <4>1. k - 1 = K /\ more[k].oldLine - 1 = to
        BY <3>3, <1>1 DEF to
      <4> QED
        BY <3>2, <3>3, <4>1
    <3>4. CASE k # K + 1
      <4>1. k \in 1 .. K /\ more[k] = hunks[k]
        BY <3>4, <1>1
      <4>2. Pieces(hunks, any)[k] = Piece(hunks, any, k - 1, hunks[k].oldLine - 1)
        BY <4>1 DEF Pieces, K
      <4> QED
        BY <3>2, <3>4, <4>1, <4>2
    <3> QED
      BY <3>3, <3>4
  <2> QED
    BY <2>1, <1>1 DEF Pieces
<1>8. Pieces(more, old) = Append(Pieces(hunks, old), Piece(hunks, old, K, to))
  <2> DEFINE ps == Pieces(hunks, old)
             p == Piece(hunks, old, K, to)
             a == Append(ps, p)
  <2>1. ps \in Seq(R) /\ Len(ps) = K /\ p \in R
    BY <1>5, <1>6 DEF R
  <2> HIDE DEF ps, p, R
  <2>2. a \in Seq(R) /\ Len(a) = K + 1 /\ a[K + 1] = p /\ \A k \in 1 .. K : a[k] = ps[k]
    BY <2>1, AppendProperties
  <2> HIDE DEF a
  <2>3. a = [ k \in 1 .. K + 1 |-> a[k] ]
    BY <2>2
  <2>4. \A k \in 1 .. K + 1 : a[k] = IF k = K + 1 THEN p ELSE ps[k]
    <3> TAKE k \in 1 .. K + 1
    <3>1. k # K + 1 => k \in 1 .. K
      BY <1>1
    <3> QED
      BY <2>2, <3>1
  <2>5. a = [ k \in 1 .. K + 1 |-> IF k = K + 1 THEN p ELSE ps[k] ]
    BY <2>3, <2>4
  <2> QED
    BY <2>5, <1>7 DEF a, ps, p
<1>9. /\ FlattenSeq(Pieces(more, old)) = FlattenSeq(Pieces(hunks, old)) \o Piece(hunks, old, K, to)
      /\ FlattenSeq(Pieces(hunks, old)) \in Seq(L)
  <2> DEFINE ps == Pieces(hunks, old)
             p == Piece(hunks, old, K, to)
  <2>1. ps \in Seq(Seq(L)) /\ p \in Seq(L)
    BY <1>5, <1>6
  <2> HIDE DEF ps, p
  <2>2. FlattenSeq(Append(ps, p)) = FlattenSeq(ps) \o p /\ FlattenSeq(ps) \in Seq(L)
    BY <2>1, FlattenOfMore
  <2> QED
    BY <2>2, <1>8 DEF ps, p
<1>10. \A edit \in EditsOf(L) : \A other : Pieces(more, Grown(old, edit, other)) = Pieces(more, old)
  <2> SUFFICES ASSUME NEW edit \in EditsOf(L), NEW other PROVE Pieces(more, Grown(old, edit, other)) = Pieces(more, old)
    OBVIOUS
  <2> DEFINE any == Grown(old, edit, other)
  <2>1. Piece(hunks, any, K, to) = Piece(hunks, old, K, to) /\ Pieces(hunks, any) = Pieces(hunks, old)
    BY <1>5, <1>6
  <2> QED
    BY <2>1, <1>7
<1>11. Steady(more, old, L)
  BY <1>10 DEF Steady
<1> QED
  BY <1>5, <1>8, <1>9, <1>11 DEF more, K, to

\* A hunk more, and where it is.
LEMMA PlacedMore ==
  ASSUME NEW L, NEW hunks \in Seq(HunksOf(L)), NEW hunk \in HunksOf(L), NEW old, NEW new
  PROVE  Placed(Append(hunks, hunk), old, new) <=>
           /\ Placed(hunks, old, new)
           /\ Shows(old, hunk.oldLine, OldOf(hunk)) /\ Shows(new, hunk.newLine, NewOf(hunk))
<1> DEFINE more == Append(hunks, hunk)
           K == Len(hunks)
           Fine(h) == Shows(old, h.oldLine, OldOf(h)) /\ Shows(new, h.newLine, NewOf(h))
<1>1. K \in Nat /\ Len(more) = K + 1 /\ more[K + 1] = hunk /\ \A k \in 1 .. K : more[k] = hunks[k]
  BY AppendProperties
<1>2. Placed(more, old, new) <=> \A k \in 1 .. K + 1 : Fine(more[k])
  BY <1>1 DEF Placed
<1>3. Placed(hunks, old, new) <=> \A k \in 1 .. K : Fine(hunks[k])
  BY DEF Placed
<1> HIDE DEF more, K, Fine
<1>4. (\A k \in 1 .. K + 1 : Fine(more[k])) => (\A k \in 1 .. K : Fine(hunks[k])) /\ Fine(hunk)
  <2> SUFFICES ASSUME \A k \in 1 .. K + 1 : Fine(more[k]) PROVE (\A k \in 1 .. K : Fine(hunks[k])) /\ Fine(hunk)
    OBVIOUS
  <2>1. K + 1 \in 1 .. K + 1 /\ \A k \in 1 .. K : k \in 1 .. K + 1
    BY <1>1
  <2> QED
    BY <2>1, <1>1
<1>5. (\A k \in 1 .. K : Fine(hunks[k])) /\ Fine(hunk) => (\A k \in 1 .. K + 1 : Fine(more[k]))
  <2> SUFFICES ASSUME \A k \in 1 .. K : Fine(hunks[k]), Fine(hunk), NEW k \in 1 .. K + 1 PROVE Fine(more[k])
    OBVIOUS
  <2>1. CASE k = K + 1
    BY <2>1, <1>1
  <2>2. CASE k # K + 1
    <3>1. k \in 1 .. K
      BY <2>2, <1>1
    <3> QED
      BY <3>1, <1>1
  <2> QED
    BY <2>1, <2>2
<1>6. Fine(hunk) <=> Shows(old, hunk.oldLine, OldOf(hunk)) /\ Shows(new, hunk.newLine, NewOf(hunk))
  BY DEF Fine
<1> QED
  BY <1>2, <1>3, <1>4, <1>5, <1>6 DEF more

\* Behind a last hunk that ends where the texts do there is nothing left.
LEMMA NothingBehind ==
  ASSUME NEW L, NEW hunks \in Seq(HunksOf(L)), NEW hunk \in HunksOf(L), NEW old \in Seq(L), NEW new, AtEnd(hunk, old, new)
  PROVE  Piece(Append(hunks, hunk), old, Len(Append(hunks, hunk)), Len(old)) = NewOf(hunk)
<1> DEFINE more == Append(hunks, hunk)
           K == Len(hunks)
<1>1. K \in Nat /\ Len(more) = K + 1 /\ more[K + 1] = hunk
  BY AppendProperties
<1> HIDE DEF more, K
<1>2. Past(more, K + 1) = Len(old) + 1 /\ Filled(more, K + 1) = NewOf(hunk)
  BY <1>1 DEF Past, Filled, AtEnd
<1>3. SubSeq(old, Len(old) + 1, Len(old)) = << >>
  <2>1. Len(old) + 1 \in Nat /\ Len(old) \in Nat /\ Len(old) + 1 > Len(old)
    OBVIOUS
  <2> QED
    BY <2>1, SubSeqEmpty
<1>4. NewOf(hunk) \in Seq(L)
  BY HunkIs
<1> DEFINE text == NewOf(hunk)
<1> HIDE DEF text
<1>5. text \o << >> = text
  BY <1>4, ConcatEmptySeq DEF text
<1> QED
  BY <1>1, <1>2, <1>3, <1>5 DEF Piece, more, text

\* A hunk opens where the texts end.
Opened(old, new) == [ oldLine |-> Len(old) + 1, newLine |-> Len(new) + 1, edits |-> << >> ]
LEMMA OpenHunk ==
  ASSUME NEW L, NEW hunks \in Seq(HunksOf(L)), NEW old \in Seq(L), NEW new \in Seq(L), Rebuilds(hunks, old, new)
  PROVE  /\ Opened(old, new) \in HunksOf(L)
         /\ Rebuilds(Append(hunks, Opened(old, new)), old, new) /\ AtEnd(Opened(old, new), old, new)
<1> DEFINE h == Opened(old, new)
           more == Append(hunks, h)
<1>1. h \in HunksOf(L)
  <2>1. Len(old) + 1 \in Nat /\ Len(new) + 1 \in Nat /\ << >> \in Seq(EditsOf(L))
    OBVIOUS
  <2> QED
    BY <2>1 DEF Opened, HunksOf
<1>2. /\ h.oldLine = Len(old) + 1 /\ h.newLine = Len(new) + 1
      /\ OldOf(h) = << >> /\ NewOf(h) = << >>
  BY SideOfNothing DEF Opened, OldOf, NewOf, OldSide, NewSide
<1>3. AtEnd(h, old, new)
  <2>1. Len(<< >>) = 0 /\ Len(old) \in Nat /\ Len(new) \in Nat
    OBVIOUS
  <2> QED
    BY <1>2, <2>1 DEF AtEnd
<1> HIDE DEF h
<1>4. Placed(more, old, new)
  <2>1. Shows(old, h.oldLine, OldOf(h)) /\ Shows(new, h.newLine, NewOf(h))
    BY <1>2, ShowsNothing
  <2>2. Placed(hunks, old, new)
    BY DEF Rebuilds
  <2> QED
    BY <1>1, <2>1, <2>2, PlacedMore
<1>5. FlattenSeq(Pieces(more, old)) = FlattenSeq(Pieces(hunks, old)) \o Piece(hunks, old, Len(hunks), Len(old))
  <2>1. Len(old) \in Nat /\ h.oldLine >= 1 /\ h.oldLine <= Len(old) + 1 /\ h.oldLine - 1 = Len(old)
    BY <1>2
  <2>2. Placed(hunks, old, new)
    BY DEF Rebuilds
  <2>3. FlattenSeq(Pieces(more, old)) = FlattenSeq(Pieces(hunks, old)) \o Piece(hunks, old, Len(hunks), h.oldLine - 1)
    BY <1>1, <2>1, <2>2, PiecesOfMore
  <2> QED
    BY <2>1, <2>3
<1>6. FlattenSeq(Pieces(more, old)) = new
  BY <1>5 DEF Rebuilds
<1>7. Piece(more, old, Len(more), Len(old)) = << >>
  BY <1>1, <1>2, <1>3, NothingBehind
<1>8. new \o << >> = new
  BY ConcatEmptySeq
<1> QED
  BY <1>1, <1>3, <1>4, <1>6, <1>7, <1>8 DEF Rebuilds, h

\* What is in the texts stays in them when they grow.
LEMMA PlacedLonger ==
  ASSUME NEW L, NEW hunks \in Seq(HunksOf(L)), NEW old \in Seq(L), NEW new \in Seq(L), NEW edit \in EditsOf(L),
         Placed(hunks, old, new)
  PROVE  Placed(hunks, Grown(old, edit, "+"), Grown(new, edit, "-"))
<1> SUFFICES ASSUME NEW k \in 1 .. Len(hunks)
             PROVE  /\ Shows(Grown(old, edit, "+"), hunks[k].oldLine, OldOf(hunks[k]))
                    /\ Shows(Grown(new, edit, "-"), hunks[k].newLine, NewOf(hunks[k]))
  BY DEF Placed
<1> DEFINE h == hunks[k]
<1>1. h \in HunksOf(L) /\ Shows(old, h.oldLine, OldOf(h)) /\ Shows(new, h.newLine, NewOf(h))
  BY DEF Placed
<1> HIDE DEF h
<1>2. OldOf(h) \in Seq(L) /\ NewOf(h) \in Seq(L)
  BY <1>1, HunkIs
<1> DEFINE o == OldOf(h)
           w == NewOf(h)
           m == h.oldLine
           n == h.newLine
<1> HIDE DEF o, w, m, n
<1>3. o \in Seq(L) /\ w \in Seq(L) /\ Shows(old, m, o) /\ Shows(new, n, w)
  BY <1>1, <1>2 DEF o, w, m, n
<1>4. Shows(Grown(old, edit, "+"), m, o)
  BY <1>3, ShowsLonger
<1>5. Shows(Grown(new, edit, "-"), n, w)
  BY <1>3, ShowsLonger
<1> QED
  BY <1>4, <1>5 DEF o, w, m, n, h

\* One more edit of the last hunk.
Extended(hunk, edit) == [ hunk EXCEPT !.edits = Append(@, edit) ]
LEMMA ExtendedIs ==
  ASSUME NEW L, NEW hunk \in HunksOf(L), NEW edit \in EditsOf(L)
  PROVE  /\ Extended(hunk, edit) \in HunksOf(L)
         /\ Extended(hunk, edit).oldLine = hunk.oldLine /\ Extended(hunk, edit).newLine = hunk.newLine
         /\ OldOf(Extended(hunk, edit)) = Grown(OldOf(hunk), edit, "+")
         /\ NewOf(Extended(hunk, edit)) = Grown(NewOf(hunk), edit, "-")
<1> DEFINE E == hunk.edits
<1>1. E \in Seq(EditsOf(L)) /\ hunk.oldLine \in Nat /\ hunk.newLine \in Nat
  BY DEF HunksOf
<1>2. /\ Extended(hunk, edit).edits = Append(E, edit)
      /\ Extended(hunk, edit).oldLine = hunk.oldLine /\ Extended(hunk, edit).newLine = hunk.newLine
  BY DEF HunksOf, Extended
<1> HIDE DEF E
<1>3. Append(E, edit) \in Seq(EditsOf(L))
  BY <1>1, AppendProperties
<1>4. Side(Append(E, edit), "+") = Grown(Side(E, "+"), edit, "+") /\ Side(Append(E, edit), "-") = Grown(Side(E, "-"), edit, "-")
  BY <1>1, SideOfMore
<1>5. Extended(hunk, edit) \in HunksOf(L)
  <2> DEFINE R == Seq(EditsOf(L))
             x == Append(E, edit)
  <2>1. hunk \in [ oldLine : Nat, newLine : Nat, edits : R ] /\ x \in R
    BY <1>3 DEF HunksOf
  <2>2. Extended(hunk, edit) = [ hunk EXCEPT !.edits = x ]
    BY DEF Extended, E
  <2> HIDE DEF R, x
  <2>3. [ hunk EXCEPT !.edits = x ] \in [ oldLine : Nat, newLine : Nat, edits : R ]
    BY <2>1
  <2> QED
    BY <2>2, <2>3 DEF HunksOf, R
<1> QED
  BY <1>2, <1>4, <1>5 DEF OldOf, NewOf, OldSide, NewSide, E

\* An edit more, in the last hunk and in both texts.
LEMMA HunkGrows ==
  ASSUME NEW L, NEW hunks \in Seq(HunksOf(L)), NEW hunk \in HunksOf(L), NEW edit \in EditsOf(L),
         NEW old \in Seq(L), NEW new \in Seq(L),
         Rebuilds(Append(hunks, hunk), old, new), AtEnd(hunk, old, new)
  PROVE  /\ Rebuilds(Append(hunks, Extended(hunk, edit)), Grown(old, edit, "+"), Grown(new, edit, "-"))
         /\ AtEnd(Extended(hunk, edit), Grown(old, edit, "+"), Grown(new, edit, "-"))
<1> DEFINE h == Extended(hunk, edit)
           O == Grown(old, edit, "+")
           W == Grown(new, edit, "-")
           K == Len(hunks)
           before == Append(hunks, hunk)
           after == Append(hunks, h)
           F == FlattenSeq(Pieces(hunks, old)) \o Piece(hunks, old, Len(hunks), hunk.oldLine - 1)
<1>1. /\ h \in HunksOf(L) /\ h.oldLine = hunk.oldLine /\ h.newLine = hunk.newLine
      /\ OldOf(h) = Grown(OldOf(hunk), edit, "+") /\ NewOf(h) = Grown(NewOf(hunk), edit, "-")
  BY ExtendedIs
<1>2. OldOf(hunk) \in Seq(L) /\ NewOf(hunk) \in Seq(L)
  BY HunkIs
<1> HIDE DEF h
<1>3. O \in Seq(L) /\ W \in Seq(L)
  BY GrownIs
<1>4. Placed(hunks, old, new) /\ Shows(old, hunk.oldLine, OldOf(hunk)) /\ Shows(new, hunk.newLine, NewOf(hunk))
  BY PlacedMore DEF Rebuilds
<1> DEFINE o == OldOf(hunk)
           w == NewOf(hunk)
           m == hunk.oldLine
           n == hunk.newLine
<1> HIDE DEF o, w, m, n
<1>5. /\ o \in Seq(L) /\ w \in Seq(L) /\ Shows(old, m, o) /\ Shows(new, n, w)
      /\ m + Len(o) = Len(old) + 1 /\ n + Len(w) = Len(new) + 1
  BY <1>2, <1>4 DEF o, w, m, n, AtEnd
<1>6. Shows(O, m, Grown(o, edit, "+")) /\ m + Len(Grown(o, edit, "+")) = Len(O) + 1
  BY <1>5, ShowsMore
<1>7. Shows(W, n, Grown(w, edit, "-")) /\ n + Len(Grown(w, edit, "-")) = Len(W) + 1
  BY <1>5, ShowsMore
<1>8. Shows(O, h.oldLine, OldOf(h)) /\ Shows(W, h.newLine, NewOf(h)) /\ AtEnd(h, O, W)
  <2> HIDE DEF O, W
  <2> QED
    BY <1>1, <1>6, <1>7 DEF o, w, m, n, AtEnd
<1>9. Placed(after, O, W)
  <2>1. Placed(hunks, O, W)
    BY <1>4, PlacedLonger
  <2> HIDE DEF O, W
  <2> QED
    BY <1>1, <1>8, <2>1, PlacedMore
<1>10. m \in Nat /\ m >= 1 /\ m <= Len(old) + 1
  <2>1. Len(o) \in Nat /\ Len(old) \in Nat
    BY <1>5
  <2> QED
    BY <1>5, <2>1 DEF Shows
<1>11. FlattenSeq(Pieces(before, old)) = F /\ F \in Seq(L)
  <2>1. hunk.oldLine >= 1 /\ hunk.oldLine <= Len(old) + 1
    BY <1>10 DEF m
  <2>2. /\ FlattenSeq(Pieces(before, old)) = F
        /\ FlattenSeq(Pieces(hunks, old)) \in Seq(L) /\ Piece(hunks, old, Len(hunks), hunk.oldLine - 1) \in Seq(L)
    BY <1>4, <2>1, PiecesOfMore
  <2> QED
    BY <2>2, ConcatProperties
<1>12. FlattenSeq(Pieces(after, O)) = F
  <2>1. h.oldLine >= 1 /\ h.oldLine <= Len(old) + 1 /\ h.oldLine = hunk.oldLine
    BY <1>1, <1>10 DEF m
  <2>2. /\ FlattenSeq(Pieces(after, old)) = FlattenSeq(Pieces(hunks, old)) \o Piece(hunks, old, Len(hunks), h.oldLine - 1)
        /\ Steady(after, old, L)
    BY <1>1, <1>4, <2>1, PiecesOfMore
  <2>3. FlattenSeq(Pieces(after, O)) = FlattenSeq(Pieces(after, old))
    BY <2>2 DEF Steady
  <2> QED
    BY <2>1, <2>2, <2>3
<1>13. new = F \o w
  <2>1. Piece(before, old, Len(before), Len(old)) = w
    BY NothingBehind DEF w
  <2> QED
    BY <1>11, <2>1 DEF Rebuilds
<1>14. Piece(after, O, Len(after), Len(O)) = Grown(w, edit, "-")
  <2>1. Piece(after, O, Len(after), Len(O)) = NewOf(h)
    <3> HIDE DEF O, W
    <3> QED
      BY <1>1, <1>3, <1>8, NothingBehind
  <2> QED
    BY <2>1, <1>1 DEF w
<1>15. W = F \o Grown(w, edit, "-")
  <2> HIDE DEF F
  <2>1. edit.line \in L
    BY GrownIs
  <2> DEFINE l == edit.line
  <2> HIDE DEF l
  <2>2. F \o Append(w, l) = Append(F \o w, l)
    BY <2>1, <1>5, <1>11, AppendBehind, SMTT(60) DEF l
  <2> QED
    BY <2>2, <1>13 DEF Grown, l
<1> QED
  <2> HIDE DEF F, after, O, W
  <2>1. Rebuilds(after, O, W)
    BY <1>9, <1>12, <1>14, <1>15 DEF Rebuilds
  <2> QED
    BY <2>1, <1>8 DEF after, O, W, h

\* A line that no hunk shows.
InBoth(edit) == edit.op = " "
LEMMA LineKept ==
  ASSUME NEW L, NEW hunks \in Seq(HunksOf(L)), NEW edit \in EditsOf(L), InBoth(edit),
         NEW old \in Seq(L), NEW new \in Seq(L), Rebuilds(hunks, old, new)
  PROVE  Rebuilds(hunks, Grown(old, edit, "+"), Grown(new, edit, "-"))
<1> DEFINE O == Grown(old, edit, "+")
           W == Grown(new, edit, "-")
           K == Len(hunks)
           N == Len(old)
           l == edit.line
           F == FlattenSeq(Pieces(hunks, old))
           p == Past(hunks, K)
           f == Filled(hunks, K)
<1>1. Placed(hunks, old, new) /\ new = F \o (f \o SubSeq(old, p, N))
  BY DEF Rebuilds, Piece
<1>2. Placed(hunks, O, W)
  BY <1>1, PlacedLonger
<1>3. l \in L /\ O = Append(old, l) /\ W = Append(new, l)
  <2>1. edit.op # "+" /\ edit.op # "-"
    BY DEF InBoth
  <2> QED
    BY <2>1, GrownIs DEF Grown
<1>4. N \in Nat /\ O \in Seq(L) /\ Len(O) = N + 1 /\ O[N + 1] = l
  <2> DEFINE x == Append(old, l)
  <2>1. N \in Nat /\ x \in Seq(L) /\ Len(x) = N + 1 /\ x[N + 1] = l
    <3>1. l \in L
      BY <1>3
    <3> HIDE DEF l
    <3> QED
      BY <3>1, AppendProperties
  <2> HIDE DEF x, O, N, l
  <2>2. O = x
    BY <1>3 DEF x
  <2> QED
    BY <2>1, <2>2
<1>5. F \in Seq(L) /\ FlattenSeq(Pieces(hunks, O)) = F
  <2>1. Pieces(hunks, old) \in Seq(Seq(L)) /\ Pieces(hunks, O) = Pieces(hunks, old)
    BY <1>1, PiecesTyped
  <2>2. << >> \in Seq(L)
    OBVIOUS
  <2> DEFINE ps == Pieces(hunks, old)
  <2> HIDE DEF ps
  <2>3. FlattenSeq(ps) \in Seq(L)
    BY <2>1, <2>2, FlattenOfMore DEF ps
  <2> QED
    BY <2>1, <2>3 DEF ps
<1>6. p \in Nat /\ 1 <= p /\ p <= N + 1 /\ f \in Seq(L)
  <2>1. K \in 0 .. Len(hunks) /\ N \in Nat /\ N <= Len(old)
    OBVIOUS
  <2> HIDE DEF K
  <2> QED
    BY <1>1, <2>1, PieceTyped
<1> HIDE DEF F, p, f, K
<1> DEFINE x == SubSeq(old, p, N)
<1>7. x \in Seq(L)
  <2>1. N <= Len(old)
    BY <1>4
  <2> HIDE DEF N
  <2> QED
    BY <1>4, <1>6, <2>1, Stretch
<1>8. SubSeq(O, p, N + 1) = Append(x, l)
  <2>1. SubSeq(O, p, N + 1) = Append(SubSeq(O, p, (N + 1) - 1), O[N + 1])
    <3>1. N + 1 \in Nat /\ p <= N + 1 /\ N + 1 <= Len(O)
      BY <1>4, <1>6
    <3> HIDE DEF O
    <3> QED
      BY <1>4, <1>6, <3>1, LongerStretch
  <2>2. SubSeq(O, p, N) = x
    <3>1. N <= Len(old) /\ N \in Nat /\ p \in Nat /\ 1 <= p
      BY <1>4, <1>6
    <3> HIDE DEF N
    <3> QED
      BY <3>1, StaysWhere, SMTT(60)
  <2>3. (N + 1) - 1 = N
    BY <1>4
  <2> QED
    BY <2>1, <2>2, <2>3, <1>4
<1> HIDE DEF x, l
<1>9. f \o Append(x, l) = Append(f \o x, l) /\ f \o x \in Seq(L)
  BY <1>3, <1>6, <1>7, AppendBehind, ConcatProperties, SMTT(60)
<1> DEFINE y == f \o x
<1> HIDE DEF y
<1>10. F \o Append(y, l) = Append(F \o y, l)
  <2>1. y \in Seq(L) /\ F \in Seq(L) /\ l \in L
    BY <1>3, <1>5, <1>9 DEF y
  <2> QED
    BY <2>1, AppendBehind
<1>11. W = F \o (f \o SubSeq(O, p, Len(O)))
  BY <1>1, <1>3, <1>4, <1>8, <1>9, <1>10 DEF x, y
<1> QED
  BY <1>2, <1>5, <1>11 DEF Rebuilds, Piece, f, p, K

\* The last hunk of some with an edit more.
LastGrown(more, hunks, edit, L) ==
  \A front \in Seq(HunksOf(L)), h \in HunksOf(L) : hunks = Append(front, h) => more = Append(front, Extended(h, edit))
LEMMA ExtendLast ==
  ASSUME NEW L, NEW hunks \in Seq(HunksOf(L)), NEW edit \in EditsOf(L)
  PROVE  LET more == [ hunks EXCEPT ![Len(hunks)].edits = Append(@, edit) ]
         IN  /\ more \in Seq(HunksOf(L))
             /\ LastGrown(more, hunks, edit, L)
<1> DEFINE K == Len(hunks)
           H == HunksOf(L)
           longer == Extended(hunks[K], edit)
           more == [ hunks EXCEPT ![Len(hunks)].edits = Append(@, edit) ]
           given == [ k \in 1 .. K |-> IF k = K THEN longer ELSE hunks[k] ]
<1>1. K \in Nat /\ DOMAIN hunks = 1 .. K /\ \A k \in 1 .. K : hunks[k] \in H
  BY SeqShape
<1>2. more = given
  <2>1. more = [ k \in DOMAIN hunks |-> IF k = K THEN longer ELSE hunks[k] ]
    BY DEF Extended
  <2> QED
    BY <2>1, <1>1
<1> HIDE DEF more
<1>3. \A k \in 1 .. K : given[k] \in H
  <2> SUFFICES ASSUME NEW k \in 1 .. K PROVE given[k] \in H
    OBVIOUS
  <2>1. hunks[k] \in HunksOf(L)
    BY <1>1
  <2>2. Extended(hunks[k], edit) \in HunksOf(L)
    BY <2>1, ExtendedIs
  <2> QED
    BY <2>1, <2>2
<1>4. given \in Seq(H) /\ Len(given) = K
  <2>1. given = [ k \in 1 .. K |-> given[k] ]
    OBVIOUS
  <2> HIDE DEF given, K, H
  <2>2. [ k \in 1 .. K |-> given[k] ] \in Seq(H) /\ Len([ k \in 1 .. K |-> given[k] ]) = K
    BY <1>1, <1>3
  <2> QED
    BY <2>1, <2>2
<1>5. ASSUME NEW front \in Seq(H), NEW h \in H, hunks = Append(front, h)
      PROVE  given = Append(front, Extended(h, edit))
  <2> DEFINE n == Len(front)
             end == Extended(h, edit)
             other == Append(front, end)
  <2>1. n \in Nat /\ K = n + 1 /\ hunks[n + 1] = h /\ \A k \in 1 .. n : hunks[k] = front[k]
    <3> HIDE DEF H
    <3> QED
      BY <1>5, AppendProperties
  <2>2. end \in H
    BY ExtendedIs
  <2> HIDE DEF end
  <2>3. other \in Seq(H) /\ Len(other) = n + 1 /\ other[n + 1] = end /\ \A k \in 1 .. n : other[k] = front[k]
    <3> HIDE DEF H
    <3> QED
      BY <2>2, AppendProperties
  <2>4. \A k \in 1 .. n + 1 : given[k] = other[k]
    <3> SUFFICES ASSUME NEW k \in 1 .. n + 1 PROVE given[k] = other[k]
      OBVIOUS
    <3>0. given[k] = IF k = K THEN longer ELSE hunks[k]
      BY <2>1
    <3> HIDE DEF given, other, K, n
    <3>1. CASE k = n + 1
      <4>1. given[k] = Extended(hunks[K], edit) /\ hunks[K] = h
        BY <3>0, <3>1, <2>1
      <4> QED
        BY <3>1, <4>1, <2>3 DEF end
    <3>2. CASE k # n + 1
      <4>1. k \in 1 .. n
        BY <3>2, <2>1
      <4> QED
        BY <3>0, <3>2, <4>1, <2>1, <2>3
    <3> QED
      BY <3>1, <3>2
  <2> HIDE DEF given, other, n, K, H
  <2>5. given = other
    BY <1>4, <2>1, <2>3, <2>4, SeqEqual
  <2> QED
    BY <2>5 DEF other, end
<1> HIDE DEF given
<1>6. LastGrown(given, hunks, edit, L)
  BY <1>5 DEF LastGrown
<1> QED
  BY <1>2, <1>4, <1>6 DEF more

\* Where the walk along the edits is.
HunkWalks(L) == [ oldLine : Nat, newLine : Nat, hunks : Seq(HunksOf(L)) ]
Joined(diff, n, at) == [ at.hunks EXCEPT ![Len(at.hunks)].edits = Append(@, diff[n]) ]
Begun(diff, n, at) == [ oldLine |-> at.oldLine, newLine |-> at.newLine, edits |-> << diff[n] >> ]
LEMMA HunkStepIs ==
  ASSUME NEW L, NEW diff \in Seq(EditsOf(L)), NEW n \in 1 .. Len(diff), NEW at \in HunkWalks(L)
  PROVE  LET next == HunkStep(diff, n, at)
         IN  /\ next \in HunkWalks(L)
             /\ next.oldLine = OldBehind(at.oldLine, diff[n]) /\ next.newLine = NewBehind(at.newLine, diff[n])
             /\ ~Kept(diff, n) => next.hunks = at.hunks
             /\ Kept(diff, n) /\ n > 1 /\ Kept(diff, n - 1) => next.hunks = Joined(diff, n, at)
             /\ Kept(diff, n) /\ ~(n > 1 /\ Kept(diff, n - 1)) => next.hunks = Append(at.hunks, Begun(diff, n, at))
<1> DEFINE next == HunkStep(diff, n, at)
           kept == Kept(diff, n)
           joins == n > 1 /\ Kept(diff, n - 1)
           H == HunksOf(L)
           hunks == IF ~kept THEN at.hunks
                    ELSE IF joins THEN Joined(diff, n, at) ELSE Append(at.hunks, Begun(diff, n, at))
<1>1. next = [ oldLine |-> OldBehind(at.oldLine, diff[n]), newLine |-> NewBehind(at.newLine, diff[n]), hunks |-> hunks ]
  BY DEF HunkStep, Joined, Begun
<1>2. at.oldLine \in Nat /\ at.newLine \in Nat /\ at.hunks \in Seq(H) /\ diff[n] \in EditsOf(L)
  BY DEF HunkWalks
<1>3. OldBehind(at.oldLine, diff[n]) \in Nat /\ NewBehind(at.newLine, diff[n]) \in Nat
  <2>1. at.oldLine + 1 \in Nat /\ at.newLine + 1 \in Nat
    BY <1>2
  <2> QED
    BY <1>2, <2>1 DEF OldBehind, NewBehind
<1>4. Joined(diff, n, at) \in Seq(H)
  <2> DEFINE x == at.hunks
             e == diff[n]
  <2>1. x \in Seq(HunksOf(L)) /\ e \in EditsOf(L)
    BY <1>2
  <2> HIDE DEF x, e
  <2>2. [ x EXCEPT ![Len(x)].edits = Append(@, e) ] \in Seq(HunksOf(L))
    BY <2>1, ExtendLast
  <2> QED
    BY <2>2 DEF Joined, x, e
<1>5. Append(at.hunks, Begun(diff, n, at)) \in Seq(H)
  <2>1. << diff[n] >> \in Seq(EditsOf(L))
    BY <1>2
  <2>2. Begun(diff, n, at) \in H
    BY <2>1, <1>2 DEF Begun, HunksOf
  <2> HIDE DEF H
  <2> QED
    BY <2>2, <1>2, AppendProperties
<1>6. hunks \in Seq(H)
  <2> HIDE DEF H, kept, joins
  <2> QED
    BY <1>2, <1>4, <1>5
<1> HIDE DEF hunks
<1>7. next \in HunkWalks(L)
  BY <1>1, <1>3, <1>6 DEF HunkWalks
<1>8. /\ next.oldLine = OldBehind(at.oldLine, diff[n]) /\ next.newLine = NewBehind(at.newLine, diff[n])
      /\ next.hunks = hunks
  BY <1>1
<1> HIDE DEF next, kept, joins
<1>9. /\ ~kept => next.hunks = at.hunks
      /\ kept /\ joins => next.hunks = Joined(diff, n, at)
      /\ kept /\ ~joins => next.hunks = Append(at.hunks, Begun(diff, n, at))
  BY <1>8 DEF hunks
<1> QED
  BY <1>7, <1>8, <1>9 DEF next, kept, joins

\* So far the hunks rebuild what the edits show.
Hunked(at, old, new, kept, L) ==
  /\ at.oldLine = Len(old) + 1 /\ at.newLine = Len(new) + 1 /\ Rebuilds(at.hunks, old, new)
  /\ kept => \E front \in Seq(HunksOf(L)), h \in HunksOf(L) : at.hunks = Append(front, h) /\ AtEnd(h, old, new)
LEMMA HunkedOn ==
  ASSUME NEW L, NEW diff \in Seq(EditsOf(L)), NEW n \in 1 .. Len(diff), NEW at \in HunkWalks(L),
         NEW old \in Seq(L), NEW new \in Seq(L), Hunked(at, old, new, n > 1 /\ Kept(diff, n - 1), L)
  PROVE  Hunked(HunkStep(diff, n, at), Grown(old, diff[n], "+"), Grown(new, diff[n], "-"), Kept(diff, n), L)
<1> DEFINE next == HunkStep(diff, n, at)
           kept == Kept(diff, n)
           joins == n > 1 /\ Kept(diff, n - 1)
           e == diff[n]
           O == Grown(old, e, "+")
           W == Grown(new, e, "-")
           begun == Begun(diff, n, at)
<1>1. /\ next.oldLine = OldBehind(at.oldLine, e) /\ next.newLine = NewBehind(at.newLine, e)
      /\ ~kept => next.hunks = at.hunks
      /\ kept /\ joins => next.hunks = Joined(diff, n, at)
      /\ kept /\ ~joins => next.hunks = Append(at.hunks, begun)
  BY HunkStepIs
<1>2. e \in EditsOf(L) /\ at.hunks \in Seq(HunksOf(L))
  BY DEF HunkWalks
<1>3. /\ at.oldLine = Len(old) + 1 /\ at.newLine = Len(new) + 1 /\ Rebuilds(at.hunks, old, new)
      /\ joins => \E front \in Seq(HunksOf(L)), h \in HunksOf(L) : at.hunks = Append(front, h) /\ AtEnd(h, old, new)
  BY DEF Hunked
<1>4. ~kept => InBoth(e)
  <2> SUFFICES ASSUME ~InBoth(e) PROVE kept
    OBVIOUS
  <2>0. e.op # " "
    <3> HIDE DEF e
    <3> QED
      BY Zenon DEF InBoth
  <2>1. n \in DOMAIN diff /\ diff[n].op # " "
    <3>1. n \in DOMAIN diff
      BY SeqShape
    <3> QED
      BY <2>0, <3>1
  <2>2. n - DiffContext <= n /\ n <= n + DiffContext
    BY EditingConstants
  <2> QED
    BY <2>1, <2>2 DEF Kept
<1> HIDE DEF next, kept, joins, e, begun
<1>5. next.oldLine = Len(O) + 1 /\ next.newLine = Len(W) + 1
  <2>1. Len(old) \in Nat /\ Len(new) \in Nat
    OBVIOUS
  <2>2. Len(O) = (IF e.op = "+" THEN Len(old) ELSE Len(old) + 1) /\ Len(W) = IF e.op = "-" THEN Len(new) ELSE Len(new) + 1
    BY <1>2, GrownIs
  <2> HIDE DEF O, W
  <2> QED
    BY <1>1, <1>3, <2>1, <2>2 DEF OldBehind, NewBehind
<1>6. /\ Rebuilds(next.hunks, O, W)
      /\ kept => \E front \in Seq(HunksOf(L)), h \in HunksOf(L) : next.hunks = Append(front, h) /\ AtEnd(h, O, W)
  <2> DEFINE H == at.hunks
  <2>0. H \in Seq(HunksOf(L)) /\ Rebuilds(H, old, new)
    BY <1>2, <1>3
  <2>1. CASE ~kept
    <3>1. next.hunks = H
      BY <2>1, <1>1
    <3> HIDE DEF H
    <3>2. Rebuilds(H, O, W)
      BY <2>0, <2>1, <1>2, <1>4, LineKept
    <3> QED
      BY <2>1, <3>1, <3>2
  <2>2. CASE kept /\ joins
    <3>1. PICK front \in Seq(HunksOf(L)), h \in HunksOf(L) : H = Append(front, h) /\ AtEnd(h, old, new)
      BY <2>2, <1>3
    <3>2. next.hunks = [ H EXCEPT ![Len(H)].edits = Append(@, e) ]
      BY <2>2, <1>1 DEF Joined, e
    <3> HIDE DEF H
    <3>3. next.hunks = Append(front, Extended(h, e))
      <4> DEFINE more == [ H EXCEPT ![Len(H)].edits = Append(@, e) ]
      <4>1. LastGrown(more, H, e, L)
        BY <2>0, <1>2, ExtendLast
      <4>2. next.hunks = more
        BY <3>2
      <4> HIDE DEF more
      <4> QED
        BY <3>1, <4>1, <4>2 DEF LastGrown
    <3>4. Rebuilds(Append(front, h), old, new)
      BY <2>0, <3>1
    <3>5. Rebuilds(Append(front, Extended(h, e)), O, W) /\ AtEnd(Extended(h, e), O, W)
      BY <3>1, <3>4, <1>2, HunkGrows
    <3>6. Extended(h, e) \in HunksOf(L)
      BY <1>2, ExtendedIs
    <3> QED
      BY <3>3, <3>5, <3>6
  <2>3. CASE kept /\ ~joins
    <3> DEFINE h == Opened(old, new)
    <3>1. next.hunks = Append(H, begun)
      BY <2>3, <1>1
    <3> HIDE DEF H
    <3>2. h \in HunksOf(L) /\ Rebuilds(Append(H, h), old, new) /\ AtEnd(h, old, new)
      BY <2>0, OpenHunk
    <3>3. begun = Extended(h, e)
      <4>1. begun = [ oldLine |-> Len(old) + 1, newLine |-> Len(new) + 1, edits |-> << e >> ]
        BY <1>3 DEF begun, Begun, e
      <4>2. Append(<< >>, e) = << e >>
        OBVIOUS
      <4> QED
        BY <4>1, <4>2 DEF Extended, Opened
    <3> HIDE DEF h
    <3>4. Rebuilds(Append(H, Extended(h, e)), O, W) /\ AtEnd(Extended(h, e), O, W)
      BY <2>0, <3>2, <1>2, HunkGrows
    <3>5. Extended(h, e) \in HunksOf(L)
      BY <3>2, <1>2, ExtendedIs
    <3> QED
      BY <2>0, <3>1, <3>3, <3>4, <3>5
  <2> QED
    BY <2>1, <2>2, <2>3
<1> QED
  <2> HIDE DEF O, W
  <2>1. Hunked(next, O, W, kept, L)
    BY <1>5, <1>6 DEF Hunked
  <2> QED
    BY <2>1 DEF O, W, next, kept, e

HunksFollow(f, diff, L) ==
  /\ f \in [ 0 .. Len(diff) -> HunkWalks(L) ] /\ f[0] = [ oldLine |-> 1, newLine |-> 1, hunks |-> << >> ]
  /\ \A n \in 1 .. Len(diff) : f[n] = HunkStep(diff, n, f[n - 1])
\* Hunks computes such a function.
LEMMA HunksCounted ==
  ASSUME NEW L, NEW diff \in Seq(EditsOf(L))
  PROVE  \E f : HunksFollow(f, diff, L) /\ Hunks(diff) = f[Len(diff)].hunks
<1> DEFINE N == Len(diff)
           T == HunkWalks(L)
           none == [ oldLine |-> 1, newLine |-> 1, hunks |-> << >> ]
           Following(n, before) == HunkStep(diff, n, before)
           Counts(g) == g = [ n \in 0 .. N |-> IF n = 0 THEN none ELSE Following(n, g[n - 1]) ]
           step == [ x \in (1 .. N) \X T |-> Following(x[1], x[2]) ]
           f == CHOOSE g : Counts(g)
<1>1. N \in Nat /\ none \in T
  BY DEF HunkWalks
<1>2. \A n \in 1 .. N, before \in T : Following(n, before) \in T
  BY HunkStepIs
<1>3. Hunks(diff) = f[N].hunks
  BY DEF Hunks
<1> HIDE DEF N, Following, none, T
<1>4. step \in Steps(N, T) /\ \A n \in 1 .. N, before \in T : step[<< n, before >>] = Following(n, before)
  BY <1>2 DEF Steps
<1> HIDE DEF step
<1>5. PICK g : Computes(g, N, T, none, step)
  BY <1>1, <1>4, Computed
<1>6. Counts(g)
  <2>1. g \in [ 0 .. N -> T ] /\ \A n \in 0 .. N : g[n] = IF n = 0 THEN none ELSE step[<< n, g[n - 1] >>]
    BY <1>5 DEF Computes
  <2>2. \A n \in 0 .. N : g[n] = IF n = 0 THEN none ELSE Following(n, g[n - 1])
    <3> TAKE n \in 0 .. N
    <3>1. CASE n # 0
      <4>1. n \in 1 .. N /\ n - 1 \in 0 .. N
        BY <1>1, <3>1
      <4> QED
        BY <2>1, <3>1, <4>1, <1>4
    <3> QED
      BY <2>1, <3>1
  <2> QED
    BY <2>1, <2>2
<1>7. Counts(f)
  BY <1>6
<1> HIDE DEF f
<1>8. f = [ n \in 0 .. N |-> f[n] ] /\ f[0] = none /\ \A n \in 1 .. N : f[n] = Following(n, f[n - 1])
  <2>1. f = [ n \in 0 .. N |-> IF n = 0 THEN none ELSE Following(n, f[n - 1]) ]
    BY <1>7
  <2>2. 0 \in 0 .. N /\ \A n \in 1 .. N : n \in 0 .. N /\ n # 0
    BY <1>1
  <2> QED
    BY <2>1, <2>2
<1>9. \A n \in 0 .. N : f[n] \in T
  <2> DEFINE S == { n \in 0 .. N : f[n] \in T }
  <2>1. 0 \in S
    BY <1>1, <1>8
  <2>2. ASSUME NEW n \in 1 .. N, n - 1 \in S PROVE n \in S
    <3>1. n \in 0 .. N
      BY <1>1
    <3>2. f[n - 1] \in T
      BY <2>2
    <3>3. f[n] = Following(n, f[n - 1])
      BY <1>8
    <3> QED
      BY <3>1, <3>2, <3>3, <1>2
  <2>3. \A n \in 0 .. N : n \in S
    <3> HIDE DEF S
    <3> QED
      BY <1>1, <2>1, <2>2, Upward
  <2> QED
    BY <2>3
<1>10. HunksFollow(f, diff, L)
  BY <1>8, <1>9 DEF HunksFollow, N, Following, none, T
<1> QED
  BY <1>3, <1>10 DEF N

\* No hunks change nothing.
LEMMA NothingChanges ==
  ASSUME NEW L, NEW lines \in Seq(L)
  PROVE  Rebuilds(<< >>, lines, lines)
<1>1. Len(<< >>) = 0 /\ 1 .. 0 = {} /\ << >> \in Seq(L)
  OBVIOUS
<1>2. Placed(<< >>, lines, lines)
  BY <1>1 DEF Placed
<1>3. Pieces(<< >>, lines) = << >>
  BY <1>1 DEF Pieces
<1>4. Piece(<< >>, lines, 0, Len(lines)) = << >> \o lines
  <2>1. SubSeq(lines, 1, Len(lines)) = lines
    BY Whole
  <2> QED
    BY <2>1 DEF Piece, Past, Filled
<1>5. << >> \o lines = lines
  BY ConcatEmptySeq
<1> QED
  BY <1>1, <1>2, <1>3, <1>4, <1>5, FlattenNothing DEF Rebuilds

\* The hunks of some edits rebuild what these show.
LEMMA HunksRebuild ==
  ASSUME NEW L, NEW diff \in Seq(EditsOf(L))
  PROVE  Hunks(diff) \in Seq(HunksOf(L)) /\ Rebuilds(Hunks(diff), OldSide(diff), NewSide(diff))
<1> DEFINE N == Len(diff)
           part(n) == SubSeq(diff, 1, n)
           O(n) == OldSide(part(n))
           W(n) == NewSide(part(n))
<1>1. PICK f : HunksFollow(f, diff, L) /\ Hunks(diff) = f[N].hunks
  BY HunksCounted
<1>2. N \in Nat /\ part(0) = << >> /\ part(N) = diff
  BY Whole
<1>3. \A n \in 0 .. N : part(n) \in Seq(EditsOf(L))
  <2> SUFFICES ASSUME NEW n \in 0 .. N PROVE part(n) \in Seq(EditsOf(L))
    OBVIOUS
  <2>1. n \in Nat /\ 1 \in Nat /\ 1 <= 1 /\ 1 <= n + 1 /\ n <= Len(diff)
    OBVIOUS
  <2> QED
    BY <2>1, Stretch
<1>4. ASSUME NEW n \in 1 .. N
      PROVE  n - 1 \in 0 .. N /\ diff[n] \in EditsOf(L) /\ part(n) = Append(part(n - 1), diff[n])
  <2>1. 1 \in Nat /\ n \in Nat /\ 1 <= 1 /\ 1 <= n /\ n <= Len(diff)
    OBVIOUS
  <2>2. diff[n] \in EditsOf(L)
    OBVIOUS
  <2> QED
    BY <2>1, <2>2, LongerStretch
<1>5. /\ f \in [ 0 .. N -> HunkWalks(L) ] /\ f[0] = [ oldLine |-> 1, newLine |-> 1, hunks |-> << >> ]
      /\ \A n \in 1 .. N : f[n] = HunkStep(diff, n, f[n - 1])
  BY <1>1 DEF HunksFollow
<1> DEFINE kept(n) == n > 0 /\ Kept(diff, n)
           Fine(n) == Hunked(f[n], O(n), W(n), kept(n), L)
           S == { n \in 0 .. N : Fine(n) }
<1> HIDE DEF part
<1>6. 0 \in S
  <2>1. O(0) = << >> /\ W(0) = << >>
    BY <1>2, SideOfNothing DEF OldSide, NewSide
  <2>2. f[0].oldLine = 1 /\ f[0].newLine = 1 /\ f[0].hunks = << >>
    BY <1>5
  <2>3. Rebuilds(<< >>, << >>, << >>)
    <3>1. << >> \in Seq(L)
      OBVIOUS
    <3> QED
      BY <3>1, NothingChanges
  <2>4. Len(<< >>) = 0 /\ 0 + 1 = 1 /\ ~kept(0) /\ 0 \in 0 .. N
    BY <1>2
  <2> QED
    BY <2>1, <2>2, <2>3, <2>4 DEF Hunked
<1>7. ASSUME NEW n \in 1 .. N, n - 1 \in S PROVE n \in S
  <2> DEFINE at == f[n - 1]
             e == diff[n]
             before == part(n - 1)
             old == OldSide(before)
             new == NewSide(before)
  <2>1. n - 1 \in 0 .. N /\ n \in 0 .. N /\ e \in EditsOf(L) /\ part(n) = Append(before, e) /\ before \in Seq(EditsOf(L))
    BY <1>2, <1>3, <1>4
  <2>2. at \in HunkWalks(L) /\ f[n] = HunkStep(diff, n, at)
    BY <2>1, <1>5
  <2>3. Hunked(at, old, new, kept(n - 1), L)
    BY <1>7
  <2>4. kept(n - 1) <=> n > 1 /\ Kept(diff, n - 1)
    OBVIOUS
  <2> HIDE DEF at, before, e
  <2>5. old \in Seq(L) /\ new \in Seq(L) /\ O(n) = Grown(old, e, "+") /\ W(n) = Grown(new, e, "-")
    <3>1. /\ Side(before, "+") \in Seq(L) /\ Side(Append(before, e), "+") = Grown(Side(before, "+"), e, "+")
          /\ Side(before, "-") \in Seq(L) /\ Side(Append(before, e), "-") = Grown(Side(before, "-"), e, "-")
      BY <2>1, SideOfMore
    <3> QED
      BY <2>1, <3>1 DEF OldSide, NewSide
  <2> HIDE DEF old, new, kept
  <2>6. Hunked(at, old, new, n > 1 /\ Kept(diff, n - 1), L)
    BY <2>3, <2>4 DEF Hunked
  <2>7. Hunked(HunkStep(diff, n, at), Grown(old, e, "+"), Grown(new, e, "-"), Kept(diff, n), L)
    BY <2>2, <2>5, <2>6, HunkedOn DEF e
  <2>8. kept(n) <=> Kept(diff, n)
    BY <1>2 DEF kept
  <2> HIDE DEF O, W
  <2>9. Fine(n)
    BY <2>2, <2>5, <2>7, <2>8 DEF Hunked
  <2> QED
    BY <2>1, <2>9
<1>8. \A n \in 0 .. N : n \in S
  <2> HIDE DEF S
  <2> QED
    BY <1>2, <1>6, <1>7, Upward
<1>9. Fine(N) /\ f[N] \in HunkWalks(L)
  BY <1>2, <1>5, <1>8
<1>10. Rebuilds(f[N].hunks, OldSide(diff), NewSide(diff))
  BY <1>2, <1>9 DEF Hunked
<1>11. f[N].hunks \in Seq(HunksOf(L))
  BY <1>9 DEF HunkWalks
<1> QED
  BY <1>1, <1>10, <1>11

-----------------------------------------------------------------------------
(* What the excludes match.                                                *)

Segments == [ deep : BOOLEAN, names : SUBSET STRING ]
MatchFollows(f, pattern, segments) ==
  /\ f[0] = { 0 }
  /\ \A n \in 1 .. Len(pattern) : f[n] = Consumed(pattern[n], segments, f[n - 1])
\* MatchSegments computes such a function.
LEMMA MatchCounted ==
  ASSUME NEW pattern \in Seq(Segments), NEW segments \in Seq(STRING)
  PROVE  \E f : MatchFollows(f, pattern, segments) /\ (MatchSegments(pattern, segments) <=> f[Len(pattern)] # {})
<1> DEFINE N == Len(pattern)
           T == SUBSET (0 .. Len(segments))
           Following(n, before) == Consumed(pattern[n], segments, before)
           Counts(g) == g = [ n \in 0 .. N |-> IF n = 0 THEN { 0 } ELSE Following(n, g[n - 1]) ]
           step == [ x \in (1 .. N) \X T |-> Following(x[1], x[2]) ]
           f == CHOOSE g : Counts(g)
<1>1. N \in Nat /\ { 0 } \in T
  OBVIOUS
<1>2. \A n, before : before \in T => Following(n, before) \in T
  BY DEF Consumed
<1>3. MatchSegments(pattern, segments) <=> f[N] # {}
  BY DEF MatchSegments
<1> HIDE DEF N, Following, T
<1>4. step \in Steps(N, T) /\ \A n \in 1 .. N, before \in T : step[<< n, before >>] = Following(n, before)
  BY <1>2 DEF Steps
<1> HIDE DEF step
<1>5. PICK g : Computes(g, N, T, { 0 }, step)
  BY <1>1, <1>4, Computed
<1>6. Counts(g)
  <2>1. g \in [ 0 .. N -> T ] /\ \A n \in 0 .. N : g[n] = IF n = 0 THEN { 0 } ELSE step[<< n, g[n - 1] >>]
    BY <1>5 DEF Computes
  <2>2. \A n \in 0 .. N : g[n] = IF n = 0 THEN { 0 } ELSE Following(n, g[n - 1])
    <3> TAKE n \in 0 .. N
    <3>1. CASE n # 0
      <4>1. n \in 1 .. N /\ n - 1 \in 0 .. N
        BY <1>1, <3>1
      <4> QED
        BY <2>1, <3>1, <4>1, <1>4
    <3> QED
      BY <2>1, <3>1
  <2> QED
    BY <2>1, <2>2
<1>7. Counts(f)
  BY <1>6
<1> HIDE DEF f
<1>8. f[0] = { 0 } /\ \A n \in 1 .. N : f[n] = Following(n, f[n - 1])
  <2>1. f = [ n \in 0 .. N |-> IF n = 0 THEN { 0 } ELSE Following(n, f[n - 1]) ]
    BY <1>7
  <2>2. 0 \in 0 .. N /\ \A n \in 1 .. N : n \in 0 .. N /\ n # 0
    BY <1>1
  <2> QED
    BY <2>1, <2>2
<1>9. MatchFollows(f, pattern, segments)
  BY <1>8 DEF MatchFollows, N, Following
<1> QED
  BY <1>3, <1>9 DEF N

\* A pattern that matches a directory matches what is in it.
LEMMA MatchGrows ==
  ASSUME NEW pattern \in Seq(Segments), NEW segments \in Seq(STRING), NEW k \in 0 .. Len(segments),
         MatchSegments(pattern, SubSeq(segments, 1, k))
  PROVE  MatchSegments(pattern, segments)
<1> DEFINE dir == SubSeq(segments, 1, k)
           N == Len(pattern)
<1>1. dir \in Seq(STRING) /\ Len(dir) = k /\ \A i \in 1 .. k : dir[i] = segments[i]
  <2>1. 1 \in Nat /\ k \in Nat /\ 1 <= 1 /\ 1 <= k + 1 /\ k <= Len(segments) /\ k - 1 + 1 = k
    OBVIOUS
  <2>2. dir \in Seq(STRING) /\ Len(dir) = k - 1 + 1 /\ \A i \in 1 .. k - 1 + 1 : dir[i] = segments[1 + i - 1]
    BY <2>1, Stretch
  <2>3. \A i \in 1 .. k : 1 + i - 1 = i
    OBVIOUS
  <2> HIDE DEF dir
  <2> QED
    BY <2>1, <2>2, <2>3
<1>2. MatchSegments(pattern, dir)
  OBVIOUS
<1> HIDE DEF dir
<1>3. PICK f : MatchFollows(f, pattern, dir) /\ (MatchSegments(pattern, dir) <=> f[N] # {})
  BY <1>1, MatchCounted
<1>4. PICK g : MatchFollows(g, pattern, segments) /\ (MatchSegments(pattern, segments) <=> g[N] # {})
  BY MatchCounted
<1>5. N \in Nat
  OBVIOUS
<1> HIDE DEF N
<1>6. \A n \in 0 .. N : f[n] \subseteq g[n]
  <2> DEFINE S == { n \in 0 .. N : f[n] \subseteq g[n] }
  <2>1. 0 \in S
    BY <1>3, <1>4, <1>5 DEF MatchFollows
  <2>2. ASSUME NEW n \in 1 .. N, n - 1 \in S PROVE n \in S
    <3>1. f[n] = Consumed(pattern[n], dir, f[n - 1]) /\ g[n] = Consumed(pattern[n], segments, g[n - 1])
      BY <1>3, <1>4 DEF MatchFollows, N
    <3>2. f[n - 1] \subseteq g[n - 1] /\ n \in 0 .. N
      BY <2>2, <1>5
    <3>3. Consumed(pattern[n], dir, f[n - 1]) \subseteq Consumed(pattern[n], segments, g[n - 1])
      <4>1. k \in Nat /\ Len(segments) \in Nat /\ k <= Len(segments)
        OBVIOUS
      <4>2. CASE pattern[n].deep
        BY <3>2, <4>1, <4>2, <1>1 DEF Consumed
      <4>3. CASE ~pattern[n].deep
        <5>1. Consumed(pattern[n], dir, f[n - 1]) = { i \in 1 .. k : i - 1 \in f[n - 1] /\ dir[i] \in pattern[n].names }
          BY <4>3, <1>1 DEF Consumed
        <5>2. Consumed(pattern[n], segments, g[n - 1])
                = { i \in 1 .. Len(segments) : i - 1 \in g[n - 1] /\ segments[i] \in pattern[n].names }
          BY <4>3 DEF Consumed
        <5>3. \A i \in 1 .. k : i \in 1 .. Len(segments) /\ dir[i] = segments[i]
          BY <4>1, <1>1
        <5> QED
          BY <5>1, <5>2, <5>3, <3>2
      <4> QED
        BY <4>2, <4>3
    <3> QED
      BY <3>1, <3>2, <3>3
  <2>3. \A n \in 0 .. N : n \in S
    <3> HIDE DEF S
    <3> QED
      BY <1>5, <2>1, <2>2, Upward
  <2> QED
    BY <2>3
<1>7. f[N] \subseteq g[N]
  BY <1>5, <1>6
<1> QED
  BY <1>2, <1>3, <1>4, <1>7

\* What no walk is kept from, a walk from the root finds.
LEMMA WalkFinds ==
  ASSUME NEW file \in Seq(STRING), file # << >>, Last(file) \in Sources,
         NEW left \in SUBSET Seq(Segments), ~Match(left, file),
         \A i \in DOMAIN file : file[i] \notin SkippedDirs
  PROVE  CollectTargets(<< >>, file, left)
<1> DEFINE N == Len(file)
<1>1. N \in Nat /\ N > 0 /\ DOMAIN file = 1 .. N
  OBVIOUS
<1>2. SubSeq(file, 1, 0) = << >> /\ Len(<< >>) = 0
  BY SubSeqEmpty
<1>3. ASSUME NEW n \in 0 .. N - 1
      PROVE  LET entered == SubSeq(file, 1, n)
             IN  ~MatchesDir(left, entered) /\ (n = 0 \/ Last(entered) \notin SkippedDirs)
  <2> DEFINE entered == SubSeq(file, 1, n)
  <2>1. n \in 0 .. N
    BY <1>1
  <2>2. ~MatchesDir(left, entered)
    <3> SUFFICES ASSUME NEW pattern \in left, pattern # << >>, MatchSegments(pattern, entered) PROVE FALSE
      BY DEF MatchesDir, Match
    <3>1. MatchSegments(pattern, file)
      BY <2>1, MatchGrows
    <3> QED
      BY <3>1 DEF Match
  <2>3. ASSUME n # 0 PROVE Last(entered) \notin SkippedDirs
    <3>1. 1 \in Nat /\ n \in Nat /\ 1 <= 1 /\ 1 <= n + 1 /\ n <= Len(file) /\ n - 1 + 1 = n /\ n \in 1 .. n /\ 1 + n - 1 = n
      BY <2>1, <2>3
    <3>2. Len(entered) = n - 1 + 1 /\ \A i \in 1 .. n - 1 + 1 : entered[i] = file[1 + i - 1]
      BY <3>1, Stretch
    <3> HIDE DEF entered
    <3>3. Last(entered) = file[n]
      BY <3>1, <3>2 DEF Last
    <3>4. n \in DOMAIN file
      BY <1>1, <2>1, <2>3
    <3> QED
      BY <3>3, <3>4
  <2> QED
    BY <2>2, <2>3
<1> QED
  BY <1>1, <1>2, <1>3 DEF CollectTargets

-----------------------------------------------------------------------------
(* The editor and the store.                                               *)

\* What holds of both, and of the file, all along.
Agree == buffer \in Seq(Characters) /\ document = buffer
FileIs ==
  /\ path \in Seq(STRING) /\ path # << >> /\ Last(path) \in Sources
  /\ excludes \in SUBSET Seq(Segments)
EditedInv == Agree /\ FileIs

\* A text with a stretch replaced is a text.
LEMMA SplicedTyped ==
  ASSUME NEW text \in Seq(Characters), NEW start \in 0 .. Len(text), NEW end \in 0 .. Len(text), start <= end,
         NEW new \in Seq(Characters)
  PROVE  Spliced(text, start, end, new) \in Seq(Characters)
<1>1. SubSeq(text, 1, start) \in Seq(Characters)
  <2>1. 1 \in Nat /\ start \in Nat /\ 1 <= 1 /\ 1 <= start + 1 /\ start <= Len(text)
    OBVIOUS
  <2> QED
    BY <2>1, Stretch
<1>2. SubSeq(text, end + 1, Len(text)) \in Seq(Characters)
  <2>1. end + 1 \in Nat /\ Len(text) \in Nat /\ 1 <= end + 1 /\ end + 1 <= Len(text) + 1 /\ Len(text) <= Len(text)
    OBVIOUS
  <2> QED
    BY <2>1, Stretch
<1> QED
  BY <1>1, <1>2, ConcatProperties DEF Spliced

\* The server follows each change of the editor.
LEMMA ChangeFollows ==
  ASSUME Agree, NEW start \in 0 .. Len(buffer), NEW end \in 0 .. Len(buffer), start <= end,
         NEW new \in Seq(Characters), Change(start, end, new)
  PROVE  Agree' /\ buffer' = Spliced(buffer, start, end, new) /\ UNCHANGED << path, excludes >>
<1>1. buffer \in Seq(Characters) /\ document = buffer
  BY DEF Agree
<1>2. Spliced(buffer, start, end, new) \in Seq(Characters)
  BY <1>1, SplicedTyped
<1>3. ApplyContentChanges(buffer, [ start |-> Place(buffer, start), end |-> Place(buffer, end), text |-> new ])
        = Spliced(buffer, start, end, new)
  BY <1>1, StoreFollows
<1> QED
  BY <1>1, <1>2, <1>3 DEF Change, Agree

\* The layout of a text is a text, whichever options are asked for.
LayoutGivesTexts ==
  \A text \in Seq(Characters), options \in { DefaultOptions } \cup { FromLSP(request) : request \in Requests } :
    Layout(text, options).text \in Seq(Characters)

\* What a reply leaves in the editor is the layout of what was there.
LEMMA FormatLays ==
  ASSUME Agree, LayoutGivesTexts, NEW request \in Requests, FormatDocument(request)
  PROVE  /\ Agree' /\ buffer' = Layout(buffer, FromLSP(request)).text
         /\ UNCHANGED << path, excludes >>
<1> DEFINE after == Layout(buffer, FromLSP(request)).text
<1>1. buffer \in Seq(Characters) /\ document = buffer /\ after \in Seq(Characters)
  BY DEF Agree, LayoutGivesTexts
<1> DEFINE edit == MinimalEdit(buffer, after)
           start == Offset(buffer, edit.start)
           end == Offset(buffer, edit.end)
<1>2. Change(start, end, edit.text)
  BY <1>1 DEF FormatDocument, TextDocumentFormatting
<1>3. /\ start \in 0 .. Len(buffer) /\ end \in 0 .. Len(buffer) /\ start <= end
      /\ Spliced(buffer, start, end, edit.text) = after /\ edit.text \in Seq(Characters)
  <2> HIDE DEF after
  <2>1. after \in Seq(Characters)
    BY <1>1 DEF after
  <2> QED
    BY <1>1, <2>1, MinimalEditIs
<1> DEFINE new == edit.text
<1> HIDE DEF start, end, new
<1>4. Agree' /\ buffer' = Spliced(buffer, start, end, new) /\ UNCHANGED << path, excludes >>
  BY <1>2, <1>3, ChangeFollows DEF new
<1> QED
  BY <1>3, <1>4 DEF new

\* It holds at first,
LEMMA EditedStart ==
  ASSUME EditingInit
  PROVE  EditedInv
BY EditingConstants DEF EditingInit, EditedInv, Agree, FileIs, Segments

\* and each change of the document, and each reply, keeps it.
LEMMA EditedStep ==
  ASSUME EditedInv, LayoutGivesTexts, [EditingNext]_editingVars
  PROVE  EditedInv'
<1>1. CASE Type
  <2>1. PICK at \in 0 .. Len(buffer), fragment \in Fragments : Change(at, at, fragment)
    BY <1>1 DEF Type
  <2>2. fragment \in Seq(Characters) /\ at <= at
    BY EditingConstants
  <2>3. Agree' /\ UNCHANGED << path, excludes >>
    BY <2>1, <2>2, ChangeFollows DEF EditedInv
  <2> QED
    BY <2>3 DEF EditedInv, FileIs
<1>2. CASE Erase
  <2>1. PICK at \in DOMAIN buffer : Change(at - 1, at, << >>)
    BY <1>2 DEF Erase
  <2>2. buffer \in Seq(Characters)
    BY DEF EditedInv, Agree
  <2>3. at - 1 \in 0 .. Len(buffer) /\ at \in 0 .. Len(buffer) /\ at - 1 <= at /\ << >> \in Seq(Characters)
    BY <2>2
  <2>4. Agree' /\ UNCHANGED << path, excludes >>
    BY <2>1, <2>3, ChangeFollows DEF EditedInv
  <2> QED
    BY <2>4 DEF EditedInv, FileIs
<1>3. ASSUME NEW request \in Requests, FormatDocument(request) PROVE EditedInv'
  <2>1. Agree' /\ UNCHANGED << path, excludes >>
    BY <1>3, FormatLays DEF EditedInv
  <2> QED
    BY <2>1 DEF EditedInv, FileIs
<1>4. CASE UNCHANGED editingVars
  BY <1>4 DEF editingVars, EditedInv, Agree, FileIs
<1> QED
  BY <1>1, <1>2, <1>3, <1>4 DEF EditingNext

\* So it holds all along.
LEMMA EditedAlways ==
  ASSUME LayoutGivesTexts
  PROVE  EditingSpec => []EditedInv
<1>1. EditingInit => EditedInv
  BY EditedStart
<1>2. EditedInv /\ [EditingNext]_editingVars => EditedInv'
  BY EditedStep
<1> QED
  BY <1>1, <1>2, PTL DEF EditingSpec

\* textDocument/formatting, for any document, any edits before, any request and any
\* layout that gives texts: what the reply leaves in the editor, which finds the
\* places of its edits by its own count, is the layout with the options that
\* FromLSP takes from the request.  Where those are the defaults, it is what runFmt
\* writes; where they are not, the two may differ.  And a document that a reply
\* lays out, collectTargets finds, unless a directory on the way is one that no
\* walk enters.
THEOREM FormatsAlike ==
  ASSUME LayoutGivesTexts
  PROVE  EditingSpec => FormatsLikeTheCommand
<1> DEFINE Alikes == \A request \in Requests : FormatDocument(request) =>
             /\ buffer' = Layout(buffer, FromLSP(request)).text
             /\ FromLSP(request) = DefaultOptions => buffer' = RunFmt(buffer, {}).written
             /\ (\A i \in DOMAIN path : path[i] \notin SkippedDirs) => CollectTargets(<< >>, path, excludes)
<1>1. EditedInv /\ [EditingNext]_editingVars => [Alikes]_editingVars
  <2> SUFFICES ASSUME EditedInv, NEW request \in Requests, FormatDocument(request)
               PROVE  /\ buffer' = Layout(buffer, FromLSP(request)).text
                      /\ FromLSP(request) = DefaultOptions => buffer' = RunFmt(buffer, {}).written
                      /\ (\A i \in DOMAIN path : path[i] \notin SkippedDirs) => CollectTargets(<< >>, path, excludes)
    OBVIOUS
  <2>1. buffer' = Layout(buffer, FromLSP(request)).text
    BY FormatLays DEF EditedInv
  <2>2. RunFmt(buffer, {}).written = Layout(buffer, DefaultOptions).text
    BY DEF RunFmt, Ran
  <2>3. ~Match(excludes, path)
    BY DEF FormatDocument
  <2>4. (\A i \in DOMAIN path : path[i] \notin SkippedDirs) => CollectTargets(<< >>, path, excludes)
    BY <2>3, WalkFinds DEF EditedInv, FileIs
  <2> QED
    BY <2>1, <2>2, <2>4
<1>2. EditingSpec => []EditedInv
  BY EditedAlways
<1> QED
  BY <1>1, <1>2, PTL DEF EditingSpec, FormatsLikeTheCommand

\* Lines of a text, both of them of it.
LEMMA BetweenIs ==
  ASSUME NEW L, NEW lines \in Seq(L), NEW from \in Nat, NEW to \in Nat, 1 <= from, to <= Len(lines)
  PROVE  Between(lines, from, to) = SubSeq(lines, from, to)
<1>1. Len(lines) \in Nat /\ 1 \in Nat
  OBVIOUS
<1> DEFINE N == Len(lines)
<1> HIDE DEF N
<1>2. Max({ 1, from }) = from
  BY <1>1, OfTwo
<1>3. Min({ to, N }) = to
  <2>1. N \in Nat /\ to <= N
    BY <1>1 DEF N
  <2> QED
    BY <2>1, OfTwo
<1> QED
  BY <1>2, <1>3 DEF Between, N

\* Hunks that rebuild a text of another are a patch of it.
LEMMA RebuiltIsPatched ==
  ASSUME NEW L, NEW hunks \in Seq(HunksOf(L)), NEW a \in Seq(L), NEW b \in Seq(L), Rebuilds(hunks, a, b)
  PROVE  IsPatch(a, b, hunks)
<1> DEFINE K == Len(hunks)
           N == Len(a)
           R == Seq(L)
           next(k) == IF k = K THEN N ELSE hunks[k + 1].oldLine - 1
           piece(k) == (IF k = 1 THEN << >> ELSE NewOf(hunks[k - 1])) \o Between(a, Past(hunks, k - 1), next(k - 1))
           ps == Pieces(hunks, a)
           p == Piece(hunks, a, K, N)
<1>1. Placed(hunks, a, b) /\ b = FlattenSeq(ps) \o p
  BY DEF Rebuilds
<1>2. K \in Nat /\ N \in Nat /\ DOMAIN hunks = 1 .. K
  BY SeqShape
<1>3. ASSUME NEW k \in 1 .. K
      PROVE  /\ Between(a, hunks[k].oldLine, Past(hunks, k) - 1) = OldOf(hunks[k])
             /\ Between(b, hunks[k].newLine, hunks[k].newLine + Len(NewOf(hunks[k])) - 1) = NewOf(hunks[k])
             /\ hunks[k].oldLine - 1 \in Nat /\ hunks[k].oldLine - 1 <= N
  <2> DEFINE h == hunks[k]
             o == OldOf(h)
             w == NewOf(h)
             m == h.oldLine
             n == h.newLine
  <2>1. h \in HunksOf(L) /\ Shows(a, m, o) /\ Shows(b, n, w)
    BY <1>1 DEF Placed
  <2>2. Past(hunks, k) = m + Len(o)
    BY DEF Past
  <2>3. o \in Seq(L) /\ w \in Seq(L)
    <3> HIDE DEF h
    <3> QED
      BY <2>1, HunkIs
  <2> HIDE DEF o, w, m, n
  <2>4. Len(o) \in Nat /\ Len(w) \in Nat /\ Len(b) \in Nat
    BY <2>3
  <2>5. /\ m \in Nat /\ 1 <= m /\ m + Len(o) <= N + 1 /\ SubSeq(a, m, m + Len(o) - 1) = o
        /\ n \in Nat /\ 1 <= n /\ n + Len(w) <= Len(b) + 1 /\ SubSeq(b, n, n + Len(w) - 1) = w
    BY <2>1 DEF Shows
  <2> DEFINE x == m + Len(o) - 1
             y == n + Len(w) - 1
  <2>6. x \in Nat /\ x <= Len(a) /\ y \in Nat /\ y <= Len(b) /\ m - 1 \in Nat /\ m - 1 <= N
    BY <2>4, <2>5, <1>2
  <2>7. SubSeq(a, m, x) = o /\ SubSeq(b, n, y) = w
    BY <2>5
  <2> HIDE DEF x, y
  <2>8. Between(a, m, x) = o
    BY <2>5, <2>6, <2>7, BetweenIs
  <2>9. Between(b, n, y) = w
    BY <2>5, <2>6, <2>7, BetweenIs
  <2>10. Past(hunks, k) - 1 = x
    BY <2>2, <2>4, <2>5 DEF x
  <2> QED
    BY <2>6, <2>8, <2>9, <2>10 DEF x, y, o, w, m, n, h
<1>4. \A k \in 0 .. K : \A to \in Nat : to <= N =>
        /\ Piece(hunks, a, k, to) = Filled(hunks, k) \o Between(a, Past(hunks, k), to)
        /\ Piece(hunks, a, k, to) \in R
  <2> SUFFICES ASSUME NEW k \in 0 .. K, NEW to \in Nat, to <= N
               PROVE  /\ Piece(hunks, a, k, to) = Filled(hunks, k) \o Between(a, Past(hunks, k), to)
                      /\ Piece(hunks, a, k, to) \in R
    OBVIOUS
  <2> DEFINE from == Past(hunks, k)
  <2>1. k \in 0 .. Len(hunks) /\ to <= Len(a)
    OBVIOUS
  <2>2. from \in Nat /\ 1 <= from /\ Piece(hunks, a, k, to) \in R
    <3> HIDE DEF from, R
    <3> QED
      BY <1>1, <2>1, PieceTyped DEF from, R
  <2> HIDE DEF from
  <2>3. Between(a, from, to) = SubSeq(a, from, to)
    BY <2>1, <2>2, BetweenIs
  <2> QED
    BY <2>2, <2>3 DEF Piece, from
<1>5. ps \in Seq(R) /\ Len(ps) = K
  BY <1>1, PiecesTyped
<1>6. p \in R
  <2>1. K \in 0 .. K /\ N <= N
    BY <1>2
  <2> QED
    BY <1>2, <1>4, <2>1
<1>7. \A k \in 1 .. K : ps[k] = Piece(hunks, a, k - 1, hunks[k].oldLine - 1)
  BY DEF Pieces
<1>8. \A k \in 1 .. K + 1 : piece(k) = IF k = K + 1 THEN p ELSE ps[k]
  <2> SUFFICES ASSUME NEW k \in 1 .. K + 1 PROVE piece(k) = IF k = K + 1 THEN p ELSE ps[k]
    OBVIOUS
  <2> DEFINE j == k - 1
             to == IF k = K + 1 THEN N ELSE hunks[k].oldLine - 1
  <2>1. j \in 0 .. K /\ (k = K + 1 <=> j = K) /\ (k = 1 <=> j = 0) /\ j + 1 = k /\ (k # K + 1 => k \in 1 .. K)
    BY <1>2
  <2>2. next(j) = to
    <3> HIDE DEF K, N, j
    <3> QED
      BY <2>1
  <2>3. (IF k = 1 THEN << >> ELSE NewOf(hunks[k - 1])) = Filled(hunks, j)
    BY <2>1 DEF Filled
  <2>4. to \in Nat /\ to <= N
    BY <2>1, <1>2, <1>3
  <2> HIDE DEF next, to, j, K, N
  <2>5. piece(k) = Piece(hunks, a, j, to)
    BY <2>1, <2>2, <2>3, <2>4, <1>4 DEF j
  <2>6. Piece(hunks, a, j, to) = IF k = K + 1 THEN p ELSE ps[k]
    <3>1. CASE k = K + 1
      BY <3>1, <2>1 DEF to
    <3>2. CASE k # K + 1
      BY <3>2, <2>1, <1>7 DEF to, j
    <3> QED
      BY <3>1, <3>2
  <2> QED
    BY <2>5, <2>6
<1> DEFINE all == [ k \in 1 .. K + 1 |-> piece(k) ]
<1>9. all = Append(ps, p)
  <2> DEFINE c == Append(ps, p)
  <2>1. all = [ k \in 1 .. K + 1 |-> IF k = K + 1 THEN p ELSE ps[k] ]
    BY <1>8
  <2> HIDE DEF ps, p, R, K
  <2>2. c \in Seq(R) /\ Len(c) = K + 1 /\ c[K + 1] = p /\ \A k \in 1 .. K : c[k] = ps[k]
    BY <1>5, <1>6, AppendProperties
  <2> HIDE DEF c
  <2>3. c = [ k \in 1 .. K + 1 |-> c[k] ]
    BY <2>2
  <2>4. \A k \in 1 .. K + 1 : c[k] = IF k = K + 1 THEN p ELSE ps[k]
    <3> TAKE k \in 1 .. K + 1
    <3>1. k # K + 1 => k \in 1 .. K
      BY <1>2
    <3> QED
      BY <2>2, <3>1
  <2> QED
    BY <2>1, <2>3, <2>4 DEF c
<1>10. b = FlattenSeq(all)
  <2>1. ps \in Seq(Seq(L)) /\ p \in Seq(L)
    BY <1>5, <1>6
  <2> HIDE DEF ps, p
  <2>2. FlattenSeq(Append(ps, p)) = FlattenSeq(ps) \o p
    BY <2>1, FlattenOfMore
  <2> HIDE DEF all
  <2> QED
    BY <1>1, <1>9, <2>2
<1>11. \A k \in 1 .. K :
         /\ Between(a, hunks[k].oldLine, Past(hunks, k) - 1) = OldOf(hunks[k])
         /\ Between(b, hunks[k].newLine, hunks[k].newLine + Len(NewOf(hunks[k])) - 1) = NewOf(hunks[k])
  BY <1>3
<1> QED
  BY <1>2, <1>10, <1>11 DEF IsPatch, Past, OldOf, NewOf

\* The diff of two texts turns the one into the other.
LEMMA DiffPatches ==
  ASSUME NEW before \in Seq(Characters), NEW after \in Seq(Characters)
  PROVE  /\ IsPatch(Lines(before), Lines(after), UnifiedDiff(before, after))
         /\ IsPatch(Lines(before), Lines(before), << >>)
<1> DEFINE L == Seq(Characters)
           a == Lines(before)
           b == Lines(after)
<1>1. a \in Seq(L) /\ b \in Seq(L)
  BY LinesTyped DEF Rows
<1> HIDE DEF L, a, b
<1>2. DiffLines(a, b) \in Seq(EditsOf(L)) /\ OldSide(DiffLines(a, b)) = a /\ NewSide(DiffLines(a, b)) = b
  BY <1>1, DiffShowsBoth
<1> DEFINE diff == DiffLines(a, b)
           hunks == Hunks(diff)
<1> HIDE DEF diff
<1>3. hunks \in Seq(HunksOf(L)) /\ Rebuilds(hunks, OldSide(diff), NewSide(diff))
  BY <1>2, HunksRebuild DEF diff
<1> HIDE DEF hunks
<1>4. IsPatch(a, b, hunks)
  <2>1. Rebuilds(hunks, a, b)
    BY <1>2, <1>3 DEF diff
  <2> QED
    BY <1>1, <1>3, <2>1, RebuiltIsPatched
<1>5. IsPatch(a, a, << >>)
  <2>1. << >> \in Seq(HunksOf(L))
    OBVIOUS
  <2>2. Rebuilds(<< >>, a, a)
    BY <1>1, NothingChanges
  <2> QED
    BY <1>1, <2>1, <2>2, RebuiltIsPatched
<1> QED
  BY <1>4, <1>5 DEF UnifiedDiff, hunks, diff, a, b

\* unifiedDiff, for any texts and any number of lines of context: each hunk shows
\* lines of the old and of the new text where it says, and the new sides, with
\* what the old text has in between, make up the new text.
THEOREM PatchesHold ==
  ASSUME LayoutGivesTexts
  PROVE  EditingSpec => []PatchesToTheResult
<1>1. EditedInv => PatchesToTheResult
  <2> SUFFICES ASSUME EditedInv PROVE PatchesToTheResult
    OBVIOUS
  <2> DEFINE after == Layout(buffer, DefaultOptions).text
  <2>1. buffer \in Seq(Characters) /\ after \in Seq(Characters)
    BY DEF EditedInv, Agree, LayoutGivesTexts
  <2>2. RunFmt(buffer, {}).written = after
    BY DEF RunFmt, Ran
  <2>3. RunFmt(buffer, { "diff" }).diff = IF after # buffer THEN UnifiedDiff(buffer, after) ELSE << >>
    BY DEF RunFmt, Ran
  <2> HIDE DEF after
  <2>4. /\ IsPatch(Lines(buffer), Lines(after), UnifiedDiff(buffer, after))
        /\ IsPatch(Lines(buffer), Lines(buffer), << >>)
    BY <2>1, DiffPatches
  <2> QED
    BY <2>2, <2>3, <2>4 DEF PatchesToTheResult
<1>2. EditingSpec => []EditedInv
  BY EditedAlways
<1> QED
  BY <1>1, <1>2, PTL
=============================================================================
