------------------------------ MODULE FmtCommand ------------------------------
(***************************************************************************)
(* zirric fmt: which files it lays out, and what it says of them:          *)
(* cmd/zirric/cmds/fmt.go, with the excludes of pkg/codefmt.               *)
(***************************************************************************)
EXTENDS Diff, Options

CONSTANTS
  SkippedDirs,      \* directories no walk enters
  Sources,          \* names of Zirric files
  Layout(_, _)      \* what pkg/codefmt makes of a text with some options: whether
                    \* it could be laid out (ok), and the text then or as it was
                    \* (module Formatter)

----------------------------------------------------------------------------
(* Excludes.  A path is a sequence of names from the package root; a       *)
(* pattern is one of segments, each the names it matches or any depth.     *)

\* How much of a path a pattern may stand for with one more segment.
Consumed(segment, segments, before) ==
  IF segment.deep THEN { i \in 0 .. Len(segments) : \E j \in before : j <= i }
  ELSE { i \in 1 .. Len(segments) : i - 1 \in before /\ segments[i] \in segment.names }

MatchSegments(pattern, segments) ==
  LET consumed[n \in 0 .. Len(pattern)] ==
        IF n = 0 THEN { 0 } ELSE Consumed(pattern[n], segments, consumed[n - 1])
  IN  consumed[Len(pattern)] # {}

\* A pattern or a path that names the root itself excludes nothing.
Match(excludes, path) ==
  path # << >> /\ \E pattern \in excludes : pattern # << >> /\ MatchSegments(pattern, path)

MatchesDir(excludes, dir) == Match(excludes, dir)

\* Whether collectTargets finds a file when it walks the directory it was given.
CollectTargets(dir, file, excludes) ==
  /\ Len(dir) < Len(file) /\ SubSeq(file, 1, Len(dir)) = dir
  /\ \A n \in Len(dir) .. Len(file) - 1 :
       LET entered == SubSeq(file, 1, n)
       IN  ~MatchesDir(excludes, entered) /\ (n = 0 \/ Last(entered) \notin SkippedDirs)
  /\ Last(file) \in Sources /\ ~Match(excludes, file)

----------------------------------------------------------------------------
(* runFmt.                                                                 *)

\* What becomes of one file, with the flags of the command.
Ran(text, formatted, flags) ==
  LET differs == formatted.text # text
  IN  [ drift |-> ~formatted.ok \/ differs,
        diff |-> IF differs /\ "diff" \in flags THEN UnifiedDiff(text, formatted.text) ELSE << >>,
        listed |-> differs /\ "diff" \notin flags /\ flags \cap { "list", "check" } # {},
        written |-> IF flags \cap { "diff", "list", "check" } = {} THEN formatted.text ELSE text ]
RunFmt(text, flags) == Ran(text, Layout(text, DefaultOptions), flags)
=============================================================================
