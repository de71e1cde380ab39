-------------------------------- MODULE Options --------------------------------
(***************************************************************************)
(* What the formatter may be told: pkg/codefmt/options.go.                 *)
(***************************************************************************)
EXTENDS Integers, Sequences

\* The indent is what one level of it is written with: UseTabs, TabWidth and
\* indentUnit in one, for nothing else reads the two.
DefaultOptions == [ indent |-> << "\t" >>, maxBlankLines |-> 1, insertFinalNewline |-> TRUE ]
DefaultTabWidth == 4

Spaces(n) == [ i \in 1 .. n |-> " " ]

\* What an editor asks, over the defaults.  A request has the fields the code
\* could read: one that is missing, or of another type, tells nothing, and no
\* more does a width that is not positive.
FromLSP(request) ==
  LET asked(field) == field \in DOMAIN request
      spaces == asked("insertSpaces") /\ request.insertSpaces
      width  == IF asked("tabSize") /\ request.tabSize > 0 THEN request.tabSize ELSE DefaultTabWidth
  IN  [ DefaultOptions EXCEPT
          !.indent = IF spaces THEN Spaces(width) ELSE @,
          !.insertFinalNewline = IF asked("insertFinalNewline") THEN request.insertFinalNewline ELSE @ ]
=============================================================================
