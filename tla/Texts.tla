--------------------------------- MODULE Texts ---------------------------------
(***************************************************************************)
(* A text is a sequence of characters, counted from one.                   *)
(***************************************************************************)
EXTENDS Integers, Sequences, FiniteSets, FiniteSetsExt, SequencesExt

Newline == "\n"

\* One more character behind some lines.
OneMore(lines, character) ==
  IF character = Newline THEN Append(lines, << >>)
  ELSE [ lines EXCEPT ![Len(lines)] = Append(@, character) ]

\* The lines of a text, without their line breaks.
Lines(text) ==
  LET lines[n \in 0 .. Len(text)] == IF n = 0 THEN << << >> >> ELSE OneMore(lines[n - 1], text[n])
  IN  lines[Len(text)]
=============================================================================
