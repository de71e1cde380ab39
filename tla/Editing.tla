-------------------------------- MODULE Editing --------------------------------
(***************************************************************************)
(* A document in an editor and in the language server's document store,    *)
(* laid out by textDocument/formatting and by zirric fmt.                  *)
(*                                                                         *)
(* Both sides name places by a line and a number of UTF-16 units, and each *)
(* counts them for itself.                                                 *)
(***************************************************************************)
EXTENDS FmtCommand

CONSTANTS
  Characters,       \* what texts are made of
  Starts,           \* documents at first: their text, path and excludes, and
                    \* the number of edits to come
  Fragments,        \* what is typed at a time
  Requests,         \* the options editors send with textDocument/formatting
  Wide              \* the characters of two UTF-16 units

ASSUME EditingAssumption ==
  /\ Newline \in Characters /\ Fragments \subseteq Seq(Characters)
  /\ \A s \in Starts :
       /\ s.text \in Seq(Characters) /\ s.edits \in Nat
       /\ s.path \in Seq(STRING) /\ s.path # << >> /\ Last(s.path) \in Sources
       /\ s.excludes \subseteq Seq([ deep : BOOLEAN, names : SUBSET STRING ])
  /\ \A r \in Requests :
       /\ "insertSpaces" \in DOMAIN r => r.insertSpaces \in BOOLEAN
       /\ "tabSize" \in DOMAIN r => r.tabSize \in Int
       /\ "insertFinalNewline" \in DOMAIN r => r.insertFinalNewline \in BOOLEAN

VARIABLES
  buffer,           \* the text as the editor has it
  document,         \* as the server has it
  path,             \* where the file is in its package
  excludes,         \* what the Cavefile leaves alone
  edits             \* how many more there may be: a bound

editingVars == << buffer, document, path, excludes, edits >>

EditingInit ==
  \E s \in Starts :
    buffer = s.text /\ document = s.text /\ path = s.path /\ excludes = s.excludes /\ edits = s.edits

----------------------------------------------------------------------------
(* Places.                                                                 *)

Units(character) == IF character \in Wide THEN 2 ELSE 1
UnitsOf(text) ==
  LET units[n \in 0 .. Len(text)] == IF n = 0 THEN 0 ELSE units[n - 1] + Units(text[n])
  IN  units[Len(text)]

\* The protocol's place of what follows the first characters of a text.
Place(text, offset) ==
  LET breaks == { i \in 1 .. offset : text[i] = Newline }
      start  == IF breaks = {} THEN 0 ELSE Max(breaks)
  IN  [ line |-> Cardinality(breaks), character |-> UnitsOf(SubSeq(text, start + 1, offset)) ]

\* Where the editor finds a place: a column behind its line is the line's end.
Offset(text, place) ==
  Max({ i \in 0 .. Len(text) :
          LET at == Place(text, i)
          IN  at.line < place.line \/ (at.line = place.line /\ at.character <= place.character) })

\* The server's: one character after the other.
Behind(at, character) ==
  IF character = Newline THEN [ line |-> at.line + 1, character |-> 0 ]
  ELSE [ line |-> at.line, character |-> at.character + Units(character) ]
PositionForOffset(text, offset) ==
  LET at[n \in 0 .. Len(text)] == IF n = 0 THEN [ line |-> 0, character |-> 0 ] ELSE Behind(at[n - 1], text[n])
  IN  at[offset]

\* What the protocol library and the server look a place up in: a line's offsets,
\* and of them the last that its column reaches.
Row(text, line) ==
  LET breaks == { i \in DOMAIN text : text[i] = Newline }
  IN  { i \in 0 .. Len(text) : Cardinality({ b \in breaks : b <= i }) = line }
Reached(text, row, units) == Max({ i \in row : UnitsOf(SubSeq(text, Min(row) + 1, i)) <= units })

\* The library's IndexesIn: a place behind the text is its beginning.
IndexIn(text, place) ==
  LET row == Row(text, place.line)
  IN  IF row = {} THEN 0 ELSE Reached(text, row, place.character)

\* The server's own: a place behind the text is its end.
OffsetForPosition(text, place) ==
  LET row == Row(text, place.line)
  IN  IF row = {} THEN Len(text) ELSE Reached(text, row, place.character)

RangeForOffsets(text, start, end) ==
  LET from == Min({ start, Len(text) })
      to   == Min({ Max({ start, end }), Len(text) })
  IN  [ start |-> PositionForOffset(text, from), end |-> PositionForOffset(text, to) ]

----------------------------------------------------------------------------
(* The document store.                                                     *)

Spliced(text, start, end, new) ==
  SubSeq(text, 1, start) \o new \o SubSeq(text, end + 1, Len(text))

IsRangeIndexInvalid(change, start, end) ==
  LET beyond(place, index) == index = 0 /\ (place.line > 0 \/ place.character > 0)
  IN  start > end \/ beyond(change.start, start) \/ beyond(change.end, end)

\* A change whose range is invalid is an error, and the document stays.
ApplyContentChanges(text, change) ==
  LET start == IndexIn(text, change.start)
      end   == IndexIn(text, change.end)
  IN  IF IsRangeIndexInvalid(change, start, end) THEN text
      ELSE Spliced(text, start, end, change.text)

----------------------------------------------------------------------------
(* textDocument/formatting.                                                *)

\* The lines of a text, each with the line break that ends it.
SplitAfter(text) ==
  LET lines == Lines(text)
  IN  [ i \in DOMAIN lines |-> IF i < Len(lines) THEN Append(lines[i], Newline) ELSE lines[i] ]

\* The lines two texts begin, or end, with alike.
Alike(lines, others, most) ==
  LET same == { n \in 0 .. most : \A i \in 1 .. n : lines[i] = others[i] }
  IN  Max(same)

\* Mutant: the lines alike at the end may be those alike at the beginning.
MinimalEditOverlapping(before, after) ==
  LET olds   == SplitAfter(before)
      news   == SplitAfter(after)
      prefix == Alike(olds, news, Min({ Len(olds), Len(news) }))
      suffix == Alike(Reverse(olds), Reverse(news), Min({ Len(olds), Len(news) }))
      start  == Len(FlattenSeq(SubSeq(olds, 1, prefix)))
      end    == Len(before) - Len(FlattenSeq(SubSeq(olds, Len(olds) - suffix + 1, Len(olds))))
      range  == RangeForOffsets(before, start, end)
  IN  [ start |-> range.start, end |-> range.end,
        text |-> FlattenSeq(SubSeq(news, prefix + 1, Len(news) - suffix)) ]

MinimalEdit(before, after) ==
  LET olds   == SplitAfter(before)
      news   == SplitAfter(after)
      prefix == Alike(olds, news, Min({ Len(olds), Len(news) }))
      suffix == Alike(Reverse(olds), Reverse(news), Min({ Len(olds), Len(news) }) - prefix)
      start  == Len(FlattenSeq(SubSeq(olds, 1, prefix)))
      end    == Len(before) - Len(FlattenSeq(SubSeq(olds, Len(olds) - suffix + 1, Len(olds))))
      range  == RangeForOffsets(before, start, end)
  IN  [ start |-> range.start, end |-> range.end,
        text |-> FlattenSeq(SubSeq(news, prefix + 1, Len(news) - suffix)) ]

\* The edits of a reply: none if the text cannot be laid out, or is already.
TextDocumentFormatting(text, request) ==
  LET formatted == Layout(text, FromLSP(request))
  IN  IF ~formatted.ok \/ formatted.text = text THEN {} ELSE { MinimalEdit(text, formatted.text) }

----------------------------------------------------------------------------
(* What happens to the document.                                           *)

\* The editor replaces a stretch of its text and tells the server where.
Change(start, end, new) ==
  /\ buffer' = Spliced(buffer, start, end, new) /\ UNCHANGED << path, excludes >>
  /\ document' = ApplyContentChanges(document,
       [ start |-> Place(buffer, start), end |-> Place(buffer, end), text |-> new ])

Type ==
  /\ edits > 0 /\ edits' = edits - 1
  /\ \E at \in 0 .. Len(buffer), fragment \in Fragments : Change(at, at, fragment)

Erase ==
  /\ edits > 0 /\ edits' = edits - 1
  /\ \E at \in DOMAIN buffer : Change(at - 1, at, << >>)

\* The editor carries the reply out where it finds the places in its own text.
FormatDocument(request) ==
  /\ UNCHANGED edits /\ ~Match(excludes, path)
  /\ \E edit \in TextDocumentFormatting(document, request) :
       Change(Offset(buffer, edit.start), Offset(buffer, edit.end), edit.text)

EditingNext == Type \/ Erase \/ \E request \in Requests : FormatDocument(request)

EditingSpec == EditingInit /\ [][EditingNext]_editingVars

----------------------------------------------------------------------------
(* Properties.                                                             *)

\* What a reply leaves in the editor, which carries its edit out by its own count
\* of places, is the layout that was asked for, and what zirric fmt writes if the
\* editor asked for the defaults, by which alone the command goes.  A document
\* that is laid out, zirric fmt finds, unless it is somewhere that no walk goes.
FormatsLikeTheCommand ==
  [][\A request \in Requests : FormatDocument(request) =>
       /\ buffer' = Layout(buffer, FromLSP(request)).text
       /\ FromLSP(request) = DefaultOptions => buffer' = RunFmt(buffer, {}).written
       /\ (\A i \in DOMAIN path : path[i] \notin SkippedDirs) => CollectTargets(<< >>, path, excludes)]_editingVars

\* The diff of zirric fmt --diff turns the text into the one it would write.
PatchesToTheResult ==
  IsPatch(Lines(buffer), Lines(RunFmt(buffer, {}).written), RunFmt(buffer, { "diff" }).diff)
=============================================================================
