-------------------------------- MODULE Lexing --------------------------------
(***************************************************************************)
(* The lexer: pkg/lexer.  A keyword is spelled with a letter of its own.   *)
(***************************************************************************)
EXTENDS Texts, TLC

CONSTANTS
  Letters,          \* the letters texts are written with
  Keywords          \* those that are keywords -> the type of their token

ASSUME LexingAssumption == DOMAIN Keywords \subseteq Letters

Whitespace == { " ", "\t", "\r", Newline }
Digits == { "0", "1" }
HexDigits == Digits \cup { "a", "b", "e" }

\* The character at a position, and none behind the last.
At(input, i) == IF i \in DOMAIN input THEN input[i] ELSE ""

\* The first position from i on that holds none of the characters, or one of them.
Past(input, i, characters) ==
  LET stops == { j \in i .. Len(input) : input[j] \notin characters }
  IN  IF stops = {} THEN Max({ i, Len(input) + 1 }) ELSE Min(stops)
UpTo(input, i, character) ==
  LET stops == { j \in i .. Len(input) : input[j] = character }
  IN  IF stops = {} THEN Max({ i, Len(input) + 1 }) ELSE Min(stops)

----------------------------------------------------------------------------
(* The cursor.                                                             *)

Advance(input, c) ==
  LET leaving == At(input, c.curr) = Newline
  IN  [ curr |-> c.peek, peek |-> c.peek + 1,
        line |-> IF leaving THEN c.line + 1 ELSE c.line,
        lineStart |-> IF leaving THEN c.peek ELSE c.lineStart ]

New(input) == Advance(input, [ curr |-> 0, peek |-> 1, line |-> 1, lineStart |-> 1 ])

\* Mutant: the cursor jumps.
JumpTo(input, c, to) == [ c EXCEPT !.curr = to, !.peek = to + 1 ]

\* One advance after the other, until the cursor is there.
MoveTo(input, c, to) ==
  LET left == { i \in c.curr .. to - 1 : At(input, i) = Newline }
  IN  [ curr |-> to, peek |-> to + 1, line |-> c.line + Cardinality(left),
        lineStart |-> IF left = {} THEN c.lineStart ELSE Max(left) + 1 ]

\* The cursor of Region(start, ...), over the text cut off at its end.
Region(input, start) ==
  LET before == { i \in 1 .. start - 1 : At(input, i) = Newline }
  IN  [ curr |-> start, peek |-> start + 1, line |-> 1 + Cardinality(before),
        lineStart |-> IF before = {} THEN 1 ELSE Max(before) + 1 ]

----------------------------------------------------------------------------
(* Decorations: comments and whitespace in front of a token.               *)

Decoration(type, input, i, end) == [ type |-> type, text |-> SubSeq(input, i, end - 1) ]

RECURSIVE LeadingDecorations(_, _)
LeadingDecorations(input, i) ==
  IF At(input, i) = "#" \/ (At(input, i) = "/" /\ At(input, i + 1) = "/")
    THEN LET end == UpTo(input, i, Newline)
         IN  << Decoration("comment", input, i, end) >> \o LeadingDecorations(input, end)
  ELSE IF At(input, i) \in Whitespace
    THEN LET end  == Past(input, i, Whitespace)
             many == \E j \in i .. end - 1 : input[j] = Newline
         IN  << Decoration(IF many THEN "multi" ELSE "inline", input, i, end) >>
               \o LeadingDecorations(input, end)
  ELSE << >>

LeadingLen(leading) == FoldLeft(LAMBDA n, d : n + Len(d.text), 0, leading)

----------------------------------------------------------------------------
(* String and character literals.                                          *)

RECURSIVE ScanCharLiteral(_, _)
ScanCharLiteral(input, i) ==
  IF i > Len(input) THEN [ end |-> Len(input) + 1, closed |-> FALSE ]
  ELSE CASE input[i] = "\\"    -> ScanCharLiteral(input, i + 2)
         [] input[i] = "'"     -> [ end |-> i, closed |-> TRUE ]
         [] input[i] = Newline -> [ end |-> i, closed |-> FALSE ]
         [] OTHER              -> ScanCharLiteral(input, i + 1)

RECURSIVE ScanStringContent(_, _, _, _), Interpolated(_, _, _, _, _), ScanInterpolation(_, _, _)

\* The plain text of a literal from one position up to another.
Plain(input, from, to) ==
  IF from < to THEN << [ interpolation |-> FALSE, text |-> SubSeq(input, from, to - 1) ] >> ELSE << >>

\* From position i of a literal whose content starts at start; text is where
\* the run of plain text began that i belongs to.
ScanStringContent(input, start, text, i) ==
  IF i > Len(input) THEN [ segments |-> Plain(input, text, Len(input) + 1), end |-> Len(input) + 1 ]
  ELSE IF input[i] = "\"" THEN [ segments |-> Plain(input, text, i), end |-> i ]
  ELSE IF input[i] # "\\" THEN ScanStringContent(input, start, text, i + 1)
  ELSE IF At(input, i + 1) # "(" THEN ScanStringContent(input, start, text, i + 2)
  ELSE Interpolated(input, start, text, i, ScanInterpolation(input, i + 2, 1))

\* An interpolation that starts at i, and the rest if it is closed.
Interpolated(input, start, text, i, inner) ==
  LET here == Append(Plain(input, text, i),
                     [ interpolation |-> TRUE, text |-> SubSeq(input, i + 2, inner.end - 1),
                       offset |-> i + 2 - start ])
  IN  IF ~inner.closed THEN [ segments |-> here, end |-> inner.end ]
      ELSE [ ScanStringContent(input, start, inner.end + 1, inner.end + 1) EXCEPT !.segments = here \o @ ]

ScanInterpolation(input, i, depth) ==
  IF i > Len(input) THEN [ end |-> Len(input) + 1, closed |-> FALSE ]
  ELSE CASE input[i] = "("  -> ScanInterpolation(input, i + 1, depth + 1)
         [] input[i] = ")" /\ depth = 1 -> [ end |-> i, closed |-> TRUE ]
         [] input[i] = ")" /\ depth > 1 -> ScanInterpolation(input, i + 1, depth - 1)
         [] input[i] = "\"" ->
              ScanInterpolation(input, ScanStringContent(input, i + 1, i + 1, i + 1).end + 1, depth)
         [] input[i] = "'"  ->
              LET char == ScanCharLiteral(input, i + 1)
              IN  IF char.closed THEN ScanInterpolation(input, char.end + 1, depth) ELSE char
         [] input[i] = Newline -> [ end |-> i, closed |-> FALSE ]
         [] OTHER -> ScanInterpolation(input, i + 1, depth)

SplitString(content) == ScanStringContent(content, 1, 1, 1).segments

\* A whole literal in its quotes, if it is one.
IsLiteral(text) ==
  /\ Len(text) >= 2 /\ text[1] = "\""
  /\ ScanStringContent(text, 2, 2, 2).end = Len(text)
SplitLiteral(text) == ScanStringContent(text, 2, 2, 2).segments

\* parseChar: where it stops, on the quote or on what may not be in a literal.
RECURSIVE CharEnd(_, _, _)
CharEnd(input, i, escaped) ==
  IF At(input, i) \in { "", Newline, "\r", "\t" } THEN i
  ELSE IF escaped THEN CharEnd(input, i + 1, FALSE)
  ELSE IF input[i] = "'" THEN i
  ELSE CharEnd(input, i + 1, input[i] = "\\")

----------------------------------------------------------------------------
(* Numbers.                                                                *)

Exponent(input, i) ==
  Past(input, IF At(input, i + 1) \in { "+", "-" } THEN i + 2 ELSE i + 1, Digits)

Number(input, i) ==
  LET whole    == Past(input, i, Digits)
      fraction == At(input, whole) = "." /\ At(input, whole + 1) \in Digits
      digits   == IF fraction THEN Past(input, whole + 1, Digits) ELSE whole
  IN  CASE At(input, i) = "0" /\ At(input, i + 1) = "x" ->
             [ type |-> "INT", end |-> Past(input, i + 2, HexDigits) ]
        [] At(input, i) = "0" /\ At(input, i + 1) = "b" ->
             [ type |-> "INT", end |-> Past(input, i + 2, Digits) ]
        [] At(input, digits) = "e" -> [ type |-> "FLOAT", end |-> Exponent(input, digits) ]
        [] fraction /\ At(input, digits) # "e" -> [ type |-> "FLOAT", end |-> digits ]
        [] OTHER -> [ type |-> "INT", end |-> whole ]

----------------------------------------------------------------------------
(* Tokens.                                                                 *)

Pairs ==
  << "!", "=" >> :> "!=" @@ << "!", "." >> :> "!." @@ << "!", "!" >> :> "!!" @@
  << "?", "." >> :> "?." @@ << "?", "?" >> :> "??" @@ << "+", "=" >> :> "+=" @@
  << "-", ">" >> :> "->" @@ << "-", "=" >> :> "-=" @@ << "*", "=" >> :> "*=" @@
  << "/", "=" >> :> "/=" @@ << "%", "=" >> :> "%=" @@ << "<", "=" >> :> "<=" @@
  << "<", "-" >> :> "<-" @@ << ">", "=" >> :> ">=" @@ << "=", "=" >> :> "==" @@
  << "=", ">" >> :> "->" @@ << "&", "&" >> :> "&&" @@ << "|", "|" >> :> "||"

Singles == { "!", "?", "+", "-", "*", "/", "%", "<", ">", "=", ":", ".", ",",
             "(", ")", "{", "}", "[", "]", "@" }

LookupIdent(word) ==
  IF Len(word) = 1 /\ word[1] \in DOMAIN Keywords THEN Keywords[word[1]] ELSE "IDENT"

\* A token from the cursor c up to where the cursor is then.
Read(input, leading, c, type, after) ==
  [ token |-> [ type |-> type, at |-> c.curr, line |-> c.line, column |-> c.curr - c.lineStart + 1,
                leading |-> leading, literal |-> SubSeq(input, c.curr, Min({ after.curr - 1, Len(input) })) ],
    cursor |-> after ]

ReadString(input, leading, c, end) ==
  [ Read(input, leading, c, "STRING", Advance(input, MoveTo(input, c, end)))
      EXCEPT !.token.literal = SubSeq(input, c.curr + 1, end - 1) ]

ReadChar(input, leading, c, end) ==
  LET at == MoveTo(input, c, end)
  IN  IF At(input, end) = "'" THEN Read(input, leading, c, "CHAR", Advance(input, at))
      ELSE Read(input, leading, c, "ILLEGAL", Advance(input, [ at EXCEPT !.peek = end ]))

ReadNumber(input, leading, c, number) ==
  Read(input, leading, c, number.type, MoveTo(input, c, number.end))

\* The token behind its decorations.
ReadToken(input, leading, c) ==
  LET ch   == At(input, c.curr)
      pair == << ch, At(input, c.curr + 1) >>
      word == Past(input, c.curr, Letters \cup Digits)
  IN  CASE ch = "" -> [ Read(input, leading, c, "EOF", Advance(input, c)) EXCEPT !.token.literal = << >> ]
        [] ch = "\"" -> ReadString(input, leading, c,
                           ScanStringContent(input, c.curr + 1, c.curr + 1, c.curr + 1).end)
        [] ch = "'" -> ReadChar(input, leading, c, CharEnd(input, c.curr + 1, FALSE))
        [] ch \in Letters ->
             Read(input, leading, c, LookupIdent(SubSeq(input, c.curr, word - 1)), MoveTo(input, c, word))
        [] ch \in Digits -> ReadNumber(input, leading, c, Number(input, c.curr))
        [] pair \in DOMAIN Pairs -> Read(input, leading, c, Pairs[pair], MoveTo(input, c, c.curr + 2))
        [] ch \in Singles /\ pair \notin DOMAIN Pairs -> Read(input, leading, c, ch, Advance(input, c))
        [] OTHER -> Read(input, leading, c, "ILLEGAL", Advance(input, c))

\* The token at the cursor and where it leaves the cursor.
NextToken(input, before) ==
  LET leading == LeadingDecorations(input, before.curr)
  IN  ReadToken(input, leading, MoveTo(input, before, before.curr + LeadingLen(leading)))

\* What is read from a cursor on, up to the end of the text.
RECURSIVE TokensFrom(_, _), TokensBehind(_, _)
TokensFrom(input, c) == TokensBehind(input, NextToken(input, c))
TokensBehind(input, next) ==
  << next.token >> \o IF next.token.type = "EOF" THEN << >> ELSE TokensFrom(input, next.cursor)

Tokens(input) == TokensFrom(input, New(input))

\* Where the parser reads an interpolation of a string: parseInRegion.
TokensInRegion(input, token, segment) ==
  LET start == token.at + 1 + segment.offset
  IN  TokensFrom(SubSeq(input, 1, start + Len(segment.text) - 1), Region(input, start))

\* interpolationSource: where it says that this is.
InterpolationSource(token, segment) ==
  LET lines == { i \in 1 .. segment.offset : token.literal[i] = Newline }
  IN  [ at |-> token.at + 1 + segment.offset, line |-> token.line + Cardinality(lines),
        column |-> IF lines = {} THEN token.column + 1 + segment.offset
                   ELSE segment.offset + 1 - Max(lines) ]
=============================================================================
