------------------------------ MODULE EditedText ------------------------------
(***************************************************************************)
(* What the lexer, the formatter and the requests of the language server   *)
(* make of a text while it is edited.                                      *)
(***************************************************************************)
EXTENDS Editing, Formatter

----------------------------------------------------------------------------
(* What is asked of a place: the word at it, and the members it belongs to. *)

LineAtPosition(text, line) ==
  LET row == Row(text, line)
  IN  IF row = {} THEN << >> ELSE SubSeq(text, Min(row) + 1, Max(row))

\* A line in the bytes that its columns are taken for here: four of them are
\* one wide character.
Bytes(line) ==
  FlattenSeq([ i \in DOMAIN line |->
    IF line[i] \in Wide THEN [ k \in 1 .. 4 |-> line[i] ] ELSE << line[i] >> ])
Column(bytes, place) == Min({ place.character, Len(bytes) })

\* Where the bytes of a kind begin that stand right in front of a column.
RunStart(bytes, column, kind) ==
  Min({ i \in 0 .. column : \A j \in i + 1 .. column : bytes[j] \in kind })

WordAtPosition(text, place) ==
  LET bytes  == Bytes(LineAtPosition(text, place.line))
      column == Column(bytes, place)
  IN  SubSeq(bytes, RunStart(bytes, column, Letters \cup Digits) + 1,
             Past(bytes, column + 1, Letters \cup Digits) - 1)

\* The names in front of the last dot of a chain, and none if it has a gap.
DotChainContext(text, place) ==
  LET bytes  == Bytes(LineAtPosition(text, place.line))
      member == RunStart(bytes, Column(bytes, place), Letters \cup Digits)
      chain  == SubSeq(bytes, RunStart(bytes, member, Letters \cup Digits \cup { "." }) + 1, member)
      add(names, byte) == IF byte = "." THEN Append(names, << >>)
                          ELSE Append(Front(names), Append(Last(names), byte))
      names  == Front(FoldLeft(add, << << >> >>, chain))
  IN  IF chain # << >> /\ Last(chain) = "." /\ << >> \notin { names[i] : i \in DOMAIN names }
        THEN names ELSE << >>

\* The range of what is reported of a token.
DiagnosticForParseError(text, token) ==
  RangeForOffsets(text, token.at - 1, token.at - 1 + Max({ 1, Len(token.literal) }))

----------------------------------------------------------------------------
(* Properties.                                                             *)

\* A line and a column counted from nothing but the offset.
IsTrue(text, at, line, column) ==
  LET breaks == { i \in 1 .. at - 1 : At(text, i) = Newline }
  IN  /\ line = 1 + Cardinality(breaks)
      /\ column = at - (IF breaks = {} THEN 0 ELSE Max(breaks))

\* Every token is where it says it is, those of interpolations included, which
\* the parser reads where they stand and the formatter cut out: both read the
\* same.  Nothing is said behind an illegal token.
PlacesAreTrue ==
  LET tokens == Tokens(buffer)
      types(ts) == [ i \in DOMAIN ts |-> << ts[i].type, ts[i].literal >> ]
      intact(i) == \A j \in 1 .. i - 1 : tokens[j].type # "ILLEGAL"
  IN  \A i \in DOMAIN tokens : intact(i) =>
        LET token    == tokens[i]
            segments == IF token.type = "STRING" THEN SplitString(token.literal) ELSE << >>
        IN  /\ IsTrue(buffer, token.at, token.line, token.column)
            /\ \A k \in DOMAIN segments : segments[k].interpolation =>
                 LET source == InterpolationSource(token, segments[k])
                     inside == TokensInRegion(buffer, token, segments[k])
                 IN  /\ IsTrue(buffer, source.at, source.line, source.column)
                     /\ types(inside) = types(Tokens(segments[k].text))
                     /\ \A t \in DOMAIN inside : (\A u \in 1 .. t - 1 : inside[u].type # "ILLEGAL") =>
                          IsTrue(buffer, inside[t].at, inside[t].line, inside[t].column)

\* Whether a token is a word, with nothing in front of it that columns in bytes
\* count differently.
IsWord(token) == token.literal # << >> /\ token.literal[1] \in Letters
IsPlain(text, at) ==
  LET start == Max({ 0 } \cup { i \in 1 .. at - 1 : text[i] = Newline })
  IN  \A i \in start + 1 .. at - 1 : text[i] \notin Wide

\* Two tokens with nothing in between.
Joined(tokens, i) == tokens[i + 1].leading = << >>

\* What a request says of a place is what the lexer reads there: a token's range
\* leads back to the token; anywhere in a word there is that word; and behind a
\* name and a dot there is a chain, which ends in the name.
PlacesNameTokens ==
  LET tokens == Tokens(document)
      intact == \A j \in DOMAIN tokens : tokens[j].type # "ILLEGAL"
  IN  intact => \A i \in 1 .. Len(tokens) - 1 :
        LET token == tokens[i]
            at    == token.at - 1
            range == DiagnosticForParseError(document, token)
            inner == PositionForOffset(document, at + Len(token.literal))
        IN  /\ OffsetForPosition(document, range.start) = at
            /\ range.end = PositionForOffset(document, OffsetForPosition(document, range.end))
            /\ IsWord(token) /\ token.type # "STRING" /\ IsPlain(document, token.at) /\ At(document, at) \notin Digits =>
                 /\ WordAtPosition(document, range.start) = token.literal
                 /\ WordAtPosition(document, inner) = token.literal
                 /\ tokens[i + 1].type = "." /\ Joined(tokens, i) /\ Joined(tokens, i + 1) =>
                      LET names == DotChainContext(document, PositionForOffset(document, tokens[i + 1].at))
                      IN  (names # << >> /\ Last(names) = token.literal) \/ At(document, at) = "."

\* The lexer, the parser's reading of interpolations and the requests of the
\* language server agree on where the text stands: the lines and columns the
\* lexer counts are those of the text, and a place made of them leads back.
TokensAreWhereTheySay == PlacesAreTrue /\ PlacesNameTokens

\* Where lines break and comments stand in front of a token; the text's first
\* and last line breaks do not count.
Shape(items, i) ==
  LET shape == SelectSeq(items[i].leading, LAMBDA d : d.type # "inline")
      types == [ k \in DOMAIN shape |-> shape[k].type ]
      late  == IF i = 1 /\ types # << >> /\ Head(types) = "multi" THEN Tail(types) ELSE types
  IN  IF i = Len(items) /\ late # << >> /\ Last(late) = "multi" THEN Front(late) ELSE late

\* Whether a "?" or "!" sits on the type in front of it, which the parser asks.
Suffixed(items, i) ==
  i > 1 /\ items[i].type \in { "?", "!" } /\ items[i].leading = << >>

NumberMeetsDot(items) ==
  \E i \in DOMAIN items : items[i].type = "INT" /\ items[i + 1].type = "."

\* A string that no quote closes, as while it is being typed.
Unclosed(items) ==
  \E i \in DOMAIN items :
    items[i].type = "STRING" /\ At(items[i].text, ScanStringContent(items[i].text, 2, 2, 2).end) # "\""

LayoutKeeps(items, formatted) ==
  /\ ~NumberMeetsDot(items) => formatted.ok
  /\ formatted.ok =>
       /\ \A i \in DOMAIN items :
            /\ Shape(items, i) = Shape(formatted.after, i)
            /\ i > 1 /\ items[i - 1].type \in { "IDENT", "]", ")" } =>
                 (Suffixed(items, i) <=> Suffixed(formatted.after, i))
       /\ ~RunFmt(formatted.text, { "check" }).drift

Readable(scanned) == scanned.ok /\ ~Unclosed(scanned.items)

\* A text that can be read and has no unclosed string is laid out; where lines
\* break, where comments stand and what a suffix belongs to stays; and what has
\* been laid out stays as it is.
LayoutKeepsMeaning ==
  Readable(Scan(buffer)) => LayoutKeeps(Scan(buffer).items, Format(buffer, DefaultOptions))

\* The text without its whitespace, with the one arrow that is respelled.
Solid(text) ==
  LET solid    == SelectSeq(text, LAMBDA character : character \notin Whitespace)
      arrow(i) == solid[i] = "=" /\ At(solid, i + 1) = ">"
  IN  [ i \in DOMAIN solid |-> IF arrow(i) THEN "-" ELSE solid[i] ]

\* What the documentation says of the formatter: it only ever changes whitespace.
OnlyWhitespaceChanges ==
  Format(buffer, DefaultOptions).ok => Solid(Format(buffer, DefaultOptions).text) = Solid(buffer)
=============================================================================
