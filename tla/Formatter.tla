------------------------------- MODULE Formatter -------------------------------
(***************************************************************************)
(* The canonical layout: pkg/codefmt.                                      *)
(***************************************************************************)
EXTENDS Lexing, Options

TrimRight(text, blanks) ==
  LET solid == { i \in DOMAIN text : text[i] \notin blanks }
  IN  IF solid = {} THEN << >> ELSE SubSeq(text, 1, Max(solid))

----------------------------------------------------------------------------
(* spacing.go.                                                             *)

ValueEnders == { "IDENT", "INT", "FLOAT", "STRING", "CHAR", "TRUE", "FALSE", "VOID",
                 "BLANK", ")", "]", "}" }
CallTargets == { "IDENT", ")", "]" }
NoSpaceBefore == { ")", "]", ",", ":", ".", "?.", "!." }
NoSpaceAfter == { "(", "[", ".", "?.", "!.", "@" }

\* There is no token in front of the first one.
NoToken == ""

IsTypeSuffix(type, prev, glued) == type \in { "!", "?" } /\ glued /\ prev \in ValueEnders

IsPrefixOperator(type, prev, glued) ==
  \/ type \in { "-", "+" } /\ prev \notin ValueEnders
  \/ type = "!" /\ ~IsTypeSuffix(type, prev, glued)

NeedSpace(prev, prevWasPrefix, next, glued) ==
  /\ ~prevWasPrefix /\ ~IsTypeSuffix(next, prev, glued)
  /\ prev \notin NoSpaceAfter /\ next \notin NoSpaceBefore
  /\ ~(prev = "{" /\ next = "}")
  /\ ~(next = "(" /\ prev \in CallTargets \cup { "FUNCTION" })
  /\ ~(next = "[" /\ prev \in CallTargets \cup { "STRING" })

\* Two characters that would be read as one token.
GluedPairs == (DOMAIN Pairs \ { << "=", ">" >> }) \cup { << "/", "/" >>, << "/", "*" >> }
\* Mutant: nothing would.
WouldNeverGlue(left, right) == FALSE
WouldGlue(left, right) ==
  left # << >> /\ right # << >> /\ << Last(left), Head(right) >> \in GluedPairs

----------------------------------------------------------------------------
(* scan.go.                                                                *)

Refusal == [ ok |-> FALSE, items |-> << >> ]

RECURSIVE Scan(_), CanonicalExpr(_)

SpelledString(segments) ==
  LET spelled(s) == IF s.interpolation THEN << "\\", "(" >> \o CanonicalExpr(s.text) \o << ")" >>
                    ELSE s.text
  IN  << "\"" >> \o FlattenSeq([ i \in DOMAIN segments |-> spelled(segments[i]) ]) \o << "\"" >>

CanonicalString(text) ==
  IF IsLiteral(text) /\ \E i \in DOMAIN SplitLiteral(text) : SplitLiteral(text)[i].interpolation
    THEN SpelledString(SplitLiteral(text)) ELSE text

CanonicalText(type, text) ==
  CASE type = "->"     -> << "-", ">" >>
    [] type = "STRING" -> CanonicalString(text)
    [] OTHER           -> text

\* Each token with its text as it was written and as it is spelled.
Item(token, text) ==
  [ type |-> token.type, leading |-> token.leading, text |-> text,
    canonical |-> CanonicalText(token.type, text) ]

\* Refused unless every character belongs to a token or to a decoration.
ItemsOf(text, tokens) ==
  LET n      == Len(tokens)
      end(i) == IF i = n THEN tokens[n].at ELSE tokens[i + 1].at - LeadingLen(tokens[i + 1].leading)
      raw(i) == SubSeq(text, tokens[i].at, end(i) - 1)
      leading(i) == FlattenSeq([ j \in DOMAIN tokens[i].leading |-> tokens[i].leading[j].text ])
  IN  IF \E i \in 1 .. n : tokens[i].type = "ILLEGAL" THEN Refusal
      ELSE IF \E i \in 1 .. n - 1 : end(i) > Len(text) + 1 \/ end(i) < tokens[i].at THEN Refusal
      ELSE IF FlattenSeq([ i \in 1 .. n |-> leading(i) \o raw(i) ]) # text THEN Refusal
      ELSE [ ok |-> TRUE, items |-> [ i \in 1 .. n |-> Item(tokens[i], raw(i)) ] ]

Scan(text) == ItemsOf(text, Tokens(text))

\* One more token behind what has been written of a line.
Spelled(line, item) ==
  LET glued  == item.leading = << >>
      spaced == \/ NeedSpace(line.prev, line.prevWasPrefix, item.type, glued)
                \/ WouldGlue(line.text, item.canonical)
  IN  [ text |-> line.text \o (IF line.prev # NoToken /\ spaced THEN << " " >> ELSE << >>) \o item.canonical,
        prev |-> item.type, prevWasPrefix |-> IsPrefixOperator(item.type, line.prev, glued) ]

SpelledItems(items) ==
  FoldLeft(Spelled, [ text |-> << >>, prev |-> NoToken, prevWasPrefix |-> FALSE ],
           SelectSeq(items, LAMBDA item : item.type # "EOF")).text

CanonicalExpr(text) ==
  LET scanned == Scan(text) IN IF scanned.ok THEN SpelledItems(scanned.items) ELSE text

----------------------------------------------------------------------------
(* printer.go: a fold over the items.                                      *)

ContinuationStarters ==
  { ".", "?.", "!.", "??", "!!", "+", "-", "*", "/", "%", "==", "!=", "<", ">", "<=", ">=",
    "&&", "||", "->", "<-" }
Closers == { "}", ")", "]" }

NewPrinter(options) ==
  [ options |-> options, out |-> << >>, cur |-> << >>, lineNo |-> 0, frames |-> << >>,
    switchDepths |-> << >>, prev |-> NoToken, prevWasPrefix |-> FALSE, prePopped |-> 0,
    casePopped |-> FALSE ]

LastKind(frames) == IF frames = << >> THEN "none" ELSE Last(frames).kind

\* Lines, not frames: what opens on one line indents once.
IndentLevel(p) ==
  LET opened == SelectSeq(p.frames, LAMBDA f : f.kind # "switch" /\ f.openLine < p.lineNo)
  IN  Cardinality({ i \in DOMAIN opened : i = 1 \/ opened[i].openLine # opened[i - 1].openLine })

Indented(p, level) == [ p EXCEPT !.cur = @ \o FlattenSeq([ i \in 1 .. level |-> p.options.indent ]) ]

LineHasContent(p) == \E i \in DOMAIN p.cur : p.cur[i] \notin Whitespace
Begun(p) == LineHasContent(p) \/ p.out # << >>

FlushLine(p) == [ p EXCEPT !.out = Append(@, TrimRight(p.cur, { " ", "\t" })), !.cur = << >> ]

StartLine(p, blanks, first) ==
  LET flushed == FlushLine(p)
      out     == flushed.out \o [ i \in 1 .. blanks |-> << >> ]
      q       == [ flushed EXCEPT !.out = out, !.lineNo = Len(out) ]
      hanging == first \in ContinuationStarters /\ p.prev # NoToken
  IN  Indented(q, IndentLevel(q) + (IF hanging THEN 1 ELSE 0))

BlankLinesFor(p, newlines, next) ==
  IF ~Begun(p) \/ p.prev = "{" \/ next = "}" THEN 0
  ELSE Max({ 0, Min({ newlines - 1, p.options.maxBlankLines }) })

WriteComment(p, text, newlines) ==
  LET q == CASE newlines = 0 /\ LineHasContent(p) -> [ p EXCEPT !.cur = Append(@, " ") ]
             [] ~(newlines = 0 /\ LineHasContent(p)) /\ Begun(p) ->
                  StartLine(p, BlankLinesFor(p, newlines, NoToken), NoToken)
             [] ~Begun(p) -> Indented(p, IndentLevel(p))
  IN  [ q EXCEPT !.cur = @ \o text ]

\* A closing brace ends the case before it, and a switch's own brace whichever.
PopCloser(frames, type) ==
  LET bare == IF type = "}" /\ LastKind(frames) = "case" THEN Front(frames) ELSE frames
  IN  IF \/ type = "}" /\ LastKind(bare) \in { "brace", "switch" }
         \/ type = ")" /\ LastKind(bare) = "paren"
         \/ type = "]" /\ LastKind(bare) = "bracket"
        THEN Front(bare) ELSE bare

InSwitchBody(p) ==
  LET others == SelectSeq(p.frames, LAMBDA f : f.kind # "case")
  IN  LastKind(others) = "switch"

StartsNewLine(item) == \E i \in DOMAIN item.leading : item.leading[i].type \in { "multi", "comment" }

PopCaseFor(p, type) ==
  IF type # "CASE" \/ ~InSwitchBody(p) THEN p
  ELSE IF p.casePopped THEN [ p EXCEPT !.casePopped = FALSE ]
  ELSE IF LastKind(p.frames) = "case" THEN [ p EXCEPT !.frames = Front(@) ] ELSE p

PrepareForCase(p, item) ==
  IF item.type = "CASE" /\ StartsNewLine(item) /\ InSwitchBody(p) /\ LastKind(p.frames) = "case"
    THEN [ p EXCEPT !.frames = Front(@), !.casePopped = TRUE ] ELSE p

Opened(p, kind) == [ p EXCEPT !.frames = Append(@, [ kind |-> kind, openLine |-> p.lineNo ]) ]

PushForOpener(p, type) ==
  LET depth == Len(p.frames)
      live  == { i \in DOMAIN p.switchDepths : p.switchDepths[i] <= depth }
      kept  == IF live = {} THEN << >> ELSE SubSeq(p.switchDepths, 1, Max(live))
  IN  CASE type = "SWITCH" -> [ p EXCEPT !.switchDepths = Append(@, depth) ]
        [] type = "{" -> IF kept # << >> /\ Last(kept) = depth
                           THEN Opened([ p EXCEPT !.switchDepths = Front(kept) ], "switch")
                           ELSE Opened([ p EXCEPT !.switchDepths = kept ], "brace")
        [] type = "(" -> Opened(p, "paren")
        [] type = "[" -> Opened(p, "bracket")
        [] type = "CASE" -> IF InSwitchBody(p) THEN Opened(p, "case") ELSE p
        [] OTHER -> p

\* The closers a line begins with.
RunOfClosers(items, i) ==
  LET ends == { j \in i .. Len(items) :
                  items[j].type \notin Closers \/ (j > i /\ StartsNewLine(items[j])) }
  IN  SubSeq(items, i, Min(ends) - 1)

\* At the start of a line all the closers it begins with have closed.
AtLineStart(p, item, newlines) ==
  IF Begun(p) THEN StartLine(p, BlankLinesFor(p, newlines, item.type), item.type)
  ELSE Indented(p, IndentLevel(p))

ClosedAtStart(p, item, closers) ==
  PopCaseFor([ p EXCEPT !.frames = FoldLeft(LAMBDA fs, c : PopCloser(fs, c.type), p.frames, closers),
                        !.prePopped = Max({ 0, Len(closers) - 1 }) ], item.type)

ClosedInLine(p, item) ==
  PopCaseFor(IF p.prePopped > 0 /\ item.type \in Closers
               THEN [ p EXCEPT !.prePopped = @ - 1 ]
               ELSE [ p EXCEPT !.frames = PopCloser(@, item.type) ], item.type)

Spaced(p, item) ==
  LET spaced == \/ NeedSpace(p.prev, p.prevWasPrefix, item.type, item.leading = << >>)
                \/ WouldGlue(p.cur, item.canonical)
  IN  [ p EXCEPT !.cur = IF p.prev # NoToken /\ spaced THEN Append(@, " ") ELSE @ ]

Written(p, item) ==
  PushForOpener([ p EXCEPT !.cur = @ \o item.canonical, !.prev = item.type,
                    !.prevWasPrefix = IsPrefixOperator(item.type, p.prev, item.leading = << >>) ], item.type)

WriteToken(p, items, i, newlines) ==
  Written(IF newlines > 0 \/ ~LineHasContent(p)
            THEN AtLineStart(ClosedAtStart(p, items[i], RunOfClosers(items, i)), items[i], newlines)
            ELSE Spaced(ClosedInLine(p, items[i]), items[i]), items[i])

NewlinesIn(text) == Cardinality({ i \in DOMAIN text : text[i] = Newline })

\* Its decorations, then the token itself.
WriteDecoration(state, d) ==
  CASE d.type = "multi"   -> [ state EXCEPT !.newlines = @ + NewlinesIn(d.text) ]
    [] d.type = "comment" -> [ p |-> WriteComment(state.p, d.text, state.newlines), newlines |-> 0 ]
    [] OTHER              -> state

WriteDecorated(state, items, i) ==
  IF items[i].type = "EOF" THEN state.p ELSE WriteToken(state.p, items, i, state.newlines)

WriteItem(p, items, i) ==
  WriteDecorated(FoldLeft(WriteDecoration, [ p |-> PrepareForCase(p, items[i]), newlines |-> 0 ],
                          items[i].leading), items, i)

RECURSIVE JoinLines(_)
JoinLines(lines) ==
  IF Len(lines) = 1 THEN lines[1] ELSE lines[1] \o << Newline >> \o JoinLines(Tail(lines))

\* The lines up to the last that is not blank.
Result(lines, options) ==
  LET full == { i \in DOMAIN lines : lines[i] # << >> }
  IN  IF full = {} THEN << >>
      ELSE JoinLines(SubSeq(lines, 1, Max(full)))
             \o (IF options.insertFinalNewline THEN << Newline >> ELSE << >>)

Render(items, options) ==
  Result(FlushLine(FoldLeft(LAMBDA p, i : WriteItem(p, items, i), NewPrinter(options),
                            [ i \in DOMAIN items |-> i ])).out, options)

----------------------------------------------------------------------------
(* format.go.                                                              *)

Significant(items) ==
  LET written == SelectSeq(items, LAMBDA item : item.text # << >>)
      leading == FlattenSeq([ i \in DOMAIN items |-> items[i].leading ])
      comments == SelectSeq(leading, LAMBDA d : d.type = "comment")
  IN  [ tokens |-> [ i \in DOMAIN written |-> written[i].canonical ],
        comments |-> [ i \in DOMAIN comments |-> TrimRight(comments[i].text, { " ", "\t" }) ] ]

\* The post-condition of a layout: the same tokens and the same comments.
Equivalent(before, after) ==
  before.ok /\ after.ok /\ Significant(before.items) = Significant(after.items)

Judged(text, out, before, after) ==
  IF Equivalent(before, after)
    THEN [ ok |-> TRUE, text |-> out, before |-> before.items, after |-> after.items ]
    ELSE [ ok |-> FALSE, text |-> text ]

LaidOut(text, before, out) == Judged(text, out, before, Scan(out))
Laid(text, before, options) == LaidOut(text, before, Render(before.items, options))

\* String: what cannot be laid out without changing it stays as it is.
Format(text, options) == Laid(text, Scan(text), options)
=============================================================================
