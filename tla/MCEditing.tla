------------------------------- MODULE MCEditing -------------------------------
\* The shortest texts, edited twice, and longer ones with a switch, nested
\* brackets, comments and interpolations that are edited once.
EXTENDS EditedText

MCLayout(text, options) == Format(text, options)

\* An editor that asks for the defaults, tabs however wide it shows them, and one
\* that asks for none of them.
MCRequests == { [ insertSpaces |-> FALSE, tabSize |-> 8 ],
                [ insertSpaces |-> TRUE, tabSize |-> 2, insertFinalNewline |-> FALSE ] }
MCKeywords == [ letter \in { "s", "c", "f" } |->
                  IF letter = "s" THEN "SWITCH" ELSE IF letter = "c" THEN "CASE" ELSE "FUNCTION" ]
MCLetters == { "a", "b", "e", "x", "s", "c", "f" }
MCWide == { "wide" }
MCCharacters ==
  MCLetters \cup MCWide \cup { "0", "1", ".", ",", ":", "-", "+", "!", "?", "=", ">", "(", ")", "{", "}",
                         "[", "]", "\"", "'", "\\", "#", "/", " ", "\t", "\n" }
MCSkipped == { "testdata" }
MCSources == { "main", "x", "y" }
MCFragments ==
  { << ch >> : ch \in { "a", "1", ".", "-", "!", "?", "=", ">", "(", ")", "{", "}", "[",
                        "\"", "'", "#", "/", " ", "\n", "s", "wide" } }
  \cup { << "\\", "(" >>, << " ", "\n", "\n", "\n" >> }
Switch == << "s", " ", "a", "{", "\n", "c", "a", ":", "#", "b", "\n", "a", "\n", "#", "\n", "c", "b", ":",
             "f", "(", "a", ")", "{", "\n", "a", "}", "\n", "}" >>
Brackets == << "a", "(", "[", "f", "(", ")", "{", "\n", "a", "\n", ".", "b", "}", "]", ",", "\n", "1", ")", "?" >>
Strings == << "\"", "\n", "\\", "(", "a", "(", "\"", ")", "\"", "+", "b", ")", " ", "\"", "-", "1" >>
Wides == << "#", "wide", "\n", "\"", "wide", "\"", " ", " ", "a", "/", "/", "wide" >>
Quoted == << "\"", "\\", "(", "a", ")", "\"" >>
Operators == << "a", "-", ">", "-", "1", "\n", "=", "=", "!", "a", "?" >>
Parens == << "(", "\n", "(", ")", "\n", ")", "." >>
Drifting == << " ", "a", "\n", "1", "\n", "1", "\n", "1", "\n", "#", " " >>
Chain == << "a", "0", ".", "b", ".", "a", "(", "wide", ".", "a", ")" >>
Chars == << "'", "\\", "'", "'", "\n", "#" >>
Gaps == << "a", "\n", "\n", "\n", "\n", "b", "\n" >>
Start(text, n) == [ text |-> text, path |-> << "main" >>, excludes |-> {}, edits |-> n ]

\* Patterns, and where the document may be.
AnyDepth == [ deep |-> TRUE, names |-> {} ]
Names(set) == [ deep |-> FALSE, names |-> set ]
Patterns == { << >>, << Names({ "lib" }) >>, << Names({ "lib" }), AnyDepth >>, << AnyDepth, Names({ "x", "y" }) >>,
              << AnyDepth, Names({ "gen" }), AnyDepth, Names({ "x" }) >>, << Names({ "lib" }), Names({ "x" }) >>, << AnyDepth >> }
Places == { << "x" >>, << "lib", "x" >>, << "lib", "gen", "y" >>, << "gen", "lib", "x" >>,
            << "testdata", "x" >>, << "lib", "gen", "gen", "x" >> }

MCStarts ==
  { Start(<< >>, 2), Start(Gaps, 0) }
  \cup { Start(t, 1) : t \in { Switch, Brackets, Strings, Wides, Quoted, Operators, Parens, Chars, Chain, Drifting } }
  \cup { [ text |-> << "a", " " >>, path |-> place, excludes |-> { pattern, other }, edits |-> 0 ] :
           place \in Places, pattern \in Patterns, other \in Patterns }

\* What the theorems of LangServer_proof ask of a layout.
ASSUME MCLayoutGivesTexts ==
  \A text \in { s.text : s \in MCStarts } \cup MCFragments :
    \A options \in { DefaultOptions } \cup { FromLSP(request) : request \in MCRequests } :
      MCLayout(text, options).text \in Seq(MCCharacters)

\* Return is pressed behind an interpolation that has no parenthesis yet.
TypedFragments == { << "\n" >> }
TypedStarts == { Start(<< "\"", "\\", "(", "a" >>, 1) }
=============================================================================
