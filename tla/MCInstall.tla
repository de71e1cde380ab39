------------------------------- MODULE MCInstall -------------------------------
\* One library with two tags, a pre-release and a branch; a second that has
\* never been tagged; projects that ask for them in different words.
EXTENDS Installation, TLC

alpha == << 21 >>
main == << 34 >>
MCSemvers == { Semver(1, 0, 0, << >>), Semver(1, 1, 0, << >>), Semver(1, 1, 0, << << 12 >> >>),
               Semver(1, 1, 0, << << 11, 10 >> >>), Semver(1, 1, 0, << alpha >>), Semver(2, 0, 0, << >>) }
Tag(v, commit) == [ kind |-> "tag", text |-> << LetterV >> \o SemverText(v), commit |-> commit ]
Branch(text, commit) == [ kind |-> "branch", text |-> text, commit |-> commit ]
MCPublished ==
  [ lib |-> [ refs |-> { Branch(main, "c2"), Tag(Semver(1, 0, 0, << >>), "c1"),
                         Tag(Semver(1, 1, 0, << << 12 >> >>), "c2"),
                         Tag(Semver(1, 1, 0, << << 11, 10 >> >>), "c2") }, head |-> main ],
    raw |-> [ refs |-> { Branch(main, "d1") }, head |-> main ] ]
MCUnpublished == { << "lib", Tag(Semver(1, 1, 0, << >>), "c3") >> }
Dep(name, source, predicates) ==
  [ name |-> name, source |-> source, module |-> "",
    predicates |-> [ i \in DOMAIN predicates |-> ParsePredicate(predicates[i]) ], language |-> << >> ]
Wants(operator, v) == [ operator |-> operator, spaced |-> FALSE, text |-> SemverText(v) ]
Project(name, deps) == [ name |-> name, source |-> name, language |-> << >>, dependencies |-> deps ]
MCProjects ==
  { Project("caret", << Dep("lib", "lib", << Wants("^", Semver(1, 0, 0, << >>)) >>) >>),
    Project("exact", << Dep("mine", "lib", << Wants(">=", Semver(1, 0, 0, << >>)),
                                             Wants("<", Semver(1, 1, 0, << >>)) >>),
                        Dep("near", "near", << >>) >>),
    Project("loose", << Dep("raw", "raw", << >>) >>),
    [ Project("own", << Dep("self", "own", << >>), Dep("stdlib", "gone", << >>) >>) EXCEPT !.source = "" ],
    [ Project("modern", << >>) EXCEPT !.language = << Wants(">=", Semver(2, 0, 0, << >>)) >> ] }
Symmetry == Permutations(Programs)

\* Atoi, at its edges: of two words that are a hyphen and a digit the greater
\* number comes last, which by text comes first; beyond an int it is the text.
Hyphened(digit) == << HyphenRank, 10 + digit >>
Nines(n) == [ i \in 1 .. n |-> 19 ]
ASSUME AtoiAtItsEdges ==
  /\ IdentifierBefore(Hyphened(5), Hyphened(3)) /\ TextBefore(Hyphened(3), Hyphened(5))
  /\ ~IsInt(<< HyphenRank >>) /\ ~IsInt(Nines(3)) /\ IsInt(Nines(2))
  /\ IdentifierBefore(<< 11, 10, 10 >>, Nines(2)) /\ IdentifierBefore(Nines(1), << 11, 10 >>)

MCToolchain == Semver(1, 0, 0, << >>)
================================================================================
