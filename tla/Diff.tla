--------------------------------- MODULE Diff ---------------------------------
(***************************************************************************)
(* The diff of zirric fmt --diff: cmd/zirric/cmds/fmt.go.                  *)
(***************************************************************************)
EXTENDS Texts

CONSTANT DiffContext         \* lines around a change: three in the code

ASSUME DiffContextAssumption == DiffContext \in Nat

\* The lengths of the longest common subsequences of what is left of two texts:
\* row by row, from the last line up.
LcsRow(line, others, below) ==
  FoldRight(LAMBDA j, row :
      << IF line = others[j] THEN below[j + 1] + 1 ELSE Max({ below[j], row[1] }) >> \o row,
    [ j \in DOMAIN others |-> j ], << 0 >>)
Lcs(a, b) ==
  FoldRight(LAMBDA line, rows : << LcsRow(line, b, rows[1]) >> \o rows,
            a, << [ j \in 1 .. Len(b) + 1 |-> 0 ] >>)

----------------------------------------------------------------------------
(* diffLines: from a line of each text, one edit after the other.          *)

Edit(op, line) == [ op |-> op, line |-> line ]

\* The next line of the old text goes: where the rest has at least as much in
\* common without it, or none of the new text is left.
Goes(a, b, lcs, i, j) ==
  i <= Len(a) /\ (j > Len(b) \/ lcs[i + 1][j] >= lcs[i][j + 1])

DiffStep(a, b, lcs, at) ==
  LET i == at.i
      j == at.j
  IN  IF i <= Len(a) /\ j <= Len(b) /\ a[i] = b[j]
        THEN [ i |-> i + 1, j |-> j + 1, edits |-> Append(at.edits, Edit(" ", a[i])) ]
      ELSE IF Goes(a, b, lcs, i, j)
        THEN [ i |-> i + 1, j |-> j, edits |-> Append(at.edits, Edit("-", a[i])) ]
      ELSE IF j <= Len(b)
        THEN [ i |-> i, j |-> j + 1, edits |-> Append(at.edits, Edit("+", b[j])) ]
      ELSE at

\* Each step takes a line of one text or of both.
DiffFrom(a, b, lcs) ==
  LET at[n \in 0 .. Len(a) + Len(b)] ==
        IF n = 0 THEN [ i |-> 1, j |-> 1, edits |-> << >> ] ELSE DiffStep(a, b, lcs, at[n - 1])
  IN  at[Len(a) + Len(b)].edits

DiffLines(a, b) == DiffFrom(a, b, Lcs(a, b))

----------------------------------------------------------------------------
(* unifiedDiff: the edits around each change make a hunk.                  *)

Kept(edits, i) ==
  \E k \in DOMAIN edits : edits[k].op # " " /\ i - DiffContext <= k /\ k <= i + DiffContext

\* Mutant: every line of a hunk counts.
OldBehindAll(oldLine, edit) == oldLine + 1
\* The line of the old text, and of the new, behind an edit.
OldBehind(oldLine, edit) == IF edit.op = "+" THEN oldLine ELSE oldLine + 1
NewBehind(newLine, edit) == IF edit.op = "-" THEN newLine ELSE newLine + 1

\* One more edit: what is kept begins a hunk, or belongs to the one before.
HunkStep(edits, i, at) ==
  [ oldLine |-> OldBehind(at.oldLine, edits[i]), newLine |-> NewBehind(at.newLine, edits[i]),
    hunks |->
      IF ~Kept(edits, i) THEN at.hunks
      ELSE IF i > 1 /\ Kept(edits, i - 1)
        THEN [ at.hunks EXCEPT ![Len(at.hunks)].edits = Append(@, edits[i]) ]
      ELSE Append(at.hunks, [ oldLine |-> at.oldLine, newLine |-> at.newLine, edits |-> << edits[i] >> ]) ]

Hunks(edits) ==
  LET at[n \in 0 .. Len(edits)] ==
        IF n = 0 THEN [ oldLine |-> 1, newLine |-> 1, hunks |-> << >> ] ELSE HunkStep(edits, n, at[n - 1])
  IN  at[Len(edits)].hunks

UnifiedDiff(before, after) == Hunks(DiffLines(Lines(before), Lines(after)))

----------------------------------------------------------------------------
(* What a diff is.                                                         *)

\* The lines a hunk shows of the text that does not have those marked as such.
Side(edits, other) ==
  LET side[n \in 0 .. Len(edits)] ==
        IF n = 0 THEN << >>
        ELSE IF edits[n].op = other THEN side[n - 1] ELSE Append(side[n - 1], edits[n].line)
  IN  side[Len(edits)]
OldSide(edits) == Side(edits, "+")
NewSide(edits) == Side(edits, "-")

\* Every hunk is about the lines it says, and with the lines in between the new
\* sides of the hunks make up the new text.
Between(lines, from, to) == SubSeq(lines, Max({ 1, from }), Min({ to, Len(lines) }))
IsPatch(before, after, hunks) ==
  LET old(k)   == OldSide(hunks[k].edits)
      new(k)   == NewSide(hunks[k].edits)
      past(k)  == IF k = 0 THEN 1 ELSE hunks[k].oldLine + Len(old(k))
      next(k)  == IF k = Len(hunks) THEN Len(before) ELSE hunks[k + 1].oldLine - 1
  IN  /\ \A k \in DOMAIN hunks :
           /\ Between(before, hunks[k].oldLine, past(k) - 1) = old(k)
           /\ Between(after, hunks[k].newLine, hunks[k].newLine + Len(new(k)) - 1) = new(k)
      /\ after = FlattenSeq([ k \in 1 .. Len(hunks) + 1 |->
           (IF k = 1 THEN << >> ELSE new(k - 1)) \o Between(before, past(k - 1), next(k - 1)) ])
=============================================================================
