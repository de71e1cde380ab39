------------------------------ MODULE Resolver ------------------------------
(* What the analyzer finds out about a program before it is compiled: which    *)
(* names a table declares, which it reaches into an enclosing one for, and     *)
(* which slot of its function's frame every local name gets.  A function and   *)
(* the body of a `for` expression open a table; a statement block does not.    *)
(* Names are unique in a program, so a name stands for its symbol.             *)
EXTENDS Syntax, FiniteSets

OpensTable(n) == Kind(n) \in {"Func", "ExprFor"}

\* What is looked up in the table a node opens: the collection or condition of
\* a `for` expression is looked up in the table around it.
TableParts(n) ==
  IF Kind(n) = "Func" THEN Children(n) ELSE SubSeq(Children(n), Len(Children(n)) - 1, Len(Children(n)))

HeadParts(n) == SubSeq(Children(n), 1, Len(Children(n)) - 2)

\* The names a node itself declares in the table around it.
DeclaredHere(n) ==
  CASE Kind(n) \in {"Variable", "Constant", "DeclFunc"} -> {Label(n)}
    [] Kind(n) = "For" /\ Form(n) = "in" -> {Binding(n)}
    [] OTHER -> {}

RECURSIVE DeclaredIn(_)
DeclaredIn(n) ==
  DeclaredHere(n) \cup
  IF OpensTable(n) THEN UNION {DeclaredIn(h) : h \in IF Kind(n) = "Func" THEN {} ELSE ToSet(HeadParts(n))}
  ELSE UNION {DeclaredIn(Child(n, i)) : i \in DOMAIN Children(n)}

\* The symbols of the table a node opens.
Symbols(n) ==
  UNION {DeclaredIn(c) : c \in ToSet(TableParts(n))}
  \cup (IF Kind(n) = "Func" THEN ToSet(Params(n)) ELSE IF Form(n) = "in" THEN {Binding(n)} ELSE {})

\* Every symbol declared anywhere in a subtree.
RECURSIVE AllSymbols(_)
AllSymbols(n) ==
  (IF OpensTable(n) THEN Symbols(n) ELSE DeclaredHere(n))
  \cup UNION {AllSymbols(Child(n, i)) : i \in DOMAIN Children(n)}

\* The identifiers of a subtree in the order resolveNode meets them.
RECURSIVE LookedUp(_)
LookedUp(n) ==
  IF Kind(n) = "Identifier" THEN <<Label(n)>> ELSE Concat(LookedUp, Children(n))

\* The free symbols of a table: a name found only in an enclosing table is
\* defined as free in every table on the way out, in the order of first use.
FreeSymbols(n) ==
  LET inside == UNION {AllSymbols(c) : c \in ToSet(TableParts(n))} \cup Symbols(n)
      looked == SelectSeq(Concat(LookedUp, TableParts(n)), LAMBDA x : x \notin inside)
  IN  Fold(LAMBDA acc, x : IF Contains(acc, x) THEN acc ELSE Append(acc, x), <<>>, looked)

RECURSIVE Tables(_)
Tables(n) ==
  (IF OpensTable(n) THEN {n} ELSE {}) \cup UNION {Tables(Child(n, i)) : i \in DOMAIN Children(n)}

\* The symbols some inner table took as free, so a variable among them needs a cell.
IsCaptured(program) ==
  UNION {ToSet(FreeSymbols(t)) : t \in UNION {Tables(d) : d \in ToSet(program)}}

RECURSIVE VariablesIn(_)
VariablesIn(n) ==
  (IF Kind(n) = "Variable" THEN {Label(n)} ELSE {})
  \cup UNION {VariablesIn(Child(n, i)) : i \in DOMAIN Children(n)}

RECURSIVE ConstantsIn(_)
ConstantsIn(n) ==
  CASE Kind(n) = "Constant" -> {Label(n)} \cup UNION {ConstantsIn(Child(n, i)) : i \in DOMAIN Children(n)}
    [] Kind(n) = "Func" -> ToSet(Params(n)) \cup UNION {ConstantsIn(Child(n, i)) : i \in DOMAIN Children(n)}
    [] OTHER -> UNION {ConstantsIn(Child(n, i)) : i \in DOMAIN Children(n)}

\* The local functions of one frame, those inside its `for` expressions included.
RECURSIVE LocalFuncs(_)
LocalFuncs(n) ==
  CASE Kind(n) = "DeclFunc" -> {Label(n)}
    [] Kind(n) = "Func" -> {}
    [] OTHER -> UNION {LocalFuncs(Child(n, i)) : i \in DOMAIN Children(n)}

\* The names a frame gives slots to, in the order of their ids.  A name gets its
\* id before the names in its initializer.  An assignment is not visited, so a
\* `for` expression on its right side gets no slots.
RECURSIVE LocalNames(_)
LocalNames(n) ==
  CASE Kind(n) \in {"Variable", "Constant"} -> <<Label(n)>> \o LocalNames(Child(n, 1))
    [] Kind(n) \in {"Func", "DeclFunc", "Assign"} -> <<>>
    [] Kind(n) = "For" ->
         (IF Form(n) = "in" THEN <<Binding(n)>> ELSE <<>>) \o Concat(LocalNames, Children(n))
    [] Kind(n) = "ExprFor" ->
         Concat(LocalNames, HeadParts(n)) \o (IF Form(n) = "in" THEN <<Binding(n)>> ELSE <<>>)
         \o Concat(LocalNames, TableParts(n))
    [] OTHER -> Concat(LocalNames, Children(n))

\* The names of a function's frame, parameters first; the id of a name is its
\* place in this sequence, counted from 0.
LocalIds(fn) == Params(fn) \o Concat(LocalNames, Children(fn))
SlotOf(ids, x) == (CHOOSE i \in DOMAIN ids : ids[i] = x) - 1

\* The slots a frame starts with: up to the highest id of the function's own
\* table.  The tables of its `for` expressions are not among them.
OwnSlots(fn) ==
  LET ids == LocalIds(fn) IN Max({0} \cup {SlotOf(ids, x) + 1 : x \in Symbols(fn) \cap ToSet(ids)})
=============================================================================
