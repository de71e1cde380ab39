------------------------------- MODULE Values -------------------------------
(* The values of pkg/runtime a program computes with, as tagged tuples.  An    *)
(* array or a data value is a reference into a heap h of objects.              *)
EXTENDS Integers, Sequences, SequencesExt

CONSTANT Conversions   \* the program's data types with an attribute: [type -> [attribute -> <<field, function>>]]

DataFields == [Some |-> <<"value">>, None |-> <<>>, Ok |-> <<"value">>, Err |-> <<"reason">>]
              @@ [T \in DOMAIN Conversions |-> <<"value">>]
Unions == [Option |-> {"Some", "None"}, Result |-> {"Ok", "Err"}]
Attributes == {"Iterable", "AnyOption", "AnyResult"}
Prelude == [T \in DOMAIN DataFields |-> <<"type", T>>] @@ [panic |-> <<"extern", "panic">>]

Nil == <<"nil">>
Void == <<"void">>
Bool(b) == <<"bool", b>>
IsA(v, tag) == v[1] = tag
IsArray(h, v) == IsA(v, "ref") /\ h[v[2]][1] = "arr"
IsData(h, v)  == IsA(v, "ref") /\ h[v[2]][1] = "data"
Elements(h, v) == h[v[2]][2]

TypeOf(h, v) ==
  CASE IsA(v, "int")  -> "Int"
    [] IsA(v, "bool") -> "Bool"
    [] IsA(v, "void") -> "Void"
    [] IsA(v, "str")  -> "String"
    [] IsArray(h, v)     -> "Array"
    [] IsData(h, v)      -> h[v[2]][3]
    [] OTHER          -> "Func"

AttributesOf(h, v) == IF TypeOf(h, v) \in DOMAIN Conversions THEN Conversions[TypeOf(h, v)] ELSE <<>>
IsType(h, v, T) ==
  CASE T \in DOMAIN Unions -> TypeOf(h, v) \in Unions[T]
    [] T \in Attributes    -> T \in DOMAIN AttributesOf(h, v)
    [] OTHER               -> TypeOf(h, v) = T

\* Equal by type and content; functions never are, the program's being few.
RECURSIVE ValuesEqual(_, _, _)
ValuesEqual(h, v, w) ==
  /\ TypeOf(h, v) = TypeOf(h, w)
  /\ IF IsA(v, "ref")
     THEN /\ Len(Elements(h, v)) = Len(Elements(h, w))
          /\ \A i \in DOMAIN Elements(h, v) : ValuesEqual(h, Elements(h, v)[i], Elements(h, w)[i])
     ELSE v = w

\* What a value is written as inside a string; only plain values are.
TrivialString(v) ==
  CASE IsA(v, "str")  -> v[2]
    [] IsA(v, "int") \/ IsA(v, "bool") -> <<ToString(v[2])>>
    [] OTHER -> <<"void">>
IsTrivial(v) == v[1] \in {"str", "int", "bool", "void"}

\* The result of an operator on two values, or nothing when they do not fit it.
TruncatedDiv(a, b) == LET q == (IF a < 0 THEN -a ELSE a) \div (IF b < 0 THEN -b ELSE b)
                      IN  IF (a < 0) = (b < 0) THEN q ELSE -q
NumericInt(o, a, b) ==
  CASE o = "Add" -> <<<<"int", a + b>>>>
    [] o = "Sub" -> <<<<"int", a - b>>>>
    [] o = "Mul" -> <<<<"int", a * b>>>>
    [] o \in {"Div", "Mod"} /\ b = 0 -> <<>>
    [] o = "Div" -> <<<<"int", TruncatedDiv(a, b)>>>>
    [] o = "Mod" -> <<<<"int", a - b * TruncatedDiv(a, b)>>>>
    [] o = "LessThan" -> <<Bool(a < b)>>
    [] o = "LessThanOrEqual" -> <<Bool(a <= b)>>
    [] o = "GreaterThan" -> <<Bool(a > b)>>
    [] o = "GreaterThanOrEqual" -> <<Bool(a >= b)>>
NumericBinary(o, v, w) ==
  CASE IsA(v, "int") /\ IsA(w, "int") -> NumericInt(o, v[2], w[2])
    [] o = "Add" /\ (IsA(v, "str") \/ IsA(w, "str")) /\ IsTrivial(v) /\ IsTrivial(w) ->
         <<<<"str", TrivialString(v) \o TrivialString(w)>>>>
    [] OTHER -> <<>>
=============================================================================
