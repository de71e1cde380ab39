------------------------------- MODULE MCGlobals -------------------------------
\* Two slots: the initializer of "a" may read "b" and, recursively, "a".
EXTENDS Globals
MCReads == {<< "a", "b" >>, << "a", "a" >>}
=============================================================================
