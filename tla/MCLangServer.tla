---------------------------- MODULE MCLangServer ----------------------------
\* A file at the root that imports a module of two, one of which has its name.
EXTENDS LangServer
MCFiles == { << "root", 1 >>, << "m", 1 >>, << "m", 2 >> }
MCDocuments == { << "root", 1 >>, << "m", 1 >> }
MCImports == [ d \in { "root", "m" } |-> IF d = "root" THEN {"m"} ELSE {} ]
=============================================================================
