--------------------------- MODULE MCInterpreter ---------------------------
(* What may be typed: package statements, declarations that end in each of *)
(* the ways, unknown and wrong text, blank lines and the two commands.     *)
EXTENDS Interpreter

Chunk(type, name, end) == [type |-> type, name |-> name, end |-> end]

MCInputs ==
  {Chunk("PACKAGE", "a", ";"), Chunk("DECL", "", "eof"),
   Chunk("UNKNOWN", "", "{"), Chunk("BAD", "", ";"),
   Chunk("NONE", "", "nl"), Chunk("NONE", "", "}"),
   Chunk("EXIT", "", "nl"), Chunk("RESET", "", "nl")}
    \cup {Chunk("DECL", "", end) : end \in {";", "{", "nl"}}
=============================================================================
