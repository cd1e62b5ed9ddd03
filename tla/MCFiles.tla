------------------------------ MODULE MCFiles ------------------------------
(* Lists of texts for EvalFiles: one file with any short body, a file with *)
(* any short head, and three files with any imports.  A file that cannot   *)
(* be opened has the text <<>>; any other ends with the end of the stream. *)
EXTENDS EvalFilesProps

CONSTANTS BodyLength, HeadLength   \* bounds: chunks in a body, in a head

Chunk(type, name, end) == [type |-> type, name |-> name, end |-> end]
Pkg(name) == Chunk("PACKAGE", name, ";")
Imp(name) == Chunk("IMPORT", name, ";")
PkgOpen   == Chunk("PACKAGE", "a", "{")
Stmt      == Chunk("DECL", "", ";")
Open      == Chunk("DECL", "", "{")
Close     == Chunk("NONE", "", "}")
Line      == Chunk("DECL", "", "nl")
Blank     == Chunk("NONE", "", "nl")
Bad       == Chunk("BAD", "", ";")
Ends      == {EndOfText, Chunk("DECL", "", "eof")}   \* with a statement cut short

Bodies == BoundedSeq({Open, Close, Stmt, Bad, Line, Blank}, BodyLength)
Heads  == BoundedSeq({Pkg("a"), PkgOpen, Imp("b"), Stmt, Line, Blank, Bad}, HeadLength)

Imports == {<<>>} \cup {<<Imp(n)>> : n \in {"a", "b", "c", "x"}}
             \cup {<<Imp("a"), Imp("b")>>, <<Imp("c"), Imp("a")>>, <<Imp("b"), Imp("c")>>}
FileOf(name, imports) == <<Pkg(name)>> \o imports \o <<Stmt, EndOfText>>

MCTexts ==
  {<<<<Pkg("a")>> \o body \o <<end>>>> : body \in Bodies, end \in Ends}
    \cup {<<text, <<Pkg("b"), Open, Close, EndOfText>>>> :
            text \in {<<>>} \cup {Append(head, end) : head \in Heads, end \in Ends}}
    \cup {<<FileOf("a", i1), FileOf(n2, i2), FileOf("c", i3)>> :
            i1 \in Imports, n2 \in {"a", "b"}, i2 \in Imports, i3 \in Imports}
=============================================================================
