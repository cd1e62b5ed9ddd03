-------------------------- MODULE StatementReader --------------------------
(***************************************************************************)
(* The statement reader (ecsact/interpret/detail/eval_parse.hh): it cuts a *)
(* text at statement ends, has each piece parsed with the innermost open   *)
(* block as context, and keeps the statement on a stack of a fixed size    *)
(* until the client pumps, rewinds or discards it.  eval_files has a       *)
(* reader per file, the interpreter has one on its input; so a reader is a *)
(* record here, and each member function gives the next record.            *)
(*                                                                         *)
(* A chunk is the text up to and including an ending character: which one, *)
(* the type of statement it would parse as, and the package name in it.    *)
(* The stacks statements and sources change together and are one stack of  *)
(* frames.  A frame's field accepted_in is history: the package in which   *)
(* its client accepted the statement, or NotAccepted.                      *)
(***************************************************************************)
EXTENDS Integers, Sequences, SequencesExt, FiniteSets, FiniteSetsExt

CONSTANT StackSize   \* places of fixed_stack; 16 in the code
ASSUME StackSizeAssumption == StackSize \in Nat \ {0}

StatementTypes == {"NONE", "UNKNOWN", "PACKAGE", "IMPORT", "DECL"}
Statuses == {"OK", "ASSUMED_STATEMENT_END", "BLOCK_BEGIN", "BLOCK_END", "ERROR"}

(* BAD is text that does not parse, EXIT and RESET the interpreter's       *)
(* commands, which do not parse either.                                    *)
ChunkTypes == StatementTypes \cup {"BAD", "EXIT", "RESET"}
Chunks(names) == [end : {";", "{", "}", "nl", "eof"}, type : ChunkTypes, name : names]

(* What is left of a stream after its last ending character.               *)
EndOfText == [end |-> "eof", type |-> "NONE", name |-> ""]

-----------------------------------------------------------------------------
(* ecsact_parse_statement, as its callers use it.  A piece of text is one  *)
(* statement: blank lines before it do not matter, a second statement is   *)
(* an error, and so is the end of a block where no block is the context.   *)
(* At the end of a line or of the stream the statement end is assumed.     *)

Worded(source) == {i \in DOMAIN source : source[i].type # "NONE"}

ParsedType(source) ==
  IF Worded(source) = {} THEN "NONE" ELSE source[Min(Worded(source))].type
ParsedName(source) ==
  IF Worded(source) = {} THEN "" ELSE source[Min(Worded(source))].name

ParsedStatus(source, in_block) ==
  LET end == Last(source).end
  IN IF \/ ParsedType(source) \notin StatementTypes
        \/ Cardinality(Worded(source)) > 1
        \/ end = "{" /\ Worded(source) = {}
        \/ end = "}" /\ ~in_block
     THEN "ERROR"
     ELSE CASE end = ";" -> "OK"
            [] end = "{" -> "BLOCK_BEGIN"
            [] end = "}" -> "BLOCK_END"
            [] OTHER     -> "ASSUMED_STATEMENT_END"

-----------------------------------------------------------------------------
(* statement_reader *)

NotAccepted == 0

NewReader == [statements |-> <<>>, next_sources |-> <<>>, status |-> "OK"]

(* more: whether the stream has not come to its end                        *)
CanReadNext(r, more) == r.next_sources # <<>> \/ more

(* A rewound statement is read again as it was, or, if its end was only    *)
(* assumed, together with the next chunk.                                  *)
ReadsStream(r) == r.status = "ASSUMED_STATEMENT_END" \/ r.next_sources = <<>>

NextSource(r, chunk) ==
  IF r.next_sources = <<>> THEN <<chunk>>
  ELSE IF ReadsStream(r) /\ chunk # EndOfText
  THEN Append(Last(r.next_sources), chunk)
  ELSE Last(r.next_sources)

StackFullEarly(r) == Len(r.statements) = StackSize - 1   \* mutant: the last place is unused
StackFullLate(r) == Len(r.statements) > StackSize   \* mutant: a place too many
StackFull(r) == Len(r.statements) = StackSize

SourcesLeft(r) == IF r.next_sources = <<>> THEN <<>> ELSE Front(r.next_sources)

ReadNext(r, chunk) ==
  LET source == NextSource(r, chunk)
  IN [statements   |-> Append(r.statements,
        [type |-> ParsedType(source), name |-> ParsedName(source),
         source |-> source, accepted_in |-> NotAccepted]),
      next_sources |-> SourcesLeft(r),
      status       |-> ParsedStatus(source, r.statements # <<>>)]

Top(r) == Last(r.statements)
IsError(r) == r.status = "ERROR"

Popped(r, n) == [r EXCEPT !.statements = SubSeq(@, 1, Len(@) - n)]

PumpEndsBlockOnly(r) ==   \* mutant: the block's own statement stays
  IF r.status \in {"OK", "ASSUMED_STATEMENT_END", "BLOCK_END"} THEN Popped(r, 1) ELSE r
PumpStatusCode(r) ==
  CASE r.status \in {"OK", "ASSUMED_STATEMENT_END"} -> Popped(r, 1)
    [] r.status = "BLOCK_END"                       -> Popped(r, 2)
    [] OTHER                                        -> r

PopRewind(r) == [Popped(r, 1) EXCEPT !.next_sources = Append(@, Top(r).source)]

PopDiscard(r) == Popped(r, 1)

Accept(r, package) == [r EXCEPT !.statements[Len(r.statements)].accepted_in = package]

-----------------------------------------------------------------------------
(* The statements that open the blocks in which a text ends, by the text   *)
(* alone: the reference for the stack of a reader.                         *)
OpenBlocks(text) ==
  FoldLeft(LAMBDA open, c : CASE c.end = "{" -> Append(open, c)
                              [] c.end = "}" /\ open # <<>> -> Front(open)
                              [] OTHER -> open,
           <<>>, text)
=============================================================================
