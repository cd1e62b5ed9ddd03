---------------------------- MODULE Interpreter ----------------------------
(***************************************************************************)
(* The command line interpreter (cli/ecsact_interpreter_cli.cc): a loop    *)
(* that reads one chunk of its input after another, reads on as long as a  *)
(* statement is not finished, and evaluates finished statements in the     *)
(* package of the last package statement.  One action is one turn of the   *)
(* loop.  The user types any chunk of Inputs, at most MaxChunks of them;   *)
(* what the evaluator answers is left open, as in EvalFiles.               *)
(***************************************************************************)
EXTENDS StatementReader

CONSTANTS Inputs,      \* the chunks that may be typed
          MaxChunks    \* bound: how many are

ASSUME InputsAssumption == Inputs \subseteq Chunks(STRING) /\ MaxChunks \in Nat

VARIABLES
  reader,            \* the statement reader on the input
  more,              \* whether the input has not come to its end
  current_package,   \* the package statements are evaluated in, or NoPackage
  packages,          \* the ids of the packages that live
  last_id,           \* the id of the package created last
  loop,              \* "running", or how the program ended
  typed,             \* how many chunks were read
  input,             \* history: the chunks read since the last .reset
  complained         \* history: whether an error was printed since then

interpreter_vars == <<reader, more, current_package, packages, last_id, loop,
                      typed, input, complained>>

NoPackage == 0

Init ==
  /\ reader = NewReader /\ more = TRUE
  /\ current_package = NoPackage /\ packages = {} /\ last_id = NoPackage
  /\ loop = "running"
  /\ typed = 0 /\ input = <<>> /\ complained = FALSE

-----------------------------------------------------------------------------
(* A turn reads chunk c, and r is the reader after read_next.  At the end  *)
(* of the input c is EndOfText.                                            *)

Typeable == IF ~more THEN {EndOfText}
            ELSE {EndOfText} \cup (IF typed < MaxChunks THEN Inputs ELSE {})

CanTurn == loop = "running" /\ CanReadNext(reader, more) /\ ~StackFull(reader)

SourceOf(r) == Top(r).source

(* is_repl_cmd: the command alone, or on a line of its own after others    *)
IsReplCmd(source, cmd) ==
  /\ Last(source).type = cmd
  /\ Len(source) = 1 \/ Last(source).end = "nl"
IsStatement(r) == ~IsReplCmd(SourceOf(r), "EXIT") /\ ~IsReplCmd(SourceOf(r), "RESET")

Reads(c) == /\ more' = (more /\ c.end # "eof")
            /\ typed' = IF c = EndOfText THEN typed ELSE typed + 1
InputWith(c) == IF c = EndOfText THEN input ELSE Append(input, c)

(* The history of a turn; one that complains prints an error.              *)
Quietly(c)     == Reads(c) /\ input' = InputWith(c) /\ UNCHANGED complained
Complaining(c) == Reads(c) /\ input' = InputWith(c) /\ complained' = TRUE

SamePackages == UNCHANGED <<current_package, packages, last_id>>
Running == UNCHANGED loop

-----------------------------------------------------------------------------
Exit(c, r) ==
  /\ IsReplCmd(SourceOf(r), "EXIT")
  /\ loop' = "exited"
  /\ reader' = r /\ Quietly(c) /\ SamePackages

(* .reset destroys every package and clears the reader.  current_package   *)
(* stays what it was.                                                      *)
ResetDestroysCurrent(c, r) ==   \* mutant: the other packages stay
  /\ IsReplCmd(SourceOf(r), "RESET")
  /\ packages' = packages \ {current_package}
  /\ reader' = NewReader
  /\ input' = <<>> /\ complained' = FALSE /\ Reads(c)
  /\ Running /\ UNCHANGED <<current_package, last_id>>
ResetKeepsStack(c, r) ==   \* mutant: the open blocks stay
  /\ IsReplCmd(SourceOf(r), "RESET")
  /\ packages' = {}
  /\ reader' = [NewReader EXCEPT !.statements = Popped(r, 1).statements]
  /\ input' = <<>> /\ complained' = FALSE /\ Reads(c)
  /\ Running /\ UNCHANGED <<current_package, last_id>>
Reset(c, r) ==
  /\ IsReplCmd(SourceOf(r), "RESET")
  /\ packages' = {}
  /\ reader' = NewReader
  /\ input' = <<>> /\ complained' = FALSE /\ Reads(c)
  /\ Running /\ UNCHANGED <<current_package, last_id>>

Assumed(r) == IsStatement(r) /\ r.status = "ASSUMED_STATEMENT_END"

(* A line that does not end its statement is read again with the next; but *)
(* blank lines before a statement are dropped.                             *)
BlankRewound(c, r) ==   \* mutant: like any line
  /\ Assumed(r) /\ Worded(SourceOf(r)) = {}
  /\ reader' = PopRewind(r)
  /\ Quietly(c) /\ SamePackages /\ Running
Blank(c, r) ==
  /\ Assumed(r) /\ Worded(SourceOf(r)) = {}
  /\ reader' = [PopDiscard(r) EXCEPT !.status = "OK"]
  /\ Quietly(c) /\ SamePackages /\ Running

UnfinishedDiscarded(c, r) ==   \* mutant: at the end of the input the line is dropped
  /\ Assumed(r) /\ Worded(SourceOf(r)) # {}
  /\ reader' = IF more THEN PopRewind(r) ELSE PopDiscard(r)
  /\ Quietly(c) /\ SamePackages /\ Running
Unfinished(c, r) ==
  /\ Assumed(r) /\ Worded(SourceOf(r)) # {}
  /\ reader' = PopRewind(r)
  /\ Quietly(c) /\ SamePackages /\ Running

SyntaxError(c, r) ==
  /\ IsStatement(r) /\ IsError(r)
  /\ reader' = PopDiscard(r)
  /\ Complaining(c) /\ SamePackages /\ Running

-----------------------------------------------------------------------------
(* A finished statement                                                    *)

Finished(r) ==
  /\ IsStatement(r)
  /\ r.status \in {"OK", "BLOCK_BEGIN", "BLOCK_END"}
TypeOf(r) == Top(r).type

(* A package statement is evaluated wherever it is, inside a block too.    *)
NewPackage(c, r) ==
  /\ Finished(r) /\ TypeOf(r) = "PACKAGE"
  /\ last_id' = last_id + 1
  /\ current_package' = last_id'
  /\ packages' = packages \cup {last_id'}
  /\ reader' = PumpStatusCode(r)
  /\ Quietly(c) /\ Running

Unknown(c, r) ==
  /\ Finished(r) /\ TypeOf(r) = "UNKNOWN"
  /\ reader' = PumpStatusCode(r)
  /\ Complaining(c) /\ SamePackages /\ Running

NoCurrentPackage(c, r) ==
  /\ Finished(r) /\ TypeOf(r) \notin {"PACKAGE", "UNKNOWN"}
  /\ current_package = NoPackage
  /\ reader' = PopDiscard(r)
  /\ Complaining(c) /\ SamePackages /\ Running

Evaluated(r) ==
  /\ Finished(r) /\ TypeOf(r) \notin {"PACKAGE", "UNKNOWN"}
  /\ current_package # NoPackage

(* Only a blank statement is accepted in a package that was destroyed.     *)
EvalAccepted(c, r) ==
  /\ Evaluated(r)
  /\ current_package \in packages \/ TypeOf(r) = "NONE"
  /\ reader' = PumpStatusCode(Accept(r, current_package))
  /\ Quietly(c) /\ SamePackages /\ Running

EvalRefusedPumped(c, r) ==   \* mutant: a refused block is entered
  /\ Evaluated(r) /\ TypeOf(r) # "NONE"
  /\ reader' = PumpStatusCode(r)
  /\ Complaining(c) /\ SamePackages /\ Running
EvalRefused(c, r) ==
  /\ Evaluated(r) /\ TypeOf(r) # "NONE"
  /\ reader' = PopDiscard(r)
  /\ Complaining(c) /\ SamePackages /\ Running

(* The runtime looks the destroyed package up with at(), which throws; no  *)
(* one catches it.                                                         *)
EvalThrows(c, r) ==
  /\ Evaluated(r) /\ TypeOf(r) # "NONE"
  /\ current_package \notin packages
  /\ loop' = "crashed"
  /\ reader' = r /\ Quietly(c) /\ SamePackages

-----------------------------------------------------------------------------
(* emplace on a full stack: an assertion fails.                            *)
StackOverflow ==
  /\ loop = "running" /\ CanReadNext(reader, more) /\ StackFull(reader)
  /\ loop' = "aborted"
  /\ UNCHANGED <<reader, more, typed, input, complained>> /\ SamePackages

EndOfInput ==
  /\ loop = "running" /\ ~CanReadNext(reader, more)
  /\ loop' = "ended"
  /\ UNCHANGED <<reader, more, typed, input, complained>> /\ SamePackages

TurnOfLoop(c, r) ==
  \/ Exit(c, r) \/ Reset(c, r) \/ Blank(c, r) \/ Unfinished(c, r)
  \/ SyntaxError(c, r) \/ NewPackage(c, r) \/ Unknown(c, r)
  \/ NoCurrentPackage(c, r) \/ EvalAccepted(c, r) \/ EvalRefused(c, r)
  \/ EvalThrows(c, r)

Next ==
  \/ CanTurn /\ \E c \in Typeable : \E r \in {ReadNext(reader, c)} : TurnOfLoop(c, r)
  \/ StackOverflow
  \/ EndOfInput

(* The program runs on by itself only once the input has come to its end;  *)
(* before, it waits for the user, who need not type.                       *)
Spec == Init /\ [][Next]_interpreter_vars /\ WF_interpreter_vars(~more /\ Next)

-----------------------------------------------------------------------------
(* Types: the reader has at most StackSize statements and one rewound      *)
(* source.                                                                 *)
InterpreterTypeOK ==
  /\ DOMAIN reader = {"statements", "next_sources", "status"}
  /\ Len(reader.statements) <= StackSize /\ Len(reader.next_sources) <= 1
  /\ reader.status \in Statuses
  /\ \A i \in DOMAIN reader.statements :
       /\ reader.statements[i].accepted_in \in 0 .. last_id
       /\ ToSet(reader.statements[i].source) \subseteq Inputs \cup {EndOfText}
  /\ more \in BOOLEAN /\ complained \in BOOLEAN
  /\ last_id \in 0 .. MaxChunks /\ current_package \in 0 .. last_id
  /\ packages \subseteq 1 .. last_id
  /\ loop \in {"running", "exited", "ended", "crashed", "aborted"}
  /\ typed \in 0 .. MaxChunks /\ Len(input) <= typed

(* As long as no error was printed, the statements on the stack are those  *)
(* whose blocks are open in what was typed since the last .reset.          *)
BlocksMatchInput ==
  loop \in {"running", "ended"} /\ ~complained
    => OpenBlocks(input) = [i \in DOMAIN reader.statements |->
                              Last(reader.statements[i].source)]

(* What was typed since the last statement end, by the text alone: the     *)
(* beginning of a statement, without the blank lines before it.            *)
PendingOf(text) ==
  FoldLeft(LAMBDA pending, c :
             IF c.end \in {";", "{", "}"} \/ (c.type = "NONE" /\ pending = <<>>)
             THEN <<>> ELSE Append(pending, c),
           <<>>, text)

(* Nothing typed is lost and nothing is read twice: as long as no error    *)
(* was printed, the rewound source is what was begun and not ended.        *)
PendingMatchesInput ==
  loop \in {"running", "ended"} /\ ~complained
    => FlattenSeq(reader.next_sources) = PendingOf(input)

(* Nothing is evaluated inside a statement that the evaluator refused, or  *)
(* that there was no package for: such statements leave the stack.  What   *)
(* may stay beside accepted statements is one the parser does not know.    *)
NothingInsideRefused ==
  loop \in {"running", "ended"}
    => \A i \in DOMAIN reader.statements :
         LET frame == reader.statements[i]
         IN \/ frame.accepted_in # NotAccepted /\ Last(frame.source).end = "{"
            \/ frame.type \in {"UNKNOWN", "PACKAGE"}

(* The current package is destroyed only when no package is left, so a     *)
(* new package statement is all that a .reset asks for; and without a      *)
(* .reset the program does not crash.                                      *)
CurrentPackageLives ==
  /\ packages # {} => current_package \in packages
  /\ loop = "crashed" => packages = {}

(* At the end of the input the program ends, unless a statement was begun  *)
(* and not ended.                                                          *)
EndsAtEndOfInput == ~more ~> (loop # "running" \/ PendingOf(input) # <<>>)

(* Then it never does: the same source is rewound and read again forever.  *)
UnfinishedNeverEnds ==
  [](~more /\ loop = "running" /\ reader.next_sources # <<>> => [](loop = "running"))
=============================================================================
