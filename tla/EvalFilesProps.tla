--------------------------- MODULE EvalFilesProps ---------------------------
(***************************************************************************)
(* What the evaluation of a list of files must do: keep the stack of open  *)
(* blocks in step with the text, evaluate nothing inside a statement that  *)
(* was refused, evaluate files after what they import, and come to an end. *)
(***************************************************************************)
EXTENDS EvalFiles

-----------------------------------------------------------------------------
(* Types *)

Names == {c.name : c \in UNION {ToSet(texts[f]) : f \in AllFiles}}
             \cup {""}
Passes == {"packages", "imports", "unknown_imports", "create", "sort", "evaluate",
           "declarations", "skipping", "done", "aborted"}

FrameType(frame) ==
  /\ DOMAIN frame = {"type", "name", "source", "accepted_in"}
  /\ frame.source # <<>> /\ frame.accepted_in \in {NotAccepted} \cup AllFiles
  /\ frame.type \in ChunkTypes /\ frame.name \in Names

ReaderType(r) ==
  /\ DOMAIN r = {"statements", "next_sources", "status"}
  /\ Len(r.statements) <= StackSize /\ Len(r.next_sources) <= 1
  /\ r.status \in Statuses
  /\ \A i \in DOMAIN r.statements : FrameType(r.statements[i])

(* The type of every variable; a reader has at most StackSize statements   *)
(* and at most one rewound source.                                         *)
FilesTypeOK ==
  /\ DOMAIN file_states = AllFiles
  /\ \A f \in AllFiles :
       /\ DOMAIN file_states[f] = {"reader", "text", "package_name", "imports"}
       /\ ReaderType(file_states[f].reader)
       /\ IsSuffix(file_states[f].text, texts[f])
       /\ NameOf(f) \in Names /\ ImportsOf(f) \subseteq Names
  /\ pass \in Passes /\ source_index \in 1 .. Len(texts) + 1 /\ block_depth \in Nat
  /\ ToSet(errors) \subseteq
       [source_index : AllFiles, file : AllFiles, eval_error : BOOLEAN]
  /\ packages \in {<<>>, [f \in AllFiles |-> NameOf(f)]}
  /\ DOMAIN dependencies = DOMAIN packages
  /\ ToSet(sorted_states) \subseteq AllFiles

-----------------------------------------------------------------------------
(* The reader and the text *)

(* What of its text a reader has read and not rewound.                     *)
Consumed(f) ==
  SubSeq(texts[f], 1, Len(texts[f]) - Len(file_states[f].text)
                        - Len(FlattenSeq(file_states[f].reader.next_sources)))

(* No parse error was found so far, in skipped blocks neither.             *)
Parsed(f) ==
  /\ \A i \in DOMAIN errors : errors[i].file = f => errors[i].eval_error
  /\ \A i \in DOMAIN Consumed(f) :
       /\ Consumed(f)[i].type \in StatementTypes
       /\ Consumed(f)[i].end = "{" => Consumed(f)[i].type # "NONE"

InDeclarations == pass \in {"declarations", "skipping"} /\ AtFile
Frames == Current.reader.statements

(* While declarations are evaluated or skipped, and as long as all of the  *)
(* file parsed, the statements on the stack are those whose blocks are     *)
(* open at this point of the text: what eval_files hands to the evaluator  *)
(* as context, across the three passes that pump, rewind or skip.          *)
BlocksMatchSource ==
  InDeclarations /\ Parsed(CurrentFile)
    => OpenBlocks(Consumed(CurrentFile)) = [i \in DOMAIN Frames |-> Last(Frames[i].source)]

(* The assertion of the full stack fails, for a file that parses, only at  *)
(* a text whose blocks are nested as deep as the stack is.                 *)
AbortsOnlyTooDeep ==
  pass = "aborted"
    => \E f \in AllFiles : ~Parsed(f) \/ Len(OpenBlocks(Consumed(f))) = StackSize

(* A statement is evaluated only inside statements that were accepted in   *)
(* the package of its file: of a refused block nothing is evaluated, and   *)
(* what follows it is again (parse_eval_declarations with                  *)
(* skip_until_current_block_end).                                          *)
OnlyAcceptedContexts ==
  pass = "declarations" /\ AtFile /\ CanRead /\ Parsed(CurrentFile)
    => \A i \in DOMAIN Frames : Frames[i].accepted_in = CurrentFile

-----------------------------------------------------------------------------
(* The order of the files *)

PassesAfterSort == {"evaluate", "declarations", "skipping", "done", "aborted"}
Finished == {sorted_states[k] : k \in {k \in DOMAIN sorted_states :
                                         pass \in PassesAfterSort /\ k < source_index}}
Outcome == CASE pass \notin {"done", "aborted"}    -> "running"
             [] pass = "done" /\ errors = <<>>    -> "success"
             [] OTHER                             -> "failed"

Order == INSTANCE ImportOrder WITH
  package  <- [f \in AllFiles |-> NameOf(f)],
  needs    <- [f \in AllFiles |-> ImportsOf(f)],
  finished <- Finished,
  outcome  <- Outcome

(* eval_files implements ImportOrder: each file is evaluated once, none    *)
(* before all the packages it imports, and no error means all of them.     *)
ImplementsImportOrder == Order!Spec

(* Files given with every import before its importer are sorted as given;  *)
(* then each error, of whichever pass, carries the place of its file.      *)
GivenInImportOrder ==
  \A f \in AllFiles : ImportsOf(f) \subseteq {NameOf(g) : g \in 1 .. f - 1}

ErrorIndexRight ==
  GivenInImportOrder => \A i \in DOMAIN errors : errors[i].source_index = errors[i].file

-----------------------------------------------------------------------------
(* Termination *)

Ended == pass \in {"done", "aborted"}

(* Two files of the same package, or files that import each other in turn. *)
Unsortable ==
  /\ pass = "sort"
  /\ \/ \E f, g \in AllFiles : f # g /\ NameOf(f) = NameOf(g)
     \/ \E circle \in SUBSET AllFiles :
          /\ circle # {}
          /\ \A f \in circle : \E g \in circle : NameOf(g) \in ImportsOf(f)

(* eval_files returns, for any texts, unless the sort meets such files.    *)
EndsIfSortable == <>(Ended \/ Unsortable)

(* And when it does, eval_files never returns: there is no check for       *)
(* cycles (check_cyclic_imports is empty) and none for package names.      *)
NeverEndsUnsortable == [](Unsortable => []~Ended)
=============================================================================
