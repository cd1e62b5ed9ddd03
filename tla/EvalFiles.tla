----------------------------- MODULE EvalFiles -----------------------------
(***************************************************************************)
(* The evaluation of a list of files (ecsact/interpret/eval_files.cc and   *)
(* the passes of detail/eval_parse.hh): read every package statement, then *)
(* every import, check the imports, create the packages, sort the files so *)
(* that imports come first, and evaluate their declarations in that order. *)
(* A pass that leaves errors is the last one.                              *)
(*                                                                         *)
(* One action is one turn of a loop of a pass, and reads one statement.    *)
(* What the evaluator answers to a declaration is left open here: module   *)
(* Evaluator says what it does.                                            *)
(***************************************************************************)
EXTENDS StatementReader

CONSTANT Texts   \* the lists of texts that may be evaluated

ASSUME TextsAssumption ==
  \A texts \in Texts : texts \in Seq(Seq(Chunks(STRING)))

VARIABLES
  texts,          \* the files given: for each its text, a sequence of chunks
  file_states,    \* for each: reader, unread text, package name, imports
  pass,           \* what eval_files is doing
  source_index,   \* the file that the pass is at
  block_depth,    \* of the block that is being skipped, 0 if none is
  errors,         \* the errors found: the index reported and the file it is in
  packages,       \* the names of the packages created, by id
  dependencies,   \* package id -> the ids of the packages it imports
  sorted_states   \* the files, in the order in which they are evaluated

files_vars == <<texts, file_states, pass, source_index, block_depth, errors,
                packages, dependencies, sorted_states>>

AllFiles == DOMAIN texts

NewFileState(text) ==
  [reader |-> NewReader, text |-> text, package_name |-> "", imports |-> <<>>]

Init ==
  /\ texts \in Texts
  /\ file_states = [f \in AllFiles |-> NewFileState(texts[f])]
  /\ pass = "packages" /\ source_index = 1 /\ block_depth = 0
  /\ errors = <<>> /\ packages = <<>> /\ dependencies = <<>>
  /\ sorted_states = <<>>

-----------------------------------------------------------------------------
(* Reading *)

CurrentFile == IF pass \in {"packages", "imports"} THEN source_index
               ELSE sorted_states[source_index]
Current == file_states[CurrentFile]

AtFile == source_index <= Len(texts)
CanRead == CanReadNext(Current.reader, Current.text # <<>>)

(* The reader and the text once the next statement is read                 *)
ReaderNext ==
  ReadNext(Current.reader, IF Current.text = <<>> THEN EndOfText ELSE Head(Current.text))
TextNext == IF ReadsStream(Current.reader) /\ Current.text # <<>>
            THEN Tail(Current.text) ELSE Current.text

Reading(p) == pass = p /\ AtFile /\ CanRead /\ ~StackFull(Current.reader)

(* The file goes on with reader r after the statement read.                *)
Continue(r) == [Current EXCEPT !.reader = r, !.text = TextNext]
Store(file) == file_states' = [file_states EXCEPT ![CurrentFile] = file]

(* eval_error: whether the evaluator, and not the parser, found the error   *)
Error(index, file, eval_error) ==
  [source_index |-> index, file |-> file, eval_error |-> eval_error]
ReportParseError == errors' = Append(errors, Error(source_index, CurrentFile, FALSE))
ReportEvalError  == errors' = Append(errors, Error(source_index, CurrentFile, TRUE))

NextFile == source_index' = source_index + 1
SameFile == UNCHANGED source_index
Unevaluated == UNCHANGED <<texts, pass, block_depth, packages, dependencies, sorted_states>>

(* A pass over all files is over: so is eval_files if there are errors.    *)
EndOfPass(p, next) ==
  /\ pass = p /\ ~AtFile
  /\ pass' = IF errors # <<>> THEN "done" ELSE next
  /\ source_index' = 1
  /\ UNCHANGED <<texts, file_states, block_depth, errors, packages, dependencies,
                 sorted_states>>

(* emplace on a full stack: an assertion fails.                            *)
StackOverflow ==
  /\ pass \in {"packages", "imports", "declarations", "skipping"}
  /\ AtFile /\ CanRead /\ StackFull(Current.reader)
  /\ pass' = "aborted"
  /\ UNCHANGED <<texts, file_states, source_index, block_depth, errors, packages,
                 dependencies, sorted_states>>

-----------------------------------------------------------------------------
(* parse_package_statements: each file is read up to its first statement,  *)
(* which must be the package statement.  A file without any statement is   *)
(* no error and keeps an empty package name.                               *)

PackagesEndOfText ==
  /\ pass = "packages" /\ AtFile /\ ~CanRead
  /\ NextFile
  /\ UNCHANGED <<file_states, errors>> /\ Unevaluated

PackagesParseError ==
  /\ Reading("packages") /\ IsError(ReaderNext)
  /\ ReportParseError /\ Store(Continue(ReaderNext)) /\ NextFile /\ Unevaluated

PackagesBlank ==
  /\ Reading("packages") /\ ~IsError(ReaderNext) /\ Top(ReaderNext).type = "NONE"
  /\ Store(Continue(PumpStatusCode(ReaderNext)))
  /\ SameFile /\ UNCHANGED errors /\ Unevaluated

PackagesOther ==
  /\ Reading("packages") /\ ~IsError(ReaderNext)
  /\ Top(ReaderNext).type \notin {"NONE", "PACKAGE"}
  /\ ReportEvalError /\ Store(Continue(PumpStatusCode(ReaderNext))) /\ NextFile /\ Unevaluated

PackagesFound ==
  /\ Reading("packages") /\ ~IsError(ReaderNext) /\ Top(ReaderNext).type = "PACKAGE"
  /\ Store([Continue(PumpStatusCode(Accept(ReaderNext, CurrentFile))) EXCEPT
              !.package_name = Top(ReaderNext).name])
  /\ NextFile /\ UNCHANGED errors /\ Unevaluated

-----------------------------------------------------------------------------
(* parse_imports: each file is read on up to the first statement that is   *)
(* not an import, which is rewound.  A statement that does not parse stays *)
(* on the stack, and the reading goes on.                                  *)

ImportsEndOfText ==
  /\ pass = "imports" /\ AtFile /\ ~CanRead
  /\ NextFile
  /\ UNCHANGED <<file_states, errors>> /\ Unevaluated

ImportsParseError ==
  /\ Reading("imports") /\ IsError(ReaderNext)
  /\ ReportParseError /\ Store(Continue(ReaderNext)) /\ SameFile /\ Unevaluated

ImportsBlank ==
  /\ Reading("imports") /\ ~IsError(ReaderNext) /\ Top(ReaderNext).type = "NONE"
  /\ Store(Continue(PumpStatusCode(ReaderNext)))
  /\ SameFile /\ UNCHANGED errors /\ Unevaluated

ImportsDiscardOther ==   \* mutant: the statement after the imports is lost
  /\ Reading("imports") /\ ~IsError(ReaderNext)
  /\ Top(ReaderNext).type \notin {"NONE", "IMPORT"}
  /\ Store(Continue(PopDiscard(ReaderNext))) /\ NextFile /\ UNCHANGED errors /\ Unevaluated
ImportsOther ==
  /\ Reading("imports") /\ ~IsError(ReaderNext)
  /\ Top(ReaderNext).type \notin {"NONE", "IMPORT"}
  /\ Store(Continue(PopRewind(ReaderNext))) /\ NextFile /\ UNCHANGED errors /\ Unevaluated

ImportsFound ==
  /\ Reading("imports") /\ ~IsError(ReaderNext) /\ Top(ReaderNext).type = "IMPORT"
  /\ Store([Continue(PumpStatusCode(Accept(ReaderNext, CurrentFile))) EXCEPT
              !.imports = Append(@, Top(ReaderNext).name)])
  /\ SameFile /\ UNCHANGED errors /\ Unevaluated

-----------------------------------------------------------------------------
(* check_unknown_imports; check_cyclic_imports, which is empty; and        *)
(* eval_package_statements, which creates the package of every file.       *)

NameOf(f) == file_states[f].package_name
ImportsOf(f) == ToSet(file_states[f].imports)

UnknownImports(f) ==
  {i \in DOMAIN file_states[f].imports :
     \A g \in AllFiles : NameOf(g) # NameOf(f) => NameOf(g) # file_states[f].imports[i]}

CheckUnknownImports ==
  /\ pass = "unknown_imports"
  /\ errors' = FlattenSeq([f \in AllFiles |->
                 [i \in 1 .. Cardinality(UnknownImports(f)) |-> Error(f, f, FALSE)]])
  /\ pass' = IF errors' # <<>> THEN "done" ELSE "create"
  /\ UNCHANGED <<texts, file_states, source_index, block_depth, packages,
                 dependencies, sorted_states>>

EvalPackageStatements ==
  /\ pass = "create"
  /\ packages' = [f \in AllFiles |-> NameOf(f)]
  /\ dependencies' = [f \in AllFiles |-> <<>>]
  /\ pass' = "sort"
  /\ UNCHANGED <<texts, file_states, source_index, block_depth, errors, sorted_states>>

-----------------------------------------------------------------------------
(* get_sorted_states: a round takes the first file whose package is not    *)
(* resolved and whose imports all are.  The rounds go on until there are   *)
(* as many resolved packages as files, even when no round can change that. *)

ResolvedPackages == {NameOf(f) : f \in ToSet(sorted_states)}

SomeImportResolved(f) ==   \* mutant: one resolved import is enough
  /\ NameOf(f) \notin ResolvedPackages
  /\ ImportsOf(f) = {} \/ ImportsOf(f) \cap ResolvedPackages # {}
Resolvable(f) ==
  /\ NameOf(f) \notin ResolvedPackages
  /\ ImportsOf(f) \subseteq ResolvedPackages

LastResolvable == Max({f \in AllFiles : Resolvable(f)})   \* mutant: scans backwards
FirstResolvable == Min({f \in AllFiles : Resolvable(f)})

Unresolved == Cardinality(ResolvedPackages) # Len(texts)

SortTakesFile ==
  /\ pass = "sort" /\ Unresolved
  /\ \E f \in AllFiles : Resolvable(f)
  /\ sorted_states' = Append(sorted_states, FirstResolvable)
  /\ UNCHANGED <<texts, file_states, pass, source_index, block_depth, errors,
                 packages, dependencies>>

SortGivesUp ==   \* mutant: a round that takes no file is the last
  /\ pass = "sort" /\ Unresolved
  /\ \A f \in AllFiles : ~Resolvable(f)
  /\ pass' = "done"
  /\ UNCHANGED <<texts, file_states, source_index, block_depth, errors, packages,
                 dependencies, sorted_states>>
SortTakesNone ==
  /\ pass = "sort" /\ Unresolved
  /\ \A f \in AllFiles : ~Resolvable(f)
  /\ UNCHANGED files_vars

SortEnds ==
  /\ pass = "sort" /\ ~Unresolved
  /\ pass' = "evaluate"
  /\ UNCHANGED <<texts, file_states, source_index, block_depth, errors, packages,
                 dependencies, sorted_states>>

-----------------------------------------------------------------------------
(* eval_imports: an import statement finds one of the packages with the    *)
(* name, other than the file's own; the package ids are those of the files *)
(* in the order given.                                                     *)

PackagesNamed(f, name) == {p \in AllFiles \ {f} : packages[p] = name}

EvalImports ==
  /\ pass = "evaluate" /\ AtFile
  /\ LET imports == Current.imports
         lost    == {i \in DOMAIN imports : PackagesNamed(CurrentFile, imports[i]) = {}}
     IN /\ errors' = [i \in 1 .. Cardinality(lost) |-> Error(source_index, CurrentFile, TRUE)]
        /\ \E found \in [DOMAIN imports \ lost -> AllFiles] :
             /\ \A i \in DOMAIN found : found[i] \in PackagesNamed(CurrentFile, imports[i])
             /\ dependencies' = [dependencies EXCEPT ![CurrentFile] = found]
  /\ pass' = IF errors' # <<>> THEN "done" ELSE "declarations"
  /\ UNCHANGED <<texts, file_states, source_index, block_depth, packages, sorted_states>>

(* All files are evaluated: eval_files returns without an error.           *)
Return ==
  /\ pass = "evaluate" /\ ~AtFile
  /\ pass' = "done"
  /\ UNCHANGED <<texts, file_states, source_index, block_depth, errors, packages,
                 dependencies, sorted_states>>

-----------------------------------------------------------------------------
(* parse_eval_declarations: every statement goes to the evaluator with the *)
(* statements of the stack as its context.  Errors do not end the loop;    *)
(* the block of a statement that is refused is skipped.                    *)

Evaluating == UNCHANGED <<texts, source_index, packages, dependencies, sorted_states>>

Evaluable(p) == Reading(p) /\ ~IsError(ReaderNext)

(* The package of a file has the file's number as its id.                  *)

(* Blank and unknown statements are never refused, a package statement     *)
(* always is; the end of a block is refused when the block lacks something.*)
MayAccept == Top(ReaderNext).type # "PACKAGE"
MayRefuse == Top(ReaderNext).type \in {"PACKAGE", "IMPORT", "DECL"}
             \/ ReaderNext.status = "BLOCK_END"

DeclarationsParseError ==
  /\ Reading("declarations") /\ IsError(ReaderNext)
  /\ ReportParseError /\ Store(Continue(ReaderNext))
  /\ Evaluating /\ UNCHANGED <<pass, block_depth>>

DeclarationsAccepted ==
  /\ Evaluable("declarations") /\ MayAccept
  /\ Store(Continue(PumpStatusCode(Accept(ReaderNext, CurrentFile))))
  /\ Evaluating /\ UNCHANGED <<pass, block_depth, errors>>

DeclarationsRefused ==
  /\ Evaluable("declarations") /\ MayRefuse
  /\ ReaderNext.status # "BLOCK_BEGIN"
  /\ ReportEvalError /\ Store(Continue(PumpStatusCode(ReaderNext)))
  /\ Evaluating /\ UNCHANGED <<pass, block_depth>>

DeclarationsBlockEntered ==   \* mutant: a refused block is not skipped
  /\ Evaluable("declarations") /\ MayRefuse
  /\ ReaderNext.status = "BLOCK_BEGIN"
  /\ ReportEvalError /\ Store(Continue(ReaderNext))
  /\ Evaluating /\ UNCHANGED <<pass, block_depth>>
DeclarationsBlockRefused ==
  /\ Evaluable("declarations") /\ MayRefuse
  /\ ReaderNext.status = "BLOCK_BEGIN"
  /\ ReportEvalError /\ Store(Continue(ReaderNext))
  /\ pass' = "skipping" /\ block_depth' = 1
  /\ Evaluating

(* skip_until_current_block_end                                            *)
DepthAfterOneBlock ==   \* mutant: the first block end is taken for the block's
  IF ReaderNext.status = "BLOCK_END" THEN 0 ELSE block_depth
DepthAfter ==
  CASE ReaderNext.status = "BLOCK_BEGIN" -> block_depth + 1
    [] ReaderNext.status = "BLOCK_END"   -> block_depth - 1
    [] OTHER                             -> block_depth

SkipStatement ==
  /\ Reading("skipping")
  /\ block_depth' = DepthAfter
  /\ pass' = IF block_depth' = 0 THEN "declarations" ELSE pass
  /\ Store(Continue(PumpStatusCode(ReaderNext)))
  /\ Evaluating /\ UNCHANGED errors

SkipWaits ==   \* mutant: only the end of the block ends the skipping
  pass = "skipping" /\ ~CanRead /\ UNCHANGED files_vars
SkipEndOfText ==
  /\ pass = "skipping" /\ ~CanRead
  /\ pass' = "declarations" /\ block_depth' = 0
  /\ Evaluating /\ UNCHANGED <<file_states, errors>>

DeclarationsEndOfText ==
  /\ pass = "declarations" /\ ~CanRead
  /\ IF errors = <<>> THEN pass' = "evaluate" /\ NextFile
                      ELSE pass' = "done" /\ SameFile
  /\ UNCHANGED <<texts, file_states, block_depth, errors, packages, dependencies,
                 sorted_states>>

-----------------------------------------------------------------------------
Next ==
  \/ PackagesEndOfText \/ PackagesParseError \/ PackagesBlank \/ PackagesOther
  \/ PackagesFound \/ EndOfPass("packages", "imports")
  \/ ImportsEndOfText \/ ImportsParseError \/ ImportsBlank \/ ImportsOther
  \/ ImportsFound \/ EndOfPass("imports", "unknown_imports")
  \/ CheckUnknownImports \/ EvalPackageStatements
  \/ SortTakesFile \/ SortTakesNone \/ SortEnds
  \/ EvalImports \/ Return
  \/ DeclarationsParseError \/ DeclarationsAccepted \/ DeclarationsRefused
  \/ DeclarationsBlockRefused \/ SkipStatement \/ SkipEndOfText
  \/ DeclarationsEndOfText \/ StackOverflow

(* eval_files runs by itself until it returns.                             *)
Spec == Init /\ [][Next]_files_vars /\ WF_files_vars(Next)
=============================================================================
