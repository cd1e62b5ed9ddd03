--------------------------- MODULE EvalFilesProofs ---------------------------
(***************************************************************************)
(* Proofs about the evaluation of a list of files, for any lists of texts, *)
(* whatever the evaluator answers, and any stack.  That it implements      *)
(* ImportOrder, and never ends once it has to sort files that cannot be    *)
(* sorted, rests on one invariant about the sorted files, EvalInv, without *)
(* a look at what the reader makes of a text.  The properties of every     *)
(* state rest on FilesStateInv, which adds the place of each reader in its *)
(* text, the stack that follows the text, and the errors.                  *)
(***************************************************************************)
EXTENDS EvalFilesProps, ReaderProofs

(* A file's state has its four fields, whatever they hold.                 *)
IsFileState(s) ==
  s = [reader |-> s.reader, text |-> s.text, package_name |-> s.package_name,
       imports |-> s.imports]
FileStates(states) ==
  /\ states = [f \in AllFiles |-> states[f]]
  /\ \A f \in AllFiles : IsFileState(states[f])

FilesInv ==
  /\ Len(texts) \in Nat /\ AllFiles = 1 .. Len(texts)
  /\ FileStates(file_states)
  /\ source_index \in Nat \ {0}
  /\ sorted_states \in Seq(AllFiles)

(* No two sorted files have the same package, and each comes after all the *)
(* packages that it imports.                                               *)
SortInv ==
  /\ pass \in {"packages", "imports", "unknown_imports", "create"} => sorted_states = <<>>
  /\ pass \in {"unknown_imports", "create", "sort"} => source_index = 1
  /\ IsFiniteSet(ResolvedPackages) /\ Cardinality(ResolvedPackages) = Len(sorted_states)
  /\ IsFiniteSet(ToSet(sorted_states)) /\ Cardinality(ToSet(sorted_states)) = Len(sorted_states)
  /\ \A i, j \in DOMAIN sorted_states :
       NameOf(sorted_states[i]) = NameOf(sorted_states[j]) => i = j
  /\ \A k \in DOMAIN sorted_states :
       ImportsOf(sorted_states[k]) \subseteq {NameOf(sorted_states[j]) : j \in 1 .. k - 1}
  /\ pass \in {"evaluate", "declarations", "skipping"} =>
       Len(sorted_states) = Len(texts)
  /\ pass \in {"declarations", "skipping"} => source_index <= Len(texts)

EvalInv == FilesInv /\ SortInv

-----------------------------------------------------------------------------
(* Facts about sets, sequences and files                                   *)

LEMMA FirstResolvableIs ==
  ASSUME FilesInv, \E f \in AllFiles : Resolvable(f)
  PROVE  FirstResolvable \in AllFiles /\ Resolvable(FirstResolvable)
<1> DEFINE S == {f \in AllFiles : Resolvable(f)}
<1>1. S \subseteq Nat /\ S # {}
  <2>1. \A f \in AllFiles : f \in Nat
    BY DEF FilesInv
  <2> QED
    BY <2>1
<1>2. \E x \in S : \A y \in S : x <= y
  BY <1>1, LeastNat
<1>3. Min(S) \in S
  BY <1>2 DEF Min
<1> QED
  BY <1>3 DEF FirstResolvable

LEMMA ReadFile ==
  ASSUME NEW r, FilesInv, CurrentFile \in AllFiles
  PROVE  /\ IsFileState(Continue(r))
         /\ Continue(r).package_name = NameOf(CurrentFile)
         /\ Continue(r).imports = file_states[CurrentFile].imports
         /\ Continue(r).reader = r /\ Continue(r).text = TextNext
<1>1. IsFileState(Current)
  BY DEF FilesInv, FileStates, Current
<1>2. PICK n : n = Current.package_name
  OBVIOUS
<1>3. PICK i : i = Current.imports
  OBVIOUS
<1>4. PICK s : s = Current
  OBVIOUS
<1>5. PICK r0, t0 : s = [reader |-> r0, text |-> t0, package_name |-> n, imports |-> i]
  BY <1>1, <1>2, <1>3, <1>4 DEF IsFileState
<1>6. PICK a : a = [s EXCEPT !.reader = r]
  OBVIOUS
<1>7. a = [reader |-> r, text |-> t0, package_name |-> n, imports |-> i]
  BY <1>5, <1>6
<1>8. Continue(r) = [a EXCEPT !.text = TextNext]
  BY <1>4, <1>6, Zenon DEF Continue
<1>9. Continue(r) = [reader |-> r, text |-> TextNext, package_name |-> n, imports |-> i]
  BY <1>7, <1>8
<1> QED
  BY <1>2, <1>3, <1>9 DEF IsFileState, Current, NameOf

(* The file with package name or imports changed is still a file.          *)
LEMMA ChangedFile ==
  ASSUME NEW s, IsFileState(s), NEW v
  PROVE  /\ IsFileState([s EXCEPT !.package_name = v])
         /\ IsFileState([s EXCEPT !.imports = v])
BY DEF IsFileState

(* The files have the names and imports they had.                          *)
SameNames(stored, states) ==
  \A f \in AllFiles : /\ stored[f].package_name = states[f].package_name
                      /\ stored[f].imports = states[f].imports

LEMMA StoredFile ==
  ASSUME NEW states, FileStates(states), NEW f \in AllFiles, NEW s, IsFileState(s)
  PROVE  /\ FileStates([states EXCEPT ![f] = s])
         /\ s.package_name = states[f].package_name /\ s.imports = states[f].imports
              => SameNames([states EXCEPT ![f] = s], states)
<1>1. PICK stored : stored = [states EXCEPT ![f] = s]
  OBVIOUS
<1>2. DOMAIN states = AllFiles
  BY DEF FileStates
<1>3. stored = [g \in AllFiles |-> IF g = f THEN s ELSE states[g]]
  BY <1>1, <1>2
<1>4. \A g \in AllFiles : stored[g] = IF g = f THEN s ELSE states[g]
  BY <1>3
<1>5. stored = [g \in AllFiles |-> stored[g]]
  BY <1>3
<1>6. FileStates(stored)
  BY <1>4, <1>5 DEF FileStates
<1>7. s.package_name = states[f].package_name /\ s.imports = states[f].imports
        => SameNames(stored, states)
  BY <1>4 DEF SameNames
<1> QED
  BY <1>1, <1>6, <1>7, Zenon

-----------------------------------------------------------------------------
(* The steps that read, by what they do to the files                       *)

LearnStep ==
  /\ pass \in {"packages", "imports"} /\ pass' = pass
  /\ UNCHANGED <<texts, sorted_states>>
  /\ source_index' \in {source_index, source_index + 1}
  /\ FileStates(file_states')

EvalStep ==
  /\ pass \in {"declarations", "skipping"} /\ pass' \in {"declarations", "skipping"}
  /\ UNCHANGED <<texts, source_index, sorted_states>>
  /\ FileStates(file_states') /\ SameNames(file_states', file_states)

PackagesStep ==
  \/ PackagesEndOfText \/ PackagesParseError \/ PackagesBlank \/ PackagesOther
  \/ PackagesFound
ImportsStep ==
  \/ ImportsEndOfText \/ ImportsParseError \/ ImportsBlank \/ ImportsOther
  \/ ImportsFound
DeclarationsStep ==
  \/ DeclarationsParseError \/ DeclarationsAccepted \/ DeclarationsRefused
  \/ DeclarationsBlockRefused \/ SkipStatement \/ SkipEndOfText

LEMMA PackagesLearn ==
  ASSUME FilesInv, PackagesStep
  PROVE  LearnStep
<1> USE DEF Unevaluated, NextFile, SameFile
<1>1. pass = "packages" /\ AtFile
  BY DEF PackagesStep, PackagesEndOfText, PackagesParseError, PackagesBlank,
         PackagesOther, PackagesFound, Reading
<1>2. CurrentFile \in AllFiles
  BY <1>1 DEF FilesInv, AtFile, CurrentFile
<1>3. CASE PackagesEndOfText
  BY <1>1, <1>3 DEF PackagesEndOfText, LearnStep, FilesInv
<1>4. CASE PackagesParseError
  <2>1. file_states' = [file_states EXCEPT ![CurrentFile] = Continue(ReaderNext)]
    BY <1>4 DEF PackagesParseError, Store
  <2>2. FileStates(file_states')
    BY <1>2, <2>1, ReadFile, StoredFile DEF FilesInv
  <2> QED
    BY <1>1, <1>4, <2>2 DEF PackagesParseError, LearnStep
<1>5. CASE PackagesBlank
  <2>1. file_states' =
          [file_states EXCEPT ![CurrentFile] = Continue(PumpStatusCode(ReaderNext))]
    BY <1>5 DEF PackagesBlank, Store
  <2>2. FileStates(file_states')
    BY <1>2, <2>1, ReadFile, StoredFile DEF FilesInv
  <2> QED
    BY <1>1, <1>5, <2>2 DEF PackagesBlank, LearnStep
<1>6. CASE PackagesOther
  <2>1. file_states' =
          [file_states EXCEPT ![CurrentFile] = Continue(PumpStatusCode(ReaderNext))]
    BY <1>6 DEF PackagesOther, Store
  <2>2. FileStates(file_states')
    BY <1>2, <2>1, ReadFile, StoredFile DEF FilesInv
  <2> QED
    BY <1>1, <1>6, <2>2 DEF PackagesOther, LearnStep
<1>7. CASE PackagesFound
  <2> DEFINE read == Continue(PumpStatusCode(Accept(ReaderNext, CurrentFile)))
             found == [read EXCEPT !.package_name = Top(ReaderNext).name]
  <2>1. file_states' = [file_states EXCEPT ![CurrentFile] = found]
    BY <1>7 DEF PackagesFound, Store
  <2>2. IsFileState(found)
    BY <1>2, ReadFile, ChangedFile
  <2>3. FileStates(file_states')
    BY <1>2, <2>1, <2>2, StoredFile DEF FilesInv
  <2> QED
    BY <1>1, <1>7, <2>3 DEF PackagesFound, LearnStep
<1> QED
  BY <1>3, <1>4, <1>5, <1>6, <1>7 DEF PackagesStep

LEMMA ImportsLearn ==
  ASSUME FilesInv, ImportsStep
  PROVE  LearnStep
<1> USE DEF Unevaluated, NextFile, SameFile
<1>1. pass = "imports" /\ AtFile
  BY DEF ImportsStep, ImportsEndOfText, ImportsParseError, ImportsBlank,
         ImportsOther, ImportsFound, Reading
<1>2. CurrentFile \in AllFiles
  BY <1>1 DEF FilesInv, AtFile, CurrentFile
<1>3. CASE ImportsEndOfText
  BY <1>1, <1>3 DEF ImportsEndOfText, LearnStep, FilesInv
<1>4. CASE ImportsParseError
  <2>1. file_states' = [file_states EXCEPT ![CurrentFile] = Continue(ReaderNext)]
    BY <1>4 DEF ImportsParseError, Store
  <2>2. FileStates(file_states')
    BY <1>2, <2>1, ReadFile, StoredFile DEF FilesInv
  <2> QED
    BY <1>1, <1>4, <2>2 DEF ImportsParseError, LearnStep
<1>5. CASE ImportsBlank
  <2>1. file_states' =
          [file_states EXCEPT ![CurrentFile] = Continue(PumpStatusCode(ReaderNext))]
    BY <1>5 DEF ImportsBlank, Store
  <2>2. FileStates(file_states')
    BY <1>2, <2>1, ReadFile, StoredFile DEF FilesInv
  <2> QED
    BY <1>1, <1>5, <2>2 DEF ImportsBlank, LearnStep
<1>6. CASE ImportsOther
  <2>1. file_states' =
          [file_states EXCEPT ![CurrentFile] = Continue(PopRewind(ReaderNext))]
    BY <1>6 DEF ImportsOther, Store
  <2>2. FileStates(file_states')
    BY <1>2, <2>1, ReadFile, StoredFile DEF FilesInv
  <2> QED
    BY <1>1, <1>6, <2>2 DEF ImportsOther, LearnStep
<1>7. CASE ImportsFound
  <2> DEFINE read == Continue(PumpStatusCode(Accept(ReaderNext, CurrentFile)))
             found == [read EXCEPT !.imports = Append(@, Top(ReaderNext).name)]
  <2>1. file_states' = [file_states EXCEPT ![CurrentFile] = found]
    BY <1>7 DEF ImportsFound, Store
  <2>2. IsFileState(found)
    BY <1>2, ReadFile, ChangedFile
  <2>3. FileStates(file_states')
    BY <1>2, <2>1, <2>2, StoredFile DEF FilesInv
  <2> QED
    BY <1>1, <1>7, <2>3 DEF ImportsFound, LearnStep
<1> QED
  BY <1>3, <1>4, <1>5, <1>6, <1>7 DEF ImportsStep

LEMMA SortedFile ==
  ASSUME EvalInv, pass \in {"evaluate", "declarations", "skipping"}, AtFile
  PROVE  /\ source_index \in DOMAIN sorted_states
         /\ CurrentFile = sorted_states[source_index] /\ CurrentFile \in AllFiles
<1>1. source_index \in 1 .. Len(sorted_states)
  BY DEF EvalInv, FilesInv, SortInv, AtFile
<1> QED
  BY <1>1 DEF EvalInv, FilesInv, CurrentFile

LEMMA DeclarationsEval ==
  ASSUME EvalInv, DeclarationsStep
  PROVE  EvalStep
<1> USE DEF Evaluating
<1>1. pass \in {"declarations", "skipping"}
  BY DEF DeclarationsStep, DeclarationsParseError, DeclarationsAccepted,
         DeclarationsRefused, DeclarationsBlockRefused, SkipStatement, SkipEndOfText,
         Evaluable, Reading
<1>2. CurrentFile \in AllFiles
  BY <1>1, SortedFile DEF EvalInv, SortInv, AtFile
<1>3. /\ pass' \in {"declarations", "skipping"}
      /\ UNCHANGED <<texts, source_index, sorted_states>>
  BY <1>1 DEF DeclarationsStep, DeclarationsParseError, DeclarationsAccepted,
         DeclarationsRefused, DeclarationsBlockRefused, SkipStatement, SkipEndOfText
<1>4. \/ file_states' = file_states
      \/ \E r : file_states' = [file_states EXCEPT ![CurrentFile] = Continue(r)]
  <2>1. CASE DeclarationsParseError
    BY <2>1 DEF DeclarationsParseError, Store
  <2>2. CASE DeclarationsAccepted
    BY <2>2 DEF DeclarationsAccepted, Store
  <2>3. CASE DeclarationsRefused
    BY <2>3 DEF DeclarationsRefused, Store
  <2>4. CASE DeclarationsBlockRefused
    BY <2>4 DEF DeclarationsBlockRefused, Store
  <2>5. CASE SkipStatement
    BY <2>5 DEF SkipStatement, Store
  <2>6. CASE SkipEndOfText
    BY <2>6 DEF SkipEndOfText
  <2> QED
    BY <2>1, <2>2, <2>3, <2>4, <2>5, <2>6 DEF DeclarationsStep
<1>5. CASE file_states' = file_states
  BY <1>1, <1>3, <1>5 DEF EvalInv, FilesInv, EvalStep, SameNames
<1>6. ASSUME NEW r, file_states' = [file_states EXCEPT ![CurrentFile] = Continue(r)]
      PROVE  EvalStep
  <2>1. FileStates(file_states') /\ SameNames(file_states', file_states)
    <3>1. FilesInv /\ FileStates(file_states)
      BY DEF EvalInv, FilesInv
    <3>2. PICK f \in AllFiles : f = CurrentFile
      BY <1>2
    <3>3. PICK s : s = Continue(r)
      OBVIOUS
    <3>4. /\ IsFileState(s) /\ s.package_name = file_states[f].package_name
          /\ s.imports = file_states[f].imports
      BY <1>2, <3>1, <3>2, <3>3, ReadFile DEF NameOf
    <3>5. file_states' = [file_states EXCEPT ![f] = s]
      BY <1>6, <3>2, <3>3
    <3>6. /\ FileStates([file_states EXCEPT ![f] = s])
          /\ SameNames([file_states EXCEPT ![f] = s], file_states)
      BY <3>1, <3>4, StoredFile
    <3> QED
      BY <3>5, <3>6
  <2> QED
    BY <1>1, <1>3, <2>1 DEF EvalStep
<1> QED
  BY <1>4, <1>5, <1>6

(* Every step is one that reads or one of these.                           *)
LEMMA StepKinds ==
  ASSUME EvalInv, Next
  PROVE  \/ LearnStep \/ EvalStep
         \/ EndOfPass("packages", "imports") \/ EndOfPass("imports", "unknown_imports")
         \/ CheckUnknownImports \/ EvalPackageStatements
         \/ SortTakesFile \/ SortTakesNone \/ SortEnds
         \/ EvalImports \/ Return \/ DeclarationsEndOfText \/ StackOverflow
<1>1. PackagesStep => LearnStep
  BY PackagesLearn DEF EvalInv
<1>2. ImportsStep => LearnStep
  BY ImportsLearn DEF EvalInv
<1>3. DeclarationsStep => EvalStep
  BY DeclarationsEval
<1> QED
  BY <1>1, <1>2, <1>3 DEF Next, PackagesStep, ImportsStep, DeclarationsStep

-----------------------------------------------------------------------------
(* The invariant                                                           *)

LEMMA InitInv == Init => EvalInv
<1> SUFFICES ASSUME Init PROVE EvalInv
  OBVIOUS
<1>1. Len(texts) \in Nat /\ AllFiles = 1 .. Len(texts)
  <2>1. texts \in Seq(Seq(Chunks(STRING)))
    BY TextsAssumption DEF Init
  <2> QED
    BY <2>1 DEF AllFiles
<1>2. FileStates(file_states)
  BY DEF Init, FileStates, IsFileState, NewFileState
<1>3. sorted_states = <<>> /\ source_index = 1 /\ pass = "packages"
  BY DEF Init
<1>4. FilesInv
  BY <1>1, <1>2, <1>3 DEF FilesInv
<1>5. ResolvedPackages = {} /\ ToSet(sorted_states) = {}
  BY <1>3 DEF ResolvedPackages, ToSet
<1>6. SortInv
  BY <1>3, <1>5, FS_EmptySet DEF SortInv
<1> QED
  BY <1>4, <1>6 DEF EvalInv

(* As long as nothing is sorted, SortInv is about nothing.                 *)
LEMMA LearnInv ==
  ASSUME EvalInv, LearnStep
  PROVE  EvalInv'
<1>1. /\ pass' \in {"packages", "imports"} /\ sorted_states' = <<>> /\ texts' = texts
      /\ source_index' \in Nat \ {0} /\ FileStates(file_states')
  BY DEF EvalInv, FilesInv, SortInv, LearnStep
<1>2. AllFiles' = AllFiles /\ Len(texts)' = Len(texts)
  BY <1>1 DEF AllFiles
<1>3. FileStates(file_states)'
  BY <1>1, <1>2 DEF FileStates
<1>4. FilesInv'
  BY <1>1, <1>2, <1>3 DEF EvalInv, FilesInv
<1>5. ResolvedPackages' = {} /\ ToSet(sorted_states)' = {}
  BY <1>1 DEF ResolvedPackages, ToSet
<1>6. IsFiniteSet({}) /\ Cardinality({}) = 0 /\ Len(<<>>) = 0 /\ DOMAIN <<>> = {}
  BY FS_EmptySet
<1>7. /\ IsFiniteSet(ResolvedPackages)' /\ Cardinality(ResolvedPackages)' = 0
      /\ IsFiniteSet(ToSet(sorted_states))' /\ Cardinality(ToSet(sorted_states))' = 0
      /\ Len(sorted_states)' = 0 /\ (DOMAIN sorted_states)' = {}
  BY <1>1, <1>5, <1>6
<1>8. SortInv'
  BY <1>1, <1>7 DEF SortInv
<1> QED
  BY <1>4, <1>8 DEF EvalInv

(* The names of the files and the sorted files stay: so does their order.  *)
SameOrder ==
  /\ UNCHANGED <<texts, sorted_states>>
  /\ SameNames(file_states', file_states)

LEMMA SameOrderKept ==
  ASSUME EvalInv, SameOrder
  PROVE  /\ ResolvedPackages' = ResolvedPackages
         /\ \A f \in AllFiles : NameOf(f)' = NameOf(f) /\ ImportsOf(f)' = ImportsOf(f)
         /\ \A k \in DOMAIN sorted_states : sorted_states[k] \in AllFiles
<1>1. \A f \in AllFiles : NameOf(f)' = NameOf(f) /\ ImportsOf(f)' = ImportsOf(f)
  BY DEF SameOrder, SameNames, NameOf, ImportsOf, ToSet
<1>2. \A k \in DOMAIN sorted_states : sorted_states[k] \in AllFiles
  BY DEF EvalInv, FilesInv
<1>3. ToSet(sorted_states)' = ToSet(sorted_states) /\ ToSet(sorted_states) \subseteq AllFiles
  BY <1>2 DEF SameOrder, ToSet
<1>4. ResolvedPackages' = ResolvedPackages
  BY <1>1, <1>3 DEF ResolvedPackages
<1> QED
  BY <1>1, <1>2, <1>4

LEMMA SameOrderInv ==
  ASSUME EvalInv, SameOrder,
         FileStates(file_states'), source_index' \in Nat \ {0},
         pass' \in {"packages", "imports", "unknown_imports", "create"}
           => pass \in {"packages", "imports", "unknown_imports", "create"},
         pass' \in {"unknown_imports", "create", "sort"} => source_index' = 1,
         pass' \in {"evaluate", "declarations", "skipping"}
           => Len(sorted_states) = Len(texts),
         pass' \in {"declarations", "skipping"} => source_index' <= Len(texts)
  PROVE  EvalInv'
<1> USE DEF SameOrder
<1>1. AllFiles' = AllFiles /\ Len(texts)' = Len(texts)
  BY DEF AllFiles
<1>2. FileStates(file_states)'
  BY <1>1 DEF FileStates
<1>3. FilesInv'
  BY <1>1, <1>2 DEF EvalInv, FilesInv
<1>4. /\ IsFiniteSet(ResolvedPackages)'
      /\ Cardinality(ResolvedPackages)' = Len(sorted_states)'
      /\ IsFiniteSet(ToSet(sorted_states))'
      /\ Cardinality(ToSet(sorted_states))' = Len(sorted_states)'
  BY SameOrderKept DEF EvalInv, SortInv
<1>5. \A i, j \in (DOMAIN sorted_states)' :
        NameOf(sorted_states[i])' = NameOf(sorted_states[j])' => i = j
  BY SameOrderKept DEF EvalInv, SortInv
<1>6. ASSUME NEW k \in (DOMAIN sorted_states)'
      PROVE  ImportsOf(sorted_states[k])'
               \subseteq {NameOf(sorted_states[j])' : j \in 1 .. k - 1}
  <2>1. DOMAIN sorted_states = 1 .. Len(sorted_states) /\ Len(sorted_states) \in Nat
    BY DEF EvalInv, FilesInv
  <2>2. \A j \in 1 .. k - 1 : j \in DOMAIN sorted_states
    BY <2>1
  <2>3. ImportsOf(sorted_states[k]) \subseteq {NameOf(sorted_states[j]) : j \in 1 .. k - 1}
    BY DEF EvalInv, SortInv
  <2>4. \A j \in DOMAIN sorted_states :
          NameOf(sorted_states[j])' = NameOf(sorted_states[j])
    BY SameOrderKept
  <2>5. ImportsOf(sorted_states[k])' = ImportsOf(sorted_states[k])
    BY SameOrderKept
  <2> QED
    BY <2>2, <2>3, <2>4, <2>5
<1>7. SortInv'
  BY <1>1, <1>4, <1>5, <1>6 DEF EvalInv, SortInv
<1> QED
  BY <1>3, <1>7 DEF EvalInv

LEMMA SortTakesInv ==
  ASSUME EvalInv, SortTakesFile
  PROVE  EvalInv'
<1>1. /\ pass = "sort" /\ \E f \in AllFiles : Resolvable(f)
      /\ sorted_states' = Append(sorted_states, FirstResolvable)
      /\ UNCHANGED <<texts, file_states, pass, source_index>>
  BY DEF SortTakesFile
<1>2. PICK m \in AllFiles : m = FirstResolvable /\ Resolvable(m)
  BY <1>1, FirstResolvableIs DEF EvalInv
<1>3. PICK n \in Nat : n = Len(sorted_states)
  BY DEF EvalInv, FilesInv
<1>4. /\ sorted_states' \in Seq(AllFiles) /\ Len(sorted_states') = n + 1
      /\ \A i \in 1 .. n : sorted_states'[i] = sorted_states[i]
      /\ sorted_states'[n + 1] = m
      /\ DOMAIN sorted_states' = 1 .. n + 1
  BY <1>1, <1>2, <1>3, AppendProperties DEF EvalInv, FilesInv
<1>5. DOMAIN sorted_states = 1 .. n
  BY <1>3 DEF EvalInv, FilesInv
<1>6. FileStates(file_states)' /\ (AllFiles = 1 .. Len(texts))'
  BY <1>1 DEF EvalInv, FilesInv, FileStates, AllFiles
<1>7. FilesInv'
  BY <1>1, <1>4, <1>6 DEF EvalInv, FilesInv, AllFiles
<1>8. ToSet(sorted_states)' = ToSet(sorted_states) \cup {m}
  BY <1>4, <1>5 DEF ToSet
<1>9. \A f : NameOf(f)' = NameOf(f) /\ ImportsOf(f)' = ImportsOf(f)
  BY <1>1 DEF NameOf, ImportsOf
<1>10. ResolvedPackages' = ResolvedPackages \cup {NameOf(m)}
  BY <1>8, <1>9 DEF ResolvedPackages
<1>11. NameOf(m) \notin ResolvedPackages /\ m \notin ToSet(sorted_states)
  BY <1>2 DEF Resolvable, ResolvedPackages
<1>12. /\ IsFiniteSet(ResolvedPackages)' /\ Cardinality(ResolvedPackages)' = n + 1
       /\ IsFiniteSet(ToSet(sorted_states))' /\ Cardinality(ToSet(sorted_states))' = n + 1
  BY <1>3, <1>8, <1>10, <1>11, FS_AddElement DEF EvalInv, SortInv
<1>13. \A i \in 1 .. n : NameOf(sorted_states[i]) \in ResolvedPackages
  BY <1>5 DEF ResolvedPackages, ToSet
<1>14. \A i, j \in (DOMAIN sorted_states)' :
         NameOf(sorted_states[i])' = NameOf(sorted_states[j])' => i = j
  <2>1. \A i, j \in 1 .. n :
          NameOf(sorted_states[i]) = NameOf(sorted_states[j]) => i = j
    BY <1>5 DEF EvalInv, SortInv
  <2>2. \A i \in 1 .. n : NameOf(sorted_states[i])' = NameOf(sorted_states[i])
    BY <1>4, <1>9
  <2>3. NameOf(sorted_states[n + 1])' = NameOf(m)
    BY <1>4, <1>9
  <2>4. \A i \in 1 .. n + 1 : i \in 1 .. n \/ i = n + 1
    OBVIOUS
  <2> QED
    BY <1>4, <1>11, <1>13, <2>1, <2>2, <2>3, <2>4
<1>15. ASSUME NEW k \in (DOMAIN sorted_states)'
       PROVE  ImportsOf(sorted_states[k])'
                \subseteq {NameOf(sorted_states[j])' : j \in 1 .. k - 1}
  <2>1. \A j \in 1 .. n : NameOf(sorted_states[j])' = NameOf(sorted_states[j])
    BY <1>4, <1>9
  <2>2. CASE k \in 1 .. n
    <3>1. ImportsOf(sorted_states[k]) \subseteq {NameOf(sorted_states[j]) : j \in 1 .. k - 1}
      BY <1>5, <2>2 DEF EvalInv, SortInv
    <3>2. \A j \in 1 .. k - 1 : j \in 1 .. n
      BY <2>2
    <3>3. ImportsOf(sorted_states[k])' = ImportsOf(sorted_states[k])
      BY <1>4, <1>9, <2>2
    <3> QED
      BY <2>1, <3>1, <3>2, <3>3
  <2>3. CASE k = n + 1
    <3>1. ImportsOf(m) \subseteq {NameOf(sorted_states[j]) : j \in 1 .. n}
      BY <1>2, <1>5 DEF Resolvable, ResolvedPackages, ToSet
    <3>2. ImportsOf(sorted_states[k])' = ImportsOf(m)
      BY <1>4, <1>9, <2>3
    <3> QED
      BY <2>1, <2>3, <3>1, <3>2
  <2> QED
    BY <1>4, <2>2, <2>3
<1>16. SortInv'
  BY <1>1, <1>4, <1>12, <1>14, <1>15 DEF EvalInv, SortInv
<1> QED
  BY <1>7, <1>16 DEF EvalInv

LEMMA StepInv ==
  ASSUME EvalInv, [Next]_files_vars
  PROVE  EvalInv'
<1> USE DEF SameOrder
<1>1. /\ FileStates(file_states) /\ SameNames(file_states, file_states)
      /\ source_index \in Nat \ {0}
  BY DEF EvalInv, FilesInv, SameNames
<1>2. CASE UNCHANGED files_vars
  BY <1>1, <1>2, SameOrderInv DEF files_vars, EvalInv, SortInv
<1>3. CASE LearnStep
  BY <1>3, LearnInv
<1>4. CASE EvalStep
  BY <1>1, <1>4, SameOrderInv DEF EvalStep, EvalInv, SortInv
<1>5. ASSUME NEW p \in {"packages", "imports"}, NEW next \in {"imports", "unknown_imports"},
             EndOfPass(p, next)
      PROVE  EvalInv'
  BY <1>1, <1>5, SameOrderInv DEF EndOfPass
<1>6. CASE CheckUnknownImports
  BY <1>1, <1>6, SameOrderInv DEF CheckUnknownImports, EvalInv, SortInv
<1>7. CASE EvalPackageStatements
  BY <1>1, <1>7, SameOrderInv DEF EvalPackageStatements, EvalInv, SortInv
<1>8. CASE SortTakesFile
  BY <1>8, SortTakesInv
<1>9. CASE SortTakesNone
  BY <1>2, <1>9 DEF SortTakesNone
<1>10. CASE SortEnds
  <2>1. Len(sorted_states) = Len(texts)
    BY <1>10 DEF SortEnds, Unresolved, EvalInv, SortInv
  <2> QED
    BY <1>1, <1>10, <2>1, SameOrderInv DEF SortEnds, EvalInv, SortInv
<1>11. CASE EvalImports
  <2>1. /\ UNCHANGED <<texts, file_states, source_index, sorted_states>>
        /\ pass = "evaluate" /\ pass' \in {"done", "declarations"}
        /\ source_index <= Len(texts)
    BY <1>11 DEF EvalImports, AtFile
  <2> QED
    BY <1>1, <2>1, SameOrderInv DEF EvalInv, SortInv
<1>12. CASE Return
  BY <1>1, <1>12, SameOrderInv DEF Return, EvalInv, SortInv
<1>13. CASE DeclarationsEndOfText
  <2>1. /\ UNCHANGED <<texts, file_states, sorted_states>>
        /\ pass = "declarations" /\ pass' \in {"evaluate", "done"}
        /\ source_index' \in {source_index, source_index + 1}
    BY <1>13 DEF DeclarationsEndOfText, NextFile, SameFile
  <2> QED
    BY <1>1, <2>1, SameOrderInv DEF EvalInv, SortInv
<1>14. CASE StackOverflow
  BY <1>1, <1>14, SameOrderInv DEF StackOverflow
<1>15. EndOfPass("packages", "imports") => EvalInv'
  BY <1>5
<1>16. EndOfPass("imports", "unknown_imports") => EvalInv'
  BY <1>5
<1> QED
  BY <1>2, <1>3, <1>4, <1>6, <1>7, <1>8, <1>9, <1>10, <1>11, <1>12, <1>13, <1>14,
     <1>15, <1>16, StepKinds

LEMMA Invariant == Spec => []EvalInv
<1>1. Init => EvalInv
  BY InitInv
<1>2. EvalInv /\ [Next]_files_vars => EvalInv'
  BY StepInv
<1> QED
  BY <1>1, <1>2, PTL DEF Spec

-----------------------------------------------------------------------------
(* Files that cannot be sorted                                             *)

(* When as many files are sorted as there are, all of them are.            *)
LEMMA AllSorted ==
  ASSUME EvalInv, Len(sorted_states) = Len(texts)
  PROVE  ToSet(sorted_states) = AllFiles
<1>1. AllFiles = 1 .. Len(texts) /\ Len(texts) \in Nat
  BY DEF EvalInv, FilesInv
<1>2. IsFiniteSet(AllFiles) /\ Cardinality(AllFiles) = Len(texts)
  <2>1. PICK n \in Nat : n = Len(texts)
    BY <1>1
  <2>2. IsFiniteSet(1 .. n)
    BY FS_Interval
  <2>3. Cardinality(1 .. n) = IF 1 > n THEN 0 ELSE n - 1 + 1
    BY FS_Interval
  <2>4. Cardinality(1 .. n) = n
    BY <2>3
  <2> QED
    BY <1>1, <2>1, <2>2, <2>4
<1>3. ToSet(sorted_states) \subseteq AllFiles
  BY DEF EvalInv, FilesInv, ToSet
<1>4. Cardinality(ToSet(sorted_states)) = Cardinality(AllFiles)
  BY <1>2 DEF EvalInv, SortInv
<1> QED
  BY <1>2, <1>3, <1>4, FS_Subset

LEMMA UnsortableNeverSorted ==
  ASSUME EvalInv, Unsortable
  PROVE  Len(sorted_states) # Len(texts)
<1> SUFFICES ASSUME Len(sorted_states) = Len(texts) PROVE FALSE
  OBVIOUS
<1>1. DOMAIN sorted_states = 1 .. Len(sorted_states) /\ Len(sorted_states) \in Nat
  BY DEF EvalInv, FilesInv
<1>2. \A f \in AllFiles : \E k \in DOMAIN sorted_states : sorted_states[k] = f
  BY AllSorted DEF ToSet
<1>3. ASSUME NEW f \in AllFiles, NEW g \in AllFiles, f # g, NameOf(f) = NameOf(g)
      PROVE  FALSE
  <2>1. PICK i \in DOMAIN sorted_states : sorted_states[i] = f
    BY <1>2
  <2>2. PICK j \in DOMAIN sorted_states : sorted_states[j] = g
    BY <1>2
  <2> QED
    BY <1>3, <2>1, <2>2 DEF EvalInv, SortInv
<1>4. ASSUME NEW circle \in SUBSET AllFiles, circle # {},
             \A f \in circle : \E g \in circle : NameOf(g) \in ImportsOf(f)
      PROVE  FALSE
  <2> DEFINE places == {k \in DOMAIN sorted_states : sorted_states[k] \in circle}
  <2>1. places \subseteq Nat /\ places # {}
    BY <1>1, <1>2, <1>4
  <2>2. PICK k \in places : \A i \in places : k <= i
    BY <2>1, LeastNat
  <2>3. PICK g \in circle : NameOf(g) \in ImportsOf(sorted_states[k])
    BY <1>4, <2>2
  <2>4. PICK j \in 1 .. k - 1 : NameOf(sorted_states[j]) = NameOf(g)
    BY <2>2, <2>3 DEF EvalInv, SortInv
  <2>5. PICK i \in DOMAIN sorted_states : sorted_states[i] = g
    BY <1>2, <1>4
  <2>6. j \in DOMAIN sorted_states
    BY <1>1, <2>2
  <2>7. i = j
    BY <2>4, <2>5, <2>6 DEF EvalInv, SortInv
  <2> QED
    BY <1>1, <2>2, <2>5, <2>7
<1> QED
  BY <1>3, <1>4 DEF Unsortable

LEMMA UnsortableStays ==
  ASSUME EvalInv, Unsortable, [Next]_files_vars
  PROVE  Unsortable'
<1>1. pass = "sort"
  BY DEF Unsortable
<1>2. ASSUME UNCHANGED <<texts, file_states, pass>>
      PROVE  Unsortable'
  BY <1>2 DEF Unsortable, AllFiles, NameOf, ImportsOf
<1>3. CASE UNCHANGED files_vars
  BY <1>2, <1>3 DEF files_vars
<1>4. CASE SortTakesFile
  BY <1>2, <1>4 DEF SortTakesFile
<1>5. CASE SortTakesNone
  BY <1>2, <1>5 DEF SortTakesNone, files_vars
<1>6. ~SortEnds
  BY UnsortableNeverSorted DEF SortEnds, Unresolved, EvalInv, SortInv
<1>7. ~LearnStep /\ ~EvalStep
  BY <1>1 DEF LearnStep, EvalStep
<1>8. /\ ~EndOfPass("packages", "imports") /\ ~EndOfPass("imports", "unknown_imports")
      /\ ~CheckUnknownImports /\ ~EvalPackageStatements /\ ~EvalImports /\ ~Return
      /\ ~DeclarationsEndOfText /\ ~StackOverflow
  BY <1>1 DEF EndOfPass, CheckUnknownImports, EvalPackageStatements, EvalImports, Return,
              DeclarationsEndOfText, StackOverflow
<1> QED
  BY <1>3, <1>4, <1>5, <1>6, <1>7, <1>8, StepKinds

(* Once the sort has files before it that import each other in turn, or    *)
(* two files of one package, eval_files does not return, for any texts and *)
(* any stack: the loop of get_sorted_states has no other way out.          *)
THEOREM UnsortableNeverEnds == Spec => NeverEndsUnsortable
<1>1. Spec => []EvalInv /\ [][Next]_files_vars
  BY Invariant, PTL DEF Spec
<1>2. EvalInv /\ [Next]_files_vars /\ Unsortable => Unsortable'
  BY UnsortableStays
<1>3. Unsortable => ~Ended
  BY DEF Unsortable, Ended
<1> QED
  BY <1>1, <1>2, <1>3, PTL DEF NeverEndsUnsortable
-----------------------------------------------------------------------------
(* The refinement of ImportOrder: initial states map to initial states,    *)
(* and every step maps to a step or changes nothing that ImportOrder sees. *)

(* What ImportOrder sees of the files                                      *)
PackageOfFile == [f \in AllFiles |-> NameOf(f)]
NeedsOfFile   == [f \in AllFiles |-> ImportsOf(f)]

LEMMA SameFiles ==
  ASSUME EvalInv, SameOrder
  PROVE  PackageOfFile' = PackageOfFile /\ NeedsOfFile' = NeedsOfFile
<1>1. AllFiles' = AllFiles
  BY DEF SameOrder, AllFiles
<1>2. \A f \in AllFiles : NameOf(f)' = NameOf(f) /\ ImportsOf(f)' = ImportsOf(f)
  BY SameOrderKept
<1> QED
  BY <1>1, <1>2 DEF PackageOfFile, NeedsOfFile

LEMMA FilesSeen == Order!Files = AllFiles
BY DEF Order!Files

(* The steps of ImportOrder in these terms                                 *)
LEMMA Stutters ==
  ASSUME PackageOfFile' = PackageOfFile, NeedsOfFile' = NeedsOfFile,
         Finished' = Finished, Outcome' = Outcome
  PROVE  [Order!Next]_(Order!order_vars)
BY DEF Order!order_vars, PackageOfFile, NeedsOfFile

LEMMA Fails ==
  ASSUME PackageOfFile' = PackageOfFile, NeedsOfFile' = NeedsOfFile,
         Finished' = Finished, Outcome = "running", Outcome' = "failed"
  PROVE  [Order!Next]_(Order!order_vars)
BY DEF Order!Next, Order!Fail, PackageOfFile, NeedsOfFile

LEMMA Succeeds ==
  ASSUME PackageOfFile' = PackageOfFile, NeedsOfFile' = NeedsOfFile,
         Finished' = Finished, Finished = AllFiles,
         Outcome = "running", Outcome' = "success"
  PROVE  [Order!Next]_(Order!order_vars)
BY FilesSeen DEF Order!Next, Order!Succeed, PackageOfFile, NeedsOfFile

LEMMA Learns ==
  ASSUME AllFiles' = AllFiles, Finished = {}, Finished' = {},
         Outcome = "running", Outcome' = "running"
  PROVE  [Order!Next]_(Order!order_vars)
<1>1. Order!Learn
  BY FilesSeen DEF Order!Learn
<1> QED
  BY <1>1 DEF Order!Next

LEMMA Finishes ==
  ASSUME PackageOfFile' = PackageOfFile, NeedsOfFile' = NeedsOfFile,
         NEW f \in AllFiles, f \notin Finished, Finished' = Finished \cup {f},
         ImportsOf(f) \subseteq {NameOf(g) : g \in Finished}, Finished \subseteq AllFiles,
         Outcome = "running", Outcome' = "running"
  PROVE  [Order!Next]_(Order!order_vars)
<1>1. {PackageOfFile[g] : g \in Finished} = {NameOf(g) : g \in Finished}
  BY DEF PackageOfFile
<1>2. NeedsOfFile[f] = ImportsOf(f)
  BY DEF NeedsOfFile
<1>3. Order!Finish(f)
  BY <1>1, <1>2 DEF Order!Finish, PackageOfFile, NeedsOfFile
<1> QED
  BY <1>3, FilesSeen DEF Order!Next

-----------------------------------------------------------------------------
(* What is finished in which pass                                          *)

LEMMA NoneFinished ==
  /\ pass \in {"packages", "imports", "unknown_imports", "create", "sort"} => Finished = {}
  /\ sorted_states = <<>> => Finished = {}
  /\ source_index = 1 /\ sorted_states \in Seq(AllFiles) => Finished = {}
BY DEF Finished, PassesAfterSort

LEMMA NoneFinishedNext ==
  /\ pass' \in {"packages", "imports", "unknown_imports", "create", "sort"} => Finished' = {}
  /\ sorted_states' = <<>> => Finished' = {}
BY DEF Finished, PassesAfterSort

LEMMA SameFinished ==
  ASSUME UNCHANGED <<source_index, sorted_states>>,
         pass \in PassesAfterSort, pass' \in PassesAfterSort
  PROVE  Finished' = Finished
BY DEF Finished, PassesAfterSort

LEMMA AllFinished ==
  ASSUME EvalInv, pass = "evaluate", ~AtFile
  PROVE  Finished = AllFiles
<1>1. Len(sorted_states) = Len(texts) /\ Len(texts) \in Nat /\ source_index \in Nat
  BY DEF EvalInv, FilesInv, SortInv
<1>2. DOMAIN sorted_states = 1 .. Len(sorted_states)
  BY DEF EvalInv, FilesInv
<1>3. \A k \in DOMAIN sorted_states : k < source_index
  BY <1>1, <1>2 DEF AtFile
<1>4. Finished = ToSet(sorted_states)
  BY <1>3 DEF Finished, PassesAfterSort, ToSet
<1> QED
  BY <1>1, <1>4, AllSorted

(* The end of a file's declarations                                        *)
LEMMA FileFinished ==
  ASSUME EvalInv, DeclarationsEndOfText, errors = <<>>
  PROVE  [Order!Next]_(Order!order_vars)
<1>1. /\ pass = "declarations" /\ pass' = "evaluate" /\ source_index' = source_index + 1
      /\ UNCHANGED <<texts, file_states, sorted_states>>
  BY DEF DeclarationsEndOfText, NextFile
<1>2. SameOrder
  BY <1>1 DEF SameOrder, SameNames
<1>3. source_index \in DOMAIN sorted_states /\ sorted_states[source_index] \in AllFiles
  BY <1>1, SortedFile DEF EvalInv, SortInv, AtFile
<1>4. PICK f \in AllFiles : f = sorted_states[source_index]
  BY <1>3
<1>5. DOMAIN sorted_states = 1 .. Len(sorted_states) /\ Len(sorted_states) \in Nat
      /\ source_index \in Nat
  BY DEF EvalInv, FilesInv
<1>6. Finished = {sorted_states[k] : k \in 1 .. source_index - 1}
  <2>1. {k \in DOMAIN sorted_states : k < source_index} = 1 .. source_index - 1
    BY <1>3, <1>5
  <2> QED
    BY <1>1, <2>1 DEF Finished, PassesAfterSort
<1>7. Finished' = Finished \cup {f}
  <2>1. {k \in DOMAIN sorted_states : k < source_index + 1}
          = (1 .. source_index - 1) \cup {source_index}
    BY <1>3, <1>5
  <2>2. Finished' = {sorted_states[k] : k \in (1 .. source_index - 1) \cup {source_index}}
    BY <1>1, <2>1 DEF Finished, PassesAfterSort
  <2> QED
    BY <1>4, <1>6, <2>2
<1>8. f \notin Finished
  <2>1. ASSUME NEW k \in 1 .. source_index - 1, sorted_states[k] = f
        PROVE  FALSE
    <3>1. k \in DOMAIN sorted_states /\ k # source_index
      BY <1>3, <1>5
    <3> QED
      BY <1>3, <1>4, <2>1, <3>1 DEF EvalInv, SortInv
  <2> QED
    BY <1>6, <2>1
<1>9. ImportsOf(f) \subseteq {NameOf(g) : g \in Finished}
  <2>1. ImportsOf(f) \subseteq {NameOf(sorted_states[j]) : j \in 1 .. source_index - 1}
    BY <1>3, <1>4 DEF EvalInv, SortInv
  <2> QED
    BY <1>6, <2>1
<1>10. Finished \subseteq AllFiles
  BY <1>3, <1>5, <1>6 DEF EvalInv, FilesInv
<1>11. Outcome = "running" /\ Outcome' = "running"
  BY <1>1 DEF Outcome
<1> QED
  BY <1>2, <1>4, <1>7, <1>8, <1>9, <1>10, <1>11, SameFiles, Finishes

-----------------------------------------------------------------------------
(* Steps map to steps                                                      *)

LEMMA StepRefines ==
  ASSUME EvalInv, [Next]_files_vars
  PROVE  [Order!Next]_(Order!order_vars)
<1> DEFINE Same == PackageOfFile' = PackageOfFile /\ NeedsOfFile' = NeedsOfFile
<1>0. SameOrder => Same
  BY SameFiles
<1>1. ASSUME UNCHANGED <<texts, file_states>>
      PROVE  Same
  BY <1>1 DEF PackageOfFile, NeedsOfFile, AllFiles, NameOf, ImportsOf
<1> HIDE DEF Same
<1>2. CASE UNCHANGED files_vars
  <2>1. Same /\ Finished' = Finished /\ Outcome' = Outcome
    BY <1>1, <1>2 DEF files_vars, Finished, Outcome
  <2> QED
    BY <2>1, Stutters DEF Same
<1>3. CASE LearnStep
  <2>1. pass \in {"packages", "imports"} /\ pass' = pass /\ texts' = texts
    BY <1>3 DEF LearnStep
  <2>2. Finished = {} /\ Finished' = {}
    BY <2>1, NoneFinished, NoneFinishedNext
  <2>3. Outcome = "running" /\ Outcome' = "running"
    BY <2>1 DEF Outcome
  <2>4. AllFiles' = AllFiles
    BY <2>1 DEF AllFiles
  <2> QED
    BY <2>2, <2>3, <2>4, Learns
<1>4. CASE EvalStep
  <2>1. /\ pass \in {"declarations", "skipping"} /\ pass' \in {"declarations", "skipping"}
        /\ UNCHANGED <<source_index, sorted_states>> /\ SameOrder
    BY <1>4 DEF EvalStep, SameOrder
  <2>2. Finished' = Finished
    BY <2>1, SameFinished DEF PassesAfterSort
  <2>3. Outcome' = Outcome
    BY <2>1 DEF Outcome
  <2> QED
    BY <1>0, <2>1, <2>2, <2>3, Stutters DEF Same
<1>5. ASSUME NEW p \in {"packages", "imports"}, NEW next \in {"imports", "unknown_imports"},
             EndOfPass(p, next)
      PROVE  [Order!Next]_(Order!order_vars)
  <2>1. /\ pass \in {"packages", "imports"} /\ UNCHANGED <<texts, file_states, errors>>
        /\ sorted_states = <<>> /\ sorted_states' = <<>>
        /\ pass' = IF errors # <<>> THEN "done" ELSE next
    BY <1>5 DEF EndOfPass, EvalInv, SortInv
  <2>2. Same /\ Finished = {} /\ Finished' = {} /\ Outcome = "running"
    BY <1>1, <2>1, NoneFinished, NoneFinishedNext DEF Outcome
  <2>3. Outcome' = IF errors # <<>> THEN "failed" ELSE "running"
    BY <2>1 DEF Outcome
  <2> QED
    BY <2>2, <2>3, Stutters, Fails DEF Same
<1>6. CASE CheckUnknownImports
  <2>1. /\ pass = "unknown_imports" /\ UNCHANGED <<texts, file_states>>
        /\ sorted_states = <<>> /\ sorted_states' = <<>>
        /\ pass' = IF errors' # <<>> THEN "done" ELSE "create"
    BY <1>6 DEF CheckUnknownImports, EvalInv, SortInv
  <2>2. Same /\ Finished = {} /\ Finished' = {} /\ Outcome = "running"
    BY <1>1, <2>1, NoneFinished, NoneFinishedNext DEF Outcome
  <2>3. Outcome' = IF errors' # <<>> THEN "failed" ELSE "running"
    BY <2>1 DEF Outcome
  <2> QED
    BY <2>2, <2>3, Stutters, Fails DEF Same
<1>7. ASSUME pass \in {"create", "sort"}, pass' = "sort", UNCHANGED <<texts, file_states>>
      PROVE  [Order!Next]_(Order!order_vars)
  <2>1. Same /\ Finished = {} /\ Finished' = {} /\ Outcome = "running" /\ Outcome' = "running"
    BY <1>1, <1>7, NoneFinished, NoneFinishedNext DEF Outcome
  <2> QED
    BY <2>1, Stutters DEF Same
<1>8. EvalPackageStatements \/ SortTakesFile \/ SortTakesNone
        => [Order!Next]_(Order!order_vars)
  BY <1>7 DEF EvalPackageStatements, SortTakesFile, SortTakesNone, files_vars
<1>9. CASE SortEnds
  <2>1. /\ pass = "sort" /\ pass' = "evaluate" /\ source_index' = 1
        /\ UNCHANGED <<texts, file_states, sorted_states>>
    BY <1>9 DEF SortEnds, EvalInv, SortInv
  <2>2. Finished = {} /\ Outcome = "running" /\ Outcome' = "running"
    BY <2>1, NoneFinished DEF Outcome
  <2>3. Finished' = {}
    BY <2>1 DEF Finished, EvalInv, FilesInv
  <2> QED
    BY <1>1, <2>1, <2>2, <2>3, Stutters DEF Same
<1>10. CASE EvalImports
  <2>1. /\ pass = "evaluate" /\ UNCHANGED <<texts, file_states, source_index, sorted_states>>
        /\ pass' = IF errors' # <<>> THEN "done" ELSE "declarations"
    BY <1>10 DEF EvalImports
  <2>2. Same /\ Finished' = Finished /\ Outcome = "running"
    BY <1>1, <2>1, SameFinished DEF Outcome, PassesAfterSort
  <2>3. Outcome' = IF errors' # <<>> THEN "failed" ELSE "running"
    BY <2>1 DEF Outcome
  <2> QED
    BY <2>2, <2>3, Stutters, Fails DEF Same
<1>11. CASE Return
  <2>1. /\ pass = "evaluate" /\ pass' = "done" /\ ~AtFile
        /\ UNCHANGED <<texts, file_states, source_index, sorted_states, errors>>
    BY <1>11 DEF Return
  <2>2. Same /\ Finished' = Finished /\ Outcome = "running"
    BY <1>1, <2>1, SameFinished DEF Outcome, PassesAfterSort
  <2>3. Outcome' = IF errors # <<>> THEN "failed" ELSE "success"
    BY <2>1 DEF Outcome
  <2> QED
    BY <2>1, <2>2, <2>3, AllFinished, Fails, Succeeds DEF Same
<1>12. CASE DeclarationsEndOfText
  <2>1. CASE errors = <<>>
    BY <1>12, <2>1, FileFinished
  <2>2. CASE errors # <<>>
    <3>1. /\ pass = "declarations" /\ pass' = "done"
          /\ UNCHANGED <<texts, file_states, source_index, sorted_states, errors>>
      BY <1>12, <2>2 DEF DeclarationsEndOfText, SameFile
    <3>2. Same /\ Finished' = Finished /\ Outcome = "running" /\ Outcome' = "failed"
      BY <1>1, <2>2, <3>1, SameFinished DEF Outcome, PassesAfterSort
    <3> QED
      BY <3>2, Fails DEF Same
  <2> QED
    BY <2>1, <2>2
<1>13. CASE StackOverflow
  <2>1. /\ pass \in {"packages", "imports", "declarations", "skipping"} /\ pass' = "aborted"
        /\ UNCHANGED <<texts, file_states, source_index, sorted_states>>
    BY <1>13 DEF StackOverflow
  <2>2. Same /\ Outcome = "running" /\ Outcome' = "failed"
    BY <1>1, <2>1 DEF Outcome
  <2>3. CASE pass \in {"packages", "imports"}
    <3>1. sorted_states = <<>> /\ sorted_states' = <<>>
      BY <2>1, <2>3 DEF EvalInv, SortInv
    <3> QED
      BY <2>2, <3>1, NoneFinished, NoneFinishedNext, Fails DEF Same
  <2>4. CASE pass \in {"declarations", "skipping"}
    BY <2>1, <2>2, <2>4, SameFinished, Fails DEF Same, PassesAfterSort
  <2> QED
    BY <2>1, <2>3, <2>4
<1>14. EndOfPass("packages", "imports") => [Order!Next]_(Order!order_vars)
  BY <1>5
<1>15. EndOfPass("imports", "unknown_imports") => [Order!Next]_(Order!order_vars)
  BY <1>5
<1> QED
  BY <1>2, <1>3, <1>4, <1>6, <1>8, <1>9, <1>10, <1>11, <1>12, <1>13, <1>14, <1>15, StepKinds

LEMMA InitRefines == Init => Order!Init
<1> SUFFICES ASSUME Init PROVE Order!Init
  OBVIOUS
<1>1. Finished = {} /\ Outcome = "running"
  BY NoneFinished DEF Init, Outcome
<1> QED
  BY <1>1 DEF Order!Init

(* eval_files evaluates each file once and after all the packages that it  *)
(* imports, and answers no error only when all are evaluated, for any      *)
(* lists of texts and any stack.                                           *)
THEOREM ImplementsOrder == Spec => ImplementsImportOrder
<1>1. Spec => Init /\ []EvalInv /\ [][Next]_files_vars
  BY Invariant, PTL DEF Spec
<1>2. EvalInv /\ [Next]_files_vars => [Order!Next]_(Order!order_vars)
  BY StepRefines
<1> QED
  BY <1>1, <1>2, InitRefines, PTL DEF ImplementsImportOrder, Order!Spec

-----------------------------------------------------------------------------
(* A turn of a pass that reads, by what becomes of the statement read      *)

ReaderOf(f) == file_states[f].reader
TextOf(f) == file_states[f].text
TextLeft(f) == TextAfter(ReaderOf(f), TextOf(f))

ReadingPasses == {"packages", "imports", "declarations", "skipping"}

(* File f goes on with reader p; the statement read gives it a name or an  *)
(* import at most.                                                         *)
TurnOf(f, p) ==
  /\ f = CurrentFile /\ f \in AllFiles /\ AtFile /\ CanRead /\ ~StackFull(ReaderOf(f))
  /\ file_states'[f].reader = p /\ file_states'[f].text = TextLeft(f)
  /\ \A g \in AllFiles : g # f => file_states'[g] = file_states[g]
  /\ file_states'[f].package_name \in {NameOf(f), Top(ReaderNext).name}
  /\ \/ file_states'[f].imports = file_states[f].imports
     \/ file_states'[f].imports = Append(file_states[f].imports, Top(ReaderNext).name)
  /\ UNCHANGED <<texts, packages, dependencies, sorted_states>>

SamePass == UNCHANGED <<pass, block_depth>>

KeepTurn(f) ==      \* it does not parse and is kept
  /\ TurnOf(f, ReaderNext) /\ IsError(ReaderNext) /\ SamePass
  /\ pass \in {"packages", "imports", "declarations"}
  /\ errors' = Append(errors, Error(source_index, f, FALSE))
BlankTurn(f) ==     \* it is blank
  /\ TurnOf(f, PumpStatusCode(ReaderNext)) /\ ~IsError(ReaderNext) /\ SamePass
  /\ pass \in {"packages", "imports"} /\ Top(ReaderNext).type = "NONE"
  /\ UNCHANGED errors
AcceptTurn(f) ==    \* it is accepted
  /\ TurnOf(f, PumpStatusCode(Accept(ReaderNext, f))) /\ ~IsError(ReaderNext) /\ SamePass
  /\ pass \in {"packages", "imports", "declarations"}
  /\ UNCHANGED errors
RewindTurn(f) ==    \* it is no import
  /\ TurnOf(f, PopRewind(ReaderNext)) /\ ~IsError(ReaderNext) /\ SamePass
  /\ pass = "imports" /\ source_index' = source_index + 1
  /\ UNCHANGED errors
RefuseTurn(f) ==    \* it is refused, and its block skipped
  /\ TurnOf(f, PumpStatusCode(ReaderNext)) /\ ~IsError(ReaderNext)
  /\ errors' = Append(errors, Error(source_index, f, TRUE))
  /\ \/ pass = "packages" /\ SamePass
     \/ pass = "declarations" /\ SamePass /\ ReaderNext.status # "BLOCK_BEGIN"
     \/ /\ pass = "declarations" /\ ReaderNext.status = "BLOCK_BEGIN"
        /\ pass' = "skipping" /\ block_depth' = 1
SkipTurn(f) ==      \* it is skipped
  /\ TurnOf(f, PumpStatusCode(ReaderNext))
  /\ pass = "skipping" /\ block_depth' = DepthAfter
  /\ pass' = IF block_depth' = 0 THEN "declarations" ELSE "skipping"
  /\ UNCHANGED errors

Turns(f) ==
  \/ KeepTurn(f) \/ BlankTurn(f) \/ AcceptTurn(f) \/ RewindTurn(f) \/ RefuseTurn(f)
  \/ SkipTurn(f)

(* Only the passes over all files go on to the next file.                  *)
Turn ==
  /\ \E f \in AllFiles : Turns(f)
  /\ \/ UNCHANGED source_index
     \/ pass \in {"packages", "imports"} /\ source_index' = source_index + 1
  /\ FileStates(file_states')
  /\ pass \in {"declarations", "skipping"} => SameNames(file_states', file_states)

LEMMA ReaderNextIs ==
  ASSUME NEW f, f = CurrentFile
  PROVE  /\ ReaderNext = ReadNext(ReaderOf(f), ChunkNext(TextOf(f)))
         /\ TextNext = TextLeft(f) /\ CanRead = CanReadNext(ReaderOf(f), TextOf(f) # <<>>)
         /\ Current.reader = ReaderOf(f)
BY DEF ReaderNext, TextNext, TextLeft, CanRead, Current, ReaderOf, TextOf, ChunkNext, TextAfter

(* What is stored is the state of the one file.                            *)
LEMMA StoredTurn ==
  ASSUME FilesInv, CurrentFile \in AllFiles, NEW s,
         file_states' = [file_states EXCEPT ![CurrentFile] = s]
  PROVE  /\ file_states'[CurrentFile] = s
         /\ \A g \in AllFiles : g # CurrentFile => file_states'[g] = file_states[g]
<1>1. DOMAIN file_states = AllFiles
  BY DEF FilesInv, FileStates
<1> QED
  BY <1>1

LEMMA ContinuedTurn ==
  ASSUME FilesInv, CurrentFile \in AllFiles, AtFile, CanRead, ~StackFull(Current.reader),
         NEW p, Store(Continue(p)),
         UNCHANGED <<texts, packages, dependencies, sorted_states>>
  PROVE  TurnOf(CurrentFile, p)
<1>1. PICK f \in AllFiles : f = CurrentFile
  OBVIOUS
<1>2. PICK s : s = Continue(p)
  OBVIOUS
<1>3. /\ s.reader = p /\ s.text = TextNext /\ s.package_name = NameOf(f)
      /\ s.imports = file_states[f].imports
  BY <1>1, <1>2, ReadFile
<1>4. file_states'[f] = s /\ \A g \in AllFiles : g # f => file_states'[g] = file_states[g]
  BY <1>1, <1>2, StoredTurn DEF Store
<1>5. TextNext = TextLeft(f) /\ Current.reader = ReaderOf(f)
  BY <1>1, ReaderNextIs
<1>6. TurnOf(f, p)
  BY <1>1, <1>3, <1>4, <1>5 DEF TurnOf
<1> QED
  BY <1>1, <1>6

(* The same for the two statements that change the file besides            *)
LEMMA FoundTurn ==
  ASSUME FilesInv, CurrentFile \in AllFiles, AtFile, CanRead, ~StackFull(Current.reader),
         NEW p, NEW n, n = Top(ReaderNext).name,
         \/ Store([Continue(p) EXCEPT !.package_name = n])
         \/ Store([Continue(p) EXCEPT !.imports = Append(@, n)]),
         UNCHANGED <<texts, packages, dependencies, sorted_states>>
  PROVE  TurnOf(CurrentFile, p)
<1>1. PICK f \in AllFiles : f = CurrentFile
  OBVIOUS
<1>2. PICK s : s = Continue(p)
  OBVIOUS
<1>3. /\ s.reader = p /\ s.text = TextNext /\ s.package_name = NameOf(f)
      /\ s.imports = file_states[f].imports /\ IsFileState(s)
  BY <1>1, <1>2, ReadFile
<1>4. PICK i : i = Append(s.imports, n)
  OBVIOUS
<1>5. /\ [s EXCEPT !.package_name = n] =
           [reader |-> p, text |-> TextNext, package_name |-> n, imports |-> s.imports]
      /\ [s EXCEPT !.imports = Append(@, n)] =
           [reader |-> p, text |-> TextNext, package_name |-> NameOf(f), imports |-> i]
  <2>1. PICK x, m, l : x = TextNext /\ m = NameOf(f) /\ l = s.imports
    OBVIOUS
  <2>2. s = [reader |-> p, text |-> x, package_name |-> m, imports |-> l]
    BY <1>3, <2>1 DEF IsFileState
  <2>3. [s EXCEPT !.package_name = n] =
          [reader |-> p, text |-> x, package_name |-> n, imports |-> l]
    BY <2>2
  <2>4. i = Append(l, n)
    BY <1>4, <2>1
  <2>5. [s EXCEPT !.imports = Append(@, n)] =
          [reader |-> p, text |-> x, package_name |-> m, imports |-> i]
    <3>1. [s EXCEPT !.imports = Append(@, n)] = [s EXCEPT !.imports = i]
      BY <1>4
    <3>2. [s EXCEPT !.imports = i] =
            [reader |-> p, text |-> x, package_name |-> m, imports |-> i]
      BY <2>2
    <3> QED
      BY <3>1, <3>2
  <2> QED
    BY <2>1, <2>3, <2>5
<1>6. PICK u : /\ u \in {[s EXCEPT !.package_name = n], [s EXCEPT !.imports = Append(@, n)]}
               /\ file_states' = [file_states EXCEPT ![CurrentFile] = u]
  BY <1>2, Zenon DEF Store
<1>7. /\ u.reader = p /\ u.text = TextNext /\ u.package_name \in {NameOf(f), n}
      /\ u.imports = s.imports \/ u.imports = i
  BY <1>5, <1>6
<1>8. file_states'[f] = u /\ \A g \in AllFiles : g # f => file_states'[g] = file_states[g]
  BY <1>1, <1>6, StoredTurn
<1>9. TextNext = TextLeft(f) /\ Current.reader = ReaderOf(f)
  BY <1>1, ReaderNextIs
<1>10. TurnOf(f, p)
  BY <1>1, <1>3, <1>4, <1>7, <1>8, <1>9 DEF TurnOf
<1> QED
  BY <1>1, <1>10

PackagesRead == PackagesParseError \/ PackagesBlank \/ PackagesOther \/ PackagesFound
ImportsRead  == ImportsParseError \/ ImportsBlank \/ ImportsOther \/ ImportsFound
DeclarationsRead ==
  \/ DeclarationsParseError \/ DeclarationsAccepted \/ DeclarationsRefused
  \/ DeclarationsBlockRefused \/ SkipStatement

LEMMA PackagesTurn ==
  ASSUME EvalInv, PackagesRead
  PROVE  Turn
<1>1. /\ pass = "packages" /\ AtFile /\ CanRead /\ ~StackFull(Current.reader)
      /\ Unevaluated /\ (SameFile \/ NextFile)
  BY DEF PackagesRead, PackagesParseError, PackagesBlank, PackagesOther, PackagesFound,
         Reading
<1>2. CurrentFile \in AllFiles /\ FilesInv
  BY <1>1 DEF EvalInv, FilesInv, AtFile, CurrentFile
<1>3. FileStates(file_states')
  BY <1>2, PackagesLearn DEF PackagesRead, PackagesStep, LearnStep
<1>4. UNCHANGED <<texts, packages, dependencies, sorted_states>> /\ SamePass
  BY <1>1 DEF Unevaluated, SamePass
<1>5. Turns(CurrentFile)
  <2>1. CASE PackagesParseError
    BY <1>1, <1>2, <1>4, <2>1, ContinuedTurn
       DEF PackagesParseError, ReportParseError, KeepTurn, Turns
  <2>2. CASE PackagesBlank
    BY <1>1, <1>2, <1>4, <2>2, ContinuedTurn DEF PackagesBlank, BlankTurn, Turns
  <2>3. CASE PackagesOther
    BY <1>1, <1>2, <1>4, <2>3, ContinuedTurn
       DEF PackagesOther, ReportEvalError, RefuseTurn, Turns
  <2>4. CASE PackagesFound
    <3>1. PICK n : n = Top(ReaderNext).name
      OBVIOUS
    <3>2. PICK p : p = PumpStatusCode(Accept(ReaderNext, CurrentFile))
      OBVIOUS
    <3>3. Store([Continue(p) EXCEPT !.package_name = n])
      BY <2>4, <3>1, <3>2, Zenon DEF PackagesFound
    <3>4. TurnOf(CurrentFile, p)
      BY <1>1, <1>2, <1>4, <3>1, <3>3, FoundTurn
    <3> QED
      BY <1>1, <1>4, <2>4, <3>2, <3>4 DEF PackagesFound, AcceptTurn, Turns
  <2> QED
    BY <2>1, <2>2, <2>3, <2>4 DEF PackagesRead
<1> QED
  BY <1>1, <1>2, <1>3, <1>5 DEF Turn, SameFile, NextFile

LEMMA ImportsTurn ==
  ASSUME EvalInv, ImportsRead
  PROVE  Turn
<1>1. /\ pass = "imports" /\ AtFile /\ CanRead /\ ~StackFull(Current.reader)
      /\ Unevaluated /\ (SameFile \/ NextFile)
  BY DEF ImportsRead, ImportsParseError, ImportsBlank, ImportsOther, ImportsFound, Reading
<1>2. CurrentFile \in AllFiles /\ FilesInv
  BY <1>1 DEF EvalInv, FilesInv, AtFile, CurrentFile
<1>3. FileStates(file_states')
  BY <1>2, ImportsLearn DEF ImportsRead, ImportsStep, LearnStep
<1>4. UNCHANGED <<texts, packages, dependencies, sorted_states>> /\ SamePass
  BY <1>1 DEF Unevaluated, SamePass
<1>5. Turns(CurrentFile)
  <2>1. CASE ImportsParseError
    BY <1>1, <1>2, <1>4, <2>1, ContinuedTurn
       DEF ImportsParseError, ReportParseError, KeepTurn, Turns
  <2>2. CASE ImportsBlank
    BY <1>1, <1>2, <1>4, <2>2, ContinuedTurn DEF ImportsBlank, BlankTurn, Turns
  <2>3. CASE ImportsOther
    BY <1>1, <1>2, <1>4, <2>3, ContinuedTurn DEF ImportsOther, NextFile, RewindTurn, Turns
  <2>4. CASE ImportsFound
    <3>1. PICK n : n = Top(ReaderNext).name
      OBVIOUS
    <3>2. PICK p : p = PumpStatusCode(Accept(ReaderNext, CurrentFile))
      OBVIOUS
    <3>3. Store([Continue(p) EXCEPT !.imports = Append(@, n)])
      BY <2>4, <3>1, <3>2, Zenon DEF ImportsFound
    <3>4. TurnOf(CurrentFile, p)
      BY <1>1, <1>2, <1>4, <3>1, <3>3, FoundTurn
    <3> QED
      BY <1>1, <1>4, <2>4, <3>2, <3>4 DEF ImportsFound, AcceptTurn, Turns
  <2> QED
    BY <2>1, <2>2, <2>3, <2>4 DEF ImportsRead
<1> QED
  BY <1>1, <1>2, <1>3, <1>5 DEF Turn, SameFile, NextFile

LEMMA DeclarationsTurn ==
  ASSUME EvalInv, DeclarationsRead
  PROVE  Turn
<1>1. /\ pass \in {"declarations", "skipping"}
      /\ AtFile /\ CanRead /\ ~StackFull(Current.reader) /\ Evaluating
  BY DEF DeclarationsRead, DeclarationsParseError, DeclarationsAccepted,
         DeclarationsRefused, DeclarationsBlockRefused, SkipStatement, Evaluable, Reading
<1>2. CurrentFile \in AllFiles /\ FilesInv
  BY <1>1, SortedFile DEF EvalInv
<1>3. FileStates(file_states') /\ SameNames(file_states', file_states)
  BY DeclarationsEval DEF DeclarationsRead, DeclarationsStep, EvalStep
<1>4. UNCHANGED <<texts, source_index, packages, dependencies, sorted_states>>
  BY <1>1 DEF Evaluating
<1>5. Turns(CurrentFile)
  <2>1. CASE DeclarationsParseError
    BY <1>1, <1>2, <1>4, <2>1, ContinuedTurn
       DEF DeclarationsParseError, ReportParseError, Reading, SamePass, KeepTurn, Turns
  <2>2. CASE DeclarationsAccepted
    BY <1>1, <1>2, <1>4, <2>2, ContinuedTurn
       DEF DeclarationsAccepted, Evaluable, Reading, SamePass, AcceptTurn, Turns
  <2>3. CASE DeclarationsRefused
    BY <1>1, <1>2, <1>4, <2>3, ContinuedTurn
       DEF DeclarationsRefused, ReportEvalError, Evaluable, Reading, SamePass, RefuseTurn, Turns
  <2>4. CASE DeclarationsBlockRefused
    <3>1. PICK p : p = ReaderNext
      OBVIOUS
    <3>2. p.status = "BLOCK_BEGIN" /\ Store(Continue(p))
      BY <2>4, <3>1 DEF DeclarationsBlockRefused
    <3>3. PumpStatusCode(p) = p
      BY <3>2 DEF PumpStatusCode
    <3>4. TurnOf(CurrentFile, p)
      BY <1>1, <1>2, <1>4, <3>2, ContinuedTurn
    <3> QED
      BY <1>4, <2>4, <3>1, <3>3, <3>4
         DEF DeclarationsBlockRefused, ReportEvalError, Evaluable, Reading, RefuseTurn, Turns
  <2>5. CASE SkipStatement
    BY <1>1, <1>2, <1>4, <2>5, ContinuedTurn DEF SkipStatement, Reading, SkipTurn, Turns
  <2> QED
    BY <2>1, <2>2, <2>3, <2>4, <2>5 DEF DeclarationsRead
<1> QED
  BY <1>2, <1>3, <1>4, <1>5 DEF Turn

(* The other steps leave the files as they are.                            *)
Still ==
  \/ PackagesEndOfText \/ ImportsEndOfText \/ SkipEndOfText \/ DeclarationsEndOfText
  \/ EndOfPass("packages", "imports") \/ EndOfPass("imports", "unknown_imports")
  \/ CheckUnknownImports \/ EvalPackageStatements
  \/ SortTakesFile \/ SortTakesNone \/ SortEnds \/ EvalImports \/ Return \/ StackOverflow

LEMMA TurnOrStill ==
  ASSUME EvalInv, Next
  PROVE  Turn \/ Still
<1>1. PackagesRead \/ ImportsRead \/ DeclarationsRead \/ Still
  BY Zenon DEF Next, PackagesRead, ImportsRead, DeclarationsRead, Still
<1> QED
  BY <1>1, PackagesTurn, ImportsTurn, DeclarationsTurn

LEMMA StillFiles ==
  ASSUME Still
  PROVE  UNCHANGED <<texts, file_states>>
<1>1. PackagesEndOfText \/ ImportsEndOfText \/ SkipEndOfText \/ DeclarationsEndOfText
        => UNCHANGED <<texts, file_states>>
  BY DEF PackagesEndOfText, ImportsEndOfText, SkipEndOfText, DeclarationsEndOfText,
         Unevaluated, Evaluating
<1>2. EndOfPass("packages", "imports") \/ EndOfPass("imports", "unknown_imports")
        => UNCHANGED <<texts, file_states>>
  BY DEF EndOfPass
<1>3. CheckUnknownImports \/ EvalPackageStatements \/ SortTakesFile \/ SortTakesNone
        => UNCHANGED <<texts, file_states>>
  BY DEF CheckUnknownImports, EvalPackageStatements, SortTakesFile, SortTakesNone, files_vars
<1>4. SortEnds \/ EvalImports \/ Return \/ StackOverflow => UNCHANGED <<texts, file_states>>
  BY DEF SortEnds, EvalImports, Return, StackOverflow
<1> QED
  BY <1>1, <1>2, <1>3, <1>4, Zenon DEF Still

-----------------------------------------------------------------------------
(* The place of every reader in its text                                   *)

FileChunks == (UNION {ToSet(texts[f]) : f \in AllFiles}) \cup {EndOfText}
Acceptors == {NotAccepted} \cup AllFiles

ReaderAt(f, r, t) == AtPlace(r, t, texts[f], FileChunks, Acceptors)

(* What is rewound is a statement after the imports.                       *)
PlaceInv ==
  \A f \in AllFiles :
    /\ ReaderAt(f, ReaderOf(f), TextOf(f)) /\ Len(ReaderOf(f).statements) <= StackSize
    /\ ReaderOf(f).next_sources # <<>>
         => pass # "packages" /\ (pass = "imports" => f < source_index)

(* The statement that file f reads now                                     *)
ReadsNow(f) ==
  ReadsTo(ReaderNext, ReaderOf(f), TextOf(f), TextLeft(f), texts[f], FileChunks, Acceptors)

LEMMA TurnReads ==
  ASSUME PlaceInv, NEW f, NEW p, TurnOf(f, p)
  PROVE  /\ ReadsNow(f) /\ f \in AllFiles /\ ReaderAt(f, ReaderOf(f), TextOf(f))
         /\ ReaderOf(f) \in ReadersIn(FileChunks, Acceptors)
         /\ IsRead(ReaderNext, ReaderOf(f), FileChunks, Acceptors)
         /\ Len(ReaderOf(f).statements) + 1 <= StackSize
<1>1. f \in AllFiles /\ f = CurrentFile /\ CanRead /\ ~StackFull(ReaderOf(f))
  BY DEF TurnOf
<1>2. PICK r : r = ReaderOf(f)
  OBVIOUS
<1>3. PICK t : t = TextOf(f)
  OBVIOUS
<1>4. PICK q : q = ReaderNext
  OBVIOUS
<1>5. PICK next : next = TextLeft(f)
  OBVIOUS
<1>6. q = ReadNext(r, ChunkNext(t)) /\ CanReadNext(r, t # <<>>) /\ next = TextAfter(r, t)
  BY <1>1, <1>2, <1>3, <1>4, <1>5, ReaderNextIs DEF TextLeft
<1>7. ReaderAt(f, r, t) /\ Len(r.statements) <= StackSize
  BY <1>1, <1>2, <1>3 DEF PlaceInv
<1>8. NotAccepted \in Acceptors /\ EndOfText \in FileChunks
  BY DEF Acceptors, FileChunks
<1>9. PICK C, A, w : C = FileChunks /\ A = Acceptors /\ w = texts[f]
  OBVIOUS
<1>10. AtPlace(r, t, w, C, A)
  BY <1>7, <1>9 DEF ReaderAt
<1>11. ReadsTo(q, r, t, next, w, C, A)
  BY <1>6, <1>8, <1>9, <1>10, ReadOn
<1>12. r \in ReadersIn(C, A) /\ IsRead(q, r, C, A)
  BY <1>10, <1>11 DEF AtPlace, ReadsTo, JustRead
<1>13. Len(r.statements) + 1 <= StackSize
  <2>1. Len(r.statements) \in Nat
    BY <1>12 DEF ReadersIn
  <2>2. Len(r.statements) # StackSize /\ StackSize \in Nat
    BY <1>1, <1>2, StackSizeAssumption DEF StackFull
  <2> QED
    BY <1>7, <2>1, <2>2
<1> QED
  BY <1>1, <1>2, <1>3, <1>4, <1>5, <1>7, <1>9, <1>11, <1>12, <1>13 DEF ReadsNow

PumpsNow(f, p, q) ==
  PumpsTo(p, q, ReaderOf(f), TextOf(f), TextLeft(f), texts[f], FileChunks, Acceptors)

LEMMA PumpTurn ==
  ASSUME PlaceInv, NEW f, NEW q, q \in {ReaderNext, Accept(ReaderNext, f)},
         ~IsError(ReaderNext), NEW p, p = PumpStatusCode(q), TurnOf(f, p)
  PROVE  /\ PumpsNow(f, p, q)
         /\ LikeRead(q, ReaderNext, ReaderOf(f), FileChunks, Acceptors)
<1>1. /\ ReadsNow(f) /\ f \in AllFiles /\ ReaderAt(f, ReaderOf(f), TextOf(f))
      /\ ReaderOf(f) \in ReadersIn(FileChunks, Acceptors)
      /\ IsRead(ReaderNext, ReaderOf(f), FileChunks, Acceptors)
  BY TurnReads
<1>2. PICK r : r = ReaderOf(f)
  OBVIOUS
<1>3. PICK t : t = TextOf(f)
  OBVIOUS
<1>4. PICK read : read = ReaderNext
  OBVIOUS
<1>5. PICK next : next = TextLeft(f)
  OBVIOUS
<1>6. PICK C, A, w : C = FileChunks /\ A = Acceptors /\ w = texts[f]
  OBVIOUS
<1>7. f \in A
  BY <1>1, <1>6 DEF Acceptors
<1>8. LikeRead(q, read, r, C, A)
  BY <1>1, <1>2, <1>4, <1>6, <1>7, ReadOrAccepted
<1>9. q.status # "ERROR"
  BY <1>4, <1>8 DEF LikeRead, IsError
<1>10. ReadsTo(read, r, t, next, w, C, A) /\ AtPlace(r, t, w, C, A)
  BY <1>1, <1>2, <1>3, <1>4, <1>5, <1>6 DEF ReadsNow, ReaderAt
<1>11. PumpsTo(p, q, r, t, next, w, C, A)
  BY <1>8, <1>9, <1>10, PumpOn
<1> QED
  BY <1>2, <1>3, <1>4, <1>5, <1>6, <1>8, <1>11 DEF PumpsNow

(* A turn leaves its file's reader at a place, too.                        *)
TurnPlaces(f, p) ==
  /\ ReaderAt(f, p, TextLeft(f)) /\ Len(p.statements) <= StackSize
  /\ p.next_sources # <<>> => pass = "imports" /\ source_index' = source_index + 1

LEMMA TurnPlaced ==
  ASSUME PlaceInv, EvalInv, NEW f, Turns(f), SkipTurn(f) => ReaderOf(f).next_sources = <<>>
  PROVE  \E p : TurnOf(f, p) /\ TurnPlaces(f, p)
<1> USE DEF TurnPlaces
<1>1. ASSUME NEW p, TurnOf(f, p), p = ReaderNext
      PROVE  TurnPlaces(f, p)
  <2>1. /\ ReadsNow(f) /\ ReaderAt(f, ReaderOf(f), TextOf(f))
        /\ Len(ReaderOf(f).statements) + 1 <= StackSize
        /\ IsRead(ReaderNext, ReaderOf(f), FileChunks, Acceptors)
    BY <1>1, TurnReads
  <2>2. ReaderAt(f, p, TextLeft(f)) /\ p.next_sources = <<>>
    BY <1>1, <2>1, KeepOn DEF ReadsNow, ReaderAt
  <2> QED
    BY <1>1, <2>1, <2>2 DEF IsRead
<1>2. ASSUME NEW p, NEW q, q \in {ReaderNext, Accept(ReaderNext, f)},
             ~IsError(ReaderNext), p = PumpStatusCode(q), TurnOf(f, p)
      PROVE  TurnPlaces(f, p)
  <2>1. /\ PumpsNow(f, p, q)
        /\ LikeRead(q, ReaderNext, ReaderOf(f), FileChunks, Acceptors)
    BY <1>2, PumpTurn
  <2>2. /\ ReaderOf(f) \in ReadersIn(FileChunks, Acceptors)
        /\ Len(ReaderOf(f).statements) + 1 <= StackSize
    BY <1>2, TurnReads
  <2>3. IsRead(q, ReaderOf(f), FileChunks, Acceptors)
        /\ IsPumped(p, q, ReaderOf(f), FileChunks, Acceptors)
    BY <2>1 DEF LikeRead, PumpsNow, PumpsTo
  <2>4. /\ Len(ReaderOf(f).statements) \in Nat /\ Len(p.statements) \in Nat
        /\ Len(p.statements) <= Len(ReaderOf(f).statements) + 1
    BY <2>2, <2>3, PumpedHolds DEF PumpsLength
  <2>5. Len(p.statements) <= StackSize
    BY <2>2, <2>4, StackSizeAssumption
  <2> QED
    BY <2>1, <2>5 DEF PumpsNow, PumpsTo, ReaderAt
<1>3. CASE KeepTurn(f)
  BY <1>1, <1>3 DEF KeepTurn
<1>4. CASE BlankTurn(f)
  BY <1>2, <1>4 DEF BlankTurn
<1>5. CASE AcceptTurn(f)
  BY <1>2, <1>5 DEF AcceptTurn
<1>6. CASE RefuseTurn(f)
  BY <1>2, <1>6 DEF RefuseTurn
<1>7. CASE SkipTurn(f)
  <2>1. CASE IsError(ReaderNext)
    <3>1. PumpStatusCode(ReaderNext) = ReaderNext
      BY <2>1 DEF IsError, PumpStatusCode
    <3> QED
      BY <1>1, <1>7, <3>1 DEF SkipTurn
  <2> QED
    BY <1>2, <1>7, <2>1 DEF SkipTurn
<1>8. CASE RewindTurn(f)
  <2>1. PICK p : p = PopRewind(ReaderNext)
    OBVIOUS
  <2>2. TurnOf(f, p) /\ pass = "imports" /\ source_index' = source_index + 1
    BY <1>8, <2>1 DEF RewindTurn
  <2>3. /\ ReadsNow(f) /\ f \in AllFiles /\ ReaderAt(f, ReaderOf(f), TextOf(f))
        /\ Len(ReaderOf(f).statements) + 1 <= StackSize
        /\ ReaderOf(f) \in ReadersIn(FileChunks, Acceptors)
    BY <2>2, TurnReads
  <2>4. ReaderOf(f).next_sources = <<>>
    <3>1. f = source_index /\ source_index \in Nat
      BY <2>2 DEF TurnOf, CurrentFile, EvalInv, FilesInv
    <3> QED
      BY <2>2, <2>3, <3>1 DEF PlaceInv
  <2>5. PICK C, A, w : C = FileChunks /\ A = Acceptors /\ w = texts[f]
    OBVIOUS
  <2>6. PICK r, t, q, next : r = ReaderOf(f) /\ t = TextOf(f) /\ q = ReaderNext /\ next = TextLeft(f)
    OBVIOUS
  <2>7. RewindsTo(p, r, t, next, w, C, A)
    <3>1. ReadsTo(q, r, t, next, w, C, A) /\ AtPlace(r, t, w, C, A) /\ r.next_sources = <<>>
      BY <2>3, <2>4, <2>5, <2>6 DEF ReadsNow, ReaderAt
    <3>2. p = PopRewind(q)
      BY <2>1, <2>6
    <3> QED
      BY <3>1, <3>2, RewindOn
  <2>8. ReaderAt(f, p, TextLeft(f)) /\ p.statements = ReaderOf(f).statements
    BY <2>5, <2>6, <2>7 DEF RewindsTo, ReaderAt
  <2>9. Len(p.statements) <= StackSize
    BY <2>3, <2>8 DEF PlaceInv
  <2> QED
    BY <2>2, <2>8, <2>9
<1> QED
  BY <1>3, <1>4, <1>5, <1>6, <1>7, <1>8 DEF Turns

LEMMA SameTexts ==
  ASSUME texts' = texts
  PROVE  /\ AllFiles' = AllFiles /\ FileChunks' = FileChunks /\ Acceptors' = Acceptors
         /\ AtFile' = (source_index' <= Len(texts))
         /\ Names' = Names
BY DEF AllFiles, FileChunks, Acceptors, AtFile, Names

(* What a turn leaves of the pass                                          *)
LEMMA TurnPass ==
  ASSUME NEW f, Turns(f)
  PROVE  /\ pass \in ReadingPasses /\ pass' \in ReadingPasses
         /\ pass' = pass \/ {pass, pass'} = {"declarations", "skipping"}
BY DEF Turns, KeepTurn, BlankTurn, AcceptTurn, RewindTurn, RefuseTurn, SkipTurn, SamePass,
       ReadingPasses

LEMMA PlaceInit == Init => PlaceInv
<1> SUFFICES ASSUME Init, NEW f \in AllFiles
             PROVE  /\ ReaderAt(f, ReaderOf(f), TextOf(f))
                    /\ Len(ReaderOf(f).statements) <= StackSize
                    /\ ReaderOf(f).next_sources = <<>>
  BY DEF PlaceInv
<1>1. ReaderOf(f) = NewReader /\ TextOf(f) = texts[f]
  BY DEF Init, NewFileState, ReaderOf, TextOf
<1>2. PICK w : w = texts[f]
  OBVIOUS
<1>3. PICK C, A : C = FileChunks /\ A = Acceptors
  OBVIOUS
<1>4. w \in Seq(C)
  <2>1. texts \in Seq(Seq(Chunks(STRING)))
    BY TextsAssumption DEF Init
  <2>2. w \in Seq(Chunks(STRING))
    BY <1>2, <2>1 DEF AllFiles
  <2>3. \A i \in DOMAIN w : w[i] \in C
    BY <1>2, <1>3 DEF FileChunks, ToSet
  <2> QED
    BY <2>2, <2>3
<1>5. LeftOf(w, w, C)
  BY <1>4 DEF LeftOf, Place
<1>6. PICK r : r = NewReader
  OBVIOUS
<1>7. r \in ReadersIn(C, A) /\ r.next_sources = <<>> /\ r.statements = <<>>
  BY <1>6 DEF NewReader, ReadersIn, Statuses
<1>8. AtPlace(r, w, w, C, A)
  BY <1>5, <1>7 DEF AtPlace
<1>9. Len(<<>>) = 0 /\ 0 <= StackSize
  BY StackSizeAssumption
<1> QED
  BY <1>1, <1>2, <1>3, <1>6, <1>7, <1>8, <1>9 DEF ReaderAt

LEMMA PlaceTurn ==
  ASSUME EvalInv, PlaceInv, NEW f, Turns(f), Turn,
         SkipTurn(f) => ReaderOf(f).next_sources = <<>>
  PROVE  PlaceInv'
<1>1. PICK p : TurnOf(f, p) /\ TurnPlaces(f, p)
  BY TurnPlaced
<1>2. /\ texts' = texts /\ f \in AllFiles /\ ReaderOf(f)' = p /\ TextOf(f)' = TextLeft(f)
      /\ \A g \in AllFiles : g # f => ReaderOf(g)' = ReaderOf(g) /\ TextOf(g)' = TextOf(g)
  BY <1>1 DEF TurnOf, ReaderOf, TextOf
<1>3. AllFiles' = AllFiles /\ FileChunks' = FileChunks /\ Acceptors' = Acceptors
  BY <1>2, SameTexts
<1>4. /\ pass \in ReadingPasses /\ pass' \in ReadingPasses
      /\ pass' = pass \/ {pass, pass'} = {"declarations", "skipping"}
  BY TurnPass
<1>5. source_index' \in {source_index, source_index + 1} /\ source_index \in Nat
  BY DEF Turn, EvalInv, FilesInv
<1>6. f = CurrentFile
  BY <1>1 DEF TurnOf
<1>7. /\ ReaderAt(f, ReaderOf(f), TextOf(f))' /\ Len(ReaderOf(f).statements)' <= StackSize
      /\ ReaderOf(f)'.next_sources # <<>>
           => pass' # "packages" /\ (pass' = "imports" => f < source_index')
  <2>1. ReaderAt(f, ReaderOf(f), TextOf(f))' = ReaderAt(f, p, TextLeft(f))
    BY <1>2, <1>3 DEF ReaderAt
  <2>2. pass = "imports" => f = source_index
    BY <1>6 DEF CurrentFile
  <2> QED
    BY <1>1, <1>2, <1>4, <1>5, <2>1, <2>2 DEF TurnPlaces
<1>8. ASSUME NEW g \in AllFiles, g # f
      PROVE  /\ ReaderAt(g, ReaderOf(g), TextOf(g))' /\ Len(ReaderOf(g).statements)' <= StackSize
             /\ ReaderOf(g)'.next_sources # <<>>
                  => pass' # "packages" /\ (pass' = "imports" => g < source_index')
  <2>1. ReaderAt(g, ReaderOf(g), TextOf(g))' = ReaderAt(g, ReaderOf(g), TextOf(g))
    BY <1>2, <1>3, <1>8 DEF ReaderAt
  <2>2. g \in Nat
    BY DEF EvalInv, FilesInv
  <2> QED
    BY <1>2, <1>4, <1>5, <1>8, <2>1, <2>2 DEF PlaceInv
<1> QED
  BY <1>3, <1>7, <1>8 DEF PlaceInv

LEMMA StillPass ==
  ASSUME EvalInv, Still
  PROVE  /\ pass' = "packages" => pass = "packages"
         /\ pass' = "imports"
              => \/ pass = "packages"
                 \/ pass = "imports" /\ source_index' = source_index + 1
         /\ pass' = "skipping" => FALSE
<1>1. PackagesEndOfText \/ ImportsEndOfText
        => /\ pass \in {"packages", "imports"} /\ pass' = pass
           /\ source_index' = source_index + 1
  BY DEF PackagesEndOfText, ImportsEndOfText, Unevaluated, NextFile
<1>2. SkipEndOfText \/ DeclarationsEndOfText => pass' \in {"declarations", "evaluate", "done"}
  BY DEF SkipEndOfText, DeclarationsEndOfText
<1>3. EndOfPass("packages", "imports") => pass = "packages" /\ pass' \in {"imports", "done"}
  BY DEF EndOfPass
<1>4. EndOfPass("imports", "unknown_imports") => pass' \in {"unknown_imports", "done"}
  BY DEF EndOfPass
<1>5. CheckUnknownImports \/ EvalPackageStatements \/ SortTakesFile \/ SortTakesNone
        => pass' \in {"done", "create", "sort"}
  BY DEF CheckUnknownImports, EvalPackageStatements, SortTakesFile, SortTakesNone, files_vars
<1>6. SortEnds \/ EvalImports \/ Return \/ StackOverflow
        => pass' \in {"evaluate", "done", "declarations", "aborted"}
  BY DEF SortEnds, EvalImports, Return, StackOverflow
<1> QED
  BY <1>1, <1>2, <1>3, <1>4, <1>5, <1>6, Zenon DEF Still

LEMMA PlaceStill ==
  ASSUME EvalInv, PlaceInv, UNCHANGED <<texts, file_states>>,
         Still \/ UNCHANGED files_vars
  PROVE  PlaceInv'
<1>1. /\ AllFiles' = AllFiles /\ FileChunks' = FileChunks /\ Acceptors' = Acceptors
      /\ texts' = texts
  BY SameTexts
<1>2. \A g \in AllFiles : ReaderOf(g)' = ReaderOf(g) /\ TextOf(g)' = TextOf(g)
  BY DEF ReaderOf, TextOf
<1>3. /\ pass' = "packages" => pass = "packages"
      /\ pass' = "imports"
           => \/ pass = "packages"
              \/ pass = "imports" /\ source_index' \in {source_index, source_index + 1}
  BY StillPass DEF files_vars
<1> SUFFICES ASSUME NEW g \in AllFiles
             PROVE  /\ ReaderAt(g, ReaderOf(g), TextOf(g))'
                    /\ Len(ReaderOf(g).statements)' <= StackSize
                    /\ ReaderOf(g)'.next_sources # <<>>
                         => pass' # "packages" /\ (pass' = "imports" => g < source_index')
  BY <1>1 DEF PlaceInv
<1>4. ReaderAt(g, ReaderOf(g), TextOf(g))' = ReaderAt(g, ReaderOf(g), TextOf(g))
  BY <1>1, <1>2 DEF ReaderAt
<1>5. g \in Nat /\ source_index \in Nat
  BY DEF EvalInv, FilesInv
<1> QED
  BY <1>2, <1>3, <1>4, <1>5 DEF PlaceInv

-----------------------------------------------------------------------------
(* Errors, and the part of a text that parsed                              *)

ErrorType == [source_index : AllFiles, file : AllFiles, eval_error : BOOLEAN]
NoErrorIn(f) == \A i \in DOMAIN errors : errors[i].file # f
NoParseErrorIn(f) == \A i \in DOMAIN errors : errors[i].file = f => errors[i].eval_error

(* A pass over all files that leaves errors is the last one.               *)
ErrorsInv ==
  /\ errors \in Seq(ErrorType)
  /\ pass \in {"unknown_imports", "create", "sort", "evaluate"} => errors = <<>>

TakenIn(f) == Taken(ReaderOf(f), TextOf(f), texts[f])
ParsedTo(whole, n) == \A i \in 1 .. n : ChunkParses(whole[i])
Clean(f) == NoParseErrorIn(f) /\ ParsedTo(texts[f], TakenIn(f))

LEMMA ErrorsGrow ==
  ASSUME errors \in Seq(ErrorType), NEW f,
         errors' = errors \/ errors = <<>> \/ \E e : errors' = Append(errors, e)
  PROVE  /\ NoErrorIn(f)' => NoErrorIn(f)
         /\ NoParseErrorIn(f)' => NoParseErrorIn(f)
<1>1. CASE errors' = errors
  BY <1>1 DEF NoErrorIn, NoParseErrorIn
<1>2. CASE errors = <<>>
  BY <1>2 DEF NoErrorIn, NoParseErrorIn
<1>3. ASSUME NEW e, errors' = Append(errors, e)
      PROVE  /\ NoErrorIn(f)' => NoErrorIn(f)
             /\ NoParseErrorIn(f)' => NoParseErrorIn(f)
  <2>1. \A i \in DOMAIN errors : i \in DOMAIN errors' /\ errors'[i] = errors[i]
    BY <1>3
  <2> QED
    BY <2>1 DEF NoErrorIn, NoParseErrorIn
<1> QED
  BY <1>1, <1>2, <1>3

LEMMA ErrorAdded ==
  ASSUME errors \in Seq(ErrorType), NEW i, NEW f, NEW b,
         errors' = Append(errors, Error(i, f, b))
  PROVE  ~NoErrorIn(f)' /\ (~b => ~NoParseErrorIn(f)')
<1>1. PICK e : e = Error(i, f, b)
  OBVIOUS
<1>2. e.file = f /\ e.eval_error = b
  BY <1>1 DEF Error
<1>3. PICK n \in Nat : n = Len(errors)
  OBVIOUS
<1>4. n + 1 \in DOMAIN errors' /\ errors'[n + 1] = e
  BY <1>1, <1>3
<1> QED
  BY <1>2, <1>4 DEF NoErrorIn, NoParseErrorIn

(* A turn adds an error, if it finds one, about the file it reads.         *)
LEMMA TurnErrors ==
  ASSUME errors \in Seq(ErrorType), NEW f, Turns(f)
  PROVE  /\ \A g : (NoErrorIn(g)' => NoErrorIn(g)) /\ (NoParseErrorIn(g)' => NoParseErrorIn(g))
         /\ KeepTurn(f) => ~NoErrorIn(f)' /\ ~NoParseErrorIn(f)'
         /\ RefuseTurn(f) => ~NoErrorIn(f)'
<1>1. errors' = errors \/ \E e : errors' = Append(errors, e)
  BY DEF Turns, KeepTurn, BlankTurn, AcceptTurn, RewindTurn, RefuseTurn, SkipTurn
<1>2. ASSUME NEW g
      PROVE  (NoErrorIn(g)' => NoErrorIn(g)) /\ (NoParseErrorIn(g)' => NoParseErrorIn(g))
  BY <1>1, ErrorsGrow
<1>3. KeepTurn(f) => ~NoErrorIn(f)' /\ ~NoParseErrorIn(f)'
  BY ErrorAdded DEF KeepTurn
<1>4. RefuseTurn(f) => ~NoErrorIn(f)'
  BY ErrorAdded DEF RefuseTurn
<1> QED
  BY <1>2, <1>3, <1>4, Zenon

(* What a turn takes of the text                                           *)
TakesText(f, p) ==
  /\ TakenIn(f) \in Nat /\ TakenIn(f)' \in Nat /\ TakenIn(f) <= TakenIn(f)'
  /\ p.next_sources = <<>>
       => TakenIn(f)' = Place(texts[f], TextLeft(f)) /\ TakenIn(f) < TakenIn(f)'

LEMMA TurnTakes ==
  ASSUME PlaceInv, NEW f, NEW p, TurnOf(f, p),
         p.next_sources = <<>> \/ Taken(p, TextLeft(f), texts[f]) = TakenIn(f)
  PROVE  TakesText(f, p)
<1>1. ReadsNow(f)
  BY TurnReads
<1>2. /\ TakenIn(f) \in Nat /\ TakenIn(f) < Place(texts[f], TextLeft(f))
      /\ LeftOf(TextLeft(f), texts[f], FileChunks)
  BY <1>1 DEF ReadsNow, ReadsTo, TakenIn
<1>3. Place(texts[f], TextLeft(f)) \in Nat
  BY <1>2 DEF LeftOf, Place
<1>4. TakenIn(f)' = Taken(p, TextLeft(f), texts[f])
  BY DEF TurnOf, TakenIn, ReaderOf, TextOf
<1> QED
  BY <1>2, <1>3, <1>4 DEF TakesText, Taken

LEMMA CleanBefore ==
  ASSUME NEW f, NEW p, TurnOf(f, p), TakesText(f, p), errors \in Seq(ErrorType), Turns(f)
  PROVE  Clean(f)' => Clean(f)
<1>1. NoParseErrorIn(f)' => NoParseErrorIn(f)
  BY TurnErrors
<1>2. texts' = texts
  BY DEF TurnOf
<1>3. ParsedTo(texts[f], TakenIn(f))' => ParsedTo(texts[f], TakenIn(f))
  <2>1. PICK n \in Nat, m \in Nat : n = TakenIn(f) /\ m = TakenIn(f)' /\ n <= m
    BY DEF TakesText
  <2>2. \A i \in 1 .. n : i \in 1 .. m
    BY <2>1
  <2> QED
    BY <1>2, <2>1, <2>2 DEF ParsedTo
<1> QED
  BY <1>1, <1>3 DEF Clean

-----------------------------------------------------------------------------
(* The stack of every reader follows the text, and holds statements that   *)
(* were accepted                                                           *)

Depth(f) == Len(ReaderOf(f).statements)
AcceptedTo(f, n) == \A i \in 1 .. n : ReaderOf(f).statements[i].accepted_in = f
MayReadOn(f) == CanReadNext(ReaderOf(f), TextOf(f) # <<>>)

Follows(f) ==
  Clean(f) => EndsOf(ReaderOf(f).statements) = OpenIn(texts[f], TakenIn(f))

(* The blocks that are skipped are the innermost ones of the stack.        *)
Skipping(f) ==
  /\ block_depth \in 1 .. Depth(f) /\ ReaderOf(f).next_sources = <<>> /\ ~NoErrorIn(f)
  /\ Clean(f) => AcceptedTo(f, Depth(f) - block_depth)

Accepting(f) ==
  /\ NoErrorIn(f) => AcceptedTo(f, Depth(f))
  /\ f = CurrentFile /\ pass = "declarations" /\ MayReadOn(f) /\ Clean(f)
       => AcceptedTo(f, Depth(f))
  /\ f = CurrentFile /\ pass = "skipping" => Skipping(f)

StackInv == \A f \in AllFiles : Follows(f) /\ Accepting(f)

(* What a turn leaves of its file                                          *)
LEMMA TurnLeaves ==
  ASSUME NEW f, NEW p, TurnOf(f, p)
  PROVE  /\ ReaderOf(f)' = p /\ TextOf(f)' = TextLeft(f) /\ texts' = texts
         /\ Depth(f)' = Len(p.statements)
         /\ \A n : AcceptedTo(f, n)' <=> \A i \in 1 .. n : p.statements[i].accepted_in = f
BY DEF TurnOf, ReaderOf, TextOf, Depth, AcceptedTo

(* A statement that stays because it does not parse, is it read or         *)
(* skipped, leaves a text that does not parse.                             *)
LEMMA KeptUnclean ==
  ASSUME PlaceInv, errors \in Seq(ErrorType), NEW f,
         \/ KeepTurn(f)
         \/ SkipTurn(f) /\ Skipping(f) /\ IsError(ReaderNext)
  PROVE  /\ ~Clean(f)' /\ TurnOf(f, ReaderNext) /\ ReaderNext.next_sources = <<>>
         /\ Len(ReaderNext.statements) = Depth(f) + 1 /\ Depth(f) \in Nat
<1>1. TurnOf(f, ReaderNext)
  <2>1. IsError(ReaderNext) => PumpStatusCode(ReaderNext) = ReaderNext
    BY DEF IsError, PumpStatusCode
  <2> QED
    BY <2>1 DEF KeepTurn, SkipTurn
<1>2. /\ ReadsNow(f) /\ f \in AllFiles
      /\ ReaderOf(f) \in ReadersIn(FileChunks, Acceptors)
      /\ IsRead(ReaderNext, ReaderOf(f), FileChunks, Acceptors)
  BY <1>1, TurnReads
<1>3. /\ ReaderNext.next_sources = <<>> /\ Len(ReaderNext.statements) = Depth(f) + 1
      /\ Depth(f) \in Nat
  BY <1>2 DEF IsRead, Depth, ReadersIn
<1>4. CASE KeepTurn(f)
  BY <1>1, <1>3, <1>4, TurnErrors DEF Turns, Clean
<1>5. CASE SkipTurn(f) /\ Skipping(f) /\ IsError(ReaderNext)
  <2>1. PICK r : r = ReaderOf(f)
    OBVIOUS
  <2>2. r.next_sources = <<>> /\ r.statements # <<>>
    <3>1. Len(r.statements) # 0
      BY <1>3, <1>5, <2>1 DEF Skipping, Depth
    <3> QED
      BY <1>5, <2>1, <3>1 DEF Skipping
  <2>3. PICK k : k = Place(texts[f], TextLeft(f))
    OBVIOUS
  <2>4. PICK s : s = Top(ReaderNext).source
    OBVIOUS
  <2>5. /\ s = <<texts[f][k]>> /\ k = TakenIn(f) + 1 /\ TakenIn(f) \in Nat
        /\ s = NextSource(r, ChunkNext(TextOf(f)))
        /\ ReaderNext.status = ParsedStatus(s, r.statements # <<>>)
    BY <1>2, <2>1, <2>2, <2>3, <2>4 DEF ReadsNow, ReadsTo, JustRead, TakenIn
  <2>6. (r.statements # <<>>) = TRUE
    BY <2>2
  <2>7. ParsedStatus(s, TRUE) = "ERROR"
    BY <1>5, <2>5, <2>6 DEF IsError
  <2>8. PICK c : c = texts[f][k]
    OBVIOUS
  <2>9. ~ChunkParses(c)
    BY <2>5, <2>7, <2>8, ChunkFails
  <2>10. TakesText(f, ReaderNext)
    BY <1>1, <1>3, TurnTakes
  <2>11. TakenIn(f)' = k /\ k \in 1 .. k
    BY <1>3, <2>3, <2>5, <2>10 DEF TakesText
  <2>12. ~ParsedTo(texts[f], TakenIn(f))'
    BY <1>1, <2>8, <2>9, <2>11 DEF ParsedTo, TurnOf
  <2> QED
    BY <1>1, <1>3, <2>12 DEF Clean
<1> QED
  BY <1>4, <1>5

(* What a pumped reader holds of the statements before                     *)
PumpLeaves(f, p, q) ==
  /\ Depth(f) \in Nat /\ Len(p.statements) \in Nat
  /\ p.next_sources = <<>>
  /\ q.status = "BLOCK_BEGIN" => Len(p.statements) = Depth(f) + 1
  /\ q.status = "BLOCK_END" => Len(p.statements) = Depth(f) - 1
  /\ q.status \in {"OK", "ASSUMED_STATEMENT_END"} => Len(p.statements) = Depth(f)
  /\ q.status \in Statuses \ {"ERROR"}
  /\ \A i \in 1 .. Len(p.statements) :
       \/ i <= Depth(f) /\ p.statements[i] = ReaderOf(f).statements[i]
       \/ i = Depth(f) + 1 /\ q.status = "BLOCK_BEGIN" /\ p.statements[i] = Top(q)

LEMMA PumpedLeaves ==
  ASSUME PlaceInv, errors \in Seq(ErrorType), NEW f,
         NEW q, q \in {ReaderNext, Accept(ReaderNext, f)},
         ~IsError(ReaderNext), NEW p, p = PumpStatusCode(q), TurnOf(f, p), Turns(f)
  PROVE  /\ PumpLeaves(f, p, q) /\ q.status = ReaderNext.status
         /\ TakesText(f, p) /\ (Clean(f)' => Clean(f))
<1>1. /\ PumpsNow(f, p, q)
      /\ LikeRead(q, ReaderNext, ReaderOf(f), FileChunks, Acceptors)
  BY PumpTurn
<1>2. ReaderOf(f) \in ReadersIn(FileChunks, Acceptors) /\ f \in AllFiles
  BY TurnReads
<1>3. /\ IsRead(q, ReaderOf(f), FileChunks, Acceptors) /\ q.status = ReaderNext.status
      /\ IsPumped(p, q, ReaderOf(f), FileChunks, Acceptors) /\ p.next_sources = <<>>
  BY <1>1 DEF LikeRead, PumpsNow, PumpsTo
<1>4. TakesText(f, p)
  BY <1>3, TurnTakes
<1>5. Clean(f)' => Clean(f)
  BY <1>4, CleanBefore
<1>6. PICK r, C, A : r = ReaderOf(f) /\ C = FileChunks /\ A = Acceptors
  OBVIOUS
<1>7. r \in ReadersIn(C, A) /\ IsRead(q, r, C, A) /\ IsPumped(p, q, r, C, A)
  BY <1>2, <1>3, <1>6
<1>8. PumpsLength(p, q, r)
  BY <1>7, PumpedHolds
<1>9. PICK n \in Nat : n = Len(r.statements)
  BY <1>8 DEF PumpsLength
<1>10. \A i \in 1 .. Len(p.statements) :
         \/ i <= n /\ p.statements[i] = r.statements[i]
         \/ i = n + 1 /\ q.status = "BLOCK_BEGIN" /\ p.statements[i] = Top(q)
  <2>1. CASE q.status = "BLOCK_BEGIN"
    <3>1. /\ p = q /\ Len(p.statements) = n + 1 /\ Top(q) = q.statements[n + 1]
          /\ \A i \in 1 .. n : q.statements[i] = r.statements[i]
      BY <1>7, <1>8, <1>9, <2>1, TopIs DEF IsPumped, PumpsLength, IsRead
    <3> QED
      BY <2>1, <3>1
  <2>2. CASE q.status # "BLOCK_BEGIN"
    <3>1. PICK m : /\ m \in 0 .. n /\ Len(p.statements) = m
                   /\ \A i \in 1 .. m : p.statements[i] = r.statements[i]
      BY <1>7, <1>9, <2>2 DEF IsPumped, KeepsOuter
    <3> QED
      BY <3>1
  <2> QED
    BY <2>1, <2>2
<1>11. q.status \in Statuses \ {"ERROR"}
  <2>1. q.status \in Statuses
    BY <1>7 DEF IsRead, ReadersIn
  <2> QED
    BY <1>3, <2>1 DEF IsError
<1>12. PumpLeaves(f, p, q)
  BY <1>3, <1>6, <1>8, <1>9, <1>10, <1>11 DEF PumpLeaves, PumpsLength, Depth
<1> QED
  BY <1>3, <1>4, <1>5, <1>12

(* Rewound, the stack and what was taken of the text are as before.        *)
RewindLeaves(f, p) ==
  /\ ReaderAt(f, p, TextLeft(f)) /\ p.statements = ReaderOf(f).statements
  /\ TakenIn(f)' = TakenIn(f) /\ (Clean(f)' => Clean(f))

LEMMA RewoundLeaves ==
  ASSUME PlaceInv, EvalInv, errors \in Seq(ErrorType), NEW f, RewindTurn(f), NEW p,
         p = PopRewind(ReaderNext)
  PROVE  RewindLeaves(f, p)
<1>1. TurnOf(f, p) /\ pass = "imports"
  BY DEF RewindTurn
<1>2. /\ ReadsNow(f) /\ f \in AllFiles /\ ReaderAt(f, ReaderOf(f), TextOf(f))
      /\ ReaderOf(f) \in ReadersIn(FileChunks, Acceptors)
  BY <1>1, TurnReads
<1>3. ReaderOf(f).next_sources = <<>>
  <2>1. f = source_index /\ source_index \in Nat
    BY <1>1 DEF TurnOf, CurrentFile, EvalInv, FilesInv
  <2> QED
    BY <1>1, <1>2, <2>1 DEF PlaceInv
<1>4. PICK C, A, w : C = FileChunks /\ A = Acceptors /\ w = texts[f]
  OBVIOUS
<1>5. PICK r, t, q, next : r = ReaderOf(f) /\ t = TextOf(f) /\ q = ReaderNext /\ next = TextLeft(f)
  OBVIOUS
<1>6. RewindsTo(p, r, t, next, w, C, A)
  <2>1. ReadsTo(q, r, t, next, w, C, A) /\ AtPlace(r, t, w, C, A) /\ r.next_sources = <<>>
    BY <1>2, <1>3, <1>4, <1>5 DEF ReadsNow, ReaderAt
  <2> QED
    BY <2>1, <1>5, RewindOn
<1>7. ReaderAt(f, p, TextLeft(f)) /\ p.statements = ReaderOf(f).statements
  BY <1>4, <1>5, <1>6 DEF RewindsTo, ReaderAt
<1>8. TakenIn(f)' = TakenIn(f)
  <2>1. Taken(p, TextLeft(f), texts[f]) = TakenIn(f)
    BY <1>4, <1>5, <1>6 DEF RewindsTo, TakenIn
  <2>2. ReaderOf(f)' = p /\ TextOf(f)' = TextLeft(f) /\ texts' = texts
    BY <1>1, TurnLeaves
  <2> QED
    BY <2>1, <2>2 DEF TakenIn
<1>9. Clean(f)' => Clean(f)
  <2>1. NoParseErrorIn(f)' => NoParseErrorIn(f)
    BY TurnErrors DEF Turns
  <2>2. texts' = texts
    BY <1>1, TurnLeaves
  <2> QED
    BY <1>8, <2>1, <2>2 DEF Clean, ParsedTo
<1> QED
  BY <1>7, <1>8, <1>9 DEF RewindLeaves

LEMMA FollowsPumped ==
  ASSUME PlaceInv, errors \in Seq(ErrorType), NEW f, Follows(f), Turns(f),
         NEW q, q \in {ReaderNext, Accept(ReaderNext, f)},
         ~IsError(ReaderNext), NEW p, p = PumpStatusCode(q), TurnOf(f, p)
  PROVE  Follows(f)'
<1>1. PumpsNow(f, p, q) /\ ReaderOf(f)' = p /\ texts' = texts
  BY PumpTurn, TurnLeaves
<1>2. TakesText(f, p) /\ (Clean(f)' => Clean(f)) /\ p.next_sources = <<>>
  BY PumpedLeaves DEF PumpLeaves
<1>3. TakenIn(f)' = Place(texts[f], TextLeft(f))
  BY <1>2 DEF TakesText
<1>4. ASSUME Clean(f)'
      PROVE  EndsOf(p.statements) = OpenIn(texts[f], TakenIn(f)')
  <2>1. EndsOf(ReaderOf(f).statements) = OpenIn(texts[f], Taken(ReaderOf(f), TextOf(f), texts[f]))
    BY <1>2, <1>4 DEF Follows, TakenIn
  <2> QED
    BY <1>1, <1>3, <2>1 DEF PumpsNow, PumpsTo
<1> QED
  BY <1>1, <1>4 DEF Follows

LEMMA FollowsTurn ==
  ASSUME PlaceInv, EvalInv, errors \in Seq(ErrorType), NEW f, Follows(f), Turns(f),
         SkipTurn(f) => Skipping(f)
  PROVE  Follows(f)'
<1>1. CASE KeepTurn(f) \/ (SkipTurn(f) /\ IsError(ReaderNext))
  BY <1>1, KeptUnclean DEF Follows
<1>2. CASE BlankTurn(f)
  BY <1>2, FollowsPumped DEF BlankTurn
<1>3. CASE AcceptTurn(f)
  BY <1>3, FollowsPumped DEF AcceptTurn
<1>4. CASE RefuseTurn(f)
  BY <1>4, FollowsPumped DEF RefuseTurn
<1>5. CASE SkipTurn(f) /\ ~IsError(ReaderNext)
  BY <1>5, FollowsPumped DEF SkipTurn
<1>6. CASE RewindTurn(f)
  <2>1. PICK p : p = PopRewind(ReaderNext)
    OBVIOUS
  <2>2. TurnOf(f, p)
    BY <1>6, <2>1 DEF RewindTurn
  <2>3. RewindLeaves(f, p)
    BY <1>6, <2>1, RewoundLeaves
  <2>4. ReaderOf(f)' = p /\ texts' = texts
    BY <2>2, TurnLeaves
  <2> QED
    BY <2>3, <2>4 DEF RewindLeaves, Follows
<1> QED
  BY <1>1, <1>2, <1>3, <1>4, <1>5, <1>6 DEF Turns

(* A pumped reader still holds accepted statements only, if the one just   *)
(* read is accepted or begins no block.                                    *)
LEMMA AcceptedPumped ==
  ASSUME NEW f, NEW p, NEW q, TurnOf(f, p), PumpLeaves(f, p, q), NEW n, NEW m,
         n \in Nat, m \in Nat, AcceptedTo(f, n), n <= Depth(f), m <= Len(p.statements),
         m <= n \/ (n = Depth(f) /\ (q.status = "BLOCK_BEGIN" => Top(q).accepted_in = f))
  PROVE  AcceptedTo(f, m)'
<1> SUFFICES ASSUME NEW i \in 1 .. m PROVE p.statements[i].accepted_in = f
  BY TurnLeaves
<1>1. PICK d \in Nat, l \in Nat : d = Depth(f) /\ l = Len(p.statements)
  BY DEF PumpLeaves
<1>2. i \in 1 .. l
  BY <1>1
<1>3. \/ i <= d /\ p.statements[i] = ReaderOf(f).statements[i]
      \/ i = d + 1 /\ q.status = "BLOCK_BEGIN" /\ p.statements[i] = Top(q)
  BY <1>1, <1>2 DEF PumpLeaves
<1>4. i \in 1 .. n => ReaderOf(f).statements[i].accepted_in = f
  BY DEF AcceptedTo
<1>5. CASE m <= n
  <2>1. i \in 1 .. n /\ i <= d
    BY <1>1, <1>5
  <2> QED
    BY <1>1, <1>3, <1>4, <2>1
<1>6. CASE n = Depth(f) /\ (q.status = "BLOCK_BEGIN" => Top(q).accepted_in = f)
  BY <1>1, <1>3, <1>4, <1>6
<1> QED
  BY <1>5, <1>6

LEMMA AcceptsAll ==
  ASSUME NEW f, NEW p, NEW q, TurnOf(f, p), PumpLeaves(f, p, q),
         q.status = "BLOCK_BEGIN" => Top(q).accepted_in = f
  PROVE  AcceptedTo(f, Depth(f)) => AcceptedTo(f, Depth(f))'
<1>1. PICK n \in Nat, m \in Nat : n = Depth(f) /\ m = Len(p.statements)
  BY DEF PumpLeaves
<1>2. AcceptedTo(f, n) => AcceptedTo(f, m)'
  <2>1. n <= Depth(f) /\ m <= Len(p.statements)
    BY <1>1
  <2> QED
    BY <1>1, <2>1, AcceptedPumped
<1>3. Depth(f)' = m
  BY <1>1, TurnLeaves
<1> QED
  BY <1>1, <1>2, <1>3

LEMMA AcceptingTurn ==
  ASSUME PlaceInv, EvalInv, errors \in Seq(ErrorType), NEW f, Accepting(f), Turns(f)
  PROVE  Accepting(f)'
<1>1. \A g : NoErrorIn(g)' => NoErrorIn(g)
  BY TurnErrors
<1>2. CASE KeepTurn(f)
  <2>1. ~NoErrorIn(f)' /\ ~Clean(f)'
    BY <1>2, KeptUnclean, TurnErrors
  <2>2. pass' # "skipping"
    BY <1>2 DEF KeepTurn, SamePass
  <2> QED
    BY <2>1, <2>2 DEF Accepting
<1>3. CASE BlankTurn(f)
  <2>1. PICK p, q : q = ReaderNext /\ p = PumpStatusCode(q)
    OBVIOUS
  <2>2. /\ TurnOf(f, p) /\ ~IsError(q) /\ Top(q).type = "NONE"
        /\ pass' \in {"packages", "imports"}
    BY <1>3, <2>1 DEF BlankTurn, SamePass
  <2>3. PumpLeaves(f, p, q)
    BY <2>1, <2>2, PumpedLeaves
  <2>4. q.status # "BLOCK_BEGIN"
    <3>1. ReadsNow(f)
      BY <2>2, TurnReads
    <3>2. PICK s, b : /\ s \in SourcesIn(FileChunks) /\ Top(q).type = ParsedType(s)
                      /\ q.status = ParsedStatus(s, b)
      BY <2>1, <3>1 DEF ReadsNow, ReadsTo, JustRead
    <3> QED
      BY <2>2, <3>2, BlankBeginsNothing
  <2>5. AcceptedTo(f, Depth(f)) => AcceptedTo(f, Depth(f))'
    BY <2>2, <2>3, <2>4, AcceptsAll
  <2> QED
    BY <1>1, <2>2, <2>5 DEF Accepting
<1>4. CASE AcceptTurn(f)
  <2>1. PICK p, q : q = Accept(ReaderNext, f) /\ p = PumpStatusCode(q)
    OBVIOUS
  <2>2. /\ TurnOf(f, p) /\ ~IsError(ReaderNext)
        /\ pass' = pass /\ pass # "skipping"
    BY <1>4, <2>1 DEF AcceptTurn, SamePass
  <2>3. PumpLeaves(f, p, q) /\ (Clean(f)' => Clean(f))
    BY <2>1, <2>2, PumpedLeaves
  <2>4. Top(q).accepted_in = f
    <3>1. /\ f \in Acceptors /\ ReaderOf(f) \in ReadersIn(FileChunks, Acceptors)
          /\ IsRead(ReaderNext, ReaderOf(f), FileChunks, Acceptors)
      BY <2>2, TurnReads DEF Acceptors
    <3>2. PICK C, A, r, read : /\ C = FileChunks /\ A = Acceptors /\ r = ReaderOf(f)
                               /\ read = ReaderNext
      OBVIOUS
    <3>3. IsAccepted(q, read, r, f, C, A)
      BY <2>1, <3>1, <3>2, TopAccepted
    <3> QED
      BY <3>3 DEF IsAccepted
  <2>5. AcceptedTo(f, Depth(f)) => AcceptedTo(f, Depth(f))'
    BY <2>2, <2>3, <2>4, AcceptsAll
  <2>6. f = CurrentFile /\ MayReadOn(f)
    BY <2>2, ReaderNextIs DEF TurnOf, MayReadOn
  <2> QED
    BY <1>1, <2>2, <2>3, <2>5, <2>6 DEF Accepting
<1>5. CASE RewindTurn(f)
  <2>1. PICK p : p = PopRewind(ReaderNext)
    OBVIOUS
  <2>2. TurnOf(f, p) /\ pass' = "imports"
    BY <1>5, <2>1 DEF RewindTurn, SamePass
  <2>3. p.statements = ReaderOf(f).statements
    BY <1>5, <2>1, RewoundLeaves DEF RewindLeaves
  <2>4. AcceptedTo(f, Depth(f)) => AcceptedTo(f, Depth(f))'
    BY <2>2, <2>3, TurnLeaves DEF AcceptedTo, Depth
  <2> QED
    BY <1>1, <2>2, <2>4 DEF Accepting
<1>6. CASE RefuseTurn(f)
  <2>1. PICK p, q : q = ReaderNext /\ p = PumpStatusCode(q)
    OBVIOUS
  <2>2. TurnOf(f, p) /\ ~IsError(q)
    BY <1>6, <2>1 DEF RefuseTurn
  <2>3. PumpLeaves(f, p, q) /\ (Clean(f)' => Clean(f))
    BY <2>1, <2>2, PumpedLeaves
  <2>4. f = CurrentFile /\ MayReadOn(f)
    BY <2>2, ReaderNextIs DEF TurnOf, MayReadOn
  <2>5. ~NoErrorIn(f)'
    BY <1>6, TurnErrors
  <2>6. CASE pass = "packages" /\ SamePass
    BY <2>5, <2>6 DEF Accepting, SamePass
  <2>7. CASE pass = "declarations" /\ SamePass /\ q.status # "BLOCK_BEGIN"
    <3>1. AcceptedTo(f, Depth(f)) => AcceptedTo(f, Depth(f))'
      BY <2>2, <2>3, <2>7, AcceptsAll
    <3> QED
      BY <2>3, <2>4, <2>5, <2>7, <3>1 DEF Accepting, SamePass
  <2>8. CASE /\ pass = "declarations" /\ q.status = "BLOCK_BEGIN"
             /\ pass' = "skipping" /\ block_depth' = 1
    <3>1. PICK d : d = Depth(f)
      OBVIOUS
    <3>2. /\ d \in Nat /\ Depth(f)' = d + 1 /\ Len(p.statements) = d + 1
          /\ ReaderOf(f)'.next_sources = <<>>
      BY <2>2, <2>3, <2>8, <3>1, TurnLeaves DEF PumpLeaves
    <3>3. Clean(f)' => AcceptedTo(f, d)
      BY <2>3, <2>4, <2>8, <3>1 DEF Accepting
    <3>4. Clean(f)' => AcceptedTo(f, d)'
      BY <2>2, <2>3, <3>1, <3>2, <3>3, AcceptedPumped
    <3>5. Depth(f)' - block_depth' = d /\ block_depth' \in 1 .. Depth(f)'
      BY <2>8, <3>2
    <3>6. Skipping(f)'
      BY <2>5, <3>2, <3>4, <3>5 DEF Skipping
    <3> QED
      BY <2>5, <2>8, <3>6 DEF Accepting
  <2> QED
    BY <1>6, <2>1, <2>6, <2>7, <2>8 DEF RefuseTurn
<1>7. CASE SkipTurn(f)
  <2>1. Skipping(f) /\ f = CurrentFile
    BY <1>7 DEF SkipTurn, TurnOf, Accepting
  <2>2. ~NoErrorIn(f)'
    BY <1>1, <2>1 DEF Skipping
  <2>3. /\ block_depth' = DepthAfter
        /\ pass' = IF block_depth' = 0 THEN "declarations" ELSE "skipping"
    BY <1>7 DEF SkipTurn
  <2>4. PICK b \in Nat, d \in Nat : b = block_depth /\ d = Depth(f) /\ 1 <= b /\ b <= d
    <3>1. Depth(f) \in Nat
      <4>1. ReaderOf(f) \in ReadersIn(FileChunks, Acceptors)
        BY <1>7, TurnReads DEF SkipTurn
      <4> QED
        BY <4>1 DEF Depth, ReadersIn
    <3> QED
      BY <2>1, <3>1 DEF Skipping
  <2>5. CASE IsError(ReaderNext)
    <3>1. /\ ~Clean(f)' /\ TurnOf(f, ReaderNext) /\ ReaderNext.next_sources = <<>>
          /\ Len(ReaderNext.statements) = d + 1
      BY <1>7, <2>1, <2>4, <2>5, KeptUnclean
    <3>2. block_depth' = b
      BY <2>3, <2>4, <2>5 DEF DepthAfter, IsError
    <3>3. Depth(f)' = d + 1 /\ ReaderOf(f)'.next_sources = <<>>
      BY <3>1, TurnLeaves
    <3>4. Skipping(f)'
      BY <2>2, <2>4, <3>1, <3>2, <3>3 DEF Skipping
    <3> QED
      BY <2>2, <3>1, <3>4 DEF Accepting
  <2>6. CASE ~IsError(ReaderNext)
    <3>1. PICK p, q : q = ReaderNext /\ p = PumpStatusCode(q)
      OBVIOUS
    <3>2. TurnOf(f, p)
      BY <1>7, <3>1 DEF SkipTurn
    <3>3. PumpLeaves(f, p, q) /\ (Clean(f)' => Clean(f))
      BY <2>6, <3>1, <3>2, PumpedLeaves
    <3>4. PICK l \in Nat : l = Len(p.statements)
      BY <3>3 DEF PumpLeaves
    <3>5. Depth(f)' = l /\ ReaderOf(f)'.next_sources = <<>>
      BY <3>2, <3>3, <3>4, TurnLeaves DEF PumpLeaves
    <3>6. PICK e \in Nat : e = block_depth' /\ l - e = d - b /\ l >= e
      <4>1. CASE q.status = "BLOCK_BEGIN"
        BY <2>3, <2>4, <3>1, <3>3, <3>4, <4>1 DEF DepthAfter, PumpLeaves
      <4>2. CASE q.status = "BLOCK_END"
        BY <2>3, <2>4, <3>1, <3>3, <3>4, <4>2 DEF DepthAfter, PumpLeaves
      <4>3. CASE q.status \in {"OK", "ASSUMED_STATEMENT_END"}
        BY <2>3, <2>4, <3>1, <3>3, <3>4, <4>3 DEF DepthAfter, PumpLeaves
      <4> QED
        BY <3>3, <4>1, <4>2, <4>3 DEF PumpLeaves, Statuses
    <3>7. PICK n \in Nat : n = d - b /\ n <= d /\ n <= l /\ n = l - e
      <4>1. PICK n : n = d - b
        OBVIOUS
      <4>2. n \in Nat /\ n <= d /\ n <= l /\ n = l - e
        BY <2>4, <3>6, <4>1
      <4> QED
        BY <4>1, <4>2
    <3>8. Clean(f)' => AcceptedTo(f, n)'
      <4>1. Clean(f)' => AcceptedTo(f, n)
        BY <2>1, <2>4, <3>3, <3>7 DEF Skipping
      <4>2. n <= Depth(f) /\ n <= Len(p.statements) /\ n <= n
        BY <2>4, <3>4, <3>7
      <4> QED
        BY <3>2, <3>3, <4>1, <4>2, AcceptedPumped
    <3>9. CASE e = 0
      <4>1. pass' = "declarations" /\ n = l
        BY <2>3, <3>6, <3>7, <3>9
      <4> QED
        BY <2>2, <3>5, <3>8, <4>1 DEF Accepting
    <3>10. CASE e # 0
      <4>1. pass' = "skipping" /\ e \in 1 .. l
        BY <2>3, <3>6, <3>10
      <4>2. Skipping(f)'
        BY <2>2, <3>5, <3>6, <3>7, <3>8, <4>1 DEF Skipping
      <4> QED
        BY <2>2, <4>1, <4>2 DEF Accepting
    <3> QED
      BY <3>9, <3>10
  <2> QED
    BY <2>5, <2>6
<1> QED
  BY <1>2, <1>3, <1>4, <1>5, <1>6, <1>7 DEF Turns

LEMMA StackTurn ==
  ASSUME PlaceInv, EvalInv, errors \in Seq(ErrorType), StackInv, NEW f, Turns(f), Turn
  PROVE  StackInv'
<1>1. f \in AllFiles /\ f = CurrentFile /\ texts' = texts /\ AllFiles' = AllFiles
      /\ sorted_states' = sorted_states
      /\ \A g \in AllFiles : g # f => ReaderOf(g)' = ReaderOf(g) /\ TextOf(g)' = TextOf(g)
  <2>1. \E p : TurnOf(f, p)
    BY DEF Turns, KeepTurn, BlankTurn, AcceptTurn, RewindTurn, RefuseTurn, SkipTurn
  <2> QED
    BY <2>1 DEF TurnOf, AllFiles, ReaderOf, TextOf
<1>2. Follows(f) /\ Accepting(f)
  BY <1>1 DEF StackInv
<1>3. SkipTurn(f) => Skipping(f)
  BY <1>1, <1>2 DEF SkipTurn, Accepting
<1>4. Follows(f)' /\ Accepting(f)'
  BY <1>2, <1>3, FollowsTurn, AcceptingTurn
<1>5. ASSUME NEW g \in AllFiles, g # f
      PROVE  Follows(g)' /\ Accepting(g)'
  <2>1. /\ NoErrorIn(g)' => NoErrorIn(g)
        /\ NoParseErrorIn(g)' => NoParseErrorIn(g)
    BY TurnErrors
  <2>2. /\ TakenIn(g)' = TakenIn(g) /\ Depth(g)' = Depth(g)
        /\ ReaderOf(g)' = ReaderOf(g) /\ texts' = texts
    BY <1>1, <1>5 DEF TakenIn, Depth
  <2>3. Clean(g)' => Clean(g)
    BY <2>1, <2>2 DEF Clean, ParsedTo
  <2>4. AcceptedTo(g, Depth(g)) => AcceptedTo(g, Depth(g))'
    BY <2>2 DEF AcceptedTo
  <2>5. pass' \in {"declarations", "skipping"} => CurrentFile' = f
    <3>1. pass' \in {"declarations", "skipping"}
            => /\ pass \in {"declarations", "skipping"} /\ source_index' = source_index
      BY TurnPass DEF Turn
    <3> QED
      BY <1>1, <3>1 DEF CurrentFile
  <2>6. Follows(g) /\ Accepting(g)
    BY DEF StackInv
  <2>7. Follows(g)'
    BY <2>2, <2>3, <2>6 DEF Follows
  <2>8. Accepting(g)'
    BY <1>5, <2>1, <2>4, <2>5, <2>6 DEF Accepting
  <2> QED
    BY <2>7, <2>8
<1> QED
  BY <1>1, <1>4, <1>5 DEF StackInv

(* The passes that a step leaves and enters without reading                *)
LEMMA StillPasses ==
  ASSUME Still
  PROVE  /\ pass \in Passes \ {"done", "aborted"} /\ pass' \in Passes
         /\ pass' = "aborted" => StackOverflow
         /\ pass' = "declarations" => SkipEndOfText \/ EvalImports
<1> USE DEF Passes
<1>1. PackagesEndOfText \/ ImportsEndOfText \/ SkipEndOfText \/ DeclarationsEndOfText
        => /\ pass \in Passes \ {"done", "aborted"}
           /\ pass' \in {"packages", "imports", "declarations", "evaluate", "done"}
  BY DEF PackagesEndOfText, ImportsEndOfText, SkipEndOfText, DeclarationsEndOfText,
         Unevaluated
<1>2. PackagesEndOfText \/ ImportsEndOfText \/ DeclarationsEndOfText
        => pass' # "declarations"
  BY DEF PackagesEndOfText, ImportsEndOfText, DeclarationsEndOfText, Unevaluated
<1>3. EndOfPass("packages", "imports") \/ EndOfPass("imports", "unknown_imports")
        => /\ pass \in {"packages", "imports"}
           /\ pass' \in {"imports", "unknown_imports", "done"}
  BY DEF EndOfPass
<1>4. CheckUnknownImports \/ EvalPackageStatements \/ SortTakesFile \/ SortTakesNone
        => /\ pass \in {"unknown_imports", "create", "sort"}
           /\ pass' \in {"done", "create", "sort"}
  BY DEF CheckUnknownImports, EvalPackageStatements, SortTakesFile, SortTakesNone, files_vars
<1>5. SortEnds \/ Return
        => pass \in {"sort", "evaluate"} /\ pass' \in {"evaluate", "done"}
  BY DEF SortEnds, Return
<1>6. EvalImports => pass = "evaluate" /\ pass' \in {"done", "declarations"}
  BY DEF EvalImports
<1>7. StackOverflow
        => /\ pass \in {"packages", "imports", "declarations", "skipping"}
           /\ pass' = "aborted"
  BY DEF StackOverflow
<1> QED
  BY <1>1, <1>2, <1>3, <1>4, <1>5, <1>6, <1>7 DEF Still

(* Only the two checks of the imports find errors without reading.         *)
LEMMA StillErrors ==
  ASSUME Still
  PROVE  \/ CheckUnknownImports \/ EvalImports
         \/ UNCHANGED errors
<1>1. PackagesEndOfText \/ ImportsEndOfText \/ SkipEndOfText \/ DeclarationsEndOfText
        => UNCHANGED errors
  BY DEF PackagesEndOfText, ImportsEndOfText, SkipEndOfText, DeclarationsEndOfText
<1>2. EndOfPass("packages", "imports") \/ EndOfPass("imports", "unknown_imports")
        => UNCHANGED errors
  BY DEF EndOfPass
<1>3. EvalPackageStatements \/ SortTakesFile \/ SortTakesNone => UNCHANGED errors
  BY DEF EvalPackageStatements, SortTakesFile, SortTakesNone, files_vars
<1>4. SortEnds \/ Return \/ StackOverflow => UNCHANGED errors
  BY DEF SortEnds, Return, StackOverflow
<1> QED
  BY <1>1, <1>2, <1>3, <1>4 DEF Still

LEMMA StackStill ==
  ASSUME EvalInv, ErrorsInv, StackInv, Still
  PROVE  StackInv'
<1>1. texts' = texts /\ file_states' = file_states /\ AllFiles' = AllFiles
  BY StillFiles DEF AllFiles
<1>2. errors' = errors \/ errors = <<>>
  BY StillErrors DEF CheckUnknownImports, EvalImports, ErrorsInv
<1> SUFFICES ASSUME NEW f \in AllFiles PROVE Follows(f)' /\ Accepting(f)'
  BY <1>1 DEF StackInv
<1>3. /\ NoErrorIn(f)' => NoErrorIn(f)
      /\ NoParseErrorIn(f)' => NoParseErrorIn(f)
  BY <1>2, ErrorsGrow DEF ErrorsInv
<1>4. /\ ReaderOf(f)' = ReaderOf(f) /\ TextOf(f)' = TextOf(f) /\ TakenIn(f)' = TakenIn(f)
      /\ Depth(f)' = Depth(f)
  BY <1>1 DEF ReaderOf, TextOf, TakenIn, Depth
<1>5. Clean(f)' => Clean(f)
  BY <1>1, <1>3, <1>4 DEF Clean, ParsedTo
<1>6. AcceptedTo(f, Depth(f)) => AcceptedTo(f, Depth(f))'
  BY <1>4 DEF AcceptedTo
<1>7. Follows(f) /\ Accepting(f)
  BY DEF StackInv
<1>8. Follows(f)'
  BY <1>1, <1>4, <1>5, <1>7 DEF Follows
<1>9. pass' # "skipping"
  BY StillPass
<1>10. NoErrorIn(f)' => AcceptedTo(f, Depth(f))'
  BY <1>3, <1>6, <1>7 DEF Accepting
<1>11. pass' = "declarations" /\ f = CurrentFile' => ~MayReadOn(f)' \/ NoErrorIn(f)'
  <2>1. CASE SkipEndOfText
    <3>1. CurrentFile' = CurrentFile /\ ~CanRead /\ pass' = "declarations"
      BY <2>1 DEF SkipEndOfText, CurrentFile, Evaluating
    <3>2. f = CurrentFile => ~MayReadOn(f)
      BY <3>1, ReaderNextIs DEF MayReadOn
    <3> QED
      BY <1>4, <3>1, <3>2 DEF MayReadOn
  <2>2. CASE EvalImports
    <3>1. pass' = "declarations" => errors' = <<>>
      BY <2>2 DEF EvalImports
    <3> QED
      BY <3>1 DEF NoErrorIn
  <2> QED
    BY <2>1, <2>2, StillPasses
<1>12. Accepting(f)'
  BY <1>9, <1>10, <1>11 DEF Accepting
<1> QED
  BY <1>8, <1>12

LEMMA StackInit == Init => StackInv
<1> SUFFICES ASSUME Init, NEW f \in AllFiles PROVE Follows(f) /\ Accepting(f)
  BY DEF StackInv
<1>1. ReaderOf(f) = NewReader /\ TextOf(f) = texts[f] /\ pass = "packages"
  BY DEF Init, NewFileState, ReaderOf, TextOf
<1>2. ReaderOf(f).statements = <<>> /\ ReaderOf(f).next_sources = <<>>
  BY <1>1 DEF NewReader
<1>3. Len(texts[f]) \in Nat
  <2>1. texts \in Seq(Seq(Chunks(STRING)))
    BY TextsAssumption DEF Init
  <2> QED
    BY <2>1 DEF AllFiles
<1>4. TakenIn(f) = 0
  BY <1>1, <1>2, <1>3 DEF TakenIn, Taken, Place
<1>5. PICK w : w = texts[f]
  OBVIOUS
<1>6. OpenIn(w, 0) = <<>>
  <2>1. SubSeq(w, 1, 0) = <<>>
    OBVIOUS
  <2> QED
    BY <2>1, OpenBlocksNothing DEF OpenIn
<1>7. EndsOf(<<>>) = <<>>
  BY DEF EndsOf
<1>8. Follows(f)
  BY <1>2, <1>4, <1>5, <1>6, <1>7 DEF Follows
<1>9. Accepting(f)
  <2>1. Depth(f) = 0
    BY <1>2 DEF Depth
  <2> QED
    BY <1>1, <2>1 DEF Accepting, AcceptedTo
<1> QED
  BY <1>8, <1>9

-----------------------------------------------------------------------------
(* The other variables                                                     *)

VarsInv ==
  /\ texts \in Texts
  /\ pass \in Passes /\ source_index \in 1 .. Len(texts) + 1 /\ block_depth \in Nat
  /\ \A f \in AllFiles : NameOf(f) \in Names /\ file_states[f].imports \in Seq(Names)
  /\ pass \in {"packages", "imports", "unknown_imports", "create"} => packages = <<>>
  /\ packages \in {<<>>, [f \in AllFiles |-> NameOf(f)]}
  /\ DOMAIN dependencies = DOMAIN packages

LEMMA TextsType ==
  ASSUME VarsInv
  PROVE  texts \in Seq(Seq(Chunks(STRING)))
BY TextsAssumption DEF VarsInv

LEMMA VarsInit == Init => VarsInv
<1> SUFFICES ASSUME Init PROVE VarsInv
  OBVIOUS
<1>1. \A f \in AllFiles : NameOf(f) = "" /\ file_states[f].imports = <<>>
  BY DEF Init, NewFileState, NameOf
<1>2. "" \in Names
  BY DEF Names
<1>3. <<>> \in Seq(Names)
  OBVIOUS
<1>4. Len(texts) \in Nat
  BY TextsAssumption DEF Init
<1>5. /\ texts \in Texts /\ pass = "packages" /\ source_index = 1 /\ block_depth = 0
      /\ packages = <<>> /\ dependencies = <<>>
  BY DEF Init
<1>6. pass \in Passes /\ source_index \in 1 .. Len(texts) + 1 /\ block_depth \in Nat
  BY <1>4, <1>5 DEF Passes
<1> QED
  BY <1>1, <1>2, <1>3, <1>5, <1>6 DEF VarsInv

(* A name that is read is the name of a chunk, or none.                    *)
LEMMA NamesRead ==
  ASSUME PlaceInv, NEW f, NEW p, TurnOf(f, p)
  PROVE  Top(ReaderNext).name \in Names
<1>1. ReadsNow(f)
  BY TurnReads
<1>2. PICK s \in SourcesIn(FileChunks) : Top(ReaderNext).name = ParsedName(s)
  BY <1>1 DEF ReadsNow, ReadsTo, JustRead
<1>3. ParsedName(s) \in {c.name : c \in FileChunks} \cup {""}
  BY ParsedIn
<1>4. ASSUME NEW c \in FileChunks
      PROVE  c.name \in Names
  <2>1. CASE c \in UNION {ToSet(texts[g]) : g \in AllFiles}
    BY <2>1 DEF Names
  <2>2. CASE c = EndOfText
    BY <2>2 DEF EndOfText, Names
  <2> QED
    BY <2>1, <2>2 DEF FileChunks
<1>5. "" \in Names
  BY DEF Names
<1> QED
  BY <1>2, <1>3, <1>4, <1>5

LEMMA VarsTurn ==
  ASSUME EvalInv, PlaceInv, VarsInv, StackInv, NEW f, Turns(f), Turn
  PROVE  VarsInv'
<1>1. PICK p : TurnOf(f, p)
  BY DEF Turns, KeepTurn, BlankTurn, AcceptTurn, RewindTurn, RefuseTurn, SkipTurn
<1>2. /\ f \in AllFiles /\ f = CurrentFile /\ source_index <= Len(texts)
      /\ UNCHANGED <<texts, packages, dependencies, sorted_states>>
      /\ \A g \in AllFiles : g # f => file_states'[g] = file_states[g]
      /\ file_states'[f].package_name \in {NameOf(f), Top(ReaderNext).name}
      /\ \/ file_states'[f].imports = file_states[f].imports
         \/ file_states'[f].imports = Append(file_states[f].imports, Top(ReaderNext).name)
  BY <1>1 DEF TurnOf, AtFile
<1>3. AllFiles' = AllFiles /\ Names' = Names
  BY <1>2, SameTexts
<1>4. pass \in ReadingPasses /\ pass' \in ReadingPasses
      /\ (pass' = pass \/ {pass, pass'} = {"declarations", "skipping"})
  BY TurnPass
<1>5. source_index' \in 1 .. Len(texts) + 1
  <2>1. Len(texts) \in Nat /\ source_index \in Nat \ {0}
    BY DEF EvalInv, FilesInv
  <2> QED
    BY <1>2, <2>1 DEF Turn
<1>6. block_depth' \in Nat
  <2>1. CASE KeepTurn(f) \/ BlankTurn(f) \/ AcceptTurn(f) \/ RewindTurn(f) \/ RefuseTurn(f)
    <3>1. block_depth' \in {block_depth, 1}
      BY <2>1 DEF KeepTurn, BlankTurn, AcceptTurn, RewindTurn, RefuseTurn, SamePass
    <3>2. block_depth \in Nat /\ 1 \in Nat
      BY DEF VarsInv
    <3> QED
      BY <3>1, <3>2
  <2>2. CASE SkipTurn(f)
    <3>1. block_depth \in 1 .. Depth(f) /\ block_depth' = DepthAfter
      BY <1>2, <2>2 DEF SkipTurn, StackInv, Accepting, Skipping
    <3> QED
      BY <3>1 DEF DepthAfter
  <2> QED
    BY <2>1, <2>2 DEF Turns
<1>7. ASSUME NEW g \in AllFiles
      PROVE  file_states'[g].package_name \in Names /\ file_states'[g].imports \in Seq(Names)
  <2>1. Top(ReaderNext).name \in Names
    BY <1>1, NamesRead
  <2>2. NameOf(g) \in Names /\ file_states[g].imports \in Seq(Names)
    BY DEF VarsInv
  <2>3. CASE g # f
    BY <1>2, <2>2, <2>3 DEF NameOf
  <2>4. CASE g = f
    <3>1. PICK n \in Names : n = Top(ReaderNext).name
      BY <2>1
    <3>2. PICK l \in Seq(Names) : l = file_states[f].imports
      BY <2>2, <2>4
    <3>3. Append(l, n) \in Seq(Names)
      OBVIOUS
    <3> QED
      BY <1>2, <2>1, <2>2, <2>4, <3>1, <3>2, <3>3
  <2> QED
    BY <2>3, <2>4
<1>8. packages' \in {<<>>, [g \in AllFiles |-> NameOf(g)']}
  <2>1. CASE pass \in {"packages", "imports"}
    BY <1>2, <2>1 DEF VarsInv
  <2>2. CASE pass \in {"declarations", "skipping"}
    <3>1. \A g \in AllFiles : NameOf(g)' = NameOf(g)
      BY <2>2 DEF Turn, SameNames, NameOf
    <3>2. [g \in AllFiles |-> NameOf(g)'] = [g \in AllFiles |-> NameOf(g)]
      BY <3>1
    <3> QED
      BY <1>2, <3>2 DEF VarsInv
  <2> QED
    BY <1>4, <2>1, <2>2 DEF ReadingPasses
<1>9. pass' \in {"packages", "imports", "unknown_imports", "create"} => packages' = <<>>
  BY <1>2, <1>4 DEF VarsInv, ReadingPasses
<1> QED
  BY <1>2, <1>3, <1>4, <1>5, <1>6, <1>7, <1>8, <1>9 DEF VarsInv, NameOf, Passes, ReadingPasses

LEMMA VarsStill ==
  ASSUME EvalInv, VarsInv, Still
  PROVE  VarsInv'
<1>1. /\ texts' = texts /\ file_states' = file_states
      /\ AllFiles' = AllFiles /\ Names' = Names
  BY StillFiles, SameTexts
<1>2. \A f \in AllFiles : NameOf(f)' = NameOf(f)
  BY <1>1 DEF NameOf
<1>3. [g \in AllFiles |-> NameOf(g)'] = [g \in AllFiles |-> NameOf(g)]
  BY <1>2
<1>4. pass' \in Passes
  BY StillPasses
<1>5. Len(texts) \in Nat /\ source_index \in Nat \ {0} /\ source_index <= Len(texts) + 1
  BY DEF EvalInv, FilesInv, VarsInv
<1>6. /\ source_index' \in 1 .. Len(texts) + 1 /\ block_depth' \in Nat
      /\ pass' \in {"packages", "imports", "unknown_imports", "create"} => packages' = <<>>
      /\ packages' \in {<<>>, [f \in AllFiles |-> NameOf(f)]}
      /\ DOMAIN dependencies' = DOMAIN packages'
  <2>1. CASE PackagesEndOfText \/ ImportsEndOfText
    BY <1>5, <2>1 DEF PackagesEndOfText, ImportsEndOfText, Unevaluated, NextFile, AtFile, VarsInv
  <2>2. CASE SkipEndOfText
    BY <1>5, <2>2 DEF SkipEndOfText, Evaluating, VarsInv
  <2>3. CASE DeclarationsEndOfText
    <3>1. source_index <= Len(texts)
      BY <2>3 DEF DeclarationsEndOfText, EvalInv, SortInv
    <3> QED
      BY <1>5, <2>3, <3>1 DEF DeclarationsEndOfText, NextFile, SameFile, VarsInv
  <2>4. CASE EndOfPass("packages", "imports")
    BY <1>5, <2>4 DEF EndOfPass, VarsInv
  <2>5. CASE EndOfPass("imports", "unknown_imports")
    BY <1>5, <2>5 DEF EndOfPass, VarsInv
  <2>6. CASE CheckUnknownImports
    BY <1>5, <2>6 DEF CheckUnknownImports, VarsInv
  <2>7. CASE EvalPackageStatements
    <3>1. /\ packages' = [f \in AllFiles |-> NameOf(f)]
          /\ dependencies' = [f \in AllFiles |-> <<>>] /\ pass' = "sort"
          /\ UNCHANGED <<source_index, block_depth>>
      BY <2>7 DEF EvalPackageStatements
    <3> QED
      BY <1>5, <3>1 DEF VarsInv
  <2>8. CASE SortTakesFile \/ SortTakesNone \/ SortEnds
    BY <1>5, <2>8 DEF SortTakesFile, SortTakesNone, SortEnds, files_vars, VarsInv
  <2>9. CASE EvalImports
    <3>1. PICK found : dependencies' = [dependencies EXCEPT ![CurrentFile] = found]
      BY <2>9 DEF EvalImports
    <3>2. DOMAIN dependencies' = DOMAIN dependencies
      BY <3>1
    <3>3. /\ UNCHANGED <<source_index, block_depth, packages>>
          /\ pass' \in {"done", "declarations"}
      BY <2>9 DEF EvalImports
    <3> QED
      BY <1>5, <3>2, <3>3 DEF VarsInv
  <2>10. CASE Return \/ StackOverflow
    BY <1>5, <2>10 DEF Return, StackOverflow, VarsInv
  <2> QED
    BY <2>1, <2>2, <2>3, <2>4, <2>5, <2>6, <2>7, <2>8, <2>9, <2>10 DEF Still
<1> QED
  BY <1>1, <1>2, <1>3, <1>4, <1>6 DEF VarsInv

-----------------------------------------------------------------------------
(* The order of files given in import order, and where errors are found    *)

NamesDiffer == \A f, g \in AllFiles : NameOf(f) = NameOf(g) => f = g

(* Such files are sorted as they are given.                                *)
OrderInv ==
  GivenInImportOrder /\ NamesDiffer
    => \A k \in DOMAIN sorted_states : sorted_states[k] = k

LEMMA SameGiven ==
  ASSUME EvalInv, texts' = texts, SameNames(file_states', file_states)
  PROVE  GivenInImportOrder' = GivenInImportOrder /\ NamesDiffer' = NamesDiffer
<1>1. AllFiles' = AllFiles
  BY DEF AllFiles
<1>2. \A f \in AllFiles : NameOf(f)' = NameOf(f) /\ ImportsOf(f)' = ImportsOf(f)
  BY DEF SameNames, NameOf, ImportsOf
<1>3. NamesDiffer' = NamesDiffer
  BY <1>1, <1>2 DEF NamesDiffer
<1>4. \A f \in AllFiles : \A g \in 1 .. f - 1 : g \in AllFiles
  BY DEF EvalInv, FilesInv
<1>5. \A f \in AllFiles : {NameOf(g)' : g \in 1 .. f - 1} = {NameOf(g) : g \in 1 .. f - 1}
  BY <1>2, <1>4
<1>6. GivenInImportOrder' = GivenInImportOrder
  BY <1>1, <1>2, <1>5 DEF GivenInImportOrder
<1> QED
  BY <1>3, <1>6

(* Once all files are sorted, no two of them have the same name.           *)
LEMMA SortedDiffer ==
  ASSUME EvalInv, Len(sorted_states) = Len(texts)
  PROVE  NamesDiffer
<1> SUFFICES ASSUME NEW f \in AllFiles, NEW g \in AllFiles, NameOf(f) = NameOf(g)
             PROVE  f = g
  BY DEF NamesDiffer
<1>1. PICK i \in DOMAIN sorted_states : sorted_states[i] = f
  BY AllSorted DEF ToSet
<1>2. PICK j \in DOMAIN sorted_states : sorted_states[j] = g
  BY AllSorted DEF ToSet
<1> QED
  BY <1>1, <1>2 DEF EvalInv, SortInv

LEMMA OrderKept ==
  ASSUME EvalInv, OrderInv, SameOrder
  PROVE  OrderInv'
BY SameGiven DEF OrderInv, SameOrder

LEMMA OrderSort ==
  ASSUME EvalInv, VarsInv, OrderInv, SortTakesFile
  PROVE  OrderInv'
<1> USE DEF EvalInv
<1>1. /\ \E f \in AllFiles : Resolvable(f)
      /\ sorted_states' = Append(sorted_states, FirstResolvable)
      /\ UNCHANGED <<texts, file_states>>
  BY DEF SortTakesFile
<1>2. GivenInImportOrder' = GivenInImportOrder /\ NamesDiffer' = NamesDiffer
  BY <1>1, SameGiven DEF SameNames
<1> SUFFICES ASSUME GivenInImportOrder, NamesDiffer
             PROVE  \A k \in DOMAIN sorted_states' : sorted_states'[k] = k
  BY <1>2 DEF OrderInv
<1>3. PICK n \in Nat : n = Len(sorted_states)
  BY DEF FilesInv
<1>4. \A k \in 1 .. n : sorted_states[k] = k
  BY <1>3 DEF OrderInv, FilesInv
<1>5. PICK m \in AllFiles : m = FirstResolvable /\ Resolvable(m)
  BY <1>1, FirstResolvableIs
<1>6. AllFiles = 1 .. Len(texts) /\ Len(texts) \in Nat
  BY DEF FilesInv
<1>7. \A k \in 1 .. n : k \in ToSet(sorted_states) /\ NameOf(k) \in ResolvedPackages
  BY <1>3, <1>4 DEF FilesInv, ToSet, ResolvedPackages
<1>8. ToSet(sorted_states) = 1 .. n
  BY <1>3, <1>4 DEF FilesInv, ToSet
<1>9. n + 1 <= m
  <2>1. m \notin 1 .. n
    BY <1>5, <1>7 DEF Resolvable
  <2> QED
    BY <1>6, <2>1
<1>10. n + 1 \in AllFiles /\ Resolvable(n + 1)
  <2>1. n + 1 \in AllFiles
    BY <1>6, <1>9
  <2>2. NameOf(n + 1) \notin ResolvedPackages
    <3>1. ASSUME NEW k \in 1 .. n, NameOf(k) = NameOf(n + 1)
          PROVE  FALSE
      <4>1. k \in AllFiles
        BY <1>6, <2>1
      <4> QED
        BY <2>1, <3>1, <4>1 DEF NamesDiffer
    <3> QED
      BY <1>8, <3>1 DEF ResolvedPackages
  <2>3. ImportsOf(n + 1) \subseteq {NameOf(g) : g \in 1 .. n}
    <3>1. (n + 1) - 1 = n
      OBVIOUS
    <3> QED
      BY <2>1, <3>1 DEF GivenInImportOrder
  <2> QED
    BY <1>7, <2>1, <2>2, <2>3 DEF Resolvable
<1>11. m <= n + 1
  <2> DEFINE S == {f \in AllFiles : Resolvable(f)}
  <2>1. S \subseteq Nat /\ n + 1 \in S
    BY <1>6, <1>10
  <2>2. \E x \in S : \A y \in S : x <= y
    BY <2>1, LeastNat
  <2>3. \A y \in S : Min(S) <= y
    BY <2>2 DEF Min
  <2> QED
    BY <1>5, <2>1, <2>3 DEF FirstResolvable
<1>12. m = n + 1
  BY <1>6, <1>9, <1>11
<1>13. /\ Len(sorted_states') = n + 1 /\ DOMAIN sorted_states' = 1 .. n + 1
       /\ \A i \in 1 .. n : sorted_states'[i] = sorted_states[i]
       /\ sorted_states'[n + 1] = m
  BY <1>1, <1>3, <1>5, AppendProperties DEF FilesInv
<1> QED
  BY <1>4, <1>12, <1>13

LEMMA OrderStep ==
  ASSUME EvalInv, VarsInv, OrderInv, [Next]_files_vars
  PROVE  OrderInv'
<1>1. UNCHANGED <<texts, file_states, sorted_states>> => OrderInv'
  BY OrderKept DEF SameOrder, SameNames
<1>2. CASE LearnStep
  BY <1>2 DEF LearnStep, EvalInv, SortInv, OrderInv
<1>3. CASE EvalStep
  BY <1>3, OrderKept DEF EvalStep, SameOrder
<1>4. CASE SortTakesFile
  BY <1>4, OrderSort
<1>5. EndOfPass("packages", "imports") \/ EndOfPass("imports", "unknown_imports")
        => UNCHANGED <<texts, file_states, sorted_states>>
  BY DEF EndOfPass
<1>6. CheckUnknownImports \/ EvalPackageStatements \/ SortTakesNone \/ SortEnds
        => UNCHANGED <<texts, file_states, sorted_states>>
  BY DEF CheckUnknownImports, EvalPackageStatements, SortTakesNone, SortEnds, files_vars
<1>7. EvalImports \/ Return \/ DeclarationsEndOfText \/ StackOverflow
        => UNCHANGED <<texts, file_states, sorted_states>>
  BY DEF EvalImports, Return, DeclarationsEndOfText, StackOverflow
<1>8. CASE UNCHANGED files_vars
  BY <1>1, <1>8 DEF files_vars
<1> QED
  BY <1>1, <1>2, <1>3, <1>4, <1>5, <1>6, <1>7, <1>8, StepKinds

Located == \A i \in DOMAIN errors : errors[i].source_index = errors[i].file

(* The first passes read the files as given, the others as sorted.         *)
IndexInv == pass \in {"packages", "imports"} \/ GivenInImportOrder => Located

(* The index that is reported is that of the file.                         *)
IndexRight ==
  pass \in {"packages", "imports"} \/ GivenInImportOrder => CurrentFile = source_index

LEMMA CurrentIs ==
  ASSUME EvalInv, OrderInv, AtFile,
         pass \in {"packages", "imports", "evaluate", "declarations", "skipping"}
  PROVE  source_index \in AllFiles /\ CurrentFile \in AllFiles /\ IndexRight
<1>1. source_index \in AllFiles
  BY DEF EvalInv, FilesInv, AtFile
<1>2. CASE pass \in {"packages", "imports"}
  BY <1>1, <1>2 DEF CurrentFile, IndexRight
<1>3. CASE pass \in {"evaluate", "declarations", "skipping"}
  <2>1. /\ source_index \in DOMAIN sorted_states
        /\ CurrentFile = sorted_states[source_index] /\ CurrentFile \in AllFiles
    BY <1>3, SortedFile
  <2>2. NamesDiffer
    BY <1>3, SortedDiffer DEF EvalInv, SortInv
  <2> QED
    BY <1>1, <1>3, <2>1, <2>2 DEF OrderInv, IndexRight
<1> QED
  BY <1>2, <1>3

(* One more error about the current file                                   *)
LEMMA LocatedGrows ==
  ASSUME errors \in Seq(ErrorType), NEW i \in AllFiles, NEW f \in AllFiles, NEW b \in BOOLEAN,
         errors' = Append(errors, Error(i, f, b))
  PROVE  errors' \in Seq(ErrorType) /\ (Located /\ i = f => Located')
<1>1. PICK e \in ErrorType : e = Error(i, f, b) /\ e.source_index = i /\ e.file = f
  BY DEF Error, ErrorType
<1>2. PICK n \in Nat : n = Len(errors)
  OBVIOUS
<1>3. /\ errors' \in Seq(ErrorType) /\ DOMAIN errors' = 1 .. n + 1
      /\ \A k \in 1 .. n : errors'[k] = errors[k]
      /\ errors'[n + 1] = e /\ DOMAIN errors = 1 .. n
  BY <1>1, <1>2, AppendProperties
<1>4. \A k \in 1 .. n + 1 : k \in 1 .. n \/ k = n + 1
  BY <1>2
<1>5. Located /\ i = f => Located'
  BY <1>1, <1>3, <1>4 DEF Located
<1> QED
  BY <1>3, <1>5

LEMMA ErrorsTurn ==
  ASSUME EvalInv, OrderInv, ErrorsInv, IndexInv, NEW f, Turns(f), Turn
  PROVE  ErrorsInv' /\ IndexInv'
<1>1. /\ f \in AllFiles /\ f = CurrentFile /\ AtFile /\ texts' = texts
  BY DEF Turns, KeepTurn, BlankTurn, AcceptTurn, RewindTurn, RefuseTurn, SkipTurn, TurnOf
<1>2. pass \in ReadingPasses /\ pass' \in ReadingPasses
      /\ (pass' = pass \/ {pass, pass'} = {"declarations", "skipping"})
  BY TurnPass
<1>3. source_index \in AllFiles /\ IndexRight
  BY <1>1, <1>2, CurrentIs DEF ReadingPasses
<1>4. errors' = errors \/ \E b \in BOOLEAN : errors' = Append(errors, Error(source_index, f, b))
  BY DEF Turns, KeepTurn, BlankTurn, AcceptTurn, RewindTurn, RefuseTurn, SkipTurn
<1>5. errors' \in Seq(ErrorType) /\ (Located /\ source_index = f => Located')
  <2>1. CASE errors' = errors
    BY <2>1 DEF ErrorsInv, Located
  <2>2. ASSUME NEW b \in BOOLEAN, errors' = Append(errors, Error(source_index, f, b))
        PROVE  errors' \in Seq(ErrorType) /\ (Located /\ source_index = f => Located')
    BY <1>1, <1>3, <2>2, LocatedGrows DEF ErrorsInv
  <2> QED
    BY <1>4, <2>1, <2>2
<1>6. ErrorType' = ErrorType
  BY <1>1, SameTexts DEF ErrorType
<1>7. ErrorsInv'
  BY <1>2, <1>5, <1>6 DEF ErrorsInv, ReadingPasses
<1>8. IndexInv'
  <2>1. CASE pass \in {"packages", "imports"}
    BY <1>1, <1>3, <1>5, <2>1 DEF IndexInv, IndexRight
  <2>2. CASE pass \in {"declarations", "skipping"}
    <3>1. GivenInImportOrder' = GivenInImportOrder
      BY <1>1, <2>2, SameGiven DEF Turn
    <3>2. pass' \notin {"packages", "imports"}
      BY <1>2, <2>2
    <3> QED
      BY <1>1, <1>3, <1>5, <3>1, <3>2 DEF IndexInv, IndexRight
  <2> QED
    BY <1>2, <2>1, <2>2 DEF ReadingPasses
<1> QED
  BY <1>7, <1>8

(* The numbers of imports are finite.                                      *)
LEMMA ImportsFinite ==
  ASSUME VarsInv, NEW f \in AllFiles, NEW S, S \subseteq DOMAIN file_states[f].imports
  PROVE  Cardinality(S) \in Nat
<1>1. PICK l \in Seq(Names) : l = file_states[f].imports
  BY DEF VarsInv
<1>2. PICK n \in Nat : n = Len(l) /\ DOMAIN l = 1 .. n
  OBVIOUS
<1>3. IsFiniteSet(1 .. n)
  BY FS_Interval
<1>4. S \subseteq 1 .. n
  BY <1>1, <1>2
<1>5. IsFiniteSet(S)
  BY <1>3, <1>4, FS_Subset
<1> QED
  BY <1>5, FS_CardinalityType

LEMMA SameInAll ==
  ASSUME NEW T, NEW e \in T, NEW n \in Nat
  PROVE  [i \in 1 .. n |-> e] \in Seq(T)
<1>1. [i \in 1 .. n |-> e] \in [1 .. n -> T]
  OBVIOUS
<1> QED
  BY <1>1

ErrorsOfFiles == {e \in ErrorType : e.source_index = e.file}

LEMMA UnknownErrors ==
  ASSUME EvalInv, VarsInv, CheckUnknownImports
  PROVE  errors' \in Seq(ErrorsOfFiles)
<1> DEFINE found == [f \in AllFiles |->
                       [i \in 1 .. Cardinality(UnknownImports(f)) |-> Error(f, f, FALSE)]]
<1>1. errors' = FlattenSeq(found)
  BY DEF CheckUnknownImports
<1>2. ASSUME NEW f \in AllFiles
      PROVE  found[f] \in Seq(ErrorsOfFiles)
  <2>1. PICK n \in Nat : n = Cardinality(UnknownImports(f))
    BY ImportsFinite DEF UnknownImports
  <2>2. PICK e \in ErrorsOfFiles : e = Error(f, f, FALSE)
    BY DEF Error, ErrorsOfFiles, ErrorType
  <2>3. found[f] = [i \in 1 .. n |-> e]
    BY <2>1, <2>2
  <2> QED
    BY <2>3, SameInAll
<1>3. PICK n \in Nat : AllFiles = 1 .. n
  BY DEF EvalInv, FilesInv
<1>4. found \in [1 .. n -> Seq(ErrorsOfFiles)]
  BY <1>2, <1>3
<1> HIDE DEF found
<1>5. PICK s \in Seq(Seq(ErrorsOfFiles)) : s = found
  BY <1>3, <1>4
<1>6. FlattenSeq(s) \in Seq(ErrorsOfFiles)
  BY FlattenIn
<1> QED
  BY <1>1, <1>5, <1>6

LEMMA ImportErrors ==
  ASSUME EvalInv, VarsInv, OrderInv, EvalImports
  PROVE  /\ errors' \in Seq(ErrorType)
         /\ GivenInImportOrder => errors' \in Seq(ErrorsOfFiles)
<1>1. pass = "evaluate" /\ AtFile
  BY DEF EvalImports
<1>2. PICK k \in AllFiles, f \in AllFiles :
        k = source_index /\ f = CurrentFile /\ (GivenInImportOrder => f = k)
  BY <1>1, CurrentIs DEF IndexRight
<1>3. PICK lost : /\ lost \subseteq DOMAIN Current.imports
                  /\ errors' = [i \in 1 .. Cardinality(lost) |-> Error(k, f, TRUE)]
  BY <1>2 DEF EvalImports
<1>4. PICK n \in Nat : n = Cardinality(lost)
  BY <1>2, <1>3, ImportsFinite DEF Current
<1>5. PICK e : e = Error(k, f, TRUE)
  OBVIOUS
<1>6. e \in ErrorType /\ (GivenInImportOrder => e \in ErrorsOfFiles)
  BY <1>2, <1>5 DEF Error, ErrorType, ErrorsOfFiles
<1>7. errors' = [i \in 1 .. n |-> e]
  BY <1>3, <1>4, <1>5
<1> QED
  BY <1>6, <1>7, SameInAll

LEMMA LocatedAll ==
  ASSUME errors' \in Seq(ErrorsOfFiles)
  PROVE  errors' \in Seq(ErrorType) /\ Located'
<1>1. ErrorsOfFiles \subseteq ErrorType
  BY DEF ErrorsOfFiles
<1>2. \A i \in DOMAIN errors' : errors'[i].source_index = errors'[i].file
  BY DEF ErrorsOfFiles
<1> QED
  BY <1>1, <1>2 DEF Located

LEMMA ErrorsStill ==
  ASSUME EvalInv, VarsInv, OrderInv, ErrorsInv, IndexInv, Still
  PROVE  ErrorsInv' /\ IndexInv'
<1>1. texts' = texts /\ UNCHANGED file_states /\ ErrorType' = ErrorType
  BY StillFiles, SameTexts DEF ErrorType
<1>2. GivenInImportOrder' = GivenInImportOrder
  BY <1>1, SameGiven DEF SameNames
<1>3. CASE CheckUnknownImports
  <2>1. pass' = IF errors' # <<>> THEN "done" ELSE "create"
    BY <1>3 DEF CheckUnknownImports
  <2>2. errors' \in Seq(ErrorType) /\ Located'
    BY <1>3, UnknownErrors, LocatedAll
  <2>3. ErrorsInv'
    BY <1>1, <2>1, <2>2 DEF ErrorsInv
  <2> QED
    BY <2>2, <2>3 DEF IndexInv
<1>4. CASE EvalImports
  <2>1. pass' = IF errors' # <<>> THEN "done" ELSE "declarations"
    BY <1>4 DEF EvalImports
  <2>2. errors' \in Seq(ErrorType) /\ (GivenInImportOrder => Located')
    BY <1>4, ImportErrors, LocatedAll
  <2>3. ErrorsInv'
    BY <1>1, <2>1, <2>2 DEF ErrorsInv
  <2> QED
    BY <1>2, <2>1, <2>2, <2>3 DEF IndexInv
<1>5. CASE UNCHANGED errors
  <2>1. pass' \in {"packages", "imports"} => pass \in {"packages", "imports"}
    BY StillPass
  <2>2. pass' \in {"unknown_imports", "create", "sort", "evaluate"} => errors = <<>>
    <3>1. CASE PackagesEndOfText \/ ImportsEndOfText \/ SkipEndOfText \/ DeclarationsEndOfText
      BY <3>1 DEF PackagesEndOfText, ImportsEndOfText, SkipEndOfText, DeclarationsEndOfText,
                  Unevaluated
    <3>2. CASE EndOfPass("packages", "imports")
      BY <3>2 DEF EndOfPass
    <3>3. CASE EndOfPass("imports", "unknown_imports")
      BY <3>3 DEF EndOfPass
    <3>4. CASE \/ CheckUnknownImports \/ EvalPackageStatements \/ SortTakesFile
               \/ SortTakesNone \/ SortEnds \/ EvalImports \/ Return
      <4>1. pass \in {"unknown_imports", "create", "sort", "evaluate"}
        BY <3>4 DEF CheckUnknownImports, EvalPackageStatements, SortTakesFile,
                    SortTakesNone, SortEnds, EvalImports, Return
      <4> QED
        BY <4>1 DEF ErrorsInv
    <3>5. CASE StackOverflow
      BY <3>5 DEF StackOverflow
    <3> QED
      BY <3>1, <3>2, <3>3, <3>4, <3>5 DEF Still
  <2>3. ErrorsInv'
    BY <1>1, <1>5, <2>2 DEF ErrorsInv
  <2>4. Located => Located'
    BY <1>5 DEF Located
  <2>5. IndexInv'
    BY <1>2, <2>1, <2>4 DEF IndexInv
  <2> QED
    BY <2>3, <2>5
<1> QED
  BY <1>3, <1>4, <1>5, StillErrors

-----------------------------------------------------------------------------
(* The whole invariant                                                     *)

(* A failed assertion leaves a full stack.                                 *)
AbortInv == pass = "aborted" => \E f \in AllFiles : Depth(f) = StackSize

FilesStateInv ==
  /\ EvalInv /\ VarsInv /\ OrderInv /\ PlaceInv /\ StackInv
  /\ ErrorsInv /\ IndexInv /\ AbortInv

LEMMA AbortStill ==
  ASSUME EvalInv, AbortInv, Still
  PROVE  AbortInv'
<1> SUFFICES ASSUME pass' = "aborted"
             PROVE  (\E f \in AllFiles : Depth(f) = StackSize)'
  BY DEF AbortInv
<1>1. StackOverflow
  BY StillPasses
<1>2. /\ pass \in {"packages", "imports", "declarations", "skipping"} /\ AtFile
      /\ Len(Current.reader.statements) = StackSize
      /\ UNCHANGED <<texts, file_states>>
  BY <1>1 DEF StackOverflow, StackFull
<1>3. PICK f \in AllFiles : f = CurrentFile
  <2>1. CASE pass \in {"packages", "imports"}
    BY <1>2, <2>1 DEF EvalInv, FilesInv, AtFile, CurrentFile
  <2>2. CASE pass \in {"declarations", "skipping"}
    BY <1>2, <2>2, SortedFile
  <2> QED
    BY <1>2, <2>1, <2>2
<1>4. AllFiles' = AllFiles /\ Depth(f)' = StackSize
  BY <1>2, <1>3 DEF AllFiles, Depth, ReaderOf, Current
<1> QED
  BY <1>4

LEMMA FilesStateInit == Init => FilesStateInv
<1> SUFFICES ASSUME Init PROVE FilesStateInv
  OBVIOUS
<1>1. /\ EvalInv /\ VarsInv /\ PlaceInv /\ StackInv
  BY InitInv, VarsInit, PlaceInit, StackInit
<1>2. errors = <<>> /\ sorted_states = <<>> /\ pass = "packages"
  BY DEF Init
<1>3. OrderInv /\ ErrorsInv /\ IndexInv /\ AbortInv
  BY <1>2 DEF OrderInv, ErrorsInv, IndexInv, Located, AbortInv
<1> QED
  BY <1>1, <1>3 DEF FilesStateInv

LEMMA FilesStateStep ==
  ASSUME FilesStateInv, [Next]_files_vars
  PROVE  FilesStateInv'
<1> USE DEF FilesStateInv
<1>1. EvalInv' /\ OrderInv'
  BY StepInv, OrderStep
<1>2. CASE UNCHANGED files_vars
  <2>1. UNCHANGED <<texts, file_states, pass, source_index, block_depth, errors, packages,
                    dependencies, sorted_states>>
    BY <1>2 DEF files_vars
  <2>2. PlaceInv'
    BY <1>2, <2>1, PlaceStill
  <2>3. AllFiles' = AllFiles /\ Names' = Names /\ ErrorType' = ErrorType
        /\ CurrentFile' = CurrentFile /\ GivenInImportOrder' = GivenInImportOrder
        /\ \A f : /\ NameOf(f)' = NameOf(f) /\ ReaderOf(f)' = ReaderOf(f)
                  /\ TextOf(f)' = TextOf(f)
    BY <2>1, SameTexts, SameGiven
       DEF ErrorType, CurrentFile, NameOf, ReaderOf, TextOf, SameNames, EvalInv
  <2>4. VarsInv'
    BY <2>1, <2>3 DEF VarsInv
  <2>5. \A f : Follows(f)' = Follows(f)
    BY <2>1, <2>3 DEF Follows, Clean, NoParseErrorIn, ParsedTo, TakenIn
  <2>6. \A f : Accepting(f)' = Accepting(f)
    BY <2>1, <2>3
       DEF Accepting, NoErrorIn, AcceptedTo, Depth, MayReadOn, Clean, NoParseErrorIn,
           ParsedTo, TakenIn, Skipping
  <2>7. StackInv'
    BY <2>3, <2>5, <2>6 DEF StackInv
  <2>8. ErrorsInv' /\ IndexInv'
    BY <2>1, <2>3 DEF ErrorsInv, IndexInv, Located
  <2>9. AbortInv'
    BY <2>1, <2>3 DEF AbortInv, Depth
  <2> QED
    BY <1>1, <2>2, <2>4, <2>7, <2>8, <2>9
<1>3. CASE Turn
  <2>1. PICK f \in AllFiles : Turns(f)
    BY <1>3 DEF Turn
  <2>2. errors \in Seq(ErrorType)
    BY DEF ErrorsInv
  <2>3. SkipTurn(f) => ReaderOf(f).next_sources = <<>>
    BY DEF SkipTurn, TurnOf, StackInv, Accepting, Skipping
  <2>4. PlaceInv'
    BY <1>3, <2>1, <2>3, PlaceTurn
  <2>5. StackInv' /\ VarsInv'
    BY <1>3, <2>1, <2>2, StackTurn, VarsTurn
  <2>6. ErrorsInv' /\ IndexInv'
    BY <1>3, <2>1, ErrorsTurn
  <2>7. AbortInv'
    BY <2>1, TurnPass DEF AbortInv, ReadingPasses
  <2> QED
    BY <1>1, <2>4, <2>5, <2>6, <2>7
<1>4. CASE Still
  <2>1. UNCHANGED <<texts, file_states>>
    BY <1>4, StillFiles
  <2> QED
    BY <1>1, <1>4, <2>1, PlaceStill, StackStill, VarsStill, ErrorsStill, AbortStill
<1> QED
  BY <1>2, <1>3, <1>4, TurnOrStill

LEMMA FilesStateInvariant == Spec => []FilesStateInv
<1>1. Init => FilesStateInv
  BY FilesStateInit
<1>2. FilesStateInv /\ [Next]_files_vars => FilesStateInv'
  BY FilesStateStep
<1> QED
  BY <1>1, <1>2, PTL DEF Spec

-----------------------------------------------------------------------------
(* What the invariant says of the properties                               *)

LEMMA ChunksTyped ==
  ASSUME VarsInv, NEW c \in FileChunks
  PROVE  c.type \in ChunkTypes /\ c.name \in Names
<1>1. CASE c = EndOfText
  BY <1>1 DEF EndOfText, ChunkTypes, StatementTypes, Names
<1>2. CASE c \in UNION {ToSet(texts[f]) : f \in AllFiles}
  <2>1. PICK f \in AllFiles : c \in ToSet(texts[f])
    BY <1>2
  <2>2. texts[f] \in Seq(Chunks(STRING))
    BY TextsType DEF AllFiles
  <2>3. c \in Chunks(STRING)
    BY <2>1, <2>2 DEF ToSet
  <2> QED
    BY <1>2, <2>3 DEF Chunks, Names
<1> QED
  BY <1>1, <1>2 DEF FileChunks

LEMMA FramesTyped ==
  ASSUME VarsInv, NEW frame \in FramesIn(FileChunks, Acceptors)
  PROVE  FrameType(frame)
<1>1. /\ DOMAIN frame = {"type", "name", "source", "accepted_in"}
      /\ frame.source # <<>> /\ frame.accepted_in \in Acceptors
  BY DEF FramesIn, SourcesIn
<1>2. PICK s \in SourcesIn(FileChunks) : frame.type = ParsedType(s)
  BY DEF FramesIn
<1>3. PICK u \in SourcesIn(FileChunks) : frame.name = ParsedName(u)
  BY DEF FramesIn
<1>4. ParsedType(s) \in {c.type : c \in FileChunks} \cup {"NONE"}
  BY ParsedIn
<1>5. ParsedName(u) \in {c.name : c \in FileChunks} \cup {""}
  BY ParsedIn
<1>6. frame.type \in ChunkTypes
  BY <1>2, <1>4, ChunksTyped DEF ChunkTypes, StatementTypes
<1>7. frame.name \in Names
  <2>1. "" \in Names
    BY DEF Names
  <2> QED
    BY <1>3, <1>5, <2>1, ChunksTyped
<1> QED
  BY <1>1, <1>6, <1>7 DEF FrameType, Acceptors

LEMMA ReadersTyped ==
  ASSUME FilesStateInv, NEW f \in AllFiles
  PROVE  ReaderType(ReaderOf(f)) /\ IsSuffix(TextOf(f), texts[f])
<1>1. PICK r : r = ReaderOf(f)
  OBVIOUS
<1>2. ReaderAt(f, r, TextOf(f)) /\ Len(r.statements) <= StackSize
  BY <1>1 DEF FilesStateInv, PlaceInv
<1>3. PICK C, A, w, t : C = FileChunks /\ A = Acceptors /\ w = texts[f] /\ t = TextOf(f)
  OBVIOUS
<1>4. AtPlace(r, t, w, C, A)
  BY <1>2, <1>3 DEF ReaderAt
<1>5. IsSuffix(t, w)
  BY <1>4, LeftIsSuffix DEF AtPlace
<1>6. r \in ReadersIn(C, A)
  BY <1>4 DEF AtPlace
<1>7. DOMAIN r = {"statements", "next_sources", "status"} /\ r.status \in Statuses
  BY <1>6 DEF ReadersIn
<1>8. Len(r.next_sources) <= 1
  <2>1. r.next_sources = <<>> \/ \E s : r.next_sources = <<s>>
    BY <1>4 DEF AtPlace
  <2>2. PICK l, n : l = r.next_sources /\ n = Len(l)
    OBVIOUS
  <2>3. CASE l = <<>>
    <3>1. n = 0
      BY <2>2, <2>3
    <3> QED
      BY <2>2, <3>1
  <2>4. ASSUME NEW s, l = <<s>>
        PROVE  Len(r.next_sources) <= 1
    <3>1. n = 1
      BY <2>2, <2>4
    <3> QED
      BY <2>2, <3>1
  <2> QED
    BY <2>1, <2>2, <2>3, <2>4
<1>9. ASSUME NEW i \in DOMAIN r.statements
      PROVE  FrameType(r.statements[i])
  <2>1. r.statements[i] \in FramesIn(C, A)
    BY <1>6 DEF ReadersIn
  <2> QED
    BY <1>3, <2>1, FramesTyped DEF FilesStateInv
<1> QED
  BY <1>1, <1>2, <1>3, <1>5, <1>7, <1>8, <1>9 DEF ReaderType

LEMMA TypesHold == FilesStateInv => FilesTypeOK
<1> SUFFICES ASSUME FilesStateInv PROVE FilesTypeOK
  OBVIOUS
<1>1. EvalInv /\ VarsInv /\ ErrorsInv
  BY DEF FilesStateInv
<1>2. FileStates(file_states) /\ sorted_states \in Seq(AllFiles)
  BY <1>1 DEF EvalInv, FilesInv
<1>3. ASSUME NEW f \in AllFiles
      PROVE  /\ DOMAIN file_states[f] = {"reader", "text", "package_name", "imports"}
             /\ ReaderType(file_states[f].reader)
             /\ IsSuffix(file_states[f].text, texts[f])
             /\ NameOf(f) \in Names /\ ImportsOf(f) \subseteq Names
  <2>1. IsFileState(file_states[f])
    BY <1>2 DEF FileStates
  <2>2. DOMAIN file_states[f] = {"reader", "text", "package_name", "imports"}
    BY <2>1 DEF IsFileState
  <2>3. ReaderType(file_states[f].reader) /\ IsSuffix(file_states[f].text, texts[f])
    BY ReadersTyped DEF ReaderOf, TextOf
  <2>4. NameOf(f) \in Names /\ ImportsOf(f) \subseteq Names
    BY <1>1 DEF VarsInv, ImportsOf, ToSet
  <2> QED
    BY <2>2, <2>3, <2>4
<1>4. DOMAIN file_states = AllFiles
  BY <1>2 DEF FileStates
<1>5. ToSet(errors) \subseteq [source_index : AllFiles, file : AllFiles, eval_error : BOOLEAN]
  <2>1. \A i \in DOMAIN errors : errors[i] \in ErrorType
    BY <1>1 DEF ErrorsInv
  <2> QED
    BY <2>1 DEF ErrorType, ToSet
<1>6. ToSet(sorted_states) \subseteq AllFiles
  BY <1>2 DEF ToSet
<1> QED
  BY <1>1, <1>3, <1>4, <1>5, <1>6 DEF FilesTypeOK, VarsInv

(* What is consumed of a text is what was taken of it.                     *)
LEMMA ConsumedIs ==
  ASSUME FilesStateInv, NEW f \in AllFiles
  PROVE  /\ Consumed(f) = SubSeq(texts[f], 1, TakenIn(f))
         /\ TakenIn(f) \in 0 .. Len(texts[f]) /\ texts[f] \in Seq(FileChunks)
<1>1. PICK r, t, w : r = ReaderOf(f) /\ t = TextOf(f) /\ w = texts[f]
  OBVIOUS
<1>2. AtPlace(r, t, w, FileChunks, Acceptors)
  BY <1>1 DEF FilesStateInv, PlaceInv, ReaderAt
<1>3. PICK n \in Nat, m \in Nat : n = Len(w) /\ m = Len(t) /\ m <= n
  BY <1>2 DEF AtPlace, LeftOf
<1>4. w \in Seq(FileChunks)
  BY <1>2 DEF AtPlace, LeftOf
<1>5. CASE r.next_sources = <<>>
  <2>1. Len(FlattenSeq(r.next_sources)) = 0
    BY <1>5, FlattenNothing
  <2>2. TakenIn(f) = n - m /\ TakenIn(f) \in 0 .. n
    BY <1>1, <1>3, <1>5 DEF TakenIn, Taken, Place
  <2>3. Consumed(f) = SubSeq(w, 1, n - m - 0)
    BY <1>1, <1>3, <2>1 DEF Consumed, ReaderOf, TextOf
  <2>4. n - m - 0 = n - m
    BY <1>3
  <2> QED
    BY <1>1, <1>3, <1>4, <2>2, <2>3, <2>4
<1>6. CASE r.next_sources # <<>>
  <2>1. PICK s : s = <<w[Place(w, t)]>> /\ r.next_sources = <<s>> /\ Place(w, t) # 0
    BY <1>2, <1>6 DEF AtPlace
  <2>2. Len(s) = 1
    BY <2>1
  <2>3. Len(FlattenSeq(r.next_sources)) = 1
    BY <2>1, <2>2, FlattenOne
  <2>4. TakenIn(f) = n - m - 1 /\ n - m # 0
    BY <1>1, <1>3, <1>6, <2>1 DEF TakenIn, Taken, Place
  <2>5. Consumed(f) = SubSeq(w, 1, n - m - 1)
    BY <1>1, <1>3, <2>3 DEF Consumed, ReaderOf, TextOf
  <2>6. TakenIn(f) \in 0 .. n
    BY <1>3, <2>4
  <2> QED
    BY <1>1, <1>3, <1>4, <2>4, <2>5, <2>6
<1> QED
  BY <1>5, <1>6

LEMMA ParsedIsClean ==
  ASSUME FilesStateInv, NEW f \in AllFiles, Parsed(f)
  PROVE  /\ Clean(f) /\ Consumed(f) = SubSeq(texts[f], 1, TakenIn(f))
         /\ EndsOf(ReaderOf(f).statements) = OpenBlocks(Consumed(f))
<1>1. PICK w \in Seq(FileChunks), n \in 0 .. Len(texts[f]) :
        w = texts[f] /\ n = TakenIn(f) /\ Consumed(f) = SubSeq(w, 1, n)
  BY ConsumedIs
<1>2. PICK v : v = Consumed(f)
  OBVIOUS
<1>3. DOMAIN v = 1 .. n /\ \A i \in 1 .. n : v[i] = w[i]
  BY <1>1, <1>2
<1>4. ASSUME NEW i \in 1 .. n
      PROVE  ChunkParses(w[i])
  <2>1. v[i].type \in StatementTypes /\ (v[i].end = "{" => v[i].type # "NONE")
    BY <1>2, <1>3 DEF Parsed
  <2> QED
    BY <1>3, <2>1 DEF ChunkParses
<1>5. Clean(f)
  BY <1>1, <1>4 DEF Clean, ParsedTo, NoParseErrorIn, Parsed
<1>6. EndsOf(ReaderOf(f).statements) = OpenIn(texts[f], TakenIn(f))
  BY <1>5 DEF FilesStateInv, StackInv, Follows
<1> QED
  BY <1>1, <1>5, <1>6 DEF OpenIn

LEMMA BlocksHold == FilesStateInv => BlocksMatchSource
<1> SUFFICES ASSUME FilesStateInv, InDeclarations, Parsed(CurrentFile)
             PROVE  OpenBlocks(Consumed(CurrentFile))
                      = [i \in DOMAIN Frames |-> Last(Frames[i].source)]
  BY DEF BlocksMatchSource
<1>1. PICK f \in AllFiles : f = CurrentFile
  BY SortedFile DEF InDeclarations, FilesStateInv
<1>2. Frames = ReaderOf(f).statements
  BY <1>1 DEF Frames, Current, ReaderOf
<1>3. EndsOf(ReaderOf(f).statements) = OpenBlocks(Consumed(f))
  BY <1>1, ParsedIsClean
<1> QED
  BY <1>1, <1>2, <1>3 DEF EndsOf

LEMMA AbortsHold == FilesStateInv => AbortsOnlyTooDeep
<1> SUFFICES ASSUME FilesStateInv, pass = "aborted"
             PROVE  \E f \in AllFiles : ~Parsed(f) \/ Len(OpenBlocks(Consumed(f))) = StackSize
  BY DEF AbortsOnlyTooDeep
<1>1. PICK f \in AllFiles : Depth(f) = StackSize
  BY DEF FilesStateInv, AbortInv
<1>2. ASSUME Parsed(f)
      PROVE  Len(OpenBlocks(Consumed(f))) = StackSize
  <2>1. EndsOf(ReaderOf(f).statements) = OpenBlocks(Consumed(f))
    BY <1>2, ParsedIsClean
  <2>2. PICK r : r = ReaderOf(f) /\ r \in ReadersIn(FileChunks, Acceptors)
    BY DEF FilesStateInv, PlaceInv, ReaderAt, AtPlace
  <2>3. r.statements \in Seq(FramesIn(FileChunks, Acceptors))
    BY <2>2 DEF ReadersIn
  <2>4. PICK list, e : list = r.statements /\ e = EndsOf(list)
    OBVIOUS
  <2>5. Len(e) = Len(list)
    BY <2>3, <2>4, EndsIn
  <2> QED
    BY <1>1, <2>1, <2>2, <2>4, <2>5 DEF Depth
<1> QED
  BY <1>2

LEMMA ContextsHold == FilesStateInv => OnlyAcceptedContexts
<1> SUFFICES ASSUME FilesStateInv, pass = "declarations", AtFile, CanRead,
                    Parsed(CurrentFile), NEW i \in DOMAIN Frames
             PROVE  Frames[i].accepted_in = CurrentFile
  BY DEF OnlyAcceptedContexts
<1>1. PICK f \in AllFiles : f = CurrentFile
  BY SortedFile DEF FilesStateInv
<1>2. Frames = ReaderOf(f).statements /\ MayReadOn(f)
  BY <1>1, ReaderNextIs DEF Frames, Current, ReaderOf, MayReadOn
<1>3. Clean(f)
  BY <1>1, ParsedIsClean
<1>4. AcceptedTo(f, Depth(f))
  BY <1>1, <1>2, <1>3 DEF FilesStateInv, StackInv, Accepting
<1>5. i \in 1 .. Depth(f)
  <2>1. ReaderOf(f) \in ReadersIn(FileChunks, Acceptors)
    BY DEF FilesStateInv, PlaceInv, ReaderAt, AtPlace
  <2>2. ReaderOf(f).statements \in Seq(FramesIn(FileChunks, Acceptors))
    BY <2>1 DEF ReadersIn
  <2> QED
    BY <1>2, <2>2 DEF Depth
<1> QED
  BY <1>1, <1>2, <1>4, <1>5 DEF AcceptedTo

LEMMA IndexHolds == FilesStateInv => ErrorIndexRight
BY DEF FilesStateInv, IndexInv, Located, ErrorIndexRight

(* Every variable keeps its type, whatever the texts hold: no stack grows  *)
(* beyond its places, and never more than one statement is rewound.        *)
THEOREM FilesTypes == Spec => []FilesTypeOK
BY FilesStateInvariant, TypesHold, PTL

(* While the declarations of a file are evaluated or skipped, its stack    *)
(* holds the statements whose blocks are open at this point of its text,   *)
(* across the passes that pump, rewind and skip, as long as it parsed.     *)
THEOREM FilesBlocks == Spec => []BlocksMatchSource
BY FilesStateInvariant, BlocksHold, PTL

(* The assertion of the full stack fails only where a text does not parse  *)
(* or nests as many blocks as the stack has places.                        *)
THEOREM FilesAborts == Spec => []AbortsOnlyTooDeep
BY FilesStateInvariant, AbortsHold, PTL

(* No declaration is evaluated inside a statement that was refused.        *)
THEOREM FilesContexts == Spec => []OnlyAcceptedContexts
BY FilesStateInvariant, ContextsHold, PTL

(* Of files given with every import before its importer, each error that   *)
(* any pass reports carries the place of its file.                         *)
THEOREM FilesErrorIndex == Spec => []ErrorIndexRight
BY FilesStateInvariant, IndexHolds, PTL
=============================================================================
