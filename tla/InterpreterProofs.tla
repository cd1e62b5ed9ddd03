-------------------------- MODULE InterpreterProofs --------------------------
(***************************************************************************)
(* Proofs about the command line interpreter, for any input: its types,    *)
(* that the current package lives as long as any does, that nothing is     *)
(* evaluated inside a refused statement, that the stack and the rewound    *)
(* statement follow the input, and that an unfinished statement at the end *)
(* of the input is read again for ever.                                    *)
(***************************************************************************)
EXTENDS Interpreter, ReaderProofs

AllInputs == Inputs \cup {EndOfText}
Readers(n) == ReadersIn(AllInputs, 0 .. n)

CountInv ==
  /\ last_id \in Nat /\ typed \in 0 .. MaxChunks /\ last_id <= typed
  /\ current_package \in 0 .. last_id /\ packages \subseteq 1 .. last_id
  /\ input \in Seq(AllInputs) /\ Len(input) <= typed
  /\ more \in BOOLEAN /\ complained \in BOOLEAN
  /\ loop \in {"running", "exited", "ended", "crashed", "aborted"}

ReaderInv ==
  /\ reader \in Readers(last_id)
  /\ Len(reader.statements) <= StackSize /\ Len(reader.next_sources) <= 1

(* A rewound source is a statement that is begun and not ended.            *)
RewoundInv ==
  loop = "running" /\ reader.next_sources # <<>>
    => LET source == Last(reader.next_sources)
       IN /\ reader.status = "ASSUMED_STATEMENT_END" /\ ~StackFull(reader)
          /\ ParsedStatus(source, reader.statements # <<>>) = "ASSUMED_STATEMENT_END"
          /\ Worded(source) # {}
          /\ ~IsReplCmd(source, "EXIT") /\ ~IsReplCmd(source, "RESET")

InterpreterInv ==
  CountInv /\ ReaderInv /\ RewoundInv /\ CurrentPackageLives /\ NothingInsideRefused

-----------------------------------------------------------------------------
(* The reader                                                              *)

LEMMA FramesGrow ==
  ASSUME NEW n \in Nat, NEW r \in Readers(n)
  PROVE  r \in Readers(n + 1)
<1>1. FramesIn(AllInputs, 0 .. n) \subseteq FramesIn(AllInputs, 0 .. n + 1)
  BY DEF FramesIn
<1>2. Seq(FramesIn(AllInputs, 0 .. n)) \subseteq Seq(FramesIn(AllInputs, 0 .. n + 1))
  BY <1>1
<1> QED
  BY <1>2 DEF Readers, ReadersIn

(* What a reader that was typed into makes of the next chunk.              *)
HasRead(q) == IsRead(q, reader, AllInputs, 0 .. last_id)

LEMMA ReaderIs ==
  ASSUME InterpreterInv
  PROVE  /\ reader \in ReadersIn(AllInputs, 0 .. last_id) /\ Len(reader.next_sources) <= 1
         /\ NotAccepted \in 0 .. last_id /\ current_package \in 0 .. last_id
BY DEF InterpreterInv, ReaderInv, CountInv, Readers, NotAccepted

LEMMA TurnReads ==
  ASSUME InterpreterInv, NEW c \in AllInputs, NEW r, r = ReadNext(reader, c)
  PROVE  /\ HasRead(r) /\ Top(r).accepted_in = NotAccepted
         /\ SourceOf(r) = NextSource(reader, c) /\ SourceOf(r) \in SourcesIn(AllInputs)
         /\ r.status = ParsedStatus(SourceOf(r), reader.statements # <<>>)
<1>1. JustRead(r, reader, c, AllInputs, 0 .. last_id)
  BY ReaderIs, ReadNextReads
<1> QED
  BY <1>1 DEF JustRead, HasRead, SourceOf

LEMMA ReaderPopped ==
  ASSUME InterpreterInv, NEW q, HasRead(q)
  PROVE  /\ PopDiscard(q) = [statements |-> reader.statements, next_sources |-> <<>>,
                             status |-> q.status]
         /\ PopDiscard(q) \in Readers(last_id)
<1>1. IsBack(PopDiscard(q), reader, <<>>, q.status, AllInputs, 0 .. last_id)
  BY ReaderIs, TopPopped DEF HasRead
<1> QED
  BY <1>1 DEF IsBack, Readers

LEMMA ReaderRewound ==
  ASSUME InterpreterInv, NEW q, HasRead(q)
  PROVE  /\ PopRewind(q) = [statements |-> reader.statements,
                            next_sources |-> <<SourceOf(q)>>, status |-> q.status]
         /\ PopRewind(q) \in Readers(last_id)
<1>1. IsBack(PopRewind(q), reader, <<Top(q).source>>, q.status, AllInputs, 0 .. last_id)
  BY ReaderIs, TopRewound DEF HasRead
<1> QED
  BY <1>1 DEF IsBack, Readers, SourceOf

LEMMA ReaderPumped ==
  ASSUME InterpreterInv, NEW q, HasRead(q), NEW p, p = PumpStatusCode(q),
         q.status # "ERROR", q.status = "BLOCK_END" => reader.statements # <<>>
  PROVE  IsPumped(p, q, reader, AllInputs, 0 .. last_id)
BY ReaderIs, TopPumped DEF HasRead

LEMMA ReaderAccepted ==
  ASSUME InterpreterInv, NEW r, HasRead(r), NEW q, q = Accept(r, current_package)
  PROVE  /\ HasRead(q) /\ q.status = r.status
         /\ Top(q).accepted_in = current_package /\ SourceOf(q) = SourceOf(r)
<1>1. IsAccepted(q, r, reader, current_package, AllInputs, 0 .. last_id)
  BY ReaderIs, TopAccepted DEF HasRead
<1> QED
  BY <1>1 DEF IsAccepted, HasRead, SourceOf

-----------------------------------------------------------------------------
(* A turn of the loop                                                      *)

(* The stack keeps what is on it, and may lose its innermost statements.   *)
Shrinks(q) ==
  /\ q \in Readers(last_id) /\ q.next_sources = <<>>
  /\ Len(q.statements) <= Len(reader.statements)
  /\ \A i \in 1 .. Len(q.statements) : q.statements[i] = reader.statements[i]

(* A statement that may stay on the stack.                                 *)
Kept(frame) ==
  \/ frame.accepted_in # NotAccepted /\ Last(frame.source).end = "{"
  \/ frame.type \in {"UNKNOWN", "PACKAGE"}

LEMMA ShrinksKeeps ==
  ASSUME InterpreterInv, loop = "running", last_id' \in {last_id, last_id + 1},
         Shrinks(reader')
  PROVE  ReaderInv' /\ RewoundInv' /\ NothingInsideRefused'
<1>1. reader' \in Readers(last_id')
  BY FramesGrow DEF Shrinks, InterpreterInv, CountInv
<1>2. /\ reader.statements \in Seq(FramesIn(AllInputs, 0 .. last_id)) /\ Len(reader.statements) <= StackSize
      /\ reader'.statements \in Seq(FramesIn(AllInputs, 0 .. last_id))
  BY DEF Shrinks, InterpreterInv, ReaderInv, Readers, ReadersIn
<1>3. ReaderInv'
  BY <1>1, <1>2, StackSizeAssumption DEF ReaderInv, Shrinks
<1>4. \A i \in DOMAIN reader.statements : Kept(reader.statements[i])
  BY DEF InterpreterInv, NothingInsideRefused, Kept
<1>5. \A i \in DOMAIN reader'.statements : Kept(reader'.statements[i])
  BY <1>2, <1>4 DEF Shrinks
<1>6. NothingInsideRefused'
  BY <1>5 DEF NothingInsideRefused, Kept
<1> QED
  BY <1>3, <1>6 DEF RewoundInv, Shrinks

LEMMA ReadKeeps ==
  ASSUME InterpreterInv, loop = "running", last_id' \in {last_id, last_id + 1},
         ~StackFull(reader), HasRead(reader'),
         loop' \in {"running", "ended"} => Kept(Top(reader'))
  PROVE  ReaderInv' /\ RewoundInv' /\ NothingInsideRefused'
<1>1. reader' \in Readers(last_id')
  BY FramesGrow DEF HasRead, IsRead, Readers, InterpreterInv, CountInv
<1>2. /\ reader.statements \in Seq(FramesIn(AllInputs, 0 .. last_id)) /\ Len(reader.statements) <= StackSize
      /\ reader'.statements \in Seq(FramesIn(AllInputs, 0 .. last_id))
      /\ Len(reader.statements) # StackSize
  BY DEF HasRead, IsRead, InterpreterInv, ReaderInv, Readers, ReadersIn, StackFull
<1>3. ReaderInv'
  BY <1>1, <1>2, StackSizeAssumption DEF ReaderInv, HasRead, IsRead
<1>4. \A i \in DOMAIN reader.statements : Kept(reader.statements[i])
  BY DEF InterpreterInv, NothingInsideRefused, Kept
<1>5. loop' \in {"running", "ended"} =>
        \A i \in DOMAIN reader'.statements : Kept(reader'.statements[i])
  BY <1>2, <1>4 DEF HasRead, IsRead, Top, Last
<1>6. NothingInsideRefused'
  BY <1>5 DEF NothingInsideRefused, Kept
<1> QED
  BY <1>3, <1>6 DEF RewoundInv, HasRead, IsRead

LEMMA HistoryKeeps ==
  ASSUME InterpreterInv, loop = "running", NEW c \in Typeable, Reads(c),
         input' \in {InputWith(c), <<>>}
  PROVE  /\ c \in AllInputs
         /\ typed' \in 0 .. MaxChunks /\ typed <= typed' /\ more' \in BOOLEAN
         /\ c # EndOfText => typed < typed'
         /\ input' \in Seq(AllInputs) /\ Len(input') <= typed'
<1>1. /\ typed \in 0 .. MaxChunks /\ input \in Seq(AllInputs) /\ Len(input) <= typed
      /\ more \in BOOLEAN
  BY DEF InterpreterInv, CountInv
<1>2. c \in AllInputs /\ (c # EndOfText => typed < MaxChunks)
  BY DEF Typeable, AllInputs
<1>3. typed' = IF c = EndOfText THEN typed ELSE typed + 1
  BY DEF Reads
<1>4. more' \in BOOLEAN
  BY <1>1 DEF Reads
<1>5. MaxChunks \in Nat
  BY InputsAssumption
<1>6. input' \in Seq(AllInputs) /\ Len(input') <= typed'
  <2>1. Append(input, c) \in Seq(AllInputs) /\ Len(Append(input, c)) = Len(input) + 1
    BY <1>1, <1>2
  <2>2. CASE input' = <<>>
    BY <1>1, <1>3, <2>2
  <2>3. CASE input' = InputWith(c) /\ c = EndOfText
    BY <1>1, <1>3, <2>3 DEF InputWith
  <2>4. CASE input' = InputWith(c) /\ c # EndOfText
    BY <1>1, <1>3, <2>1, <2>4 DEF InputWith
  <2> QED
    BY <2>2, <2>3, <2>4
<1> QED
  BY <1>1, <1>2, <1>3, <1>4, <1>5, <1>6

(* A statement that ends at the end of the input is not finished.          *)
LEMMA FinishedTyped ==
  ASSUME InterpreterInv, loop = "running", NEW c \in AllInputs,
         NEW r, r = ReadNext(reader, c), Finished(r)
  PROVE  c # EndOfText
<1>1. SUFFICES ASSUME c = EndOfText PROVE FALSE
  OBVIOUS
<1>2. /\ SourceOf(r) = NextSource(reader, c)
      /\ r.status = ParsedStatus(SourceOf(r), reader.statements # <<>>)
  BY TurnReads
<1>3. r.status \in {"OK", "BLOCK_BEGIN", "BLOCK_END"}
  BY DEF Finished
<1>4. CASE reader.next_sources = <<>>
  <2>1. SourceOf(r) = <<c>>
    BY <1>2, <1>4 DEF NextSource
  <2>2. Last(<<c>>) = c
    BY DEF Last
  <2>3. c.end = "eof"
    BY <1>1 DEF EndOfText
  <2>4. Last(SourceOf(r)).end = "eof"
    BY <2>1, <2>2, <2>3, Zenon
  <2> QED
    BY <1>2, <1>3, <2>4, StatusFromEnd
<1>5. CASE reader.next_sources # <<>>
  <2>1. SourceOf(r) = Last(reader.next_sources)
    BY <1>1, <1>2, <1>5 DEF NextSource
  <2>2. r.status = "ASSUMED_STATEMENT_END"
    BY <1>2, <1>5, <2>1 DEF InterpreterInv, RewoundInv
  <2> QED
    BY <1>3, <2>2
<1> QED
  BY <1>4, <1>5

(* What each kind of turn does to the reader                               *)

LEMMA UnfinishedKeeps ==
  ASSUME InterpreterInv, CanTurn, NEW c \in AllInputs, NEW r, r = ReadNext(reader, c),
         Unfinished(c, r)
  PROVE  ReaderInv' /\ RewoundInv' /\ NothingInsideRefused'
<1>1. /\ HasRead(r) /\ SourceOf(r) \in SourcesIn(AllInputs)
      /\ r.status = ParsedStatus(SourceOf(r), reader.statements # <<>>)
  BY TurnReads
<1>2. PICK source \in SourcesIn(AllInputs) : source = SourceOf(r)
  BY <1>1
<1>3. /\ reader' = [statements |-> reader.statements, next_sources |-> <<source>>,
                    status |-> r.status]
      /\ reader' \in Readers(last_id)
  BY <1>1, <1>2, ReaderRewound DEF Unfinished
<1>4. UNCHANGED <<last_id, loop>> /\ r.status = "ASSUMED_STATEMENT_END"
  BY DEF Unfinished, SamePackages, Running, Assumed
<1>5. reader'.statements = reader.statements /\ reader'.next_sources = <<source>>
  BY <1>3
<1>6. ReaderInv'
  BY <1>3, <1>4, <1>5 DEF ReaderInv, InterpreterInv
<1>7. NothingInsideRefused'
  BY <1>4, <1>5 DEF InterpreterInv, NothingInsideRefused
<1>8. RewoundInv'
  <2>1. Last(reader'.next_sources) = source
    BY <1>5 DEF Last
  <2>2. reader'.status = "ASSUMED_STATEMENT_END"
    BY <1>3, <1>4
  <2>3. ~StackFull(reader)'
    BY <1>5 DEF CanTurn, StackFull
  <2>4. ParsedStatus(source, reader'.statements # <<>>) = "ASSUMED_STATEMENT_END"
    BY <1>1, <1>2, <1>4, <1>5
  <2>5. /\ Worded(source) # {}
        /\ ~IsReplCmd(source, "EXIT") /\ ~IsReplCmd(source, "RESET")
    BY <1>2 DEF Unfinished, Assumed, IsStatement
  <2> QED
    BY <2>1, <2>2, <2>3, <2>4, <2>5, Zenon DEF RewoundInv
<1> QED
  BY <1>6, <1>7, <1>8

LEMMA DiscardShrinks ==
  ASSUME InterpreterInv, NEW r, HasRead(r), NEW q, q = PopDiscard(r)
  PROVE  Shrinks(q)
BY ReaderPopped DEF Shrinks, InterpreterInv, ReaderInv, Readers, ReadersIn

LEMMA BlankShrinks ==
  ASSUME InterpreterInv, NEW r, HasRead(r),
         NEW q, q = [PopDiscard(r) EXCEPT !.status = "OK"]
  PROVE  Shrinks(q)
<1>1. PICK p : p = PopDiscard(r)
  OBVIOUS
<1>2. /\ p = [statements |-> reader.statements, next_sources |-> <<>>, status |-> r.status]
      /\ p \in Readers(last_id)
  BY <1>1, ReaderPopped
<1>3. q = [statements |-> reader.statements, next_sources |-> <<>>, status |-> "OK"]
  BY <1>1, <1>2
<1>4. reader.statements \in Seq(FramesIn(AllInputs, 0 .. last_id))
  BY DEF InterpreterInv, ReaderInv, Readers, ReadersIn
<1>5. q \in Readers(last_id)
  <2>1. [statements |-> reader.statements, next_sources |-> <<>>, status |-> "OK"]
          \in Readers(last_id)
    BY <1>4 DEF Readers, ReadersIn, Statuses
  <2> QED
    BY <1>3, <2>1, Zenon
<1>6. q.statements = reader.statements /\ q.next_sources = <<>>
  BY <1>3
<1> QED
  BY <1>4, <1>5, <1>6 DEF Shrinks

LEMMA NewShrinks ==
  ASSUME InterpreterInv
  PROVE  Shrinks(NewReader)
BY DEF Shrinks, NewReader, Readers, ReadersIn, Statuses, InterpreterInv, ReaderInv

(* A finished statement that is pumped stays only if it begins a block,    *)
(* and then it is one that was accepted, unknown or a package statement.   *)
LEMMA PumpKeeps ==
  ASSUME InterpreterInv, loop = "running", ~StackFull(reader),
         last_id' \in {last_id, last_id + 1},
         NEW q, HasRead(q), q.status \in {"OK", "BLOCK_BEGIN", "BLOCK_END"},
         q.status = "BLOCK_END" => reader.statements # <<>>,
         reader' = PumpStatusCode(q), q.status = "BLOCK_BEGIN" => Kept(Top(q))
  PROVE  ReaderInv' /\ RewoundInv' /\ NothingInsideRefused'
<1>1. CASE reader' = q /\ q.status = "BLOCK_BEGIN"
  BY <1>1, ReadKeeps
<1>2. CASE ~(reader' = q /\ q.status = "BLOCK_BEGIN")
  <2>1. PICK p : p = PumpStatusCode(q)
    OBVIOUS
  <2>2. Shrinks(p)
    <3>1. IsPumped(p, q, reader, AllInputs, 0 .. last_id)
      BY <2>1, ReaderPumped
    <3>2. Len(reader.statements) \in Nat
      BY ReaderIs DEF ReadersIn
    <3> QED
      BY <1>2, <2>1, <3>1, <3>2 DEF IsPumped, KeepsOuter, Shrinks, Readers
  <2> QED
    BY <2>1, <2>2, ShrinksKeeps
<1> QED
  BY <1>1, <1>2

LEMMA TurnKeepsReader ==
  ASSUME InterpreterInv, CanTurn, NEW c \in AllInputs, NEW r, r = ReadNext(reader, c),
         TurnOfLoop(c, r)
  PROVE  ReaderInv' /\ RewoundInv' /\ NothingInsideRefused'
<1>1. /\ HasRead(r) /\ Top(r).accepted_in = NotAccepted
      /\ r.status = ParsedStatus(SourceOf(r), reader.statements # <<>>)
  BY TurnReads
<1>2. /\ loop = "running" /\ ~StackFull(reader)
      /\ r.status = "BLOCK_END" => reader.statements # <<>>
  BY <1>1, StatusFromEnd DEF CanTurn
<1>3. PICK p : p = PopDiscard(r)
  OBVIOUS
<1>4. Shrinks(p)
  BY <1>1, <1>3, DiscardShrinks
<1>5. CASE Exit(c, r)
  BY <1>1, <1>2, <1>5, ReadKeeps DEF Exit, SamePackages
<1>6. CASE Reset(c, r)
  <2>1. reader' = NewReader /\ UNCHANGED last_id
    BY <1>6 DEF Reset
  <2> QED
    BY <1>2, <2>1, NewShrinks, ShrinksKeeps
<1>7. CASE Blank(c, r)
  <2>1. reader' = [PopDiscard(r) EXCEPT !.status = "OK"] /\ UNCHANGED last_id
    BY <1>7 DEF Blank, SamePackages
  <2>2. Shrinks(reader')
    BY <1>1, <2>1, BlankShrinks
  <2> QED
    BY <1>2, <2>1, <2>2, ShrinksKeeps
<1>8. CASE Unfinished(c, r)
  BY <1>8, UnfinishedKeeps
<1>9. CASE SyntaxError(c, r)
  BY <1>2, <1>3, <1>4, <1>9, ShrinksKeeps DEF SyntaxError, SamePackages
<1>10. CASE NewPackage(c, r)
  <2>1. TypeOf(r) = "PACKAGE" /\ last_id' = last_id + 1 /\ reader' = PumpStatusCode(r)
    BY <1>10 DEF NewPackage
  <2>2. Kept(Top(r)) /\ r.status \in {"OK", "BLOCK_BEGIN", "BLOCK_END"}
    BY <1>10, <2>1 DEF NewPackage, Finished, Kept, TypeOf
  <2> QED
    BY <1>1, <1>2, <2>1, <2>2, PumpKeeps
<1>11. CASE Unknown(c, r)
  <2>1. TypeOf(r) = "UNKNOWN" /\ last_id' = last_id /\ reader' = PumpStatusCode(r)
    BY <1>11 DEF Unknown, SamePackages
  <2>2. Kept(Top(r)) /\ r.status \in {"OK", "BLOCK_BEGIN", "BLOCK_END"}
    BY <1>11, <2>1 DEF Unknown, Finished, Kept, TypeOf
  <2> QED
    BY <1>1, <1>2, <2>1, <2>2, PumpKeeps
<1>12. CASE NoCurrentPackage(c, r)
  BY <1>2, <1>3, <1>4, <1>12, ShrinksKeeps DEF NoCurrentPackage, SamePackages
<1>13. CASE EvalAccepted(c, r)
  <2>1. PICK q : q = Accept(r, current_package)
    OBVIOUS
  <2>2. /\ HasRead(q) /\ q.status = r.status
        /\ Top(q).accepted_in = current_package /\ SourceOf(q) = SourceOf(r)
    BY <1>1, <2>1, ReaderAccepted
  <2>3. /\ reader' = PumpStatusCode(q) /\ last_id' = last_id
        /\ r.status \in {"OK", "BLOCK_BEGIN", "BLOCK_END"}
        /\ current_package # NoPackage
    BY <1>13, <2>1 DEF EvalAccepted, Evaluated, Finished, SamePackages
  <2>4. q.status = "BLOCK_BEGIN" => Kept(Top(q))
    BY <1>1, <2>2, <2>3, StatusFromEnd DEF Kept, SourceOf, NoPackage, NotAccepted
  <2> QED
    BY <1>2, <2>2, <2>3, <2>4, PumpKeeps
<1>14. CASE EvalRefused(c, r)
  BY <1>2, <1>3, <1>4, <1>14, ShrinksKeeps DEF EvalRefused, SamePackages
<1>15. CASE EvalThrows(c, r)
  BY <1>1, <1>2, <1>15, ReadKeeps DEF EvalThrows, SamePackages
<1> QED
  BY <1>5, <1>6, <1>7, <1>8, <1>9, <1>10, <1>11, <1>12, <1>13, <1>14, <1>15 DEF TurnOfLoop

-----------------------------------------------------------------------------
LEMMA TurnKeepsCounts ==
  ASSUME InterpreterInv, CanTurn, NEW c \in Typeable, NEW r, r = ReadNext(reader, c),
         TurnOfLoop(c, r)
  PROVE  CountInv' /\ CurrentPackageLives'
<1> USE DEF Quietly, Complaining, SamePackages, Running
<1>1. /\ last_id \in Nat /\ typed \in 0 .. MaxChunks /\ last_id <= typed
      /\ current_package \in 0 .. last_id /\ packages \subseteq 1 .. last_id
      /\ complained \in BOOLEAN /\ loop = "running"
      /\ packages # {} => current_package \in packages
  BY DEF InterpreterInv, CountInv, CanTurn, CurrentPackageLives
<1>2. MaxChunks \in Nat
  BY InputsAssumption
<1>3. Reads(c) /\ input' \in {InputWith(c), <<>>} /\ complained' \in BOOLEAN
  BY <1>1 DEF TurnOfLoop, Exit, Reset, Blank, Unfinished, SyntaxError, NewPackage,
              Unknown, NoCurrentPackage, EvalAccepted, EvalRefused, EvalThrows
<1>4. /\ c \in AllInputs
      /\ typed' \in 0 .. MaxChunks /\ typed <= typed' /\ more' \in BOOLEAN
      /\ c # EndOfText => typed < typed'
      /\ input' \in Seq(AllInputs) /\ Len(input') <= typed'
  BY <1>1, <1>3, HistoryKeeps
<1>5. CASE NewPackage(c, r)
  <2>1. Finished(r) /\ last_id' = last_id + 1 /\ current_package' = last_id'
        /\ packages' = packages \cup {last_id'} /\ loop' = loop
    BY <1>5 DEF NewPackage
  <2>2. typed < typed'
    BY <1>1, <1>4, <2>1, FinishedTyped
  <2> QED
    BY <1>1, <1>2, <1>3, <1>4, <2>1, <2>2 DEF CountInv, CurrentPackageLives
<1>6. CASE Reset(c, r)
  <2>1. packages' = {} /\ loop' = loop /\ UNCHANGED <<current_package, last_id>>
    BY <1>6 DEF Reset
  <2> QED
    BY <1>1, <1>2, <1>3, <1>4, <2>1 DEF CountInv, CurrentPackageLives
<1>7. CASE EvalThrows(c, r)
  <2>1. /\ current_package \notin packages /\ loop' = "crashed"
        /\ UNCHANGED <<current_package, packages, last_id>>
    BY <1>7 DEF EvalThrows
  <2> QED
    BY <1>1, <1>2, <1>3, <1>4, <2>1 DEF CountInv, CurrentPackageLives
<1>8. CASE ~NewPackage(c, r) /\ ~Reset(c, r) /\ ~EvalThrows(c, r)
  <2>1. UNCHANGED <<current_package, packages, last_id>> /\ loop' \in {loop, "exited"}
    BY <1>8 DEF TurnOfLoop, Exit, Blank, Unfinished, SyntaxError,
                Unknown, NoCurrentPackage, EvalAccepted, EvalRefused
  <2> QED
    BY <1>1, <1>2, <1>3, <1>4, <2>1 DEF CountInv, CurrentPackageLives
<1> QED
  BY <1>5, <1>6, <1>7, <1>8

-----------------------------------------------------------------------------
(* The text typed                                                          *)

PendingBy(pending, c) ==
  IF c.end \in {";", "{", "}"} \/ (c.type = "NONE" /\ pending = <<>>)
  THEN <<>> ELSE Append(pending, c)
PendingStep(T) == [p \in Seq(T) \X T |-> PendingBy(p[1], p[2])]

LEMMA PendingByIn ==
  ASSUME NEW T, NEW pending \in Seq(T), NEW c \in T
  PROVE  /\ PendingBy(pending, c) \in Seq(T)
         /\ PendingStep(T)[<<pending, c>>] = PendingBy(pending, c)
<1>1. Append(pending, c) \in Seq(T) /\ <<>> \in Seq(T)
  OBVIOUS
<1>2. PendingBy(pending, c) \in Seq(T)
  BY <1>1 DEF PendingBy
<1>3. PendingStep(T)[<<pending, c>>] = PendingBy(pending, c)
  BY DEF PendingStep
<1> QED
  BY <1>2, <1>3

(* What was begun and not ended is a fold over the text.                   *)
PendingFold(text, g, T, n) ==
  IsFold(g, PendingStep(T), <<>>, text, n) /\ PendingOf(text) = g[1 .. n]

LEMMA PendingIsFold ==
  ASSUME NEW T, NEW text \in Seq(T), NEW n \in Nat, n = Len(text)
  PROVE  \E g : PendingFold(text, g, T, n)
<1> DEFINE Fold(g) == g = [S \in SUBSET (DOMAIN text) |->
                             IF S = {} THEN <<>>
                             ELSE LET x == Max(S)
                                  IN IF \/ text[x].end \in {";", "{", "}"}
                                        \/ text[x].type = "NONE" /\ g[S \ {x}] = <<>>
                                     THEN <<>> ELSE Append(g[S \ {x}], text[x])]
<1>0. DOMAIN text = 1 .. n /\ \A i \in 1 .. n : text[i] \in T
  OBVIOUS
<1>1. PICK g : /\ IsFold(g, PendingStep(T), <<>>, text, n)
               /\ g = [S \in SUBSET (1 .. n) |-> g[S]]
  <2>1. HasFold(PendingStep(T), <<>>, text, n)
    BY FoldExists
  <2> QED
    BY <2>1 DEF HasFold
<1>2. ASSUME NEW h, IsFold(h, PendingStep(T), <<>>, text, n)
      PROVE  \A S \in SUBSET (1 .. n) : h[S] \in Seq(T)
  <2>1. \A d \in Seq(T), e \in T : PendingStep(T)[<<d, e>>] \in Seq(T)
    BY PendingByIn
  <2>2. <<>> \in Seq(T)
    OBVIOUS
  <2>3. PICK D : D = Seq(T)
    OBVIOUS
  <2>4. \A S \in SUBSET (1 .. n) : h[S] \in D
    <3>1. <<>> \in D /\ \A d \in D, e \in T : PendingStep(T)[<<d, e>>] \in D
      BY <2>1, <2>2, <2>3
    <3>2. PICK step : step = PendingStep(T)
      OBVIOUS
    <3>3. IsFold(h, step, <<>>, text, n) /\ \A d \in D, e \in T : step[<<d, e>>] \in D
      BY <1>2, <3>1, <3>2
    <3> QED
      BY <1>0, <3>1, <3>3, FoldIn
  <2> QED
    BY <2>3, <2>4
<1>3. ASSUME NEW S \in SUBSET (1 .. n), S # {}
      PROVE  Max(S) \in 1 .. n /\ S \ {Max(S)} \in SUBSET (1 .. n)
  <2>1. Max(S) \in S
    BY <1>3, GreatestIs
  <2> QED
    BY <2>1
<1>41. ASSUME NEW S \in SUBSET (1 .. n), S # {}
       PROVE  g[S] = PendingBy(g[S \ {Max(S)}], text[Max(S)])
  <2>1. PICK x : x = Max(S)
    OBVIOUS
  <2>2. x \in 1 .. n /\ S \ {x} \in SUBSET (1 .. n)
    BY <1>3, <1>41, <2>1
  <2>3. g[S \ {x}] \in Seq(T)
    BY <1>1, <1>2, <2>2
  <2>4. g[S] = PendingStep(T)[<<g[S \ {x}], text[x]>>]
    BY <1>1, <1>41, <2>1 DEF IsFold
  <2>5. text[x] \in T
    BY <1>0, <2>2
  <2>6. PendingStep(T)[<<g[S \ {x}], text[x]>>] = PendingBy(g[S \ {x}], text[x])
    BY <2>3, <2>5, PendingByIn
  <2> QED
    BY <2>1, <2>4, <2>6
<1>4. Fold(g)
  <2>2. g[{}] = <<>>
    <3>1. {} \in SUBSET (1 .. n)
      OBVIOUS
    <3> QED
      BY <1>1, <3>1 DEF IsFold
  <2>3. \A S \in SUBSET (1 .. n) :
          g[S] = IF S = {} THEN <<>> ELSE PendingBy(g[S \ {Max(S)}], text[Max(S)])
    BY <1>41, <2>2
  <2>4. g = [S \in SUBSET (1 .. n) |->
               IF S = {} THEN <<>> ELSE PendingBy(g[S \ {Max(S)}], text[Max(S)])]
    <3> DEFINE G(S) == IF S = {} THEN <<>> ELSE PendingBy(g[S \ {Max(S)}], text[Max(S)])
    <3>1. \A S \in SUBSET (1 .. n) : g[S] = G(S)
      BY <2>3
    <3> HIDE DEF G
    <3>2. g = [S \in SUBSET (1 .. n) |-> G(S)]
      BY <1>1, <3>1
    <3> QED
      BY <3>2 DEF G
  <2> QED
    BY <1>0, <2>4, Zenon DEF PendingBy
<1>5. PICK h : h = CHOOSE k : Fold(k)
  OBVIOUS
<1>6. Fold(h)
  BY <1>4, <1>5, Zenon
<1>7. PendingOf(text) = h[DOMAIN text]
  BY <1>5, Zenon DEF PendingOf, FoldLeft, MapThenFoldSet
<1>8. \A S \in SUBSET (1 .. n) :
        h[S] = IF S = {} THEN <<>> ELSE PendingBy(h[S \ {Max(S)}], text[Max(S)])
  BY <1>0, <1>6, Zenon DEF PendingBy
<1>9. h[{}] = g[{}]
  <2>1. {} \in SUBSET (1 .. n)
    OBVIOUS
  <2> QED
    BY <1>1, <1>8, <2>1 DEF IsFold
<1>10. MadeAlike(g, h, n)
  BY <1>8, <1>9, <1>41 DEF MadeAlike
<1>11. h[1 .. n] = g[1 .. n]
  <2>1. (1 .. n) \in SUBSET (1 .. n)
    OBVIOUS
  <2>2. Alike(g, h, n)
    BY <1>10, SameFold
  <2> QED
    BY <2>1, <2>2 DEF Alike
<1> QED
  BY <1>0, <1>1, <1>7, <1>11 DEF PendingFold

LEMMA PendingAppend ==
  ASSUME NEW T, NEW text \in Seq(T), NEW c \in T
  PROVE  /\ PendingOf(text) \in Seq(T)
         /\ PendingOf(Append(text, c)) = PendingBy(PendingOf(text), c)
<1>1. PICK n \in Nat : n = Len(text)
  OBVIOUS
<1>2. PICK long : long = Append(text, c)
  OBVIOUS
<1>3. long \in Seq(T) /\ n + 1 = Len(long) /\ n + 1 \in Nat
  BY <1>1, <1>2
<1>4. PICK g : PendingFold(text, g, T, n)
  BY <1>1, PendingIsFold
<1>5. PICK h : PendingFold(long, h, T, n + 1)
  BY <1>3, PendingIsFold
<1>6. PICK D, step : D = Seq(T) /\ step = PendingStep(T)
  OBVIOUS
<1>7. <<>> \in D /\ Closed(step, D, T)
  BY <1>6, PendingByIn DEF Closed
<1>8. IsFold(g, step, <<>>, text, n) /\ IsFold(h, step, <<>>, long, n + 1)
  BY <1>4, <1>5, <1>6 DEF PendingFold
<1>9. Appends(step, D, g, h, n, c)
  BY <1>1, <1>2, <1>7, <1>8, FoldAppends
<1> QED
  BY <1>2, <1>4, <1>5, <1>6, <1>9, PendingByIn DEF PendingFold, Appends

LEMMA PendingNothing == PendingOf(<<>>) = <<>>
<1>1. <<>> \in Seq({}) /\ Len(<<>>) = 0 /\ 1 .. 0 = {} /\ {} \in SUBSET (1 .. 0)
  OBVIOUS
<1>2. PICK g : PendingFold(<<>>, g, {}, 0)
  BY <1>1, PendingIsFold
<1> QED
  BY <1>1, <1>2 DEF PendingFold, IsFold

(* The stack and the rewound source follow the text.                       *)
Follows(r, text) ==
  /\ OpenBlocks(text) = EndsOf(r.statements)
  /\ FlattenSeq(r.next_sources) = PendingOf(text)
TextInv == loop \in {"running", "ended"} /\ ~complained => Follows(reader, input)

LEMMA WordsStay ==
  ASSUME NEW T, NEW s \in Seq(T), NEW c \in T
  PROVE  Worded(s) \subseteq Worded(Append(s, c))
<1>1. PICK t : t = Append(s, c)
  OBVIOUS
<1>2. \A i \in DOMAIN s : i \in DOMAIN t /\ t[i] = s[i]
  BY <1>1
<1> QED
  BY <1>1, <1>2 DEF Worded

LEMMA WordsOfOne ==
  ASSUME NEW c
  PROVE  Worded(<<c>>) = {} <=> c.type = "NONE"
<1>1. DOMAIN <<c>> = {1} /\ <<c>>[1] = c
  OBVIOUS
<1> QED
  BY <1>1 DEF Worded

(* What is read is what was begun and not ended, and the chunk.            *)
LEMMA SourceFollows ==
  ASSUME InterpreterInv, loop = "running", Follows(reader, input),
         NEW c \in AllInputs, NEW source, source = NextSource(reader, c)
  PROVE  /\ PendingOf(input) \in Seq(AllInputs)
         /\ reader.next_sources = <<>> => PendingOf(input) = <<>> /\ source = <<c>>
         /\ reader.next_sources # <<>> =>
              /\ Worded(PendingOf(input)) # {} /\ Worded(source) # {}
              /\ c = EndOfText => source = PendingOf(input)
         /\ c # EndOfText => source = Append(PendingOf(input), c) /\ Last(source) = c
<1>1. /\ reader.next_sources \in Seq(SourcesIn(AllInputs))
      /\ Len(reader.next_sources) <= 1
  BY ReaderIs DEF ReadersIn
<1>2. CASE reader.next_sources = <<>>
  <2>1. PendingOf(input) = <<>>
    BY <1>2, FlattenNothing DEF Follows
  <2>2. source = <<c>>
    BY <1>2 DEF NextSource
  <2>3. source = Append(<<>>, c) /\ Last(source) = c /\ <<>> \in Seq(AllInputs)
    BY <2>2 DEF Last
  <2> QED
    BY <1>2, <2>1, <2>2, <2>3
<1>3. CASE reader.next_sources # <<>>
  <2>1. PICK s : s = reader.next_sources[1]
    OBVIOUS
  <2>2. /\ s \in SourcesIn(AllInputs) /\ reader.next_sources = <<s>>
        /\ Last(reader.next_sources) = s
    <3>1. Len(reader.next_sources) = 1
      <4>1. PICK T, seq : T = SourcesIn(AllInputs) /\ seq = reader.next_sources
        OBVIOUS
      <4>2. seq \in Seq(T) /\ seq # <<>> /\ Len(seq) <= 1
        BY <1>1, <1>3, <4>1
      <4>3. Len(seq) \in Nat \ {0}
        BY <4>2, EmptySeq
      <4>4. \A n \in Nat \ {0} : n <= 1 => n = 1
        OBVIOUS
      <4>5. Len(seq) = 1
        BY <4>2, <4>3, <4>4
      <4> QED
        BY <4>1, <4>5, Zenon
    <3> QED
      BY <1>1, <2>1, <3>1 DEF Last
  <2>3. PendingOf(input) = s
    BY <2>2, FlattenOne DEF Follows
  <2>4. reader.status = "ASSUMED_STATEMENT_END" /\ Worded(s) # {}
    BY <1>3, <2>2 DEF InterpreterInv, RewoundInv
  <2>5. source = IF c # EndOfText THEN Append(s, c) ELSE s
    BY <1>3, <2>2, <2>4 DEF NextSource, ReadsStream
  <2>6. s \in Seq(AllInputs)
    BY <2>2 DEF SourcesIn
  <2>7. Worded(source) # {}
    BY <2>4, <2>5, <2>6, WordsStay
  <2>8. Last(Append(s, c)) = c
    BY <2>6 DEF Last
  <2> QED
    BY <1>3, <2>3, <2>4, <2>5, <2>6, <2>7, <2>8
<1> QED
  BY <1>2, <1>3

LEMMA PumpFollows ==
  ASSUME InterpreterInv, CanTurn, Follows(reader, input), NEW c \in AllInputs,
         NEW r, r = ReadNext(reader, c), Finished(r),
         NEW q, HasRead(q), q.status = r.status, SourceOf(q) = SourceOf(r),
         NEW p, p = PumpStatusCode(q)
  PROVE  Follows(p, Append(input, c))
<1>1. loop = "running"
  BY DEF CanTurn
<1>2. c # EndOfText
  BY <1>1, FinishedTyped
<1>3. PICK source : source = NextSource(reader, c)
  OBVIOUS
<1>4. Last(source) = c /\ PendingOf(input) \in Seq(AllInputs)
  BY <1>1, <1>2, <1>3, SourceFollows
<1>5. /\ Top(q).source = source
      /\ q.status = ParsedStatus(source, reader.statements # <<>>)
  BY <1>3, TurnReads DEF SourceOf
<1>6. q.status \in {"OK", "BLOCK_BEGIN", "BLOCK_END"}
  BY DEF Finished
<1>7. /\ q.status = "BLOCK_END" => reader.statements # <<>>
      /\ c.end \in {";", "{", "}"}
  BY <1>4, <1>5, <1>6, StatusFromEnd
<1>8. IsPumped(p, q, reader, AllInputs, 0 .. last_id)
  BY <1>6, <1>7, ReaderPumped
<1>9. p.next_sources = <<>>
  BY <1>8 DEF IsPumped, KeepsOuter, HasRead, IsRead
<1>10. EndsOf(p.statements) = OpenedBy(EndsOf(reader.statements), c)
  <2>1. c = Last(Top(q).source)
    BY <1>4, <1>5
  <2>2. IsRead(q, reader, AllInputs, 0 .. last_id)
    BY DEF HasRead
  <2> QED
    BY <1>4, <1>5, <1>8, <2>1, <2>2, ReaderIs, PumpFollowsText
<1>11. input \in Seq(AllInputs)
  BY DEF InterpreterInv, CountInv
<1>12. OpenBlocks(Append(input, c)) = OpenedBy(OpenBlocks(input), c)
  BY <1>11, OpenBlocksAppend
<1>13. PendingOf(Append(input, c)) = <<>>
  <2>1. PendingOf(Append(input, c)) = PendingBy(PendingOf(input), c)
    BY <1>11, PendingAppend
  <2> QED
    BY <1>7, <2>1 DEF PendingBy
<1> QED
  BY <1>9, <1>10, <1>12, <1>13, FlattenNothing DEF Follows

LEMMA LineFollows ==
  ASSUME InterpreterInv, CanTurn, Follows(reader, input), NEW c \in AllInputs,
         NEW r, r = ReadNext(reader, c), Assumed(r),
         NEW p, p.statements = reader.statements,
         p.next_sources = IF Worded(SourceOf(r)) = {} THEN <<>> ELSE <<SourceOf(r)>>
  PROVE  Follows(p, InputWith(c))
<1>1. PICK source : source = NextSource(reader, c)
  OBVIOUS
<1>2. /\ SourceOf(r) = source
      /\ r.status = ParsedStatus(source, reader.statements # <<>>)
  BY <1>1, TurnReads
<1>3. loop = "running" /\ r.status = "ASSUMED_STATEMENT_END"
  BY DEF CanTurn, Assumed
<1>4. PICK pending : pending = PendingOf(input)
  OBVIOUS
<1>5. /\ pending \in Seq(AllInputs)
      /\ reader.next_sources = <<>> => pending = <<>> /\ source = <<c>>
      /\ reader.next_sources # <<>> =>
           Worded(pending) # {} /\ Worded(source) # {} /\ (c = EndOfText => source = pending)
      /\ c # EndOfText => source = Append(pending, c) /\ Last(source) = c
  BY <1>1, <1>3, <1>4, SourceFollows
<1>6. CASE c = EndOfText
  <2>1. FlattenSeq(p.next_sources) = pending
    <3>1. CASE reader.next_sources = <<>>
      <4>1. c.type = "NONE"
        BY <1>6 DEF EndOfText
      <4>2. Worded(source) = {}
        BY <1>5, <3>1, <4>1, WordsOfOne
      <4> QED
        BY <1>2, <1>5, <3>1, <4>2, FlattenNothing
    <3>2. CASE reader.next_sources # <<>>
      BY <1>2, <1>5, <1>6, <3>2, FlattenOne
    <3> QED
      BY <3>1, <3>2
  <2> QED
    BY <1>4, <1>6, <2>1 DEF Follows, InputWith
<1>7. CASE c # EndOfText
  <2>1. c.end \notin {";", "{", "}"}
    BY <1>2, <1>3, <1>5, <1>7, StatusFromEnd
  <2>2. input \in Seq(AllInputs)
    BY DEF InterpreterInv, CountInv
  <2>3. OpenBlocks(Append(input, c)) = OpenBlocks(input)
    BY <2>1, <2>2, OpenBlocksAppend DEF OpenedBy
  <2>4. PendingOf(Append(input, c)) = PendingBy(pending, c)
    BY <1>4, <2>2, PendingAppend
  <2>5. PendingBy(pending, c) = IF c.type = "NONE" /\ pending = <<>> THEN <<>> ELSE source
    BY <1>5, <1>7, <2>1 DEF PendingBy
  <2>6. Worded(source) = {} <=> (c.type = "NONE" /\ pending = <<>>)
    <3>1. CASE reader.next_sources = <<>>
      BY <1>5, <3>1, WordsOfOne
    <3>2. CASE reader.next_sources # <<>>
      <4>1. pending # <<>>
        <5>1. Worded(<<>>) = {}
          BY DEF Worded
        <5> QED
          BY <1>5, <3>2, <5>1
      <4> QED
        BY <1>5, <3>2, <4>1
    <3> QED
      BY <3>1, <3>2
  <2>7. FlattenSeq(p.next_sources) = PendingBy(pending, c)
    BY <1>2, <2>5, <2>6, FlattenNothing, FlattenOne
  <2> QED
    BY <1>7, <2>3, <2>4, <2>7 DEF Follows, InputWith
<1> QED
  BY <1>6, <1>7

LEMMA TurnFollows ==
  ASSUME InterpreterInv, TextInv, CanTurn, NEW c \in AllInputs,
         NEW r, r = ReadNext(reader, c), TurnOfLoop(c, r),
         loop' \in {"running", "ended"}, ~complained'
  PROVE  Follows(reader', input')
<1> USE DEF Quietly, SamePackages, Running
<1>1. loop = "running"
  BY DEF CanTurn
<1>2. HasRead(r)
  BY TurnReads
<1>3. ~Exit(c, r) /\ ~EvalThrows(c, r)
  BY DEF Exit, EvalThrows
<1>4. ~SyntaxError(c, r) /\ ~Unknown(c, r) /\ ~NoCurrentPackage(c, r) /\ ~EvalRefused(c, r)
  BY DEF SyntaxError, Unknown, NoCurrentPackage, EvalRefused, Complaining
<1>5. CASE Reset(c, r)
  <2>1. reader' = NewReader /\ input' = <<>>
    BY <1>5 DEF Reset
  <2>2. EndsOf(NewReader.statements) = <<>> /\ NewReader.next_sources = <<>>
    BY DEF NewReader, EndsOf
  <2> QED
    BY <2>1, <2>2, OpenBlocksNothing, PendingNothing, FlattenNothing DEF Follows
<1>6. CASE Blank(c, r) \/ Unfinished(c, r) \/ NewPackage(c, r) \/ EvalAccepted(c, r)
  <2>1. input' = InputWith(c) /\ complained' = complained
    BY <1>6 DEF Blank, Unfinished, NewPackage, EvalAccepted
  <2>2. Follows(reader, input)
    BY <1>1, <2>1 DEF TextInv
  <2>3. CASE Blank(c, r)
    <3>1. /\ Assumed(r) /\ Worded(SourceOf(r)) = {}
          /\ reader' = [PopDiscard(r) EXCEPT !.status = "OK"]
      BY <2>3 DEF Blank
    <3>2. reader'.statements = reader.statements /\ reader'.next_sources = <<>>
      BY <1>2, <3>1, ReaderPopped
    <3> QED
      BY <2>1, <2>2, <3>1, <3>2, LineFollows
  <2>4. CASE Unfinished(c, r)
    <3>1. Assumed(r) /\ Worded(SourceOf(r)) # {} /\ reader' = PopRewind(r)
      BY <2>4 DEF Unfinished
    <3>2. reader'.statements = reader.statements /\ reader'.next_sources = <<SourceOf(r)>>
      BY <1>2, <3>1, ReaderRewound
    <3> QED
      BY <2>1, <2>2, <3>1, <3>2, LineFollows
  <2>5. ASSUME NEW q, HasRead(q), q.status = r.status, SourceOf(q) = SourceOf(r),
               reader' = PumpStatusCode(q), Finished(r)
        PROVE  Follows(reader', input')
    <3>1. input' = Append(input, c)
      BY <1>1, <2>1, <2>5, FinishedTyped DEF InputWith
    <3>2. PICK p : p = PumpStatusCode(q)
      OBVIOUS
    <3>3. Follows(p, Append(input, c))
      BY <2>2, <2>5, <3>2, PumpFollows
    <3> QED
      BY <2>5, <3>1, <3>2, <3>3
  <2>6. CASE NewPackage(c, r)
    BY <1>2, <2>5, <2>6 DEF NewPackage
  <2>7. CASE EvalAccepted(c, r)
    <3>1. PICK q : q = Accept(r, current_package)
      OBVIOUS
    <3>2. HasRead(q) /\ q.status = r.status /\ SourceOf(q) = SourceOf(r)
      BY <1>2, <3>1, ReaderAccepted
    <3>3. reader' = PumpStatusCode(q) /\ Finished(r)
      BY <2>7, <3>1 DEF EvalAccepted, Evaluated
    <3> QED
      BY <2>5, <3>2, <3>3
  <2> QED
    BY <1>6, <2>3, <2>4, <2>6, <2>7
<1> QED
  BY <1>3, <1>4, <1>5, <1>6 DEF TurnOfLoop

-----------------------------------------------------------------------------
LEMMA InitHolds == Init => InterpreterInv
<1> SUFFICES ASSUME Init PROVE InterpreterInv
  OBVIOUS
<1> USE DEF Init
<1>1. CountInv
  <2>1. /\ last_id = 0 /\ typed = 0 /\ current_package = 0 /\ packages = {}
        /\ input = <<>> /\ Len(input) = 0 /\ MaxChunks \in Nat
    BY InputsAssumption DEF NoPackage
  <2>2. input \in Seq(AllInputs)
    BY <2>1
  <2>3. more \in BOOLEAN /\ complained \in BOOLEAN /\ loop = "running"
    OBVIOUS
  <2> QED
    BY <2>1, <2>2, <2>3 DEF CountInv
<1>2. NewReader \in Readers(last_id)
  BY DEF NewReader, Readers, ReadersIn, Statuses
<1>3. ReaderInv
  BY <1>2, StackSizeAssumption DEF ReaderInv, NewReader
<1>4. RewoundInv /\ NothingInsideRefused
  BY DEF RewoundInv, NothingInsideRefused, NewReader
<1>5. CurrentPackageLives
  BY DEF CurrentPackageLives
<1> QED
  BY <1>1, <1>3, <1>4, <1>5 DEF InterpreterInv

LEMMA NextTurns ==
  ASSUME InterpreterInv, Next
  PROVE  \/ \E c \in Typeable : \E r :
              r = ReadNext(reader, c) /\ CanTurn /\ TurnOfLoop(c, r)
         \/ /\ loop = "running" /\ loop' \in {"aborted", "ended"}
            /\ UNCHANGED <<reader, more, current_package, packages, last_id, typed,
                           input, complained>>
BY DEF Next, StackOverflow, EndOfInput, SamePackages

LEMMA StepHolds == InterpreterInv /\ [Next]_interpreter_vars => InterpreterInv'
<1> SUFFICES ASSUME InterpreterInv, [Next]_interpreter_vars PROVE InterpreterInv'
  OBVIOUS
<1>1. CASE UNCHANGED interpreter_vars
  BY <1>1 DEF InterpreterInv, CountInv, ReaderInv, RewoundInv, CurrentPackageLives,
              NothingInsideRefused, interpreter_vars, StackFull
<1>2. ASSUME NEW c \in Typeable, NEW r, r = ReadNext(reader, c), CanTurn, TurnOfLoop(c, r)
      PROVE  InterpreterInv'
  <2>1. c \in AllInputs
    BY DEF Typeable, AllInputs
  <2>2. ReaderInv' /\ RewoundInv' /\ NothingInsideRefused'
    BY <1>2, <2>1, TurnKeepsReader
  <2>3. CountInv' /\ CurrentPackageLives'
    BY <1>2, TurnKeepsCounts
  <2> QED
    BY <2>2, <2>3 DEF InterpreterInv
<1>3. CASE /\ loop = "running" /\ loop' \in {"aborted", "ended"}
           /\ UNCHANGED <<reader, more, current_package, packages, last_id, typed,
                          input, complained>>
  <2>1. CountInv' /\ ReaderInv' /\ RewoundInv'
    BY <1>3 DEF InterpreterInv, CountInv, ReaderInv, RewoundInv
  <2>2. CurrentPackageLives' /\ NothingInsideRefused'
    BY <1>3 DEF InterpreterInv, CurrentPackageLives, NothingInsideRefused
  <2> QED
    BY <2>1, <2>2 DEF InterpreterInv
<1> QED
  BY <1>1, <1>2, <1>3, NextTurns

LEMMA InterpreterInvariant == Spec => []InterpreterInv
<1>1. Init => InterpreterInv
  BY InitHolds
<1>2. InterpreterInv /\ [Next]_interpreter_vars => InterpreterInv'
  BY StepHolds
<1> QED
  BY <1>1, <1>2, PTL DEF Spec

(* The reader holds what was typed, at most StackSize statements and one   *)
(* rewound source; packages are created at most once per chunk.            *)
THEOREM InterpreterTypes == Spec => []InterpreterTypeOK
<1>1. InterpreterInv => InterpreterTypeOK
  <2> SUFFICES ASSUME InterpreterInv PROVE InterpreterTypeOK
    OBVIOUS
  <2>1. CountInv /\ ReaderInv /\ MaxChunks \in Nat
    BY InputsAssumption DEF InterpreterInv
  <2>2. \A i \in DOMAIN reader.statements :
          /\ reader.statements[i].accepted_in \in 0 .. last_id
          /\ ToSet(reader.statements[i].source) \subseteq AllInputs
    <3> SUFFICES ASSUME NEW i \in DOMAIN reader.statements
                 PROVE  /\ reader.statements[i].accepted_in \in 0 .. last_id
                        /\ ToSet(reader.statements[i].source) \subseteq AllInputs
      OBVIOUS
    <3>1. reader.statements[i] \in FramesIn(AllInputs, 0 .. last_id)
      BY <2>1 DEF ReaderInv, Readers, ReadersIn
    <3>2. /\ reader.statements[i].accepted_in \in 0 .. last_id
          /\ reader.statements[i].source \in Seq(AllInputs)
      BY <3>1 DEF FramesIn, SourcesIn
    <3> QED
      BY <3>2 DEF ToSet
  <2>3. DOMAIN reader = {"statements", "next_sources", "status"} /\ reader.status \in Statuses
    BY <2>1 DEF ReaderInv, Readers, ReadersIn
  <2> QED
    BY <2>1, <2>2, <2>3 DEF CountInv, ReaderInv, InterpreterTypeOK, AllInputs
<1> QED
  BY <1>1, InterpreterInvariant, PTL

LEMMA TextInvariant == Spec => []TextInv
<1>1. Init => TextInv
  <2> SUFFICES ASSUME Init PROVE Follows(reader, input)
    BY DEF TextInv
  <2>1. reader = NewReader /\ input = <<>>
    BY DEF Init
  <2>2. EndsOf(NewReader.statements) = <<>> /\ NewReader.next_sources = <<>>
    BY DEF NewReader, EndsOf
  <2> QED
    BY <2>1, <2>2, OpenBlocksNothing, PendingNothing, FlattenNothing DEF Follows
<1>2. InterpreterInv /\ TextInv /\ [Next]_interpreter_vars => TextInv'
  <2> SUFFICES ASSUME InterpreterInv, TextInv, [Next]_interpreter_vars,
                      loop' \in {"running", "ended"}, ~complained'
               PROVE  Follows(reader', input')
    BY DEF TextInv, Follows
  <2>1. CASE UNCHANGED interpreter_vars
    BY <2>1 DEF interpreter_vars, TextInv
  <2>2. ASSUME NEW c \in Typeable, NEW r, r = ReadNext(reader, c), CanTurn, TurnOfLoop(c, r)
        PROVE  Follows(reader', input')
    <3>1. c \in AllInputs
      BY DEF Typeable, AllInputs
    <3> QED
      BY <2>2, <3>1, TurnFollows
  <2>3. CASE /\ loop = "running" /\ loop' \in {"aborted", "ended"}
             /\ UNCHANGED <<reader, more, current_package, packages, last_id, typed,
                            input, complained>>
    BY <2>3 DEF TextInv
  <2> QED
    BY <2>1, <2>2, <2>3, NextTurns
<1> QED
  BY <1>1, <1>2, InterpreterInvariant, PTL DEF Spec

(* Whatever is typed, as long as no error was printed the statements on    *)
(* the stack are those whose blocks are open in what was typed.            *)
THEOREM BlocksFollowInput == Spec => []BlocksMatchInput
<1>1. TextInv => BlocksMatchInput
  BY DEF TextInv, Follows, BlocksMatchInput, EndsOf
<1> QED
  BY <1>1, TextInvariant, PTL

(* Whatever is typed, as long as no error was printed the rewound source   *)
(* is what was begun and not ended: nothing is lost and nothing read twice.*)
THEOREM PendingFollowsInput == Spec => []PendingMatchesInput
<1>1. TextInv => PendingMatchesInput
  BY DEF TextInv, Follows, PendingMatchesInput
<1> QED
  BY <1>1, TextInvariant, PTL

(* Whatever is typed, the current package lives as long as any package     *)
(* does, and the program crashes only after a .reset.                      *)
THEOREM CurrentLives == Spec => []CurrentPackageLives
<1>1. InterpreterInv => CurrentPackageLives
  BY DEF InterpreterInv
<1> QED
  BY <1>1, InterpreterInvariant, PTL

(* Whatever is typed, no statement is left on the stack that the evaluator *)
(* refused or that there was no package for.                               *)
THEOREM RefusedLeave == Spec => []NothingInsideRefused
<1>1. InterpreterInv => NothingInsideRefused
  BY DEF InterpreterInv
<1> QED
  BY <1>1, InterpreterInvariant, PTL

(* Whatever is typed, a statement begun and not ended at the end of the    *)
(* input keeps the program running for ever: each turn reads the rewound   *)
(* source alone, finds it unfinished as before, and rewinds it.            *)
THEOREM UnfinishedSpins == Spec => UnfinishedNeverEnds
<1> DEFINE Stuck == ~more /\ loop = "running" /\ reader.next_sources # <<>>
<1>1. InterpreterInv /\ Stuck /\ [Next]_interpreter_vars => Stuck'
  <2> SUFFICES ASSUME InterpreterInv, Stuck, [Next]_interpreter_vars PROVE Stuck'
    OBVIOUS
  <2>1. CASE UNCHANGED interpreter_vars
    BY <2>1 DEF interpreter_vars
  <2>2. CASE Next
    <3>1. ~StackFull(reader) /\ CanReadNext(reader, more)
      BY DEF InterpreterInv, RewoundInv, CanReadNext
    <3> PICK c : c = EndOfText
      OBVIOUS
    <3>2. PICK r : r = ReadNext(reader, c) /\ TurnOfLoop(c, r)
      BY <2>2, <3>1 DEF Next, StackOverflow, EndOfInput, Typeable
    <3>3. /\ SourceOf(r) = NextSource(reader, c) /\ HasRead(r)
          /\ r.status = ParsedStatus(SourceOf(r), reader.statements # <<>>)
      BY <3>2, TurnReads DEF AllInputs
    <3>4. PICK source : source = Last(reader.next_sources)
      OBVIOUS
    <3>5. /\ ParsedStatus(source, reader.statements # <<>>) = "ASSUMED_STATEMENT_END"
          /\ Worded(source) # {}
          /\ ~IsReplCmd(source, "EXIT") /\ ~IsReplCmd(source, "RESET")
      BY <3>4 DEF InterpreterInv, RewoundInv
    <3>6. SourceOf(r) = source
      BY <3>2, <3>3, <3>4 DEF NextSource
    <3>7. /\ r.status = "ASSUMED_STATEMENT_END" /\ Worded(SourceOf(r)) # {}
          /\ ~IsReplCmd(SourceOf(r), "EXIT") /\ ~IsReplCmd(SourceOf(r), "RESET")
      BY <3>3, <3>5, <3>6, Zenon
    <3>8. Unfinished(c, r)
      BY <3>2, <3>7 DEF TurnOfLoop, Exit, Reset, Blank, Assumed, SyntaxError, IsError,
           NewPackage, Unknown, NoCurrentPackage, EvalAccepted, EvalRefused, EvalThrows,
           Evaluated, Finished
    <3>9. /\ reader' = PopRewind(r) /\ Reads(c) /\ loop' = loop
      BY <3>8 DEF Unfinished, Quietly, Running
    <3>10. reader'.next_sources = <<SourceOf(r)>>
      BY <3>3, <3>9, ReaderRewound
    <3>11. reader'.next_sources # <<>>
      BY <3>10
    <3>12. more' = (more /\ c.end # "eof")
      BY <3>9 DEF Reads
    <3>13. ~more'
      BY <3>12, Zenon
    <3> QED
      BY <3>9, <3>11, <3>13
  <2> QED
    BY <2>1, <2>2
<1>2. Stuck => loop = "running"
  OBVIOUS
<1> QED
  BY <1>1, <1>2, InterpreterInvariant, PTL DEF Spec, UnfinishedNeverEnds
=============================================================================
