# A verification development for ecsact_interpret

`ecsact_interpret` reads Ecsact source: a parser (a library outside this
repository) turns text into statements, an *evaluator* checks each statement in
the context of the blocks around it, and a *runtime* stores what the accepted
statements declare and answers the meta API.  Two clients drive the evaluator:
`eval_files`, which evaluates a list of files in the order of their imports, and
a command line interpreter.  Hosts of the library may also call the runtime's
dynamic API themselves.  The modules here model all of these, with TLC runs on
small instances and TLAPS proofs for every value of the constants.

Paths below are relative to `src/`; `eval.cc`, `eval_error.h` and `eval_files.cc`
are in `ecsact/interpret/`, `eval_parse.hh` and `fixed_stack.hh` in
`ecsact/interpret/detail/`, the runtime's files in `parse-resolver-runtime/`.

## Inventory

| Part | State | Operations | What makes it hard | What makes it correct |
|---|---|---|---|---|
| **Runtime** (`parse-resolver-runtime.cc`) | `last_id`, `package_defs`, the definition maps, `full_names`, `def_owner_map` | the dynamic API (`ecsact_create_*`, `ecsact_add_*`, `ecsact_set_*`), read through the meta API | one fact kept in several places: a child system is in its parent's list and carries its parent, and was at top level before; a full name repeats the names above it | places agree; references point at what exists and end |
| **Associations** (`assoc.cc`, `ids.cc`) | `system_assoc_info`, a counter of its own | add an association, add a field, set a capability | fields are added one by one and repeated ones dropped | every association has fields of its component that hold an entity |
| **Evaluator** (`eval.cc`) | none | one `eval_*_statement` per statement, `ecsact_eval_package_statement`, `check_file_eval_error` | the context of a statement is looked up again *by name* at each statement, in a store that has changed since; checks after effects | lookups find what the block declared; an error changes nothing |
| **File evaluation** (`eval_files.cc`, `eval_parse.hh`) | per file: reader, package id and name, imports | passes over all files; sorting by imports; evaluation file by file | the sort need not end; the first error of a pass stops all | every file evaluated once, after what it imports |
| **Statement reader** (`eval_parse.hh`, `fixed_stack.hh`) | stacks of statements and sources, held back sources, status | read, pump, rewind, discard | a status code decides what is popped; 16 places; errors that do not pop | the stack holds the open blocks |
| **Lifecycle** (`lifecycle.cc`) | callbacks by id kind | `on_destroy`, `trigger_on_destroy`, `ecsact_destroy_package` | callbacks run during the iteration; stale ids in other maps | nothing refers to what was destroyed |
| **Rest of the dynamic API** | as the runtime | re-parenting, unset and removal | re-parenting updates two parents, the package and the full name | nesting stays a forest |
| **Layout** (enum storage type, field size and offset) | none | pure functions | boundaries of the integer types; field indexes followed recursively | every value fits |
| **Command line interpreter** (`cli/ecsact_interpreter_cli.cc`) | reader, `current_package` | evaluates line by line, `.reset`, `.exit` | goes on after errors; switches package inside a block; the input ends inside a statement | nothing typed is lost, the current package lives, the program ends |

The parts interact by calls only: the client (file evaluation or the command
line interpreter) reads statements, keeps the stack of open blocks, calls the
evaluator with the whole stack, and pops or skips by its answer; the evaluator
calls the meta API to look things up and the dynamic API to store; destruction
reaches associations by callbacks.  There is one thread, nothing is persisted
and no messages are sent, so there is no restart, loss or reordering to model.
What is hard is *order* (which sequences of statements or calls lead to which
stores), *partial failure* (what a refused statement, a syntax error or a failed
check leaves behind), *stale state* (names and ids looked up again later) and
*termination* (two loops that need not end).  `PROJECT.json` lists the hazards
with their lines.

## The modules

| Module | Stands for |
|---|---|
| `Maps` | finite maps with an empty one and an update (`std::unordered_map`) |
| `Runtime` | `parse-resolver-runtime.cc`: the store as variables, each dynamic API operation that the evaluator calls as an action |
| `Associations` | `assoc.cc`, `ids.cc`: a counter and a list of associations per system |
| `Evaluator` | `eval.cc` under a client that may submit any statement, in any package, at any time; and under one that stays in a package while blocks are open |
| `EvaluatorProps` | type invariant, invariants, action properties, and the refinement mapping to `Scopes` |
| `Scopes` | the abstract specification of the evaluator: declarations in lexical scopes |
| `MCStatements`, `MCDocClaims` | the statements the runs submit |
| `DocClaims` | promises of `eval_error.h` that the code does not keep |
| `StatementReader` | `statement_reader` and `fixed_stack` as operators on a record, with the parser as its callers use it |
| `EvalFiles` | `eval_files` and the passes of `eval_parse.hh`, with a reader per file |
| `EvalFilesProps` | its types, invariants, refinement mapping and liveness |
| `ImportOrder` | the abstract specification of `eval_files` |
| `MCFiles` | the texts the run evaluates |
| `Interpreter`, `MCInterpreter` | the interpreter's loop with its reader; what the run types |
| `Lifecycle` | `lifecycle.cc`: which callbacks a destruction runs |
| `DynamicApi`, `DynamicApiProps` | the dynamic API called by a host: `Runtime` and `Associations` with the operations no statement reaches, and `Lifecycle` |
| `Layout` | storage types, field sizes and offsets as pure operators and a recursive function; the host that fills enums and composites |
| `MCApi` | the hosts of the run |
| `EvaluatorProofs`, `BodyProofs`, `ShapeProofs`, `ScopeProofs` | proofs about the evaluator, see below |
| `ReaderProofs` | lemmas about the reader, for both of its clients |
| `EvalFilesProofs`, `InterpreterProofs`, `ApiProofs` | proofs about file evaluation, the interpreter and the dynamic API |

`Evaluator` composes `Runtime` with `Associations`; `DynamicApi` composes the
same two with `Lifecycle`; `EvalFiles` and `Interpreter` each build on
`StatementReader`.  The two clients are not composed with `Evaluator`: they
leave its answer open, so that what is shown of them holds whatever the
evaluator says.  `Evaluator` leaves open which statement its client submits, and
in which package, but not the stack it submits it with; see below.

### How the model corresponds to the code

*The store.*  All ids come from `last_id`, so the order of ids is the order of
creation.  The per-package id vectors are therefore not kept: `Owned(p, kind)`
is the set of ids, and "first in the vector" is the least id.  The five
definition maps are one map `defs` with a kind, and what is particular to a kind
(`fields`, `enum_values`, `system_likes`) is a map with entries for that kind.
A name is one string, a dotted name a sequence.  `ecsact_create_system` and the
`ecsact_add_child_system`, parallel and lazy calls that follow it in the same
handler are one action.

*Handlers.*  An `eval_*_statement` is a list of `Check`s in the order of the
code, each with the code it answers, and an effect.  `Rejected` answers the
first check that fails and leaves everything unchanged; `Accepted` lets the
effect happen.  Where the code acts before its last check (`FinishSystemLike`,
`EvalSystemComponent`) so does the model.  An assertion that fails or an empty
optional that is dereferenced is the code `"ABORT"`, and ends the behaviour.

*The client of the evaluator.*  `context_stack` holds the open blocks.  A statement that opens a
block is pushed when it is accepted; one that is refused is skipped with its
block (`skip_until_current_block_end`).  `EndBlock` is the `}`:
`check_file_eval_error`, then the pop.  Statements come in any
order: the evaluator is a public API (`eval.h`) and the grammar, which refuses
some orders, is in the parser.

The package comes with every call, and under `Spec` the client may create one or
go on with another at any time, also inside a block: the interpreter takes a
package statement there (`ecsact_interpreter_cli.cc:114`).  The evaluator does
not see the change and looks for the context where it is not, so the properties
about open blocks are about those of the current package.  Under `OrderlySpec`
the package changes between blocks only, as `eval_files` does it from file to
file.

One assumption remains under both: the stack has accepted statements only, each
of which began a block.  After a syntax error `eval_files` also hands over the
statement that failed, and the interpreter may keep a package statement or one
of unknown type on the stack.  What the evaluator then answers is not modelled;
what the stacks hold is, in `EvalFiles` and `Interpreter`.

*History.*  Three fields of a frame record the id that its statement created or
found (`ref`), the association (`assoc`) and the package it was evaluated in
(`pkg`).  The evaluator has no such memory and no lookup in the model
reads them; properties compare them with what the lookups find.

*Nondeterminism.*  `PackagesNamed`: packages are in a hash map, and an import
takes the first with the name.  Which association is taken when several match is
irrelevant, since more than one is an error.

*Reader.*  A reader is a record of the stack of statements, the rewound sources
and the last status.  The stacks `statements` and `sources` of the code grow and
shrink together and are one.  Text is a sequence of *chunks*, each the text up
to and including an ending character (`;`, `{`, `}`, a line end, the end of the
stream), of which the model keeps the character, the type of statement and a
package name.  A statement begun on one line and ended on another is several
chunks.  `ParsedStatus` is the parser's answer, from how its callers use it: the
one part of the reader that is outside `src/`.  The field `accepted_in` of a
frame is history: the package in which the client accepted the statement.

*File evaluation.*  One action is one turn of one loop of one pass, and `pass`
says which.  `eval_imports` is one action, and so are the checks and the
creation of the packages, which loop over files and read nothing.  Whether the
evaluator accepts a statement is a choice, limited to what it can answer (a
blank statement is never refused, a package statement always is).  `errors`
keeps the index that is reported and, as history, the file it is about.

*Interpreter.*  One action is one turn of the loop: a chunk is typed, read, and
handled by one of the branches of the loop's body, each a disjunct of
`TurnOfLoop`.  Packages are ids, since `.reset` destroys them and the current
one is kept.  `input` and `complained` are history.

*Dynamic API.*  One action per function of the API that changes state; those
that `Runtime` has for the evaluator are taken from there.  The functions that
re-parent a system update the parent, two lists, the package and the full name:
they are operators from one tree to the next, composed as the code calls one
from the other.  A callback is a record, and destroying runs those registered
for an id under any type that it casts to.  `moved` and `renamed` are history.
Ids that do not live are not passed (the runtime throws), nor a parent in
another package or below the child (the code tests neither, and no statement
can ask for either).

## Runs

All runs have `CHECK_DEADLOCK FALSE`: a client or a user may stop, a failed
assertion ends the process, `eval_files` and the interpreter end, and the bounds
below end the other behaviours.

### The evaluator

Bounds: `MaxId` (ids handed out), `MaxAssocId` (associations), `MaxDependencies`
(imports of a package), `MaxEnumValues` (values of an enum).  Fields need no
bound, as names of a composite are distinct.  `declarations` and `packages` are
under `OrderlySpec`, as `ImplementsScopes` is about lexical scopes, which a
change of package inside a block breaks; `assoc` and `body` are under `Spec`,
where two packages fit beside what the statements declare.

| Run | Bounds | Shows |
|---|---|---|
| `declarations` | 5 ids | the five kinds under two names, one of them shared by different kinds; three levels of nesting with anonymous systems between; parameters refused before and after the effect. Four declarations suffice for an outer and an inner block with a later declaration under either name |
| `packages` | 4 ids, 1 import, 1 enum value | two packages with the same component, one imported by the other, qualified names that are ambiguous because a package is named as its component |
| `assoc` | 4 ids, 2 associations | a component with two entity fields; blocks of one within the other; two associations are what the lookup by field names can confuse |
| `body` | 5 ids | two components, a system and an action in it; capabilities, generates, notify settings |

What they check, in `EvaluatorProps`:

- `TypeOK`: ids in any map or block were issued and are of the kind the place
  wants; each kind of declaration has exactly its entries.
- `NamesUnique`: no two components, transients, systems or actions of a package
  share a name.  Everything below rests on it.
- `ContextResolves`: however the store has grown, a block's statement resolves,
  by name, to the id it created, in the package it was evaluated in.
- `SystemForest`, `FullNamesArePaths`: the lists, the parent fields and the full
  names tell the same tree, each system in exactly one place.
- `FieldReferences`: field indexes are well founded, which `field_type_size`
  needs to end.
- `ComponentsVisible`: a system names only components of its package and of the
  packages imported.
- `OwnAssociationFound`: the lookup by field names finds the association the
  block added, so that capabilities go to the right one, as long as the blocks
  around it were opened in the package that the client is in.
- `AssocsWellFormed`: associations have fields that exist and hold an entity.
- `AbortsExplained`: an assertion fails, or an empty optional is dereferenced,
  only if a `with` list of an open block names a field twice or an open block
  belongs to another package.  The run `assoc` reaches the second, at a notify
  statement (`eval.cc:1749`), and the run `doc_repeated_field` the first; its
  mutant, in which a component gets one association only, makes the assertion
  fail in a block that is in its own package.
- `ErrorLeavesStore`: an error leaves the store unchanged, but for two residues
  that the property names and that the code does leave: a system or action with
  an invalid `parallel` value, and an association whose statement repeats a
  capability.
- `SystemBodyOnlyGrows`: no later statement takes back or replaces a capability,
  notify setting or constraint.
- `NotifyFreezesCaps`: once a system has notify settings its capabilities and
  associations stay, in steps whose open blocks all belong to the current
  package.
- `ImplementsScopes`: refinement of `Scopes`, below.  Checked on `declarations`
  for nested blocks and on `packages` for fields, enum values and imports.

### Files, interpreter and dynamic API

| Run | Bounds | What it covers |
|---|---|---|
| `files` | stack of 3, bodies of 4 chunks, heads of 3; 82,723 states | one file with every body of up to 4 chunks out of `x{`, `}`, `x;`, a syntax error, a line without an end and a blank one; two files, one with every head of up to 3 chunks out of package (one that begins a block among them), import and other statements; three files with every choice of eight import lists each, among them circles, unknown imports and two files of one package |
| `interpreter` | stack of 2, 5 chunks typed; 138,689 states | every sequence of 5 chunks out of eleven: package and other statements with every ending, unknown and wrong text, blank lines, `.exit`, `.reset` |
| `api` | 5 ids, 2 associations, lists of 2, names of 4 parts, 3 systems, 3 fields of lengths 1, 2 and 2^30, 2 enum values; 554,605 states | five hosts, each with the calls of one kind: trees, settings, associations (these three also destroy packages), enums, fields |

The stack has 16 places in the code.  With 2 or 3 it overflows within the
bounds, with a nesting or with errors that do not pop, and no comparison in the
code depends on the number.  Four chunks suffice for a refused block with a block in it and for a
statement after it; three files for a circle of two beside a third file and for
an order with a choice.  Five chunks of input suffice to open a block, create a
package in it, reset, and go on.  Three systems suffice to move one that has a
child from one parent to another.  Enum values are both sides of every bound of the six integer
types, in pairs.  The hosts are apart from each other because what they touch
is: only destruction reads both the tree and the associations, and it visits
them one after the other.

`files`, in `EvalFilesProps`:

- `FilesTypeOK`: types; a reader has at most `StackSize` statements and one
  rewound source, and what is left to read is an end of the text.
- `BlocksMatchSource`: while a file that parses is evaluated or skipped, the
  stack of its reader is the list of blocks open at this point of the text, as
  computed from the text alone: across the passes, with the statement rewound
  between them, with refused blocks.  This is the context the evaluator gets.
- `OnlyAcceptedContexts`: a statement is evaluated only inside statements that
  were accepted; of a refused block nothing is.
- `AbortsOnlyTooDeep`: for a file that parses, the assertion of the stack fails
  only where blocks are nested as deep as the stack is.
- `ErrorIndexRight`: for files given in an order of their imports an error
  carries the place of its file.
- `ImplementsImportOrder`: refinement of `ImportOrder`, below.
- `EndsIfSortable`, `NeverEndsUnsortable`: liveness, below.

`BlocksMatchSource` and `OnlyAcceptedContexts` say nothing after a syntax error:
the code leaves the statement that failed on the stack (`eval_parse.hh:425`) and
reads on, so both fail then.

`interpreter`, in `Interpreter`:

- `InterpreterTypeOK`: types, and the bound of the stack.
- `BlocksMatchInput`: while no error was printed, the stack is the list of
  blocks open in what was typed since the last `.reset`.
- `PendingMatchesInput`: and the rewound source is exactly what was begun and
  not ended: nothing typed is lost or read twice.
- `NothingInsideRefused`: also after errors, all that stays on the stack is an
  accepted block, or a statement of unknown type or a package statement that
  begins a block.
- `CurrentPackageLives`: the current package is destroyed only together with all
  others, and without that the program does not crash.
- `EndsAtEndOfInput`, `UnfinishedNeverEnds`: liveness, below.

`api`, in `DynamicApiProps` and `Layout`:

- `ApiTypeOK`: types; ids in maps are ids of declarations that live, but for
  what destruction leaves (enums, full names, the main package, dependencies).
- `NoSystemLost`: every system is in the list of its parent, or at the top level
  if it has none: a walk over the tree finds it.
- `OneListUnlessMoved`: and in that list only, once; except a system that was
  added to a parent while it had another, which the code leaves in both.
- `NamesFollowParents`: the full name of a system is the one its parent's name
  gives, unless that parent was renamed by a move of its own.
- `AssocsReferToLiving`: no association outlives its system or its component.
- `DestroyKeepsOthers`: destroying a package takes nothing of another, and of
  the associations exactly those with a component of the package.
- `StorageTypeFits`: the storage type of an enum holds its values and is a
  smallest one, unless a negative value asks for more than the greatest does.
- `FieldsDoNotOverlap`: fields share no byte, through growth of the composite
  and of the enums in it.  Sizes and offsets are products of `int32_t` numbers:
  `Overflown` stands for what comes of an overflow, and the property holds up to
  it.  Of the run's fields an array of 2^30 `i16` overflows in its size, and the
  third field beside one of 2^30 `u8` in its offset.

Each property of every run above has a mutant of the code in the model, listed
in `PROJECT.json`, under which its run finds a violation.

### Where the code and its comments differ

Each of these runs checks one promise of `eval_error.h` and finds a behaviour of
the code that breaks it.

| Run | Promise | Code |
|---|---|---|
| `doc_enum_names` | names are not taken twice (line 12) | the test does not look at enums |
| `doc_imports_first` | no import after a declaration (44) | there is no such test |
| `doc_notify_after` | notify after the capabilities (72) | an empty notify block goes unnoticed, and so does a second notify statement (65) |
| `doc_nested_assoc` | no nested associations (81) | refused within one kind of block, accepted within the other |
| `doc_repeated_field` | the assertion in `find_assoc_ids_with_fields` | `with x, x { ... }` breaks it |

More was seen while modelling.  Where no text of the repository promises
otherwise there is no such run; where a property above had to leave the case
out, it names it.

- Associations through `x` and through `x, y` are refused as having the same
  fields (`eval_error.h:84`), since the lookup asks for the fields of the
  association to be among the names, not equal to them.
- "System or action has no capabilities" (`eval_error.h:103`) is tested for
  actions only.
- Errors of evaluation carry the index of the file in the *sorted* order, those
  of the earlier passes the index in the order given (`eval_files.cc:71`).
- Files that import each other, and two files of one package, keep
  `get_sorted_states` going for ever (`eval_parse.hh:474`); `check_cyclic_imports`
  is empty.
- The interpreter spins when its input ends within a statement
  (`ecsact_interpreter_cli.cc:81`), and a declaration after `.reset` ends it with
  an uncaught exception, as `current_package` is kept (65).
- A system that is added to a second parent stays in the list of the first
  (`parse-resolver-runtime.cc:803`), and the systems below one that is moved keep
  the full names they had (831).
- A change of package inside a block is not noticed, neither by the interpreter
  nor by the evaluator (`ecsact_interpreter_cli.cc:114`): the statements of the
  block are answered with context errors, and a notify block in a system
  dereferences an empty optional (`eval.cc:1749`, `1860`).
- The size of a field and its offset are `int32_t` products without a test
  (`parse-resolver-runtime.cc:689`, `713`).
- The storage type of an enum with negative values is chosen by its greatest
  value (`parse-resolver-runtime.cc:494`): -1000 and 1 are stored in an `i8`.

## Refinement

Two components have an abstract specification.

`ImportOrder` says what the evaluation of a list of files promises without how
the files are sorted: names and imports are learnt first; then files are
finished one by one, each once and none before all the packages it imports; the
outcome is success when all are finished, and may be failure at any time.
`EvalFilesProps` maps `EvalFiles` to it: `package` and `needs` to the names and
imports read so far, `finished` to the part of `sorted_states` before the file
being evaluated, `outcome` to the pass and the errors.  That the sort appends
the first resolvable file in each round, and that evaluation goes through the
sorted list, are the two steps that make it hold.  Taking a file with *one* of
its imports resolved is the mutant that breaks it.

`Scopes` says what the evaluation of statements promises without the lookups by
name.  It has the package, the stack of the *declarations* whose bodies are open,
the declarations with what is fixed of them, and what each was told.  A statement
declares something new as a child of the innermost declaration, tells the
innermost declaration something, which stays told, opens or ends a block, or does
nothing.  So the language has lexical scopes, while the evaluator has no memory
of what a block belongs to: it finds the declaration of a block again by name, at
each statement, in a store that grew meanwhile.  `EvaluatorProps` maps the open
blocks to declarations through `ref`, the id that a block's own statement
created, which no lookup of the model reads: a block that declares nothing (a
capability, a `with`, a notify or a generates block) is in the body of the block
around it.  `HoldsOf` collects what a declaration was told: fields, enum values,
capabilities, constraints, notify settings and associations with what these
carry.

`Scopes` has one exception, which the code forces: an enum value may go to
another enum of the same package and name, as nothing keeps a second one from
being declared (the run `doc_enum_names`) and the lookup finds one of them.
Mutants that break the refinement: a nested system becomes a child of the
outermost one, and a name is found in any package.

## Fairness and liveness

The evaluator and the dynamic API make no promise about the future: each call
returns, and nothing forces a client to make another.  Their specifications have
no fairness.

`EvalFiles` has `WF(Next)`: `eval_files` is one call of a single thread, which
runs by itself until it returns.  `EndsIfSortable` says that it then returns,
for any texts, syntax errors, refused blocks and statements cut short, unless
the sort meets files it cannot sort; `NeverEndsUnsortable`, a safety property,
that it never returns if it does.

`Interpreter` has weak fairness of `~more /\ Next` only: before the end of the
input the loop waits for the user, who need not type.  `EndsAtEndOfInput` says
that at the end of the input the program ends unless a statement was begun and
not ended; `UnfinishedNeverEnds` that it does not end then.

## Proofs

The theorems hold for all statements, packages, texts, inputs and bounds that
satisfy the named assumptions of the modules: bounds are natural numbers
(`MaxIdAssumption`, `MaxAssocIdAssumption`, `StackSizeAssumption`), statements
have the fields of statements (`StatementsAssumption`), texts and inputs are of
chunks (`TextsAssumption`, `InputsAssumption`), enum values and lengths are 32
bit numbers (`Int32Assumption`).

### Evaluator

- `TypeCorrect == Spec => []TypeOK`
- `UniqueNames == Spec => []NamesUnique`
- `ErrorsLeaveStore == Spec => ErrorLeavesStore`
- `ContextsResolve == Spec => []ContextResolves`
- `NotifyComesLast == Spec => NotifyFreezesCaps`
- `BodiesOnlyGrow == Spec => SystemBodyOnlyGrows`
- `OnlyVisibleComponents == Spec => []ComponentsVisible`
- `NamesArePathsAlways == Spec => []FullNamesArePaths`
- `NestingIsForest == Spec => []SystemForest`
- `FieldsAreFound == Spec => []FieldReferences`
- `AssociationsAreSound == Spec => []AssocsWellFormed`
- `OwnAssociations`: with `FieldsNamedOnce`, `Spec => []OwnAssociationFound`
- `AbortsAreExplained == Spec => []AbortsExplained`
- `StatementsInScope == OrderlySpec => ImplementsScopes`

All but the last are about a client that may change the package between any two
calls.

For the first two the inductive invariant is `Inv == TypeOK /\ NamesUnique`.
`TypeOK` must say more than ranges to be inductive: the domains of the maps are tied to the kinds
of the declarations, so that a lookup's result can be used as an index, and ids
are below `last_id`, so that a new id is in none of the maps.  `NamesUnique`
needs `TypeOK`, since its step is about the new id `last_id`, which must be
distinct from every old one; and it needs the lookups, since the test in
`NameFree` searches for a *path*: when the search for `<<name>>` through the
four kinds comes back empty, no declaration of the package has the name.

The third needs no invariant: it goes through the handlers, each of which either
fails a check, and `Rejected` changes only the result, or ends in `Finish`; just
`FinishSystemLike` and `EvalSystemComponent` end with another code than `OK`,
and their residues are worked out.

The fourth needs `Inv` and `FramesResolve`: each open block's declaration is of
the kind and name that its statement gives and belongs to the package the
statement was evaluated in, and a capability block's component is what its path
finds whenever the client is in that package.  From `NamesUnique`
and the first it follows that the lookup gives this declaration: in its own
package a name of one part is found only bare, as the qualified names have the
package's name before them, and just one declaration has it (`OwnDeclFound`).
`FramesResolve` is preserved because a component, an enum or an import is
accepted at the top level only, where no block is open; within a block only
systems are declared, which no lookup of components finds (`LookupsStay`); and
a change of package leaves the declarations of the others as they are.

The rest rests on `Blocks == Inv /\ FramesResolve /\ SystemsOutside /\ NotifyWaits`.
`SystemsOutside` says that systems and actions are the outermost of the open
blocks.  `NotifyWaits` says that a capability block right inside a system, both opened in
one package, is open only while the system has no notify setting: a `with` statement makes no
test of its own, so `NotifyFreezesCaps` depends on no notify statement being
accepted while the capability block is open, and this on what its handler asks
of the context.  `BodiesOnlyGrow` needs `DistinctIds` besides: the ids in the
lists of associations are distinct and issued, or a capability meant for one
association could go to another.

One case analysis of `Next` serves the theorems about what is stored:
`NextStores` says that a step changes nothing of it, or makes one declaration,
or adds one field, enum value, import or body entry (and what it asked of it).
On it rest

- `NamesFromParents`, for the full names: the name of a declaration is what
  `SystemFullName` gives for its parent, which never changes;
- `SystemForest` itself, which is inductive together with `Blocks`;
- `FieldReferences`, where a new field refers to what the lookup found, an older
  declaration, so that no cycle can close;
- `ComponentsVisible`, since dependencies only grow;
- `AssocsHaveFields`: every association has added fields, and each is one that
  can hold an entity.  The code adds them one at a time and drops repeated ones,
  which is a fold over the names.  What the fold gives is shown by looking at the
  least number of names for which it would be wrong: the least element of a set
  of natural numbers exists (`NatLessThanWellFounded`, `WFMin`), and the fold
  over one name less is right.

`OwnAssociations` assumes `FieldsNamedOnce`: no statement's `with` list names a
field twice.  The code does not ask for it, and the run `doc_repeated_field`
shows what comes of it.  `AbortsAreExplained` assumes nothing of the kind: it
says that a repeated name in an open block and a change of package inside one are
the only two ways to end the process.  Both need
`BlocksPlaced`: a notify block lies right inside a system, a `with` block inside
a capability block inside a system, and the association that a block was opened
with is still in the list of the block's system, with the fields that the names
of its `with` list find now (`Linked`); each if the blocks it is about were
opened in one package.  TLC checked `BlocksPlaced` on the
instances of `assoc` and `body` before it was proved.

- `FieldsNamedStay`: a field that a name finds stays the one found, so a step
  keeps `Linked` (`LinkedStays`); an opening statement makes it true
  (`AddedIsLinked`).
- `MatchingIsSum`, `MatchingIsBounded`: `matching_fields.size()` is a sum over a
  fold of the community modules; with each name given once every term is 0 or 1,
  and the sum is the number of fields that are named (`SumOfOnes`).  So it never
  exceeds the number of the association's fields, whatever order they are named
  in, and for the block's own association it reaches it (`LinkedIsFound`).
- `AbortsAreExplained` then goes through the checks of the handlers.  Those that
  can end the process hold whenever the checks before them do (`Guarded`), where
  all open blocks belong to the current package and none repeats a name
  (`NamesOnce`): the system is found because an open system's block resolves
  (`SystemBlockFound`), and the two assertions hold by `LinkedIsFound`.  An
  abort changes neither the package nor the open blocks (`AbortLeavesClient`), so
  what was not so before the step is not so after it (`AbortsStep`).

`StatementsInScope` is the refinement, for any statements, packages and bounds,
of a client that stays in a package while blocks are open.
Its invariant is `Blocks /\ DistinctIds /\ BlocksPlaced /\ EnumBlocks` and, for
this client, `BlocksHere` (`BlocksStayHere`).

- What `Scopes` sees of a block is a function of the stack up to it alone
  (`ScopesAgree`), so to open a block appends to `scopes` and to end one takes
  from it (`ScopesPushed`, `ScopesPopped`).
- For each operation of the store, what it changes of `decl` and `holds` is
  exactly one new declaration (`Declared`) or more said of one (`Filled`).
- What a statement is about is what its handler finds by name, and that is the
  declaration whose body the block is in (`Enclosed`): the parent of a new system
  (`ParentEncloses`), the owner of a field (`FramesResolve`), and for the
  statements of a system's body the system one, two or three blocks out
  (`EnclosedBody`), which needs the order of blocks of `BlocksPlaced`.
- `EnumBlocks`, preserved with the others, says that the block of an enum belongs
  to an enum of the block's package and name.  That is all there is
  for enums, as their names may repeat, and with the least id that the lookup
  finds among them it gives the exception in `Scopes` (`ContextEnumNamed`).

The argument goes bottom-up.

- `EvaluatorProofs`: each operation of `Runtime` and `Associations` preserves the
  store's part of `TypeOK`, and which of them change `defs`; what a lookup finds
  is an issued id of a kind searched for; the name test.  Then the handlers that create a declaration preserve `Inv`; so
  do the others, which leave `defs` alone; `Init`; `Next`, one step per handler;
  the first two theorems; the residues of the two handlers and the third; what
  each handler does to the open blocks, and the fourth.
- `BodyProofs`: what each step stores and the blocks around it; the theorems
  about bodies and visible components.
- `ShapeProofs`: full names, nesting, fields and associations; the association
  of a block, and what ends the process.
- `ScopeProofs`: the view of the state that `Scopes` has, and the refinement.

### Files

- `ImplementsOrder == Spec => ImplementsImportOrder`
- `UnsortableNeverEnds == Spec => NeverEndsUnsortable`
- `FilesTypes == Spec => []FilesTypeOK`
- `FilesBlocks == Spec => []BlocksMatchSource`
- `FilesAborts == Spec => []AbortsOnlyTooDeep`
- `FilesContexts == Spec => []OnlyAcceptedContexts`
- `FilesErrorIndex == Spec => []ErrorIndexRight`

The invariant of the first two is `EvalInv == FilesInv /\ SortInv`.  `FilesInv` has the shape of
the file states and of `sorted_states`.  `SortInv` says that no two sorted files
have the same package, that each comes after all the packages it imports, and
that all files are sorted once they are evaluated.  The last needs that the
number of resolved packages is the number of sorted files, by the first: the
loop compares the number of packages with that of files.  Given `EvalInv` the
refinement goes pass by pass: the passes that read learn or stutter, the end of
a file is `Finish`, errors are `Fail`.

For the other theorem: from a state of the sort in which two files share a
package, or each file of a circle imports another of it, the same is true after
every step, as files and names stay and a file of the circle is never
resolvable; so the sort never ends.

The five properties of every state rest on
`FilesStateInv`, which has `EvalInv` and seven more parts.

- `PlaceInv`: each reader is at a place of its text.  What it took of the text is
  a prefix, what was rewound is the end of this prefix, and the rest is still to
  come.  In the pass over packages nothing is rewound, and in the pass over
  imports only in the files already passed.
- `StackInv`, for each file.  `Follows`: as long as the file parsed, the stack is
  that of the blocks open at this place.  `Accepting`: before the file has an
  error, and where the next statement is about to be evaluated, every statement
  on the stack was accepted in this file; while a block is skipped (`Skipping`)
  that is so of the statements below the block.
- `ErrorsInv`, `IndexInv`: errors are found at files; in the first passes, and
  later if the files were given in import order, at the file's own index.
- `OrderInv`: such files, when no two have the same name, are sorted as given.
  Names may repeat while the sort runs, but once all files are sorted they do
  not (`SortedDiffer`), and only then does the order matter to errors.
- `VarsInv` has the types of the other variables, and `AbortInv` says that a
  failed assertion leaves a full stack.

`OnlyAcceptedContexts` alone is not inductive: the three passes share the stack,
so what `eval_declarations` finds on it depends on what the passes over packages
and imports left there, and a refused statement does stay on the stack while its
block is skipped.  That it is gone when the skipping ends needs `block_depth`,
and the count is right only because the stack follows the text.

`TurnOrStill` splits `Next`: a step either is the turn of one file, which reads
a statement, or leaves all files as they are.  A turn keeps its statement (one
that does not parse), finds it blank, accepts it, rewinds it, refuses it or skips
it.  So each part of the invariant is shown for six kinds of turn instead of for
each action of the passes.

### Interpreter

- `InterpreterTypes == Spec => []InterpreterTypeOK`
- `CurrentLives == Spec => []CurrentPackageLives`
- `RefusedLeave == Spec => []NothingInsideRefused`
- `BlocksFollowInput == Spec => []BlocksMatchInput`
- `PendingFollowsInput == Spec => []PendingMatchesInput`
- `UnfinishedSpins == Spec => UnfinishedNeverEnds`

The invariant `InterpreterInv` adds to the properties `CountInv` (a package is
created at most once per chunk, so ids are bounded by what was typed),
`ReaderInv` (the record's types) and `RewoundInv`: a rewound source is one whose
end is assumed, is not blank, is no command, and left a place on the stack.  The
last is what makes the loop spin: at the end of the input the rewound source is
read again as it was, parses as before, and is rewound again.

For the two properties about the input `TextInv` relates the reader to the text
typed since the last `.reset`: the text is what was pumped followed by the
rewound source, and the stack has the statements that open the blocks of the
first part.  Both properties compare the reader with a fold over the text.
`ReaderProofs` has what this needs of folds (`OpenBlocksAppend`: a chunk more
opens a block, ends one, or does neither; again by the least prefix for which it
would be wrong) and of the reader: `ReadNext` puts one statement on the stack
that holds the rewound source and the chunk; and `PumpFollowsText`: if it is no
error, what `PumpStatusCode` leaves are the open blocks after this source, since
only the last chunk of a source ends a block or begins one.  The files use the
same lemmas: there the text is given at the start, and `AtPlace` says how far a
reader has come in it.

### Dynamic API

- `ApiTypesCorrect == Spec => []ApiTypeOK`
- `NoSystemIsLost == Spec => []NoSystemLost`
- `OneListAlways == Spec => []OneListUnlessMoved`
- `NamesFollowAlways == Spec => []NamesFollowParents`
- `AssocsStayAlive == Spec => []AssocsReferToLiving`
- `DestructionIsLocal == Spec => DestroyKeepsOthers`
- `StorageTypeAlwaysFits == LayoutSpec => []StorageTypeFits`
- `FieldsNeverOverlap == LayoutSpec => []FieldsDoNotOverlap`

The first six hold for any sequence of calls that the hosts of `DynamicApi` may make and
any bounds.  The inductive invariant is `ApiInv == Shape /\ TreeInv /\ AssocInv`.

`Shape` has the types.  `TreeInv` is about the tree that the code keeps in
three places: `Lists` (a list holds living systems of its own package),
`Parents` (a parent lives in the same package, and has the system in its list),
`OnePlace` (a system that never moved is in one list, once) and `NamesInv` (the
full name is the parent's, and an anonymous system has none).  The properties
alone are not inductive: that a removed system goes back to the list of *its*
package needs that a list never mixes packages, and that destroying a package
leaves no child without its parent needs that both are of one package.  Each of
the re-parenting calls is summed up by where it puts the system (`Placed`,
`TreeStep`), and the four parts follow from the summary.  A system's name may
change by a move: `renamed` then excuses its children, as in the property.

`AssocInv` says that each association of each system is watched by the two
callbacks that `ecsact_add_system_assoc` registers, and that a callback is
determined by its index and association; so a destruction runs the callbacks of
just the associations that refer to what is destroyed (`RunsIff`).  Removing
from a list is the fold `Kept`; what it keeps is shown with the least prefix of
the list for which it would be wrong.

The last two are about `LayoutSpec`, a host that also fills enums and composites
and makes all calls but the destruction of packages (which leaves field types
that refer to nothing).  Enum values and lengths are any 32 bit numbers
(`Int32Assumption`).  `StorageTypeFits` goes by the least and the greatest value
of the enum.  `FieldsDoNotOverlap` needs that a size is a number at all:
`field_type_size` calls itself for a field index, on a field that may be of a
composite declared later, so no order of ids makes the recursion end.  What does
is the order in which fields are added, which the state does not keep; so the
invariant is about the equations of the sizes.  The product in them is `Times`,
which may overflow: then it is a number as well (`Overflown`).  `WellFoundedTypes` says that,
whatever numbers the sizes of the enums are, the equations have a solution, and
every solution is in numbers.  A new field only refers to earlier ones, so a
solution extends by one field, and one with the field restricts to one without
(`NewSlot`).  That it speaks of *all* sizes of enums makes it survive a new enum
value, which may change the size of any field (`SameSlots`).

### Only model-checked

The liveness properties `EndsIfSortable` and `EndsAtEndOfInput`: the proofs have
nothing for fairness.  Every other property that a passing run checks is a theorem.

## Not modelled

- The parser and the C++ wrappers of the meta API: libraries outside the
  repository.  The parser's answers are in `StatementReader`, as its callers in
  `src/` use them.
- Wording, lines and columns of error messages, terminal output, source file
  paths and registries, statement ids: no operation's outcome depends on them.
- The deprecated `ecsact_meta_system_association_*` getters and the batches in
  which getters return ids: they change nothing.
- `check_set.hh`, which no call uses; the build files, tests and sample files.

## Plan

Done: the evaluator with its abstract specification and the runtime, the reader,
file evaluation with its abstract specification, the interpreter, lifecycle and
dynamic API, layout; and the theorems above.  What would add most next:

**The clients over the abstract evaluator**: `EvalFiles` leaves the evaluator's
answer open; composed with `Scopes` it would say which declarations a list of
files leaves.
