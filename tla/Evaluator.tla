----------------------------- MODULE Evaluator -----------------------------
(***************************************************************************)
(* The statement evaluator (ecsact/interpret/eval.cc): it takes a stack of *)
(* parsed statements, checks the top one against the statements around it  *)
(* and the runtime's contents, and calls the dynamic API or answers an     *)
(* error code.                                                             *)
(*                                                                         *)
(* The evaluator holds no state of its own.  The stack belongs to the      *)
(* client (ecsact::eval_files, or the command line interpreter), which     *)
(* pushes a statement that opens a block once it is evaluated without an   *)
(* error and pops it at the end of the block.  A context is found again at *)
(* every statement, BY NAME, in a runtime that has changed since the       *)
(* statement of the context was evaluated.                                 *)
(*                                                                         *)
(* Every call names a package, and the client may change it between any    *)
(* two calls, inside a block too.                                          *)
(*                                                                         *)
(* Three fields of a frame are history: ref and assoc record the id that   *)
(* its statement created or found and the association it added, pkg the    *)
(* package it was evaluated in.  No lookup reads them; the properties      *)
(* compare the lookups with them.                                          *)
(***************************************************************************)
EXTENDS Runtime, Associations, FiniteSets

CONSTANTS
  Statements,         \* the statements a client may submit, package ones apart
  PackageStatements,  \* the package statements a client may submit
  MaxDependencies,    \* bound on the imports of a package
  MaxEnumValues       \* bound on the values of an enum

(* NONE is the empty statement, and stands for the context "no statement". *)
Ops == {"NONE", "UNKNOWN", "PACKAGE", "IMPORT", "COMPONENT", "TRANSIENT",
        "SYSTEM", "ACTION", "ENUM", "ENUM_VALUE", "BUILTIN_TYPE_FIELD",
        "USER_TYPE_FIELD", "ENTITY_FIELD", "SYSTEM_COMPONENT", "SYSTEM_WITH",
        "SYSTEM_GENERATES", "ENTITY_CONSTRAINT", "SYSTEM_NOTIFY",
        "SYSTEM_NOTIFY_COMPONENT"}

ParamNames  == {"stream", "transient", "lazy", "parallel", "other"}
ParamValues == [type : {"BOOL", "STRING", "INTEGER"}, int : Int, str : STRING]

(* name    the name that the statement declares                            *)
(* path    the dotted name that the statement looks up                     *)
(* with    the field names of a with list                                  *)
(* params  the statement parameters by name                                *)
(* arg     builtin type, capability, setting, constraint flag or value     *)
(* block   whether the statement opens a block                             *)
IsStatement(s) ==
  /\ s \in [op : Ops, name : STRING, path : Seq(STRING), with : Seq(STRING),
             params : {s.params}, arg : STRING, block : BOOLEAN]
  /\ IsMap(s.params, ParamNames, ParamValues)

ASSUME StatementsAssumption ==
  /\ \A s \in Statements : IsStatement(s)
  /\ PackageStatements \subseteq [name : Seq(STRING) \ {<<>>}, main : BOOLEAN]
  /\ MaxDependencies \in Nat /\ MaxEnumValues \in Nat

VARIABLES
  package_id,      \* the package that the client evaluates statements in
  context_stack,   \* the client's open blocks, innermost last
  result           \* the code of the last evaluation

client_vars == <<package_id, context_stack>>
vars == <<runtime_vars, assoc_vars, client_vars, result>>

-----------------------------------------------------------------------------
(* Checks: a handler is a list of conditions, each with the code answered  *)
(* when it is the first not to hold, and an effect when all hold.          *)

Check(holds, code) == [holds |-> holds, code |-> code]

Accepted(checks) == \A i \in DOMAIN checks : checks[i].holds

Rejected(checks) ==
  \E i \in DOMAIN checks :
    /\ ~checks[i].holds
    /\ \A j \in 1 .. i - 1 : checks[j].holds
    /\ result' = checks[i].code
    /\ UNCHANGED <<runtime_vars, assoc_vars, client_vars>>

(* The end of an evaluation that came to an effect.                        *)
Finish(s, ref, assoc, code) ==
  /\ result' = code
  /\ context_stack' = IF s.block /\ code = "OK"
       THEN Append(context_stack,
                   [s |-> s, ref |-> ref, assoc |-> assoc, pkg |-> package_id])
       ELSE context_stack
  /\ UNCHANGED package_id

NoStatement == [op |-> "NONE", name |-> "", path |-> <<>>, with |-> <<>>,
                params |-> EmptyMap, arg |-> "", block |-> FALSE]

(* The statement k places from the top of the context, NONE beyond it.     *)
Context(k) == IF k <= Len(context_stack)
              THEN context_stack[Len(context_stack) + 1 - k].s
              ELSE NoStatement

InContext(ops) == Check(Context(1).op \in ops, "INVALID_CONTEXT")

AllowParams(s, allowed) ==
  Check(DOMAIN s.params \subseteq allowed,
        IF allowed = {} THEN "PARAMETERS_NOT_ALLOWED" ELSE "UNKNOWN_PARAMETER_NAME")

(* statement_param: a value of another type counts as not given            *)
HasParam(s, name, types) == name \in DOMAIN s.params /\ s.params[name].type \in types

(* parallel_param: the execution, or "INVALID"                             *)
ParallelParam(s) ==
  LET p == s.params["parallel"]
  IN IF ~HasParam(s, "parallel", {"BOOL", "STRING"}) THEN "AUTO"
     ELSE IF p.type = "BOOL" THEN IF p.int = 1 THEN "PREFERRED" ELSE "DENY"
     ELSE CASE p.str = "auto" -> "AUTO"
            [] p.str = "preferred" -> "PREFERRED"
            [] p.str = "deny" -> "DENY"
            [] OTHER -> "INVALID"

LazyRate(s) == IF HasParam(s, "lazy", {"BOOL", "INTEGER"})
               THEN Max({0, s.params["lazy"].int}) ELSE 0

(* The stream type that a component statement asks for, or "INVALID".      *)
StreamParam(s) ==
  LET p == s.params["stream"]
  IN IF ~HasParam(s, "stream", {"BOOL", "STRING"}) THEN "NONE"
     ELSE IF p.type = "BOOL" THEN IF p.int = 1 THEN "STREAM" ELSE "NONE"
     ELSE IF p.str = "lazy" THEN "LAZY_STREAM" ELSE "INVALID"

AsksTransient(s) == HasParam(s, "transient", {"BOOL"}) /\ s.params["transient"].int = 1

-----------------------------------------------------------------------------
(* Lookups by name.  A search is the list of the id sets that the code     *)
(* goes through in turn; what it finds is the first id of the first set    *)
(* that is not empty.                                                      *)

Found(search) == \E i \in DOMAIN search : search[i] # {}

Earliest(search) ==
  IF Found(search)
  THEN Min(search[Min({i \in DOMAIN search : search[i] # {}})])
  ELSE NoId

Qualified(p, kind, path) ==
  {d \in Owned(p, kind) : path = Append(package_defs[p].name, defs[d].name)}

Bare(p, kind, path) == {d \in Owned(p, kind) : path = <<defs[d].name>>}

(* find_by_name: systems and actions by their bare name in the package,    *)
(* the other kinds by either name in the package, then by the qualified    *)
(* name in its dependencies in the order of the imports.                   *)
SearchAllPackages(kind, path) ==   \* mutant: an import is not needed
  IF kind \in SystemLikes THEN <<Bare(package_id, kind, path)>>
  ELSE <<Bare(package_id, kind, path) \cup Qualified(package_id, kind, path),
         UNION {Qualified(p, kind, path) : p \in Packages}>>
Search(kind, path) ==
  IF kind \in SystemLikes THEN <<Bare(package_id, kind, path)>>
  ELSE LET dependencies == package_defs[package_id].dependencies
       IN <<Bare(package_id, kind, path) \cup Qualified(package_id, kind, path)>>
          \o [i \in DOMAIN dependencies |-> Qualified(dependencies[i], kind, path)]

SearchComponentLike(path) == Search("component", path) \o Search("transient", path)
SearchComposite(path)     == SearchComponentLike(path) \o Search("action", path)
SearchDeclNoSystems(path) ==   \* mutant: the names of systems are free
  SearchComponentLike(path) \o Search("action", path)
SearchDecl(path) ==
  SearchComponentLike(path) \o Search("system", path) \o Search("action", path)

AnyName(s) == Check(TRUE, "OK")   \* mutant: no test of the name
NameFree(s) == Check(~Found(SearchDecl(<<s.name>>)), "DECLARATION_NAME_TAKEN")

(* find_by_statement: the declaration that a statement of the context      *)
(* made, as its name finds it now.                                         *)
KindOf(op) == CASE op = "COMPONENT" -> "component"
                [] op = "TRANSIENT" -> "transient"
                [] op = "SYSTEM"    -> "system"
                [] op = "ACTION"    -> "action"

FindDeclaredAnywhere(s, ops) ==   \* mutant: in whatever package
  IF s.op \in ops
  THEN Earliest(<<{d \in DOMAIN defs : defs[d].kind = KindOf(s.op) /\ defs[d].name = s.name}>>)
  ELSE NoId
FindDeclared(s, ops) ==
  IF s.op \in ops THEN Earliest(Search(KindOf(s.op), <<s.name>>)) ELSE NoId

CompositeOf(s)  == FindDeclared(s, {"COMPONENT", "TRANSIENT", "ACTION"})
SystemLikeOf(s) == FindDeclared(s, {"SYSTEM", "ACTION"})
ComponentLikeOf(s) ==
  IF s.op = "SYSTEM_COMPONENT" THEN Earliest(SearchComponentLike(s.path))
  ELSE FindDeclared(s, {"COMPONENT", "TRANSIENT"})

(* The system-like that the statements of a system body are about: the     *)
(* statement of the system is the top of the context, or lies one or two   *)
(* blocks further out.                                                     *)
ContextSystem ==
  SystemLikeOf(Context(CASE Context(1).op \in {"SYSTEM", "ACTION"} -> 1
                         [] Context(1).op = "SYSTEM_WITH" -> 3
                         [] OTHER -> 2))

SystemRecord(s) == IF s \in DOMAIN system_likes THEN system_likes[s]
                   ELSE NewSystemLike(NoId, "AUTO", 0)

-----------------------------------------------------------------------------
(* Packages: ecsact_eval_package_statement, after which the client goes on *)
(* in the new package, and a client that goes on in another one.  Neither  *)
(* the two calls nor the command line interpreter ask whether a block is   *)
(* open.                                                                   *)

EvalPackageStatement ==
  /\ \E s \in PackageStatements : CreatePackage(s.name, s.main)
  /\ package_id' = last_id
  /\ result' = "OK"
  /\ UNCHANGED <<assoc_vars, context_stack>>

SelectPackage ==
  /\ \E p \in Packages \ {package_id} : package_id' = p
  /\ UNCHANGED <<runtime_vars, assoc_vars, context_stack, result>>

(* The end of the innermost block: check_file_eval_error, then the pop.    *)
(* If the statement that ends the block was refused, there is no check.    *)
EndBlock ==
  /\ context_stack # <<>>
  /\ \/ LET act == SystemLikeOf(Context(1))
        IN result' = CASE Context(1).op # "ACTION" -> "OK"
                       [] Context(1).op = "ACTION" /\ act = NoId -> "ABORT"
                       [] OTHER -> IF DOMAIN system_likes[act].caps = {}
                                   THEN "NO_CAPABILITIES" ELSE "OK"
     \/ result # "OK" /\ UNCHANGED result
  /\ context_stack' = IF result' = "ABORT" THEN context_stack ELSE Front(context_stack)
  /\ UNCHANGED <<runtime_vars, assoc_vars, package_id>>

-----------------------------------------------------------------------------
(* Statements of a package *)

EvalEmpty(s) ==
  /\ s.op \in {"NONE", "UNKNOWN"}
  /\ result' = "OK"
  /\ UNCHANGED <<runtime_vars, assoc_vars, client_vars>>

EvalPackageInBlock(s) ==
  /\ s.op = "PACKAGE"
  /\ Rejected(<<Check(FALSE, "UNEXPECTED_STATEMENT")>>)

(* The packages are in a hash map: of several with the imported name, any  *)
(* one may come first.                                                     *)
PackagesNamed(name) == {p \in Packages \ {package_id} : package_defs[p].name = name}

ImportChecks(s) ==
  <<InContext({"NONE"}), AllowParams(s, {}),
    Check(PackagesNamed(s.path) # {}, "UNKNOWN_IMPORT")>>

EvalImport(s) ==
  /\ s.op = "IMPORT"
  /\ \/ Rejected(ImportChecks(s))
     \/ /\ Accepted(ImportChecks(s))
        /\ Len(package_defs[package_id].dependencies) < MaxDependencies
        /\ \E p \in PackagesNamed(s.path) : AddDependency(package_id, p)
        /\ Finish(s, NoId, NoId, "OK")
        /\ UNCHANGED assoc_vars

ComponentChecks(s) ==
  <<InContext({"NONE"}), AllowParams(s, {"stream", "transient"}),
    Check(StreamParam(s) # "INVALID", "INVALID_PARAMETER_VALUE"),
    Check(~(AsksTransient(s) /\ StreamParam(s) # "NONE"), "INVALID_PARAMETER_VALUE"),
    NameFree(s)>>

EvalComponentCreatesFirst(s) ==   \* mutant: the stream type is read too late
  /\ s.op = "COMPONENT"
  /\ Accepted(<<InContext({"NONE"}), NameFree(s)>>)
  /\ CreateComponentLike("component", package_id, s.name, "NONE")
  /\ Finish(s, last_id, NoId,
            IF StreamParam(s) = "INVALID" THEN "INVALID_PARAMETER_VALUE" ELSE "OK")
  /\ UNCHANGED assoc_vars
EvalComponent(s) ==
  /\ s.op = "COMPONENT"
  /\ \/ Rejected(ComponentChecks(s))
     \/ /\ Accepted(ComponentChecks(s))
        /\ CreateComponentLike("component", package_id, s.name,
             IF AsksTransient(s) THEN "TRANSIENT" ELSE StreamParam(s))
        /\ Finish(s, last_id, NoId, "OK")
        /\ UNCHANGED assoc_vars

(* What a transient and an enum are checked for *)
PlainDeclChecks(s) == <<InContext({"NONE"}), AllowParams(s, {}), NameFree(s)>>

EvalTransient(s) ==
  /\ s.op = "TRANSIENT"
  /\ \/ Rejected(PlainDeclChecks(s))
     \/ /\ Accepted(PlainDeclChecks(s))
        /\ CreateComponentLike("transient", package_id, s.name, "TRANSIENT")
        /\ Finish(s, last_id, NoId, "OK")
        /\ UNCHANGED assoc_vars

(* The parallel parameter is read after the system or action is created:   *)
(* with an invalid value the error leaves it behind, outside any block.    *)
FinishSystemLike(s, kind, parent, lazy) ==
  LET parallel == ParallelParam(s)
      invalid  == parallel = "INVALID"
  IN /\ CreateSystemLike(kind, package_id, s.name, parent,
                         IF invalid THEN "AUTO" ELSE parallel, lazy)
     /\ Finish(s, last_id, NoId, IF invalid THEN "INVALID_PARAMETER_VALUE" ELSE "OK")
     /\ UNCHANGED assoc_vars

SystemChecks(s) ==
  <<InContext({"NONE", "SYSTEM", "ACTION"}), AllowParams(s, {"lazy", "parallel"}),
    Check(Context(1).op = "NONE" \/ SystemLikeOf(Context(1)) # NoId, "INVALID_CONTEXT"),
    NameFree(s)>>

EvalSystemInOutermost(s) ==   \* mutant: the parent is the outermost block's
  /\ s.op = "SYSTEM"
  /\ Accepted(SystemChecks(s))
  /\ FinishSystemLike(s, "system", SystemLikeOf(Context(Max({1, Len(context_stack)}))),
                      LazyRate(s))
EvalSystem(s) ==
  /\ s.op = "SYSTEM"
  /\ \/ Rejected(SystemChecks(s))
     \/ /\ Accepted(SystemChecks(s))
        /\ FinishSystemLike(s, "system", SystemLikeOf(Context(1)), LazyRate(s))

ActionChecks(s) == <<InContext({"NONE"}), AllowParams(s, {"parallel"}), NameFree(s)>>

EvalAction(s) ==
  /\ s.op = "ACTION"
  /\ \/ Rejected(ActionChecks(s))
     \/ Accepted(ActionChecks(s)) /\ FinishSystemLike(s, "action", NoId, 0)

EvalEnum(s) ==
  /\ s.op = "ENUM"
  /\ \/ Rejected(PlainDeclChecks(s))
     \/ /\ Accepted(PlainDeclChecks(s))
        /\ CreateEnum(package_id, s.name)
        /\ Finish(s, last_id, NoId, "OK")
        /\ UNCHANGED assoc_vars

ContextEnum == Earliest(Search("enum", <<Context(1).name>>))

EnumValueChecks(s) ==
  <<InContext({"ENUM"}), AllowParams(s, {}),
    Check(ContextEnum # NoId, "INVALID_CONTEXT")>>

EvalEnumValue(s) ==
  /\ s.op = "ENUM_VALUE"
  /\ \/ Rejected(EnumValueChecks(s))
     \/ /\ Accepted(EnumValueChecks(s))
        /\ Len(enum_values[ContextEnum]) < MaxEnumValues
        /\ AddEnumValue(ContextEnum, s.name, s.arg)
        /\ Finish(s, ContextEnum, NoId, "OK")
        /\ UNCHANGED assoc_vars

-----------------------------------------------------------------------------
(* Fields *)

FieldChecksAnyName(s) ==   \* mutant: a second field of the name is accepted
  <<InContext({"COMPONENT", "TRANSIENT", "ACTION"}), AllowParams(s, {}),
    Check(CompositeOf(Context(1)) # NoId, "INVALID_CONTEXT")>>
FieldChecks(s) ==
  LET composite == CompositeOf(Context(1))
  IN <<InContext({"COMPONENT", "TRANSIENT", "ACTION"}), AllowParams(s, {}),
       Check(composite # NoId, "INVALID_CONTEXT"),
       Check(FieldsNamed(composite, s.name) = {}, "FIELD_NAME_ALREADY_EXISTS")>>

FinishField(s, type) ==
  /\ AddField(CompositeOf(Context(1)), s.name, type)
  /\ Finish(s, CompositeOf(Context(1)), NoId, "OK")
  /\ UNCHANGED assoc_vars

EvalBuiltinTypeField(s) ==
  /\ s.op \in {"BUILTIN_TYPE_FIELD", "ENTITY_FIELD"}
  /\ \/ Rejected(FieldChecks(s))
     \/ Accepted(FieldChecks(s)) /\ FinishField(s, BuiltinType(s.arg))

(* The type is an enum, or a field of a composite: composite name, dot,    *)
(* field name.  Both lookups are made, and just one must succeed.          *)
EnumNamed(s)        == Earliest(Search("enum", s.path))
IndexedComposite(s) == Earliest(SearchComposite(Front(s.path)))
IndexedFields(s)    == FieldsNamed(IndexedComposite(s), Last(s.path))

UserTypeChecks(s) ==
  FieldChecks(s) \o
  <<Check(EnumNamed(s) # NoId \/ IndexedFields(s) # {}, "UNKNOWN_FIELD_TYPE"),
    Check(EnumNamed(s) = NoId \/ IndexedFields(s) = {}, "AMBIGUOUS_FIELD_TYPE")>>

EvalUserTypeField(s) ==
  /\ s.op = "USER_TYPE_FIELD"
  /\ \/ Rejected(UserTypeChecks(s))
     \/ /\ Accepted(UserTypeChecks(s))
        /\ FinishField(s,
             IF EnumNamed(s) # NoId THEN EnumType(EnumNamed(s))
             ELSE FieldIndex(IndexedComposite(s), Min(IndexedFields(s))))

-----------------------------------------------------------------------------
(* Capabilities and associations *)

FieldIds(c, names) == [i \in DOMAIN names |-> Min(FieldsNamed(c, names[i]))]

IsAnyType(type) == TRUE   \* mutant: the field's type is not looked at
IsAssocType(type) == type.kind = "FIELD_INDEX"
                     \/ (type.kind = "BUILTIN" /\ type.builtin = "ENTITY")

(* eval_system_with_statement_data_common: one field after the other *)
WithChecks(c, names) ==
  [i \in DOMAIN names |->
    LET named == FieldsNamed(c, names[i])
    IN Check(named # {} /\ IsAssocType(FieldsOf(c)[Min(named)].type),
             IF named = {} THEN "UNKNOWN_FIELD_NAME" ELSE "INVALID_ASSOC_FIELD_TYPE")]

(* matching_fields.size(): for each field of the association the number of *)
(* times that a list of names has it, up to the first field not named.     *)
MatchingFields(c, assoc, names) ==
  LET ids      == AssocFields(assoc)
      times(i) == Cardinality({j \in DOMAIN names : names[j] = FieldsOf(c)[ids[i]].name})
      unnamed  == {i \in DOMAIN ids : times(i) = 0}
  IN MapThenSumSet(times, IF unnamed = {} THEN DOMAIN ids ELSE 1 .. Min(unnamed) - 1)

AssocsOf(s, c) == {assoc \in Range(AssocList(system_assoc_info, s)) : assoc.comp_id = c}

(* find_assoc_ids_with_fields, and the two assertions in it *)
FindAssocsWithFields(s, c, names) ==
  {assoc \in AssocsOf(s, c) :
     MatchingFields(c, assoc, names) = Len(AssocFields(assoc))}

FindAssocsAsserts(s, c, names) ==
  /\ \A assoc \in AssocsOf(s, c) :
       MatchingFields(c, assoc, names) <= Len(AssocFields(assoc))
  /\ FindAssocsWithFields(s, c, names) # {}

(* In a block that associates, the associations whose fields are those of  *)
(* the block; the block's statements are about the one found.              *)
InAssocBlock == /\ Context(1).op \in {"SYSTEM_COMPONENT", "SYSTEM_WITH"}
                /\ Context(1).with # <<>>
AssocComponentOfTop == ComponentLikeOf(Context(1))   \* mutant: one block too far in
AssocComponent == ComponentLikeOf(Context(IF Context(1).op = "SYSTEM_WITH" THEN 2 ELSE 1))

ContextAssocs == FindAssocsWithFields(ContextSystem, AssocComponent, Context(1).with)
ContextAssoc  == CHOOSE assoc \in ContextAssocs : TRUE

(* The components that have a capability where a statement would set one.  *)
ContextCaps == DOMAIN (IF InAssocBlock THEN ContextAssoc.caps
                       ELSE SystemRecord(ContextSystem).caps)

NamedComponentLike(s) == Earliest(SearchComponentLike(s.path))

NotifyNeverStarted == FALSE   \* mutant: notify settings are not looked at
NotifyStarted == DOMAIN SystemRecord(ContextSystem).notify_settings # {}

SystemComponentChecks(s) ==
  LET comp   == NamedComponentLike(s)
      nested == Context(1).op \in {"SYSTEM_COMPONENT", "SYSTEM_WITH"}
  IN <<InContext({"SYSTEM", "ACTION", "SYSTEM_COMPONENT", "SYSTEM_WITH"}),
       AllowParams(s, {}),
       Check(comp # NoId, "UNKNOWN_COMPONENT_LIKE_TYPE"),
       Check(ContextSystem # NoId, "INVALID_CONTEXT"),
       Check(~(Context(1).op = "SYSTEM_COMPONENT" /\ s.with # <<>>), "NESTED_ASSOC"),
       Check(~nested \/ AssocComponent # NoId, "INVALID_CONTEXT"),
       Check(~InAssocBlock \/
             FindAssocsAsserts(ContextSystem, AssocComponent, Context(1).with), "ABORT"),
       Check(~InAssocBlock \/ Cardinality(ContextAssocs) <= 1,
             "SAME_FIELDS_SYSTEM_ASSOCIATION"),
       Check(~NotifyStarted, "NOTIFY_BEFORE_SYSTEM_COMPONENT")>>
     \o WithChecks(comp, s.with)

(* The association of the statement's own with list is added before the    *)
(* check for a second capability of the component: that error leaves an    *)
(* association behind.                                                     *)
EvalSystemComponent(s) ==
  LET comp  == NamedComponentLike(s)
      sys   == ContextSystem
      new   == IF s.with = <<>> THEN NoId ELSE last_assoc_id
      added == IF s.with = <<>> THEN system_assoc_info
               ELSE AddSystemAssoc(system_assoc_info, new, sys, comp, FieldIds(comp, s.with))
  IN /\ s.op = "SYSTEM_COMPONENT"
     /\ \/ Rejected(SystemComponentChecks(s))
        \/ /\ Accepted(SystemComponentChecks(s))
           /\ IF s.with = <<>> THEN UNCHANGED last_assoc_id ELSE NextAssocId
           /\ \/ /\ comp \in ContextCaps
                 /\ system_assoc_info' = added
                 /\ UNCHANGED runtime_vars
                 /\ Finish(s, comp, new, "MULTIPLE_CAPABILITIES_SAME_COMPONENT_LIKE")
              \/ /\ comp \notin ContextCaps
                 /\ IF InAssocBlock
                    THEN /\ system_assoc_info' =
                              SetSystemAssocCapability(added, sys, ContextAssoc.id, comp, s.arg)
                         /\ UNCHANGED runtime_vars
                    ELSE /\ system_assoc_info' = added
                         /\ SetSystemCapability(sys, comp, s.arg)
                 /\ Finish(s, comp, new, "OK")

SystemWithChecks(s) ==
  LET comp == ComponentLikeOf(Context(1))
  IN <<InContext({"SYSTEM_COMPONENT"}), AllowParams(s, {}),
       Check(ContextSystem # NoId, "INVALID_CONTEXT"),
       Check(comp # NoId, "UNKNOWN_COMPONENT_LIKE_TYPE")>>
     \o WithChecks(comp, s.with)
     \o <<Check(s.with # <<>>, "UNEXPECTED_STATEMENT")>>

EvalSystemWithAddsFirst(s) ==   \* mutant: the association comes before the checks
  LET comp == ComponentLikeOf(Context(1))
  IN /\ s.op = "SYSTEM_WITH"
     /\ Accepted(<<InContext({"SYSTEM_COMPONENT"}), Check(ContextSystem # NoId, "INVALID_CONTEXT")>>)
     /\ NextAssocId
     /\ system_assoc_info' = AddSystemAssoc(system_assoc_info, last_assoc_id,
                               ContextSystem, comp, <<>>)
     /\ Finish(s, comp, last_assoc_id,
               IF Accepted(WithChecks(comp, s.with)) THEN "OK" ELSE "UNKNOWN_FIELD_NAME")
     /\ UNCHANGED runtime_vars
EvalSystemWith(s) ==
  LET comp == ComponentLikeOf(Context(1))
  IN /\ s.op = "SYSTEM_WITH"
     /\ \/ Rejected(SystemWithChecks(s))
        \/ /\ Accepted(SystemWithChecks(s))
           /\ NextAssocId
           /\ system_assoc_info' = AddSystemAssoc(system_assoc_info, last_assoc_id,
                                     ContextSystem, comp, FieldIds(comp, s.with))
           /\ Finish(s, comp, last_assoc_id, "OK")
           /\ UNCHANGED runtime_vars

-----------------------------------------------------------------------------
(* Generates and notify *)

ContextGenerates == SystemRecord(ContextSystem).generates

SystemGeneratesChecks(s) ==
  <<InContext({"SYSTEM", "ACTION"}), AllowParams(s, {}),
    Check(ContextSystem # NoId, "INVALID_CONTEXT"),
    Check(DOMAIN ContextGenerates = {}, "ONLY_ONE_GENERATES_BLOCK_ALLOWED")>>

EvalSystemGenerates(s) ==
  /\ s.op = "SYSTEM_GENERATES"
  /\ \/ Rejected(SystemGeneratesChecks(s))
     \/ /\ Accepted(SystemGeneratesChecks(s))
        /\ AddSystemGenerates(ContextSystem)
        /\ Finish(s, last_id, NoId, "OK")
        /\ UNCHANGED assoc_vars

NamedComponent(s) == Earliest(Search("component", s.path))

EntityConstraintChecks(s) ==
  <<InContext({"SYSTEM_GENERATES"}), AllowParams(s, {}),
    Check(ContextSystem # NoId, "INVALID_CONTEXT"),
    Check(NamedComponent(s) # NoId, "UNKNOWN_COMPONENT_TYPE"),
    Check(DOMAIN ContextGenerates # {}, "INVALID_CONTEXT"),
    Check(\A g \in DOMAIN ContextGenerates : NamedComponent(s) \notin DOMAIN ContextGenerates[g],
          "GENERATES_DUPLICATE_COMPONENT_CONSTRAINTS")>>

EvalEntityConstraint(s) ==
  /\ s.op = "ENTITY_CONSTRAINT"
  /\ \/ Rejected(EntityConstraintChecks(s))
     \/ /\ Accepted(EntityConstraintChecks(s))
        /\ LET gen == CHOOSE g \in DOMAIN ContextGenerates : TRUE
           IN SystemGeneratesSetComponent(ContextSystem, gen, NamedComponent(s), s.arg)
        /\ Finish(s, NamedComponent(s), NoId, "OK")
        /\ UNCHANGED assoc_vars

NotifySettings == {"always", "oninit", "onupdate", "onchange", "onremove"}

(* Neither notify handler tests that the system is found: the optional is  *)
(* dereferenced at once.                                                   *)
SystemNotifyChecks(s) ==
  <<InContext({"SYSTEM", "ACTION"}), AllowParams(s, {}),
    Check(ContextSystem # NoId, "ABORT"),
    Check(~NotifyStarted, "MULTIPLE_NOTIFY_STATEMENTS"),
    Check(s.arg \in NotifySettings \cup {""}, "INVALID_NOTIFY_SETTING")>>

EvalSystemNotify(s) ==
  /\ s.op = "SYSTEM_NOTIFY"
  /\ \/ Rejected(SystemNotifyChecks(s))
     \/ /\ Accepted(SystemNotifyChecks(s))
        /\ IF s.arg = "" THEN UNCHANGED runtime_vars
           ELSE SetNotifySettings(ContextSystem, DOMAIN SystemRecord(ContextSystem).caps, s.arg)
        /\ Finish(s, ContextSystem, NoId, "OK")
        /\ UNCHANGED assoc_vars

NotifyComponentChecksNoDuplicate(s) ==   \* mutant: a setting is overwritten
  <<InContext({"SYSTEM_NOTIFY"}),
    Check(NamedComponentLike(s) # NoId, "UNKNOWN_COMPONENT_LIKE_TYPE"),
    Check(ContextSystem # NoId, "ABORT")>>
NotifyComponentChecks(s) ==
  <<InContext({"SYSTEM_NOTIFY"}), AllowParams(s, {}),
    Check(Context(1).arg = "", "NOTIFY_BLOCK_AND_COMPONENTS"),
    Check(NamedComponentLike(s) # NoId, "UNKNOWN_COMPONENT_LIKE_TYPE"),
    Check(s.arg \in NotifySettings, "INVALID_NOTIFY_SETTING"),
    Check(ContextSystem # NoId, "ABORT"),
    Check(NamedComponentLike(s) \notin DOMAIN SystemRecord(ContextSystem).notify_settings,
          "DUPLICATE_NOTIFY_COMPONENT")>>

EvalSystemNotifyComponent(s) ==
  /\ s.op = "SYSTEM_NOTIFY_COMPONENT"
  /\ \/ Rejected(NotifyComponentChecks(s))
     \/ /\ Accepted(NotifyComponentChecks(s))
        /\ SetNotifySettings(ContextSystem, {NamedComponentLike(s)}, s.arg)
        /\ Finish(s, NamedComponentLike(s), NoId, "OK")
        /\ UNCHANGED assoc_vars

-----------------------------------------------------------------------------
(* ecsact_eval_statement, called with the open blocks below the statement  *)

Init ==
  /\ RuntimeInit
  /\ AssocInit
  /\ package_id = NoId
  /\ context_stack = <<>>
  /\ result = "OK"

EvalStatement(s) ==
  \/ EvalEmpty(s) \/ EvalPackageInBlock(s) \/ EvalImport(s)
  \/ EvalComponent(s) \/ EvalTransient(s) \/ EvalSystem(s) \/ EvalAction(s)
  \/ EvalEnum(s) \/ EvalEnumValue(s)
  \/ EvalBuiltinTypeField(s) \/ EvalUserTypeField(s)
  \/ EvalSystemComponent(s) \/ EvalSystemWith(s)
  \/ EvalSystemGenerates(s) \/ EvalEntityConstraint(s)
  \/ EvalSystemNotify(s) \/ EvalSystemNotifyComponent(s)

(* The process ends with a failed assertion, or where an empty optional is *)
(* dereferenced: what a build then does is not modelled.                   *)
Next ==
  /\ result # "ABORT"
  /\ \/ EvalPackageStatement
     \/ SelectPackage
     \/ EndBlock
     \/ package_id \in Packages /\ \E s \in Statements : EvalStatement(s)

Spec == Init /\ [][Next]_vars

(* A client that evaluates whole files, as ecsact::eval_files does, stays  *)
(* in one package until its blocks are closed.                             *)
OrderlyNext == Next /\ (context_stack # <<>> => UNCHANGED package_id)

OrderlySpec == Init /\ [][OrderlyNext]_vars
=============================================================================
