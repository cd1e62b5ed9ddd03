------------------------------ MODULE Runtime ------------------------------
(***************************************************************************)
(* The parse resolver runtime: the store that the ecsact dynamic module    *)
(* API writes and the meta API reads                                       *)
(* (parse-resolver-runtime/parse-resolver-runtime.cc).                     *)
(*                                                                         *)
(* Every package, declaration and generates block takes its id from the    *)
(* one counter last_id, so the order of ids is the order of creation and   *)
(* the per-package id vectors of package_def (components, transients,      *)
(* systems, actions, enums) are the ids of one owner and kind in           *)
(* increasing order.  An operation of the API is an action here: it gives  *)
(* the next value of every variable of this module.                        *)
(*                                                                         *)
(* A package name is the sequence of its dotted parts; a declaration name  *)
(* is one part, "" for an anonymous system.                                *)
(***************************************************************************)
EXTENDS Integers, Sequences, FiniteSetsExt, Maps

CONSTANT MaxId   \* bound on last_id: ids handed out in one behaviour
ASSUME MaxIdAssumption == MaxId \in Nat

VARIABLES
  last_id,          \* the next id
  package_defs,     \* package id -> name, dependencies, top_level_systems
  main_package_id,  \* the last package created as main, or NoId
  defs,             \* declaration id -> kind, owner, name, comp_type
  full_names,       \* declaration id -> dotted name; no entry for an enum
  fields,           \* composite id -> its fields, by position
  enum_values,      \* enum id -> its values, by position
  system_likes      \* system or action id -> system_like

runtime_vars == <<last_id, package_defs, main_package_id, defs, full_names,
                  fields, enum_values, system_likes>>

NoId == -1

-----------------------------------------------------------------------------
(* Data *)

ComponentLikes == {"component", "transient"}
SystemLikes    == {"system", "action"}
Composites     == ComponentLikes \cup {"action"}
DeclKinds      == ComponentLikes \cup SystemLikes   \* what ecsact_decl_id covers
Kinds          == DeclKinds \cup {"enum"}

ComponentTypes == {"NONE", "STREAM", "LAZY_STREAM", "TRANSIENT"}
Executions     == {"AUTO", "PREFERRED", "DENY"}

Ids == 0 .. MaxId - 1

(* ecsact_field_type: a builtin type, an enum, or the value of the field   *)
(* "field" (a position) of the composite "ref".                            *)
BuiltinType(b)   == [kind |-> "BUILTIN", builtin |-> b]
EnumType(e)      == [kind |-> "ENUM", ref |-> e]
FieldIndex(c, i) == [kind |-> "FIELD_INDEX", ref |-> c, field |-> i]

NewSystemLike(parent, parallel, lazy) ==
  [caps                |-> EmptyMap,   \* component-like id -> capability
   generates           |-> EmptyMap,   \* generates id -> component id -> flag
   notify_settings     |-> EmptyMap,   \* component-like id -> setting
   parent_system_id    |-> parent,
   nested_systems      |-> <<>>,
   parallel_execution  |-> parallel,
   lazy_iteration_rate |-> lazy]

-----------------------------------------------------------------------------
(* Meta API: what the evaluator reads *)

Packages == DOMAIN package_defs

Owned(p, kind) == {d \in DOMAIN defs : defs[d].owner = p /\ defs[d].kind = kind}

FieldsOf(c) == IF c \in DOMAIN fields THEN fields[c] ELSE <<>>

FieldsNamed(c, name) == {i \in DOMAIN FieldsOf(c) : FieldsOf(c)[i].name = name}

-----------------------------------------------------------------------------
(* Dynamic API *)

RuntimeInit ==
  /\ last_id = 0
  /\ package_defs = EmptyMap
  /\ main_package_id = NoId
  /\ defs = EmptyMap
  /\ full_names = EmptyMap
  /\ fields = EmptyMap
  /\ enum_values = EmptyMap
  /\ system_likes = EmptyMap

NextId == /\ last_id < MaxId
          /\ last_id' = last_id + 1

CreatePackage(name, main) ==
  /\ NextId
  /\ package_defs' = Put(package_defs, last_id,
       [name |-> name, dependencies |-> <<>>, top_level_systems |-> <<>>])
  /\ main_package_id' = IF main THEN last_id ELSE main_package_id
  /\ UNCHANGED <<defs, full_names, fields, enum_values, system_likes>>

AddDependency(target, dependency) ==
  /\ package_defs' = IF dependency \in Packages
       THEN [package_defs EXCEPT ![target].dependencies = Append(@, dependency)]
       ELSE package_defs
  /\ UNCHANGED <<last_id, main_package_id, defs, full_names, fields,
                 enum_values, system_likes>>

(* What every ecsact_create_* of a declaration does; comp_type is the type *)
(* that ecsact_meta_component_type reports.                                *)
NewDef(kind, owner, name, comp_type) ==
  /\ NextId
  /\ defs' = Put(defs, last_id,
       [kind |-> kind, owner |-> owner, name |-> name, comp_type |-> comp_type])

(* ecsact_create_component followed by ecsact_set_component_type, and      *)
(* ecsact_create_transient.                                                *)
CreateComponentLike(kind, owner, name, comp_type) ==
  /\ NewDef(kind, owner, name, comp_type)
  /\ full_names' = Put(full_names, last_id, Append(package_defs[owner].name, name))
  /\ fields' = Put(fields, last_id, <<>>)
  /\ UNCHANGED <<package_defs, main_package_id, enum_values, system_likes>>

CreateEnumWithoutValues(owner, name) ==   \* mutant: no entry for the values
  /\ NewDef("enum", owner, name, "NONE")
  /\ UNCHANGED <<package_defs, main_package_id, full_names, fields, enum_values,
                 system_likes>>
CreateEnum(owner, name) ==
  /\ NewDef("enum", owner, name, "NONE")
  /\ enum_values' = Put(enum_values, last_id, <<>>)
  /\ UNCHANGED <<package_defs, main_package_id, full_names, fields, system_likes>>

AddEnumValue(e, name, value) ==
  /\ enum_values' = [enum_values EXCEPT ![e] = Append(@, [name |-> name, value |-> value])]
  /\ UNCHANGED <<last_id, package_defs, main_package_id, defs, full_names,
                 fields, system_likes>>

AddField(c, name, type) ==
  /\ fields' = [fields EXCEPT ![c] = Append(@, [name |-> name, type |-> type])]
  /\ UNCHANGED <<last_id, package_defs, main_package_id, defs, full_names,
                 enum_values, system_likes>>

(* The full name that a system or action takes: none for an anonymous      *)
(* system; below its parent, or below the package if the parent itself is  *)
(* anonymous.                                                              *)
SystemFullNameBelow(kind, owner, name, parent) ==   \* mutant: an anonymous parent's
  IF kind = "system" /\ name = "" THEN <<>>
  ELSE Append(IF parent = NoId THEN package_defs[owner].name ELSE full_names[parent], name)
SystemFullName(kind, owner, name, parent) ==
  IF kind = "system" /\ name = "" THEN <<>>
  ELSE IF parent = NoId \/ full_names[parent] = <<>>
  THEN Append(package_defs[owner].name, name)
  ELSE Append(full_names[parent], name)

CreateSystemLikeTwice(kind, owner, name, parent, parallel, lazy) ==   \* mutant: a child
  /\ NewDef(kind, owner, name, "NONE")                            \* stays at top level
  /\ full_names' = Put(full_names, last_id, SystemFullName(kind, owner, name, parent))
  /\ fields' = IF kind = "action" THEN Put(fields, last_id, <<>>) ELSE fields
  /\ package_defs' = [package_defs EXCEPT ![owner].top_level_systems = Append(@, last_id)]
  /\ system_likes' = Put(
       IF parent = NoId THEN system_likes
       ELSE [system_likes EXCEPT ![parent].nested_systems = Append(@, last_id)],
       last_id, NewSystemLike(parent, parallel, lazy))
  /\ UNCHANGED <<main_package_id, enum_values>>

(* ecsact_create_system or ecsact_create_action, then, for a system with a *)
(* parent, ecsact_add_child_system: the new id is pushed on the package's  *)
(* top level systems and moves to the parent's nested systems.  Then the   *)
(* lazy rate and the parallel execution are set.                           *)
CreateSystemLike(kind, owner, name, parent, parallel, lazy) ==
  /\ NewDef(kind, owner, name, "NONE")
  /\ full_names' = Put(full_names, last_id, SystemFullName(kind, owner, name, parent))
  /\ fields' = IF kind = "action" THEN Put(fields, last_id, <<>>) ELSE fields
  /\ LET new == NewSystemLike(parent, parallel, lazy)
     IN IF parent = NoId
        THEN /\ package_defs' = [package_defs EXCEPT
                  ![owner].top_level_systems = Append(@, last_id)]
             /\ system_likes' = Put(system_likes, last_id, new)
        ELSE /\ system_likes' = Put(
                  [system_likes EXCEPT ![parent].nested_systems = Append(@, last_id)],
                  last_id, new)
             /\ UNCHANGED package_defs
  /\ UNCHANGED <<main_package_id, enum_values>>

(* The remaining operations change one system-like. *)
OnlySystemLikes == UNCHANGED <<package_defs, main_package_id, defs, full_names,
                               fields, enum_values>>

SetSystemCapability(s, c, cap) ==
  /\ system_likes' = [system_likes EXCEPT ![s].caps = Put(@, c, cap)]
  /\ OnlySystemLikes /\ UNCHANGED last_id

AddSystemGenerates(s) ==
  /\ NextId
  /\ system_likes' = [system_likes EXCEPT ![s].generates = Put(@, last_id, EmptyMap)]
  /\ OnlySystemLikes

SystemGeneratesSetComponent(s, gen, c, flag) ==
  /\ system_likes' = [system_likes EXCEPT ![s].generates[gen] = Put(@, c, flag)]
  /\ OnlySystemLikes /\ UNCHANGED last_id

(* ecsact_set_system_notify_component_setting for each component of a set  *)
SetNotifySettings(s, comps, setting) ==
  /\ system_likes' = [system_likes EXCEPT ![s].notify_settings =
       [c \in DOMAIN @ \cup comps |-> IF c \in comps THEN setting ELSE @[c]]]
  /\ OnlySystemLikes /\ UNCHANGED last_id
=============================================================================
