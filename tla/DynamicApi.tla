----------------------------- MODULE DynamicApi -----------------------------
(***************************************************************************)
(* The dynamic module API as any host of the library may call it, with the *)
(* operations that no statement reaches: systems that move in the tree,    *)
(* settings that are taken back, associations that are removed, and the    *)
(* destruction of a package with the callbacks it runs                     *)
(* (parse-resolver-runtime.cc, assoc.cc, lifecycle.cc).                    *)
(*                                                                         *)
(* Ids passed in live: with others the runtime throws and changes nothing. *)
(* A system's parent is in its own package and not below it, as it is for  *)
(* every statement.                                                        *)
(***************************************************************************)
EXTENDS Runtime, Associations, Lifecycle, FiniteSets

CONSTANTS MaxNested,   \* bound on the entries of a nested_systems list
          MaxPath      \* bound on the parts of a full name
ASSUME ApiBoundsAssumption == MaxNested \in Nat /\ MaxPath \in Nat

VARIABLES
  callbacks,   \* the callbacks registered
  moved,       \* history: systems that went straight from parent to parent
  renamed      \* history: systems whose full name changed with systems below

history_vars == <<moved, renamed>>
api_vars == <<runtime_vars, assoc_vars, callbacks, history_vars>>

ApiInit == RuntimeInit /\ AssocInit /\ callbacks = {} /\ moved = {} /\ renamed = {}

Declared(kinds) == {d \in DOMAIN defs : defs[d].kind \in kinds /\ defs[d].owner \in Packages}

OnlyRuntime == UNCHANGED <<assoc_vars, callbacks, history_vars>>

-----------------------------------------------------------------------------
(* The tree of systems: who is below whom, the lists and the full names    *)

Tree == [likes |-> system_likes, packages |-> package_defs, names |-> full_names]

Below(top) ==
  {s \in DOMAIN system_likes :
     \A S \in SUBSET DOMAIN system_likes :
       (top \in S /\ \A p \in S : ToSet(system_likes[p].nested_systems) \subseteq S)
         => s \in S}

(* ecsact_remove_child_system: nothing unless parent is the child's parent *)
RemovedIsNowhere(t, parent, child) ==   \* mutant: not pushed to the top level
  IF t.likes[child].parent_system_id # parent THEN t
  ELSE [t EXCEPT !.likes = [t.likes EXCEPT
         ![child].parent_system_id = NoId, ![parent].nested_systems = RemoveFirst(@, child)]]
RemovedKeepsName(t, parent, child) ==   \* mutant: the full name stays
  IF t.likes[child].parent_system_id # parent THEN t
  ELSE [t EXCEPT
    !.likes = [t.likes EXCEPT ![child].parent_system_id = NoId,
                              ![parent].nested_systems = RemoveFirst(@, child)],
    !.packages = [t.packages EXCEPT
      ![defs[parent].owner].top_level_systems = Append(@, child)]]
Removed(t, parent, child) ==
  IF t.likes[child].parent_system_id # parent THEN t
  ELSE [likes |-> [t.likes EXCEPT ![child].parent_system_id = NoId,
                                  ![parent].nested_systems = RemoveFirst(@, child)],
        packages |-> IF Contains(t.likes[parent].nested_systems, child)
                     THEN [t.packages EXCEPT
                       ![defs[parent].owner].top_level_systems = Append(@, child)]
                     ELSE t.packages,
        names |-> IF defs[child].name = "" THEN t.names
                  ELSE [t.names EXCEPT ![child] =
                    Append(t.packages[defs[child].owner].name, defs[child].name)]]

(* ecsact_add_child_system: a child that has a parent is first removed,    *)
(* but from the parent that it is added to.                                *)
RemovedFirst(t, parent, child) ==
  IF t.likes[child].parent_system_id # NoId THEN Removed(t, parent, child) ELSE t
AddedStaysAtTop(tree, parent, child) ==   \* mutant: not erased from the top level
  LET t == RemovedFirst(tree, parent, child)
  IN [t EXCEPT !.likes = [t.likes EXCEPT
        ![child].parent_system_id = parent, ![parent].nested_systems = Append(@, child)]]
Added(tree, parent, child) ==
  LET t == RemovedFirst(tree, parent, child)
  IN [likes |-> [t.likes EXCEPT ![child].parent_system_id = parent,
                                ![parent].nested_systems = Append(@, child)],
      packages |-> [t.packages EXCEPT
        ![defs[parent].owner].top_level_systems = RemoveFirst(@, child)],
      names |-> IF defs[child].name = "" THEN t.names
                ELSE [t.names EXCEPT ![child] = Append(
                  IF t.names[parent] # <<>> THEN t.names[parent]
                  ELSE t.packages[defs[parent].owner].name, defs[child].name)]]

BecomesTree(t, child) ==
  /\ system_likes' = t.likes /\ package_defs' = t.packages /\ full_names' = t.names
  /\ renamed' = IF full_names'[child] # full_names[child]
                   /\ system_likes[child].nested_systems # <<>>
                THEN renamed \cup {child} ELSE renamed
  /\ UNCHANGED <<last_id, main_package_id, defs, fields, enum_values,
                 assoc_vars, callbacks>>

AddChildSystem(parent, child) ==
  /\ parent \notin Below(child) /\ defs[parent].owner = defs[child].owner
  /\ Len(system_likes[parent].nested_systems) < MaxNested
  /\ Len(full_names[parent]) < MaxPath
  /\ BecomesTree(Added(Tree, parent, child), child)
  /\ moved' = IF system_likes[child].parent_system_id \notin {NoId, parent}
              THEN moved \cup {child} ELSE moved

RemoveChildSystem(parent, child) ==
  /\ BecomesTree(Removed(Tree, parent, child), child)
  /\ UNCHANGED moved

-----------------------------------------------------------------------------
(* Settings that are taken back                                            *)

Without(f, k) == Restrict(f, DOMAIN f \ {k})

UnsetSystemCapability(s, c) ==
  /\ system_likes' = [system_likes EXCEPT ![s].caps = Without(@, c)]
  /\ OnlySystemLikes /\ UNCHANGED last_id

RemoveSystemGenerates(s, gen) ==
  /\ system_likes' = [system_likes EXCEPT ![s].generates = Without(@, gen)]
  /\ OnlySystemLikes /\ UNCHANGED last_id

SystemGeneratesUnsetComponent(s, gen, c) ==
  /\ system_likes' = [system_likes EXCEPT ![s].generates[gen] = Without(@, c)]
  /\ OnlySystemLikes /\ UNCHANGED last_id

SetNotifyNone(s, c) ==
  /\ system_likes' = [system_likes EXCEPT ![s].notify_settings = Without(@, c)]
  /\ OnlySystemLikes /\ UNCHANGED last_id

SetParallelExecution(s, execution) ==
  /\ system_likes' = [system_likes EXCEPT ![s].parallel_execution = execution]
  /\ OnlySystemLikes /\ UNCHANGED last_id

SetLazyIterationRate(s, rate) ==
  /\ system_likes' = [system_likes EXCEPT ![s].lazy_iteration_rate = rate]
  /\ OnlySystemLikes /\ UNCHANGED last_id

(* ecsact_set_component_type, for a component                              *)
SetComponentType(c, type) ==
  /\ defs' = [defs EXCEPT ![c].comp_type = type]
  /\ UNCHANGED <<last_id, package_defs, main_package_id, full_names, fields,
                 enum_values, system_likes>>

-----------------------------------------------------------------------------
(* Associations                                                            *)

AssocIds(s) == {AssocList(system_assoc_info, s)[i].id :
                  i \in DOMAIN AssocList(system_assoc_info, s)}

AddAssoc(s, c) ==
  /\ NextAssocId
  /\ system_assoc_info' = AddSystemAssoc(system_assoc_info, last_assoc_id, s, c, <<>>)
  /\ callbacks' = callbacks \cup {Callback("system_like", s, s, last_assoc_id),
                                  Callback("component_like", c, s, last_assoc_id)}
  /\ UNCHANGED <<runtime_vars, history_vars>>

(* A list without what is not in set, in the same order.                   *)
Kept(list, set) ==
  FoldLeft(LAMBDA kept, a : IF a \in set THEN Append(kept, a) ELSE kept, <<>>, list)

(* ecsact_remove_system_assoc, for a set of associations of every system   *)
AssocsBefore(info, gone) ==   \* mutant: erases to the end of the list
  [s \in DOMAIN info |->
     SubSeq(info[s], 1, SelectInSeq(info[s] \o <<[id |-> -1]>>, LAMBDA a :
                          <<s, a.id>> \in gone \/ a.id = -1) - 1)]
AssocsWithout(info, gone) ==
  [s \in DOMAIN info |->
     Kept(info[s], {a \in ToSet(info[s]) : <<s, a.id>> \notin gone})]

RemoveAssoc(s, a) ==
  /\ system_assoc_info' = AssocsWithout(system_assoc_info, {<<s, a>>})
  /\ UNCHANGED <<runtime_vars, last_assoc_id, callbacks, history_vars>>

ChangeAssoc(s, a, Op(_)) ==
  /\ system_assoc_info' = [system_assoc_info EXCEPT ![s] =
       [i \in DOMAIN @ |-> IF @[i].id = a THEN Op(@[i]) ELSE @[i]]]
  /\ UNCHANGED <<runtime_vars, last_assoc_id, callbacks, history_vars>>

AddAssocField(s, a, f) ==
  ChangeAssoc(s, a, LAMBDA assoc :
    [assoc EXCEPT !.added_fields = IF Contains(@, f) THEN @ ELSE Append(@, f)])

RemoveAssocField(s, a, f) ==
  ChangeAssoc(s, a, LAMBDA assoc : [assoc EXCEPT !.added_fields = RemoveFirst(@, f)])

SetAssocCapability(s, a, c, cap) ==
  ChangeAssoc(s, a, LAMBDA assoc :
    IF cap = "NONE" THEN [assoc EXCEPT !.caps = Without(@, c)]
    ELSE WithCapability(assoc, c, cap))

-----------------------------------------------------------------------------
(* ecsact_destroy_package: the package, its components, transients,        *)
(* systems and actions, and the associations whose callbacks run.  Its     *)
(* enums, the full names, the main package id and the dependencies of      *)
(* other packages on it stay.                                              *)

DestroyedNoActions(p) ==   \* mutant: one of the collections is not visited
  {d \in DOMAIN defs : defs[d].owner = p /\ defs[d].kind \in DeclKinds \ {"action"}}
Destroyed(p) == {d \in DOMAIN defs : defs[d].owner = p /\ defs[d].kind \in DeclKinds}

DestroyPackage(p) ==
  LET gone == Destroyed(p)
      run  == (UNION {Triggered(callbacks, d, defs[d].kind) : d \in gone})
                \cup Triggered(callbacks, p, "package")
  IN /\ package_defs' = Without(package_defs, p)
     /\ defs' = Restrict(defs, DOMAIN defs \ gone)
     /\ fields' = Restrict(fields, DOMAIN fields \ gone)
     /\ system_likes' = Restrict(system_likes, DOMAIN system_likes \ gone)
     /\ system_assoc_info' = AssocsWithout(system_assoc_info,
                                           {<<c.system, c.assoc>> : c \in run})
     /\ callbacks' = callbacks \ run
     /\ UNCHANGED <<last_id, main_package_id, full_names, enum_values,
                    last_assoc_id, history_vars>>

-----------------------------------------------------------------------------
(* The calls that a host may make, by what they are about                  *)

CONSTANTS PackageNames, SystemNames, Capabilities, FieldIds   \* small sets of arguments

CreateCalls ==
  /\ \/ \E name \in PackageNames, main \in BOOLEAN : CreatePackage(name, main)
     \/ \E p \in Packages :
          \/ \E kind \in ComponentLikes : CreateComponentLike(kind, p, "C", "NONE")
          \/ CreateEnum(p, "E")
  /\ OnlyRuntime

SystemCalls ==
  /\ \E p \in Packages :
       \/ \E name \in SystemNames : CreateSystemLike("system", p, name, NoId, "AUTO", 0)
       \/ CreateSystemLike("action", p, "A", NoId, "AUTO", 0)
  /\ OnlyRuntime

TreeCalls ==
  \E parent \in Declared(SystemLikes), child \in Declared({"system"}) :
    AddChildSystem(parent, child) \/ RemoveChildSystem(parent, child)

SettingCalls ==
  /\ \/ \E s \in Declared(SystemLikes), c \in Declared(ComponentLikes) :
          \/ \E cap \in Capabilities : SetSystemCapability(s, c, cap)
          \/ UnsetSystemCapability(s, c)
          \/ SetNotifySettings(s, {c}, "ALWAYS")
          \/ SetNotifyNone(s, c)
          \/ \E gen \in DOMAIN system_likes[s].generates :
               \/ SystemGeneratesSetComponent(s, gen, c, "OPTIONAL")
               \/ SystemGeneratesUnsetComponent(s, gen, c)
     \/ \E s \in Declared(SystemLikes) :
          \/ AddSystemGenerates(s)
          \/ \E gen \in DOMAIN system_likes[s].generates : RemoveSystemGenerates(s, gen)
          \/ SetParallelExecution(s, "DENY")
     \/ \E s \in Declared({"system"}) : SetLazyIterationRate(s, 1)
     \/ \E c \in Declared({"component"}) : SetComponentType(c, "STREAM")
     \/ \E p, q \in Packages :
          /\ p # q /\ q \notin ToSet(package_defs[p].dependencies)
          /\ AddDependency(p, q)
  /\ OnlyRuntime

AssocCalls ==
  \E s \in Declared(SystemLikes) :
    \/ \E c \in Declared(ComponentLikes) : AddAssoc(s, c)
    \/ \E a \in AssocIds(s) :
         \/ RemoveAssoc(s, a)
         \/ \E f \in FieldIds : AddAssocField(s, a, f) \/ RemoveAssocField(s, a, f)
         \/ \E c \in Declared(ComponentLikes), cap \in Capabilities \cup {"NONE"} :
              SetAssocCapability(s, a, c, cap)

DestroyCalls == \E p \in Packages : DestroyPackage(p)

Next == CreateCalls \/ SystemCalls \/ TreeCalls \/ SettingCalls \/ AssocCalls \/ DestroyCalls

Spec == ApiInit /\ [][Next]_api_vars
=============================================================================
