--------------------------- MODULE EvaluatorProps ---------------------------
(***************************************************************************)
(* What the evaluator and the runtime keep true together, whatever         *)
(* statements a client submits.                                            *)
(***************************************************************************)
EXTENDS Evaluator

Codes == {"OK", "DECLARATION_NAME_TAKEN", "INVALID_CONTEXT",
  "FIELD_NAME_ALREADY_EXISTS", "UNKNOWN_FIELD_TYPE",
  "UNKNOWN_COMPONENT_LIKE_TYPE", "UNKNOWN_COMPONENT_TYPE",
  "ONLY_ONE_GENERATES_BLOCK_ALLOWED",
  "MULTIPLE_CAPABILITIES_SAME_COMPONENT_LIKE",
  "GENERATES_DUPLICATE_COMPONENT_CONSTRAINTS", "UNKNOWN_IMPORT",
  "UNEXPECTED_STATEMENT", "UNKNOWN_FIELD_NAME", "UNKNOWN_PARAMETER_NAME",
  "PARAMETERS_NOT_ALLOWED", "INVALID_NOTIFY_SETTING",
  "MULTIPLE_NOTIFY_STATEMENTS", "NOTIFY_BLOCK_AND_COMPONENTS",
  "NOTIFY_BEFORE_SYSTEM_COMPONENT", "DUPLICATE_NOTIFY_COMPONENT",
  "AMBIGUOUS_FIELD_TYPE", "NESTED_ASSOC", "SAME_FIELDS_SYSTEM_ASSOCIATION",
  "INVALID_PARAMETER_VALUE", "INVALID_ASSOC_FIELD_TYPE", "NO_CAPABILITIES",
  "ABORT"}

-----------------------------------------------------------------------------
(* Types *)

Issued == 0 .. last_id - 1
KindIds(kinds) == {d \in DOMAIN defs : defs[d].kind \in kinds}

PackageDef == [name : Seq(STRING) \ {<<>>}, dependencies : Seq(Packages),
               top_level_systems : Seq(KindIds(SystemLikes))]
Def == [kind : Kinds, owner : Packages, name : STRING, comp_type : ComponentTypes]
FieldType == [kind : {"BUILTIN"}, builtin : STRING]
             \cup [kind : {"ENUM"}, ref : Issued]
             \cup [kind : {"FIELD_INDEX"}, ref : Issued, field : Nat]
Field == [name : STRING, type : FieldType]
EnumValue == [name : STRING, value : STRING]
IsCapabilities(m) == IsMap(m, KindIds(ComponentLikes), STRING)
IsSystemLike(r) ==
  /\ r \in [caps : {r.caps}, generates : {r.generates},
             notify_settings : {r.notify_settings},
             parent_system_id : KindIds(SystemLikes) \cup {NoId},
             nested_systems : Seq(KindIds(SystemLikes)),
             parallel_execution : Executions, lazy_iteration_rate : Nat]
  /\ IsCapabilities(r.caps) /\ IsCapabilities(r.notify_settings)
  /\ DOMAIN r.generates \subseteq Issued
  /\ \A g \in DOMAIN r.generates : IsMap(r.generates[g], KindIds({"component"}), STRING)
IsAssoc(r) ==
  /\ r \in [id : 0 .. last_assoc_id - 1, comp_id : KindIds(ComponentLikes),
             added_fields : Seq(Nat), caps : {r.caps}]
  /\ IsCapabilities(r.caps)
FrameType == [s : Statements, ref : Issued \cup {NoId},
              assoc : 0 .. last_assoc_id - 1 \cup {NoId}, pkg : Packages]

RuntimeTypeOK ==
  /\ last_id \in 0 .. MaxId
  /\ package_defs \in [Packages -> PackageDef] /\ Packages \subseteq Issued
  /\ main_package_id \in Packages \cup {NoId}
  /\ defs \in [DOMAIN defs -> Def] /\ DOMAIN defs \subseteq Issued
  /\ full_names \in [KindIds(DeclKinds) -> Seq(STRING)]
  /\ fields \in [KindIds(Composites) -> Seq(Field)]
  /\ enum_values \in [KindIds({"enum"}) -> Seq(EnumValue)]
  /\ DOMAIN system_likes = KindIds(SystemLikes)
  /\ \A s \in DOMAIN system_likes : IsSystemLike(system_likes[s])

AssocTypeOK ==
  /\ last_assoc_id \in 0 .. MaxAssocId
  /\ DOMAIN system_assoc_info \subseteq KindIds(SystemLikes)
  /\ \A s \in DOMAIN system_assoc_info :
       /\ system_assoc_info[s] \in Seq(Range(system_assoc_info[s]))
       /\ \A i \in DOMAIN system_assoc_info[s] : IsAssoc(system_assoc_info[s][i])

ClientTypeOK ==
  /\ package_id \in Packages \cup {NoId}
  /\ context_stack \in Seq(FrameType)
  /\ (context_stack # <<>> => package_id \in Packages)
  /\ result \in Codes

(* Every variable has its type.  The ids in the maps of the runtime and in *)
(* the open blocks were handed out by its counter and are of the kind the  *)
(* place wants, and each kind of declaration has exactly its entries.      *)
TypeOK == RuntimeTypeOK /\ AssocTypeOK /\ ClientTypeOK

-----------------------------------------------------------------------------
(* Names and contexts *)

(* No two components, transients, systems or actions of a package have the *)
(* same name: the test in each eval_*_statement looks through four kinds,  *)
(* and every later statement finds its context by that name.               *)
NamesUnique ==
  \A d, e \in KindIds(DeclKinds) :
    defs[d].owner = defs[e].owner /\ defs[d].name = defs[e].name => d = e

(* As long as a block is open, the lookup by which find_by_statement finds *)
(* its declaration again in the package of the block gives the id that its *)
(* statement created, whatever the statements since then declared, here or *)
(* in another package; and a capability block finds the component that its *)
(* statement found.                                                        *)
BlockResolves(f) ==
  /\ f.s.op \in {"COMPONENT", "TRANSIENT"} => ComponentLikeOf(f.s) = f.ref
  /\ f.s.op \in {"COMPONENT", "TRANSIENT", "ACTION"} => CompositeOf(f.s) = f.ref
  /\ f.s.op \in {"SYSTEM", "ACTION"} => SystemLikeOf(f.s) = f.ref
  /\ f.s.op = "SYSTEM_COMPONENT" => ComponentLikeOf(f.s) = f.ref
ContextResolves ==
  \A i \in DOMAIN context_stack :
    context_stack[i].pkg = package_id => BlockResolves(context_stack[i])

(* All open blocks were opened in the package that the client is now in.   *)
BlocksHere == \A i \in DOMAIN context_stack : context_stack[i].pkg = package_id

(* A block that associates a component always finds the association that   *)
(* its own statement added, in the package in which it and those around it *)
(* were opened: so neither assertion of find_assoc_ids_with_fields fails,  *)
(* and when it finds just one association the block's capabilities go to   *)
(* the right one.                                                          *)
OwnAssociationFound ==
  BlocksHere /\ InAssocBlock /\ ContextSystem # NoId =>
    Last(context_stack).assoc \in {assoc.id : assoc \in ContextAssocs}

(* No assertion fails and no empty optional is dereferenced.               *)
NeverAborts == result # "ABORT"

(* The process ends in two ways only: a with list of an open block names a *)
(* field twice, or the package was changed inside a block, and the block's *)
(* declaration or association is looked for where it is not (eval.cc:1332, *)
(* 1749, 1860, 2116).                                                      *)
NamesTwice(names) == \E i, j \in DOMAIN names : i # j /\ names[i] = names[j]
AbortsExplained ==
  result = "ABORT" =>
    ~BlocksHere \/ \E i \in DOMAIN context_stack : NamesTwice(context_stack[i].s.with)

-----------------------------------------------------------------------------
(* What is in the store *)

(* Nesting is a forest in which every system and action has one place: the *)
(* top level list of its package or, just once, the nested list of its     *)
(* parent, which is an earlier system of the same package.  A system is    *)
(* created at top level and then moved.                                    *)
Positions(s, list) == Cardinality({i \in DOMAIN list : list[i] = s})
SystemForest ==
  \A s \in DOMAIN system_likes :
    LET parent == system_likes[s].parent_system_id
    IN /\ \A p \in Packages : Positions(s, package_defs[p].top_level_systems) =
            IF parent = NoId /\ p = defs[s].owner THEN 1 ELSE 0
       /\ \A t \in DOMAIN system_likes : Positions(s, system_likes[t].nested_systems) =
            IF t = parent THEN 1 ELSE 0
       /\ parent # NoId => parent < s /\ defs[parent].owner = defs[s].owner

(* A named declaration's full name ends with its name and goes on from its *)
(* parent's, or from the package's for a top level declaration and below   *)
(* an anonymous system; and no two named declarations of a package share   *)
(* one.                                                                    *)
FullNamesArePaths ==
  \A d \in KindIds(DeclKinds) :
    LET name   == full_names[d]
        parent == IF d \in DOMAIN system_likes
                  THEN system_likes[d].parent_system_id ELSE NoId
    IN \/ name = <<>> /\ defs[d].name = "" /\ d \in KindIds({"system"})
       \/ /\ Last(name) = defs[d].name
          /\ Front(name) \in {package_defs[defs[d].owner].name}
                             \cup (IF parent = NoId THEN {} ELSE {full_names[parent]})
          /\ (parent # NoId => (Front(name) = full_names[parent]
                                <=> full_names[parent] # <<>>))
          /\ \A e \in KindIds(DeclKinds) \ {d} :
               defs[e].owner = defs[d].owner => full_names[e] # name

(* A field whose type is a field index or an enum refers to one that       *)
(* exists, and references make no cycle, so that field_type_size, which    *)
(* follows them, ends; and no two fields of a composite share a name.      *)
FieldSlots == UNION {{c} \X DOMAIN fields[c] : c \in DOMAIN fields}
Refers(x, y) == LET type == fields[x[1]][x[2]].type
                IN type.kind = "FIELD_INDEX" /\ y = <<type.ref, type.field>>
FieldReferences ==
  /\ \A c \in DOMAIN fields : \A i, j \in DOMAIN fields[c] :
       /\ fields[c][i].name = fields[c][j].name => i = j
       /\ LET type == fields[c][i].type
          IN CASE type.kind = "BUILTIN" -> TRUE
               [] type.kind = "ENUM" -> type.ref \in DOMAIN enum_values
               [] OTHER -> type.field \in DOMAIN FieldsOf(type.ref)
  /\ \A S \in (SUBSET FieldSlots) \ {{}} : \E x \in S : \A y \in S : ~Refers(x, y)

(* Every association is through at least one field, each an entity or      *)
(* field index field of its component, and no two have the same id.        *)
AllAssocs == {x \in (DOMAIN system_assoc_info) \X (1 .. last_assoc_id) :
                x[2] \in DOMAIN system_assoc_info[x[1]]}
AssocsWellFormed ==
  /\ \A s \in DOMAIN system_assoc_info : \A i \in DOMAIN system_assoc_info[s] :
       LET assoc == system_assoc_info[s][i]
           ids   == AssocFields(assoc)
       IN /\ ids # <<>>
          /\ \A k \in DOMAIN ids :
               /\ ids[k] \in DOMAIN FieldsOf(assoc.comp_id)
               /\ LET type == FieldsOf(assoc.comp_id)[ids[k]].type
                  IN type.kind = "FIELD_INDEX" \/ type = BuiltinType("ENTITY")
  /\ \A x, y \in AllAssocs :
       system_assoc_info[x[1]][x[2]].id = system_assoc_info[y[1]][y[2]].id => x = y

(* A system only names components that its package sees: its own and those *)
(* of the packages it imports.                                             *)
Visible(p) == {p} \cup ToSet(package_defs[p].dependencies)
NamedComponents(s) ==
  DOMAIN system_likes[s].caps \cup DOMAIN system_likes[s].notify_settings
    \cup (UNION {DOMAIN system_likes[s].generates[g] : g \in DOMAIN system_likes[s].generates})
    \cup (UNION {DOMAIN assoc.caps \cup {assoc.comp_id} :
                    assoc \in Range(AssocList(system_assoc_info, s))})
ComponentsVisible ==
  \A s \in DOMAIN system_likes : \A c \in NamedComponents(s) :
    defs[c].owner \in Visible(defs[s].owner)

-----------------------------------------------------------------------------
(* What a step may never do *)

store == <<runtime_vars, assoc_vars>>

(* An evaluation that answers an error leaves the store as it was, with    *)
(* two exceptions, both of a handler that acts before its last check: an   *)
(* invalid parallel parameter, after the system is created, and a second   *)
(* capability of a component, after the association of its with list is    *)
(* added.                                                                  *)
Residue ==
  \/ /\ result' = "INVALID_PARAMETER_VALUE"
     /\ last_id' = last_id + 1 /\ DOMAIN defs' = DOMAIN defs \cup {last_id}
     /\ defs'[last_id].kind \in SystemLikes
     /\ DOMAIN system_likes'[last_id].caps = {}
     /\ UNCHANGED <<assoc_vars, main_package_id, enum_values>>
  \/ /\ result' = "MULTIPLE_CAPABILITIES_SAME_COMPONENT_LIKE"
     /\ last_assoc_id' = last_assoc_id + 1
     /\ UNCHANGED runtime_vars
ErrorLeavesStore ==
  [][result' # "OK" => UNCHANGED store \/ Residue]_vars

(* A capability, a notify setting or a generates constraint is never taken *)
(* back or replaced by a later statement, in a system or an association.   *)
Extends(new, old) == \A k \in DOMAIN old : k \in DOMAIN new /\ new[k] = old[k]
SystemBodyOnlyGrows ==
  [][\A s \in DOMAIN system_likes :
       LET old == system_likes[s]
           new == system_likes'[s]
       IN /\ Extends(new.caps, old.caps)
          /\ Extends(new.notify_settings, old.notify_settings)
          /\ \A g \in DOMAIN old.generates : Extends(new.generates[g], old.generates[g])
          /\ \A i \in DOMAIN AssocList(system_assoc_info, s) :
               Extends(system_assoc_info'[s][i].caps, system_assoc_info[s][i].caps)]_vars

(* Once a system has a notify setting, no capability and no association is *)
(* added to it: the notify statement comes after all of them.  (Unless the *)
(* package is changed inside a block: a with statement does not look at    *)
(* the notify settings, and may then come to another system.)              *)
NotifyFreezesCaps ==
  [][\A s \in DOMAIN system_likes :
       BlocksHere /\ DOMAIN system_likes[s].notify_settings # {} =>
         /\ system_likes'[s].caps = system_likes[s].caps
         /\ AssocList(system_assoc_info', s) = AssocList(system_assoc_info, s)]_vars

-----------------------------------------------------------------------------
(* Lexical scopes: what Scopes sees of the state.                          *)

(* The declaration in whose body the i-th open block is: the one that the  *)
(* last declaring statement up to it made.                                 *)
DeclaringOps == {"COMPONENT", "TRANSIENT", "SYSTEM", "ACTION", "ENUM"}
DeclaringBlocks(i) == {j \in 1 .. i : context_stack[j].s.op \in DeclaringOps}
ScopeAt(i) == IF DeclaringBlocks(i) = {} THEN NoId
              ELSE context_stack[Max(DeclaringBlocks(i))].ref

DeclOf(d) ==
  [kind |-> defs[d].kind, owner |-> defs[d].owner, name |-> defs[d].name,
   comp_type |-> defs[d].comp_type, parent |-> SystemRecord(d).parent_system_id,
   parallel |-> SystemRecord(d).parallel_execution,
   lazy |-> SystemRecord(d).lazy_iteration_rate]

(* Everything that statements have said of a declaration, as a set.        *)
Entries(tag, map) == {<<tag, k, map[k]>> : k \in DOMAIN map}
Constraints(generates) ==
  UNION {{<<"constraint", g, c, generates[g][c]>> : c \in DOMAIN generates[g]} :
           g \in DOMAIN generates}
AssocEntries(list) ==
  {<<"assoc", i, list[i].id, list[i].comp_id, list[i].added_fields>> : i \in DOMAIN list}
AssocCaps(list) ==
  UNION {{<<"assoc_cap", i, c, list[i].caps[c]>> : c \in DOMAIN list[i].caps} :
           i \in DOMAIN list}
Said(fields_, values, body, assocs) ==
  Entries("field", fields_) \cup Entries("value", values)
    \cup Entries("capability", body.caps) \cup Entries("notify", body.notify_settings)
    \cup {<<"generates", g>> : g \in DOMAIN body.generates}
    \cup Constraints(body.generates) \cup AssocEntries(assocs) \cup AssocCaps(assocs)

ValuesOfEnum(d) == IF d \in DOMAIN enum_values THEN enum_values[d] ELSE <<>>
HoldsOf(d) == Said(FieldsOf(d), ValuesOfEnum(d), SystemRecord(d), AssocList(system_assoc_info, d))

Lexical == INSTANCE Scopes WITH
  NoDecl <- NoId,
  package <- package_id,
  scopes <- [i \in DOMAIN context_stack |-> ScopeAt(i)],
  decl <- [d \in DOMAIN defs |-> DeclOf(d)],
  holds <- [d \in DOMAIN defs |-> HoldsOf(d)]

(* The evaluator implements Scopes: although it finds the context of every *)
(* statement again by name, in a store that has changed since, a statement *)
(* always takes effect in the body of the innermost open declaration, and  *)
(* on nothing else; a new declaration becomes a child of it; and what was  *)
(* once said stays.                                                        *)
ImplementsScopes == Lexical!Spec
=============================================================================
