---------------------------- MODULE ShapeProofs -----------------------------
(***************************************************************************)
(* What is in the store after any statements: the full names of the        *)
(* declarations, the nesting of the systems, the references of the fields  *)
(* and the fields of the associations.  Each follows from what one step of *)
(* the store adds (BodyProofs!NextStores).                                 *)
(*                                                                         *)
(* Then what an open block finds there: its association, and the system    *)
(* that the handlers dereference; so which evaluations end the process.    *)
(***************************************************************************)
EXTENDS BodyProofs

-----------------------------------------------------------------------------
(* Full names                                                              *)
ParentOf(d) == IF d \in DOMAIN system_likes
               THEN system_likes[d].parent_system_id ELSE NoId

(* The full name is a function of what was declared, and stays one because *)
(* neither names nor parents change.                                       *)
NamesFromParents ==
  \A d \in KindIds(DeclKinds) :
    full_names[d] = SystemFullName(defs[d].kind, defs[d].owner, defs[d].name, ParentOf(d))

LEMMA AppendParts ==
  ASSUME NEW T, NEW list \in Seq(T), NEW x \in T
  PROVE  /\ Append(list, x) # <<>>
         /\ Last(Append(list, x)) = x
         /\ Front(Append(list, x)) = list
<1>1. Append(list, x) \in Seq(T) /\ Len(Append(list, x)) = Len(list) + 1
  OBVIOUS
<1>2. Last(Append(list, x)) = x
  BY <1>1 DEF Last
<1>3. SubSeq(Append(list, x), 1, Len(list)) = list
  <2> DEFINE front == SubSeq(Append(list, x), 1, Len(list))
  <2>1. front \in Seq(T) /\ Len(front) = Len(list)
    BY <1>1
  <2>2. \A i \in 1 .. Len(list) : front[i] = list[i]
    BY <1>1
  <2> HIDE DEF front
  <2>3. front = list
    BY <2>1, <2>2, SeqEqual
  <2> QED
    BY <2>3 DEF front
<1>4. Front(Append(list, x)) = list
  <2>1. Len(Append(list, x)) - 1 = Len(list)
    BY <1>1
  <2> QED
    BY <1>3, <2>1, Zenon DEF Front
<1>5. Append(list, x) # <<>>
  <2>1. Len(<<>>) = 0 /\ Len(list) \in Nat
    OBVIOUS
  <2> QED
    BY <1>1, <2>1
<1> QED
  BY <1>2, <1>4, <1>5

(* No step changes the parent of a system that there is.                   *)
LEMMA ParentsStay ==
  ASSUME Blocks, [Next]_vars, NEW s \in DOMAIN system_likes
  PROVE  /\ s \in DOMAIN system_likes'
         /\ system_likes'[s].parent_system_id = system_likes[s].parent_system_id
<1>0. RuntimeTypeOK
  BY DEF Blocks, Inv, TypeOK
<1>1. CASE UNCHANGED system_likes
  BY <1>1
<1>2. CASE package_id \in Packages /\ CreatesSystem
  BY <1>0, <1>2, CreatedSystem DEF Created, SameSettings
<1>3. ASSUME NEW sys \in OwnSystems, ChangesBody(sys)
      PROVE  /\ s \in DOMAIN system_likes'
             /\ system_likes'[s].parent_system_id = system_likes[s].parent_system_id
  <2>1. SameOthers(sys) /\ SamePlace(sys)
    BY <1>0, <1>3, ChangedBodyGrows
  <2> QED
    BY <2>1 DEF SameOthers, SamePlace, SameSettings
<1> QED
  BY <1>1, <1>2, <1>3, SystemsStep

LEMMA NamesStay ==
  ASSUME Blocks, [Next]_vars, NEW d \in KindIds(DeclKinds)
  PROVE  full_names'[d] = full_names[d]
<1>0. d \in DOMAIN full_names /\ last_id # d
  <2>1. last_id \in Nat /\ d \in Issued
    BY MaxIdAssumption DEF Blocks, Inv, TypeOK, RuntimeTypeOK, KindIds
  <2> QED
    BY <2>1 DEF Blocks, Inv, TypeOK, RuntimeTypeOK, Issued
<1>1. ASSUME NEW name, full_names' = Put(full_names, last_id, name)
      PROVE  full_names'[d] = full_names[d]
  BY <1>0, <1>1 DEF Put
<1>2. CASE package_id \in Packages /\ DeclaresComponent
  BY <1>1, <1>2 DEF DeclaresComponent, CreateComponentLike
<1>3. CASE package_id \in Packages /\ CreatesSystem
  BY <1>1, <1>3, CreatedSystem DEF Blocks, Inv, TypeOK
<1>4. ASSUME NEW sys, ChangesBody(sys)
      PROVE  UNCHANGED full_names
  BY <1>4 DEF ChangesBody, SetsNotify, SetNotifySettings, AddsGenerates, AddSystemGenerates,
              Constrains, SystemGeneratesSetComponent, AddsCapability, SetsCapability,
              SetSystemCapability, OnlySystemLikes, runtime_vars
<1>5. ASSUME CreatesPackage \/ Imports \/ DeclaresEnum \/ AddsEnumValue \/ AddsField
      PROVE  UNCHANGED full_names
  BY <1>5 DEF CreatesPackage, CreatePackage, Imports, AddDependency, DeclaresEnum, CreateEnum,
              AddsEnumValue, AddEnumValue, AddsField, AddField
<1> QED
  BY <1>2, <1>3, <1>4, <1>5, NextStores DEF StoreStep, store, runtime_vars

(* A declaration that was not there takes the name of its place.           *)
TakesName(d, kind, name, parent) ==
  /\ package_id \in Packages
  /\ defs'[d].kind = kind /\ defs'[d].owner = package_id /\ defs'[d].name = name
  /\ ParentOf(d)' = parent
  /\ full_names'[d] = SystemFullName(kind, package_id, name, parent)

LEMMA NewNames ==
  ASSUME Blocks, [Next]_vars, NEW d \in KindIds(DeclKinds)', d \notin DOMAIN defs
  PROVE  \E kind \in DeclKinds, name \in STRING, parent \in KindIds(SystemLikes) \cup {NoId} :
           TakesName(d, kind, name, parent)
<1>0. RuntimeTypeOK /\ last_id \notin DOMAIN full_names
  <2>1. RuntimeTypeOK /\ last_id \notin Issued
    BY MaxIdAssumption DEF Blocks, Inv, TypeOK, RuntimeTypeOK, Issued
  <2> QED
    BY <2>1 DEF RuntimeTypeOK, KindIds
<1>1. ASSUME NEW kind \in Kinds, NEW name \in STRING, NEW comp_type \in ComponentTypes,
             package_id \in Packages, Packages' = Packages,
             NewDef(kind, package_id, name, comp_type)
      PROVE  /\ d = last_id /\ kind \in DeclKinds
             /\ defs'[d].kind = kind /\ defs'[d].owner = package_id /\ defs'[d].name = name
  <2>1. /\ DOMAIN defs' = DOMAIN defs \cup {last_id}
        /\ defs'[last_id] = [kind |-> kind, owner |-> package_id, name |-> name,
                             comp_type |-> comp_type]
    <3>1. PICK new : new = [kind |-> kind, owner |-> package_id, name |-> name,
                            comp_type |-> comp_type]
      OBVIOUS
    <3>2. defs' = Put(defs, last_id, new)
      BY <1>1, <3>1 DEF NewDef
    <3> QED
      BY <3>1, <3>2 DEF Put
  <2> QED
    BY <2>1 DEF KindIds
<1>2. \A x : Put(full_names, last_id, x)[last_id] = x
  BY DEF Put
<1>3. CASE package_id \in Packages /\ DeclaresComponent
  <2>1. PICK kind \in ComponentLikes, name \in STRING, comp_type \in ComponentTypes :
          CreateComponentLike(kind, package_id, name, comp_type)
    BY <1>3 DEF DeclaresComponent
  <2>2. /\ NewDef(kind, package_id, name, comp_type) /\ Packages' = Packages /\ UNCHANGED system_likes
        /\ full_names' = Put(full_names, last_id, Append(package_defs[package_id].name, name))
    BY <2>1 DEF CreateComponentLike, Packages
  <2>3. kind \in Kinds /\ kind # "system"
    BY DEF Kinds, DeclKinds, ComponentLikes
  <2>4. /\ d = last_id /\ kind \in DeclKinds
        /\ defs'[d].kind = kind /\ defs'[d].owner = package_id /\ defs'[d].name = name
    BY <1>1, <1>3, <2>2, <2>3
  <2>5. full_names'[d] = SystemFullName(kind, package_id, name, NoId)
    BY <1>2, <2>2, <2>3, <2>4 DEF SystemFullName
  <2>6. ParentOf(d)' = NoId
    <3>1. d \notin DOMAIN system_likes
      BY <1>0, <2>4 DEF RuntimeTypeOK, KindIds, SystemLikes, DeclKinds
    <3> QED
      BY <2>2, <3>1 DEF ParentOf
  <2> QED
    BY <1>3, <2>4, <2>5, <2>6 DEF TakesName
<1>4. CASE package_id \in Packages /\ CreatesSystem
  <2>1. PICK kind \in SystemLikes, name \in STRING,
                parent \in OwnSystems \cup {NoId}, new \in {system_likes'[last_id]} :
          /\ NewDef(kind, package_id, name, "NONE")
          /\ full_names' = Put(full_names, last_id,
                              SystemFullName(kind, package_id, name, parent))
          /\ Created(package_id, parent, new) /\ new.parent_system_id = parent
    BY <1>0, <1>4, CreatedSystem
  <2>2. kind \in Kinds /\ "NONE" \in ComponentTypes /\ Packages' = Packages
    BY <2>1 DEF Kinds, DeclKinds, ComponentTypes, Created
  <2>3. /\ d = last_id /\ kind \in DeclKinds
        /\ defs'[d].kind = kind /\ defs'[d].owner = package_id /\ defs'[d].name = name
    BY <1>1, <1>4, <2>1, <2>2
  <2>4. full_names'[d] = SystemFullName(kind, package_id, name, parent)
    BY <1>2, <2>1, <2>3
  <2>5. ParentOf(d)' = parent
    BY <2>1, <2>3 DEF ParentOf, Created
  <2>6. parent \in KindIds(SystemLikes) \cup {NoId}
    BY DEF OwnSystems
  <2> QED
    BY <1>4, <2>3, <2>4, <2>5, <2>6 DEF TakesName
<1>5. ASSUME package_id \in Packages, DeclaresEnum
      PROVE  FALSE
  <2>1. PICK name \in STRING : CreateEnum(package_id, name)
    BY <1>5 DEF DeclaresEnum
  <2>2. /\ "enum" \in Kinds /\ "NONE" \in ComponentTypes /\ Packages' = Packages
        /\ NewDef("enum", package_id, name, "NONE")
    BY <2>1 DEF Kinds, ComponentTypes, CreateEnum, Packages
  <2>3. "enum" \in DeclKinds
    BY <1>1, <1>5, <2>2
  <2> QED
    BY <2>3 DEF DeclKinds, ComponentLikes, SystemLikes
<1>6. ASSUME NEW sys, ChangesBody(sys)
      PROVE  UNCHANGED defs
  BY <1>6 DEF ChangesBody, SetsNotify, SetNotifySettings, AddsGenerates, AddSystemGenerates,
              Constrains, SystemGeneratesSetComponent, AddsCapability, SetsCapability,
              SetSystemCapability, OnlySystemLikes, runtime_vars
<1>7. ASSUME CreatesPackage \/ Imports \/ AddsEnumValue \/ AddsField
      PROVE  UNCHANGED defs
  BY <1>7 DEF CreatesPackage, CreatePackage, Imports, AddDependency,
              AddsEnumValue, AddEnumValue, AddsField, AddField
<1>8. ~UNCHANGED defs
  BY DEF KindIds
<1> QED
  BY <1>3, <1>4, <1>5, <1>6, <1>7, <1>8, NextStores DEF StoreStep, store, runtime_vars

LEMMA NamesFromParentsNext ==
  Blocks /\ NamesFromParents /\ [Next]_vars => NamesFromParents'
<1> SUFFICES ASSUME Blocks, NamesFromParents, [Next]_vars, NEW d \in KindIds(DeclKinds)'
             PROVE  full_names'[d] =
                      SystemFullName(defs[d].kind, defs[d].owner, defs[d].name, ParentOf(d))'
  BY DEF NamesFromParents
<1>0. RuntimeTypeOK
  BY DEF Blocks, Inv, TypeOK
<1>1. ASSUME NEW kind, NEW owner \in Packages, NEW name,
             NEW parent \in KindIds(SystemLikes) \cup {NoId},
             full_names'[d] = SystemFullName(kind, owner, name, parent),
             defs'[d].kind = kind, defs'[d].owner = owner, defs'[d].name = name,
             ParentOf(d)' = parent
      PROVE  full_names'[d] =
               SystemFullName(defs[d].kind, defs[d].owner, defs[d].name, ParentOf(d))'
  <2>1. package_defs'[owner].name = package_defs[owner].name
    BY PackagesStep
  <2>2. parent # NoId => full_names'[parent] = full_names[parent]
    <3>1. parent # NoId => parent \in KindIds(DeclKinds)
      BY DEF KindIds, DeclKinds
    <3> QED
      BY <3>1, NamesStay
  <2> QED
    BY <1>1, <2>1, <2>2 DEF SystemFullName
<1>2. CASE d \in DOMAIN defs
  <2>1. defs'[d] = defs[d] /\ d \in KindIds(DeclKinds)
    BY <1>2, StoreGrows DEF Grows, KindIds
  <2>2. full_names'[d] = full_names[d] /\ defs[d].owner \in Packages
    BY <1>0, <2>1, NamesStay DEF RuntimeTypeOK, Def, KindIds
  <2>3. ParentOf(d)' = ParentOf(d)
    <3>1. CASE d \in DOMAIN system_likes
      BY <3>1, ParentsStay DEF ParentOf
    <3>2. CASE d \notin DOMAIN system_likes
      <4>1. d \notin KindIds(SystemLikes)
        BY <1>0, <3>2 DEF RuntimeTypeOK
      <4>2. d \notin KindIds(SystemLikes)'
        BY <2>1, <4>1 DEF KindIds
      <4>3. d \notin DOMAIN system_likes'
        BY <4>2, BlocksNext DEF Blocks, Inv, TypeOK, RuntimeTypeOK
      <4> QED
        BY <3>2, <4>3 DEF ParentOf
    <3> QED
      BY <3>1, <3>2
  <2>4. ParentOf(d) \in KindIds(SystemLikes) \cup {NoId}
    BY <1>0 DEF ParentOf, RuntimeTypeOK, IsSystemLike
  <2>5. full_names[d] = SystemFullName(defs[d].kind, defs[d].owner, defs[d].name, ParentOf(d))
    BY <2>1 DEF NamesFromParents
  <2> QED
    BY <1>1, <2>1, <2>2, <2>3, <2>4, <2>5
<1>3. CASE d \notin DOMAIN defs
  BY <1>1, <1>3, NewNames DEF TakesName
<1> QED
  BY <1>2, <1>3

LEMMA NamesArePaths ==
  ASSUME Inv, NamesFromParents
  PROVE  FullNamesArePaths
<1>1. ASSUME NEW d \in KindIds(DeclKinds)
      PROVE  \/ /\ full_names[d] = <<>> /\ defs[d].name = "" /\ d \in KindIds({"system"})
             \/ \E above \in {package_defs[defs[d].owner].name}
                             \cup (IF ParentOf(d) = NoId THEN {} ELSE {full_names[ParentOf(d)]}) :
                  /\ full_names[d] = Append(above, defs[d].name)
                  /\ above \in Seq(STRING) /\ defs[d].name \in STRING
                  /\ ParentOf(d) # NoId => (above = full_names[ParentOf(d)]
                                              <=> full_names[ParentOf(d)] # <<>>)
  <2>1. /\ defs[d].owner \in Packages /\ defs[d].name \in STRING /\ d \in DOMAIN defs
        /\ package_defs[defs[d].owner].name \in Seq(STRING) \ {<<>>}
    BY DEF Inv, TypeOK, RuntimeTypeOK, KindIds, Def, PackageDef
  <2>2. ParentOf(d) # NoId => full_names[ParentOf(d)] \in Seq(STRING)
    BY DEF Inv, TypeOK, RuntimeTypeOK, ParentOf, IsSystemLike, KindIds, DeclKinds
  <2>3. full_names[d] = SystemFullName(defs[d].kind, defs[d].owner, defs[d].name, ParentOf(d))
    BY DEF NamesFromParents
  <2>4. CASE defs[d].kind = "system" /\ defs[d].name = ""
    BY <2>1, <2>3, <2>4 DEF SystemFullName, KindIds
  <2>5. CASE ~(defs[d].kind = "system" /\ defs[d].name = "")
    <3>1. CASE ParentOf(d) = NoId \/ full_names[ParentOf(d)] = <<>>
      BY <2>1, <2>3, <2>5, <3>1 DEF SystemFullName
    <3>2. CASE ~(ParentOf(d) = NoId \/ full_names[ParentOf(d)] = <<>>)
      BY <2>1, <2>2, <2>3, <2>5, <3>2 DEF SystemFullName
    <3> QED
      BY <3>1, <3>2
  <2> QED
    BY <2>4, <2>5
<1>2. ASSUME NEW d \in KindIds(DeclKinds), NEW above \in Seq(STRING), defs[d].name \in STRING,
             full_names[d] = Append(above, defs[d].name)
      PROVE  /\ Last(full_names[d]) = defs[d].name /\ Front(full_names[d]) = above
             /\ full_names[d] # <<>>
  BY <1>2, AppendParts
<1>3. ASSUME NEW d \in KindIds(DeclKinds), full_names[d] # <<>>,
             NEW e \in KindIds(DeclKinds) \ {d}, defs[e].owner = defs[d].owner
      PROVE  full_names[e] # full_names[d]
  <2>1. Last(full_names[d]) = defs[d].name
    BY <1>1, <1>2, <1>3
  <2>2. full_names[e] = <<>> \/ Last(full_names[e]) = defs[e].name
    BY <1>1, <1>2
  <2>3. defs[e].name # defs[d].name
    BY <1>3 DEF Inv, NamesUnique
  <2> QED
    BY <1>3, <2>1, <2>2, <2>3
<1> QED
  <2>1. SUFFICES ASSUME NEW d \in KindIds(DeclKinds)
                 PROVE  \/ full_names[d] = <<>> /\ defs[d].name = "" /\ d \in KindIds({"system"})
                        \/ /\ Last(full_names[d]) = defs[d].name
                           /\ Front(full_names[d]) \in {package_defs[defs[d].owner].name}
                                \cup (IF ParentOf(d) = NoId THEN {} ELSE {full_names[ParentOf(d)]})
                           /\ (ParentOf(d) # NoId => (Front(full_names[d]) = full_names[ParentOf(d)]
                                                       <=> full_names[ParentOf(d)] # <<>>))
                           /\ \A e \in KindIds(DeclKinds) \ {d} :
                                defs[e].owner = defs[d].owner => full_names[e] # full_names[d]
    BY Zenon DEF FullNamesArePaths, ParentOf
  <2> QED
    BY <1>1, <1>2, <1>3

(* The full name of a declaration is its name below its parent's full name *)
(* or, at top level and below an anonymous system, below its package's;    *)
(* only an anonymous system has none, and no two declarations of a package *)
(* share one: the name is computed once, when the declaration is created   *)
(* and ecsact_add_child_system is called, and never goes stale, since no   *)
(* statement renames or moves anything.                                    *)
THEOREM NamesArePathsAlways == Spec => []FullNamesArePaths
<1>1. Init => NamesFromParents
  BY DEF Init, RuntimeInit, EmptyMap, NamesFromParents, KindIds
<1>2. Blocks => Inv
  BY DEF Blocks
<1> QED
  BY <1>1, <1>2, BlocksInit, BlocksNext, NamesFromParentsNext, NamesArePaths, PTL DEF Spec

-----------------------------------------------------------------------------
(* Nesting                                                                 *)
LEMMA PositionsOfAppend ==
  ASSUME NEW T, NEW list \in Seq(T), NEW x \in T, NEW s
  PROVE  /\ x # s => Positions(s, Append(list, x)) = Positions(s, list)
         /\ s = x /\ x \notin Range(list) => Positions(s, Append(list, x)) = 1
<1> DEFINE at == {i \in DOMAIN Append(list, x) : Append(list, x)[i] = s}
<1>1. /\ DOMAIN Append(list, x) = 1 .. Len(list) + 1 /\ DOMAIN list = 1 .. Len(list)
      /\ Append(list, x)[Len(list) + 1] = x /\ Len(list) \in Nat
      /\ \A i \in 1 .. Len(list) : Append(list, x)[i] = list[i]
  OBVIOUS
<1>2. x # s => at = {i \in DOMAIN list : list[i] = s}
  BY <1>1
<1>3. s = x /\ x \notin Range(list) => at = {Len(list) + 1}
  BY <1>1 DEF Range
<1>4. Cardinality({Len(list) + 1}) = 1
  BY FS_Singleton
<1>5. Positions(s, Append(list, x)) = Cardinality(at)
  BY DEF Positions
<1> HIDE DEF at
<1> QED
  BY <1>2, <1>3, <1>4, <1>5 DEF Positions

LEMMA NoPositions ==
  ASSUME NEW s, NEW list, s \notin Range(list)
  PROVE  Positions(s, list) = 0
<1>1. {i \in DOMAIN list : list[i] = s} = {}
  BY DEF Range
<1> QED
  BY <1>1, FS_EmptySet DEF Positions

(* Only the creation of a system puts one anywhere.                        *)
LEMMA PlacesStep ==
  ASSUME Blocks, [Next]_vars
  PROVE  \/ package_id \in Packages /\ CreatesSystem
         \/ /\ DOMAIN system_likes' = DOMAIN system_likes
            /\ \A t \in DOMAIN system_likes : SamePlace(t)
            /\ \A p \in Packages :
                 package_defs'[p].top_level_systems = package_defs[p].top_level_systems
            /\ \A p \in Packages' \ Packages : package_defs'[p].top_level_systems = <<>>
<1>0. RuntimeTypeOK
  BY DEF Blocks, Inv, TypeOK
<1>1. CASE UNCHANGED system_likes
  BY <1>1, PackagesStep DEF SamePlace, SameSettings
<1>2. ASSUME NEW sys \in OwnSystems, ChangesBody(sys)
      PROVE  /\ DOMAIN system_likes' = DOMAIN system_likes
             /\ \A t \in DOMAIN system_likes : SamePlace(t)
  BY <1>0, <1>2, ChangedBodyGrows DEF SameOthers, SamePlace, SameSettings
<1> QED
  BY <1>1, <1>2, SystemsStep, PackagesStep

LEMMA ForestNext ==
  Blocks /\ SystemForest /\ [Next]_vars => SystemForest'
<1> SUFFICES ASSUME Blocks, SystemForest, [Next]_vars
             PROVE  SystemForest'
  OBVIOUS
<1>0. RuntimeTypeOK /\ Grows /\ DOMAIN system_likes \subseteq DOMAIN defs
  BY StoreGrows DEF Blocks, Inv, TypeOK, RuntimeTypeOK, KindIds
<1>1. \A s \in DOMAIN system_likes :
        /\ defs'[s] = defs[s] /\ defs[s].owner \in Packages
        /\ system_likes[s].parent_system_id \in DOMAIN system_likes \cup {NoId}
        /\ system_likes[s].nested_systems \in Seq(DOMAIN system_likes)
  BY <1>0 DEF Grows, RuntimeTypeOK, Def, IsSystemLike
<1>2. CASE package_id \in Packages /\ CreatesSystem
  <2>1. PICK kind \in SystemLikes, name \in STRING,
                parent \in OwnSystems \cup {NoId}, new \in {system_likes'[last_id]} :
          /\ NewDef(kind, package_id, name, "NONE") /\ Created(package_id, parent, new)
          /\ new.parent_system_id = parent /\ new.nested_systems = <<>>
    BY <1>0, <1>2, CreatedSystem
  <2>2. /\ defs'[last_id].owner = package_id
        /\ last_id \in Nat /\ NoId \notin Nat /\ DOMAIN system_likes \subseteq Issued
    <3>1. PICK d : d = [kind |-> kind, owner |-> package_id, name |-> name, comp_type |-> "NONE"]
      OBVIOUS
    <3>2. defs' = Put(defs, last_id, d)
      BY <2>1, <3>1 DEF NewDef
    <3>3. defs'[last_id].owner = package_id
      BY <3>1, <3>2 DEF Put
    <3> QED
      BY <1>0, <3>3, MaxIdAssumption DEF RuntimeTypeOK, NoId
  <2>3. \A s \in DOMAIN system_likes : s # last_id /\ s < last_id /\ s # NoId
    BY <2>2 DEF Issued, NoId
  <2> DEFINE T == DOMAIN system_likes \cup {last_id}
  <2>4. ASSUME NEW list \in Seq(DOMAIN system_likes)
        PROVE  /\ \A s \in DOMAIN system_likes :
                    Positions(s, Append(list, last_id)) = Positions(s, list)
               /\ Positions(last_id, Append(list, last_id)) = 1
               /\ Positions(last_id, list) = 0
    <3>1. list \in Seq(T) /\ last_id \in T
      OBVIOUS
    <3>2. last_id \notin Range(list)
      BY <2>3 DEF Range
    <3> HIDE DEF T
    <3> QED
      BY <2>3, <3>1, <3>2, PositionsOfAppend, NoPositions
  <2>5. \A s : Positions(s, <<>>) = 0
    BY NoPositions DEF Range
  <2>6. \A p \in Packages : package_defs[p].top_level_systems \in Seq(DOMAIN system_likes)
    BY <1>0 DEF RuntimeTypeOK, PackageDef
  <2>7. ASSUME NEW s \in DOMAIN system_likes
        PROVE  /\ \A p \in Packages :
                    Positions(s, package_defs'[p].top_level_systems) =
                      Positions(s, package_defs[p].top_level_systems)
               /\ \A t \in DOMAIN system_likes :
                    Positions(s, system_likes'[t].nested_systems) =
                      Positions(s, system_likes[t].nested_systems)
               /\ Positions(s, system_likes'[last_id].nested_systems) = 0
    <3>1. ASSUME NEW p \in Packages
          PROVE  Positions(s, package_defs'[p].top_level_systems) =
                   Positions(s, package_defs[p].top_level_systems)
      <4>1. PICK list \in Seq(DOMAIN system_likes) : list = package_defs[p].top_level_systems
        BY <2>6
      <4>2. package_defs'[p].top_level_systems \in {list, Append(list, last_id)}
        BY <2>1, <4>1 DEF Created, SameSettings
      <4> QED
        BY <2>4, <4>1, <4>2
    <3>2. ASSUME NEW t \in DOMAIN system_likes
          PROVE  Positions(s, system_likes'[t].nested_systems) =
                   Positions(s, system_likes[t].nested_systems)
      <4>1. PICK list \in Seq(DOMAIN system_likes) : list = system_likes[t].nested_systems
        BY <1>1
      <4>2. system_likes'[t].nested_systems \in {list, Append(list, last_id)}
        BY <2>1, <4>1 DEF Created, SameSettings
      <4> QED
        BY <2>4, <4>1, <4>2
    <3>3. Positions(s, system_likes'[last_id].nested_systems) = 0
      BY <2>1, <2>5 DEF Created, SameSettings
    <3> QED
      BY <3>1, <3>2, <3>3
  <2>8. /\ \A p \in Packages :
             Positions(last_id, package_defs'[p].top_level_systems) =
               IF parent = NoId /\ p = package_id THEN 1 ELSE 0
        /\ \A t \in DOMAIN system_likes :
             Positions(last_id, system_likes'[t].nested_systems) = IF t = parent THEN 1 ELSE 0
        /\ Positions(last_id, system_likes'[last_id].nested_systems) = 0
    BY <1>1, <2>1, <2>4, <2>5, <2>6 DEF Created, SameSettings
  <2>9. parent # NoId => parent < last_id /\ defs'[parent].owner = package_id
    BY <1>0, <1>1, <2>3 DEF OwnSystems, OwnIds, RuntimeTypeOK
  <2>10. parent # last_id
    BY <1>0, <2>2, <2>3 DEF OwnSystems, RuntimeTypeOK
  <2>11. /\ Packages' = Packages /\ DOMAIN system_likes' = DOMAIN system_likes \cup {last_id}
         /\ system_likes'[last_id].parent_system_id = parent
         /\ \A t \in DOMAIN system_likes :
              system_likes'[t].parent_system_id = system_likes[t].parent_system_id
    BY <2>1 DEF Created, SameSettings
  <2>12. ASSUME NEW s \in DOMAIN system_likes, NEW q, q = system_likes[s].parent_system_id
         PROVE  /\ \A p \in Packages : Positions(s, package_defs'[p].top_level_systems) =
                     IF q = NoId /\ p = defs[s].owner THEN 1 ELSE 0
                /\ \A t \in DOMAIN system_likes' : Positions(s, system_likes'[t].nested_systems) =
                     IF t = q THEN 1 ELSE 0
                /\ q # NoId => q < s /\ defs'[q].owner = defs[s].owner
    <3>1. q # last_id /\ q \in DOMAIN system_likes \cup {NoId}
      BY <1>1, <2>2, <2>3, <2>12
    <3> QED
      BY <1>1, <2>7, <2>11, <2>12, <3>1 DEF SystemForest
  <2> QED
    BY <1>1, <2>2, <2>8, <2>9, <2>10, <2>11, <2>12 DEF SystemForest
<1>3. CASE /\ DOMAIN system_likes' = DOMAIN system_likes
           /\ \A t \in DOMAIN system_likes : SamePlace(t)
           /\ \A p \in Packages :
                package_defs'[p].top_level_systems = package_defs[p].top_level_systems
           /\ \A p \in Packages' \ Packages : package_defs'[p].top_level_systems = <<>>
  <2>1. \A s : Positions(s, <<>>) = 0
    BY NoPositions DEF Range
  <2> QED
    BY <1>1, <1>3, <2>1 DEF SystemForest, SamePlace, SameSettings
<1> QED
  BY <1>2, <1>3, PlacesStep

(* Every system and action has one place in the nesting: the top level     *)
(* list of its package or, just once, the list of its parent, an earlier   *)
(* system of the same package.  So ecsact_add_child_system, which takes    *)
(* the new id off one list and pushes it on another, loses and doubles     *)
(* none, and following parents always ends.                                *)
THEOREM NestingIsForest == Spec => []SystemForest
<1>1. Init => SystemForest
  BY DEF Init, RuntimeInit, EmptyMap, SystemForest
<1> QED
  BY <1>1, BlocksInit, BlocksNext, ForestNext, PTL DEF Spec

-----------------------------------------------------------------------------
(* Fields                                                                  *)

(* A step adds one field to a composite, or changes no field.              *)
AppendsField(c, new) ==
  /\ c \in DOMAIN fields /\ DOMAIN fields' = DOMAIN fields
  /\ fields'[c] = Append(fields[c], new)
  /\ \A other \in DOMAIN fields \ {c} : fields'[other] = fields[other]
  /\ \A i \in DOMAIN fields[c] : fields[c][i].name # new.name
  /\ KnownType(new.type)

KeepsFields ==
  /\ DOMAIN fields \subseteq DOMAIN fields'
  /\ \A c \in DOMAIN fields : fields'[c] = fields[c]
  /\ \A c \in DOMAIN fields' \ DOMAIN fields : fields'[c] = <<>>

LEMMA FieldsStep ==
  ASSUME Blocks, [Next]_vars
  PROVE  KeepsFields \/ \E c, new : AppendsField(c, new)
<1>0. RuntimeTypeOK /\ last_id \notin DOMAIN fields
  <2>1. RuntimeTypeOK /\ last_id \notin Issued
    BY MaxIdAssumption DEF Blocks, Inv, TypeOK, RuntimeTypeOK, Issued
  <2> QED
    BY <2>1 DEF RuntimeTypeOK, KindIds
<1>1. CASE UNCHANGED fields
  BY <1>1 DEF KeepsFields
<1>2. CASE fields' = Put(fields, last_id, <<>>)
  BY <1>0, <1>2 DEF KeepsFields, Put
<1>3. CASE AddsField
  <2>1. PICK c \in KindIds(Composites), name \in STRING, type \in FieldType :
          FieldsNamed(c, name) = {} /\ KnownType(type) /\ AddField(c, name, type)
    BY <1>3 DEF AddsField
  <2>2. PICK new : new = [name |-> name, type |-> type]
    OBVIOUS
  <2>3. fields' = [fields EXCEPT ![c] = Append(@, new)] /\ c \in DOMAIN fields
    BY <1>0, <2>1, <2>2 DEF AddField, RuntimeTypeOK
  <2>4. \A i \in DOMAIN fields[c] : fields[c][i].name # name
    BY <2>1, <2>3 DEF FieldsNamed, FieldsOf
  <2>5. AppendsField(c, new)
    BY <2>1, <2>2, <2>3, <2>4 DEF AppendsField
  <2> QED
    BY <2>5
<1>4. CASE package_id \in Packages /\ DeclaresComponent
  BY <1>2, <1>4 DEF DeclaresComponent, CreateComponentLike
<1>5. CASE package_id \in Packages /\ CreatesSystem
  BY <1>0, <1>1, <1>2, <1>5, CreatedSystem
<1>6. ASSUME NEW sys, ChangesBody(sys)
      PROVE  UNCHANGED fields
  BY <1>6 DEF ChangesBody, SetsNotify, SetNotifySettings, AddsGenerates, AddSystemGenerates,
              Constrains, SystemGeneratesSetComponent, AddsCapability, SetsCapability,
              SetSystemCapability, OnlySystemLikes, runtime_vars
<1>7. ASSUME CreatesPackage \/ Imports \/ DeclaresEnum \/ AddsEnumValue
      PROVE  UNCHANGED fields
  BY <1>7 DEF CreatesPackage, CreatePackage, Imports, AddDependency, DeclaresEnum, CreateEnum,
              AddsEnumValue, AddEnumValue
<1> QED
  BY <1>1, <1>3, <1>4, <1>5, <1>6, <1>7, NextStores DEF StoreStep, store, runtime_vars

(* Fields are never dropped, so what a type refers to stays.               *)
LEMMA AppendedField ==
  ASSUME RuntimeTypeOK, NEW c, NEW new, AppendsField(c, new)
  PROVE  /\ DOMAIN fields'[c] = DOMAIN fields[c] \cup {Len(fields[c]) + 1}
         /\ Len(fields[c]) + 1 \notin DOMAIN fields[c]
         /\ fields'[c][Len(fields[c]) + 1] = new
         /\ \A i \in DOMAIN fields[c] : fields'[c][i] = fields[c][i]
<1>1. PICK list : list = fields[c]
  OBVIOUS
<1>2. list \in Seq(Field)
  BY <1>1 DEF RuntimeTypeOK, AppendsField
<1>3. /\ DOMAIN Append(list, new) = DOMAIN list \cup {Len(list) + 1}
      /\ Len(list) + 1 \notin DOMAIN list
      /\ Append(list, new)[Len(list) + 1] = new
      /\ \A i \in DOMAIN list : Append(list, new)[i] = list[i]
  BY <1>2
<1> QED
  BY <1>1, <1>3 DEF AppendsField

LEMMA SlotsGrow ==
  ASSUME RuntimeTypeOK, KeepsFields \/ \E c, new : AppendsField(c, new), NEW x
  PROVE  /\ DOMAIN FieldsOf(x) \subseteq DOMAIN FieldsOf(x)'
         /\ \A i \in DOMAIN FieldsOf(x) : FieldsOf(x)'[i] = FieldsOf(x)[i]
<1>1. CASE x \notin DOMAIN fields
  <2>1. FieldsOf(x) = <<>> /\ DOMAIN FieldsOf(x) = {}
    BY <1>1 DEF FieldsOf
  <2> QED
    BY <2>1
<1>2. CASE x \in DOMAIN fields /\ KeepsFields
  BY <1>2 DEF KeepsFields, FieldsOf
<1>3. ASSUME x \in DOMAIN fields, NEW c, NEW new, AppendsField(c, new)
      PROVE  /\ DOMAIN FieldsOf(x) \subseteq DOMAIN FieldsOf(x)'
             /\ \A i \in DOMAIN FieldsOf(x) : FieldsOf(x)'[i] = FieldsOf(x)[i]
  <2>1. FieldsOf(x) = fields[x] /\ FieldsOf(x)' = fields'[x]
    BY <1>3 DEF FieldsOf, AppendsField
  <2>2. CASE x = c
    BY <1>3, <2>1, <2>2, AppendedField
  <2>3. CASE x # c
    BY <1>3, <2>1, <2>3 DEF AppendsField
  <2> QED
    BY <2>2, <2>3
<1> QED
  BY <1>1, <1>2, <1>3

LEMMA KnownTypesStay ==
  ASSUME Blocks, [Next]_vars, NEW type, KnownType(type)
  PROVE  KnownType(type)'
<1>1. DOMAIN FieldsOf(type.ref) \subseteq DOMAIN FieldsOf(type.ref)'
  <2>1. PICK x : x = type.ref
    OBVIOUS
  <2> QED
    BY <2>1, SlotsGrow, FieldsStep DEF Blocks, Inv, TypeOK
<1>2. KindIds({"enum"}) \subseteq KindIds({"enum"})'
  BY StoreGrows DEF Grows, KindIds
<1> QED
  BY <1>1, <1>2 DEF KnownType

LEMMA FieldsUniqueNext ==
  ASSUME Blocks, [Next]_vars, FieldReferences,
         NEW c \in DOMAIN fields', NEW i \in DOMAIN fields'[c]
  PROVE  /\ \A j \in DOMAIN fields'[c] : fields'[c][i].name = fields'[c][j].name => i = j
         /\ \E type : type = fields'[c][i].type /\ KnownType(type)'
<1>0. RuntimeTypeOK /\ DOMAIN enum_values = KindIds({"enum"})
  BY DEF Blocks, Inv, TypeOK, RuntimeTypeOK
<1>1. \A d \in DOMAIN fields : \A k \in DOMAIN fields[d] :
        /\ \A l \in DOMAIN fields[d] : fields[d][k].name = fields[d][l].name => k = l
        /\ KnownType(fields[d][k].type)
  BY <1>0 DEF FieldReferences, KnownType
<1>2. PICK type : type = fields'[c][i].type
  OBVIOUS
<1>3. KnownType(type) => KnownType(type)'
  BY KnownTypesStay
<1>4. CASE KeepsFields
  <2>1. CASE c \in DOMAIN fields
    <3>1. fields'[c] = fields[c]
      BY <1>4, <2>1 DEF KeepsFields
    <3>2. /\ \A j \in DOMAIN fields'[c] : fields'[c][i].name = fields'[c][j].name => i = j
          /\ KnownType(type)
      BY <1>1, <1>2, <2>1, <3>1
    <3> QED
      BY <1>2, <1>3, <3>2
  <2>2. CASE c \notin DOMAIN fields
    <3>1. fields'[c] = <<>> /\ DOMAIN fields'[c] = {}
      BY <1>4, <2>2 DEF KeepsFields
    <3> QED
      BY <3>1
  <2> QED
    BY <2>1, <2>2
<1>5. ASSUME NEW d, NEW new, AppendsField(d, new)
      PROVE  /\ \A j \in DOMAIN fields'[c] : fields'[c][i].name = fields'[c][j].name => i = j
             /\ KnownType(type)
  <2>1. /\ c \in DOMAIN fields /\ (c # d => fields'[c] = fields[c])
        /\ \A k \in DOMAIN fields[d] : fields[d][k].name # new.name
        /\ KnownType(new.type) /\ d \in DOMAIN fields
    BY <1>5 DEF AppendsField
  <2>2. /\ DOMAIN fields'[d] = DOMAIN fields[d] \cup {Len(fields[d]) + 1}
        /\ Len(fields[d]) + 1 \notin DOMAIN fields[d]
        /\ fields'[d][Len(fields[d]) + 1] = new
        /\ \A k \in DOMAIN fields[d] : fields'[d][k] = fields[d][k]
    BY <1>0, <1>5, AppendedField
  <2>3. CASE c # d
    BY <1>1, <1>2, <2>1, <2>3
  <2>4. CASE c = d
    <3>1. KnownType(type)
      BY <1>1, <1>2, <2>1, <2>2, <2>4
    <3>2. ASSUME NEW j \in DOMAIN fields'[c], fields'[c][i].name = fields'[c][j].name
          PROVE  i = j
      BY <1>1, <2>1, <2>2, <2>4, <3>2
    <3> QED
      BY <3>1, <3>2
  <2> QED
    BY <2>3, <2>4
<1> QED
  BY <1>2, <1>3, <1>4, <1>5, FieldsStep


LEMMA SlotMeans ==
  ASSUME NEW c, NEW i
  PROVE  /\ <<c, i>> \in FieldSlots <=> c \in DOMAIN fields /\ i \in DOMAIN fields[c]
         /\ (<<c, i>> \in FieldSlots)' <=> c \in DOMAIN fields' /\ i \in DOMAIN fields'[c]
BY DEF FieldSlots

(* A slot that there was refers to what it referred to, which is a slot.   *)
LEMMA OldSlots ==
  ASSUME Blocks, [Next]_vars, FieldReferences, NEW x \in FieldSlots
  PROVE  /\ \A y : Refers(x, y)' <=> Refers(x, y)
         /\ \A y : Refers(x, y) => y \in FieldSlots
<1>1. PICK c, i : c \in DOMAIN fields /\ i \in DOMAIN fields[c] /\ x = <<c, i>>
  BY DEF FieldSlots
<1>2. fields'[c][i] = fields[c][i]
  <2>1. /\ DOMAIN FieldsOf(c) \subseteq DOMAIN FieldsOf(c)'
        /\ \A k \in DOMAIN FieldsOf(c) : FieldsOf(c)'[k] = FieldsOf(c)[k]
    BY SlotsGrow, FieldsStep DEF Blocks, Inv, TypeOK
  <2>2. c \in DOMAIN fields'
    BY <1>1, FieldsStep DEF KeepsFields, AppendsField
  <2> QED
    BY <1>1, <2>1, <2>2 DEF FieldsOf
<1>3. PICK type : type = fields[c][i].type
  OBVIOUS
<1>4. type.kind = "FIELD_INDEX" => type.field \in DOMAIN FieldsOf(type.ref)
  BY <1>1, <1>3 DEF FieldReferences
<1>5. type.kind = "FIELD_INDEX" => <<type.ref, type.field>> \in FieldSlots
  <2>1. CASE type.ref \in DOMAIN fields
    BY <1>4, <2>1, SlotMeans DEF FieldsOf
  <2>2. CASE type.ref \notin DOMAIN fields
    BY <1>4, <2>2 DEF FieldsOf
  <2> QED
    BY <2>1, <2>2
<1>6. fields[x[1]][x[2]].type = type /\ fields'[x[1]][x[2]].type = type
  BY <1>1, <1>2, <1>3
<1> QED
  BY <1>5, <1>6 DEF Refers

(* At most one slot is new, and it refers to an old one if to any.         *)
LEMMA NewSlots ==
  ASSUME Blocks, [Next]_vars
  PROVE  \E new : /\ FieldSlots' \subseteq FieldSlots \cup {new}
                  /\ new \in FieldSlots' \ FieldSlots => ~Refers(new, new)'
<1>0. RuntimeTypeOK
  BY DEF Blocks, Inv, TypeOK
<1>1. CASE KeepsFields
  <2>1. FieldSlots' \subseteq FieldSlots
    <3>1. ASSUME NEW x \in FieldSlots'
          PROVE  x \in FieldSlots
      <4>1. PICK c, i : c \in DOMAIN fields' /\ i \in DOMAIN fields'[c] /\ x = <<c, i>>
        BY DEF FieldSlots
      <4>2. DOMAIN <<>> = {}
        OBVIOUS
      <4>3. c \in DOMAIN fields /\ i \in DOMAIN fields[c]
        BY <1>1, <4>1, <4>2 DEF KeepsFields
      <4> QED
        BY <4>1, <4>3, SlotMeans
    <3> QED
      BY <3>1
  <2> QED
    BY <2>1
<1>2. ASSUME NEW c, NEW field, AppendsField(c, field)
      PROVE  \E new : /\ FieldSlots' \subseteq FieldSlots \cup {new}
                      /\ new \in FieldSlots' \ FieldSlots => ~Refers(new, new)'
  <2>1. PICK n : n = Len(fields[c]) + 1
    OBVIOUS
  <2>2. /\ DOMAIN fields'[c] = DOMAIN fields[c] \cup {n}
        /\ n \notin DOMAIN fields[c] /\ fields'[c][n] = field
    BY <1>0, <1>2, <2>1, AppendedField
  <2>3. FieldSlots' \subseteq FieldSlots \cup {<<c, n>>}
    <3>1. ASSUME NEW x \in FieldSlots'
          PROVE  x \in FieldSlots \cup {<<c, n>>}
      <4>1. PICK d, i : d \in DOMAIN fields' /\ i \in DOMAIN fields'[d] /\ x = <<d, i>>
        BY DEF FieldSlots
      <4>2. d \in DOMAIN fields /\ (i \in DOMAIN fields[d] \/ (d = c /\ i = n))
        <5>1. DOMAIN fields' = DOMAIN fields /\ (d # c => fields'[d] = fields[d])
          BY <1>2, <4>1 DEF AppendsField
        <5> QED
          BY <2>2, <4>1, <5>1
      <4> QED
        BY <4>1, <4>2, SlotMeans
    <3> QED
      BY <3>1
  <2>4. ~Refers(<<c, n>>, <<c, n>>)'
    <3>1. PICK type : type = field.type
      OBVIOUS
    <3>2. KnownType(type) /\ c \in DOMAIN fields
      BY <1>2, <3>1 DEF AppendsField
    <3>3. type.kind = "FIELD_INDEX" => type.field \in DOMAIN FieldsOf(type.ref)
      BY <3>2 DEF KnownType
    <3>4. <<type.ref, type.field>> = <<c, n>> => type.kind # "FIELD_INDEX"
      BY <2>2, <3>2, <3>3 DEF FieldsOf
    <3>5. Refers(<<c, n>>, <<c, n>>)' =>
            type.kind = "FIELD_INDEX" /\ <<c, n>> = <<type.ref, type.field>>
      BY <2>2, <3>1 DEF Refers
    <3> QED
      BY <3>4, <3>5
  <2> QED
    BY <2>3, <2>4
<1> QED
  BY <1>1, <1>2, FieldsStep

LEMMA FieldReferencesNext ==
  Blocks /\ FieldReferences /\ [Next]_vars => FieldReferences'
<1> SUFFICES ASSUME Blocks, FieldReferences, [Next]_vars
             PROVE  FieldReferences'
  OBVIOUS
<1>1. ASSUME NEW S, S # {}, S \subseteq FieldSlots'
      PROVE  \E x \in S : \A y \in S : ~Refers(x, y)'
  <2>1. PICK new : /\ FieldSlots' \subseteq FieldSlots \cup {new}
                   /\ new \in FieldSlots' \ FieldSlots => ~Refers(new, new)'
    BY NewSlots
  <2>2. PICK O : O = S \cap FieldSlots
    OBVIOUS
  <2>3. CASE O = {}
    <3>1. S = {new} /\ ~Refers(new, new)'
      BY <1>1, <2>1, <2>2, <2>3
    <3> QED
      BY <3>1
  <2>4. CASE O # {}
    <3>1. O \in (SUBSET FieldSlots) \ {{}}
      BY <2>2, <2>4
    <3>2. PICK x \in O : \A y \in O : ~Refers(x, y)
      BY <3>1 DEF FieldReferences
    <3>3. x \in FieldSlots /\ x \in S
      BY <2>2
    <3>4. \A y \in S : Refers(x, y)' => Refers(x, y) /\ y \in O
      BY <2>2, <3>3, OldSlots
    <3> QED
      BY <3>2, <3>3, <3>4
  <2> QED
    BY <2>3, <2>4
<1>2. \A S \in ((SUBSET FieldSlots) \ {{}})' : \E x \in S : \A y \in S : ~Refers(x, y)'
  BY <1>1
<1>3. DOMAIN enum_values' = KindIds({"enum"})'
  BY BlocksNext DEF Blocks, Inv, TypeOK, RuntimeTypeOK
<1>4. \A c \in DOMAIN fields' : \A i, j \in DOMAIN fields'[c] :
        /\ fields'[c][i].name = fields'[c][j].name => i = j
        /\ \E type : type = fields'[c][i].type /\ KnownType(type)'
  BY FieldsUniqueNext
<1>5. ASSUME NEW c \in DOMAIN fields', NEW i \in DOMAIN fields'[c], NEW j \in DOMAIN fields'[c]
      PROVE  (/\ fields[c][i].name = fields[c][j].name => i = j
              /\ LET type == fields[c][i].type
                 IN CASE type.kind = "BUILTIN" -> TRUE
                      [] type.kind = "ENUM" -> type.ref \in DOMAIN enum_values
                      [] OTHER -> type.field \in DOMAIN FieldsOf(type.ref))'
  <2>1. fields'[c][i].name = fields'[c][j].name => i = j
    BY <1>4
  <2>2. PICK type : type = fields'[c][i].type /\ KnownType(type)'
    BY <1>4
  <2>3. CASE type.kind = "BUILTIN"
    BY <2>1, <2>2, <2>3
  <2>4. CASE type.kind = "ENUM"
    BY <1>3, <2>1, <2>2, <2>4 DEF KnownType
  <2>5. CASE type.kind # "BUILTIN" /\ type.kind # "ENUM"
    BY <2>1, <2>2, <2>5 DEF KnownType
  <2> QED
    BY <2>3, <2>4, <2>5
<1> QED
  BY <1>2, <1>5 DEF FieldReferences

(* The type of every field is there: an enum or a field of a composite     *)
(* that was declared before, so a chain of field indices always ends and   *)
(* field_type_size, which follows it by recursion, returns; and no two     *)
(* fields of a composite share a name, so that the first match of a lookup *)
(* is the only one.                                                        *)
THEOREM FieldsAreFound == Spec => []FieldReferences
<1>1. Init => FieldReferences
  BY DEF Init, RuntimeInit, EmptyMap, FieldReferences, FieldSlots
<1> QED
  BY <1>1, BlocksInit, BlocksNext, FieldReferencesNext, PTL DEF Spec

-----------------------------------------------------------------------------
(* Associations                                                            *)
AssocField(c, i) ==
  /\ i \in DOMAIN FieldsOf(c)
  /\ LET type == FieldsOf(c)[i].type
     IN type.kind = "FIELD_INDEX" \/ type = BuiltinType("ENTITY")

(* Every association was added with fields of its component that can       *)
(* associate it.                                                           *)
AssocHasFields(assoc) ==
  /\ assoc.added_fields # <<>>
  /\ \A k \in DOMAIN assoc.added_fields : AssocField(assoc.comp_id, assoc.added_fields[k])
AssocsHaveFields ==
  \A s : \A i \in DOMAIN AssocList(system_assoc_info, s) :
    AssocHasFields(AssocList(system_assoc_info, s)[i])

LEMMA WithFields ==
  ASSUME RuntimeTypeOK, NEW c, NEW names \in Seq(STRING) \ {<<>>},
         Accepted(WithChecks(c, names))
  PROVE  /\ FieldIds(c, names) # <<>>
         /\ \A k \in DOMAIN FieldIds(c, names) : AssocField(c, FieldIds(c, names)[k])
<1>1. DOMAIN FieldIds(c, names) = DOMAIN names /\ DOMAIN names # {}
  <2>1. Len(names) \in Nat /\ Len(names) # 0 /\ DOMAIN names = 1 .. Len(names)
    BY EmptySeq
  <2>2. 1 \in DOMAIN names
    BY <2>1
  <2>3. DOMAIN FieldIds(c, names) = DOMAIN names
    BY DEF FieldIds
  <2> QED
    BY <2>2, <2>3
<1>2. ASSUME NEW k \in DOMAIN names
      PROVE  AssocField(c, FieldIds(c, names)[k])
  <2>1. PICK named : named = FieldsNamed(c, names[k])
    OBVIOUS
  <2>2. PICK holds : holds = (named # {} /\ IsAssocType(FieldsOf(c)[Min(named)].type))
    OBVIOUS
  <2>3. PICK code : code = IF named = {} THEN "UNKNOWN_FIELD_NAME" ELSE "INVALID_ASSOC_FIELD_TYPE"
    OBVIOUS
  <2>4. /\ k \in DOMAIN WithChecks(c, names)
        /\ WithChecks(c, names)[k] = Check(holds, code)
    BY <2>1, <2>2, <2>3 DEF WithChecks
  <2>5. Check(holds, code).holds
    BY <2>4 DEF Accepted
  <2>6. holds
    BY <2>5, Zenon DEF Check
  <2>7. named # {} /\ IsAssocType(FieldsOf(c)[Min(named)].type)
    BY <2>2, <2>6
  <2>8. PICK i : i = Min(named)
    OBVIOUS
  <2>9. named \subseteq Nat /\ named \subseteq DOMAIN FieldsOf(c)
    BY <2>1, FieldsNamedNat DEF FieldsNamed
  <2>10. i \in DOMAIN FieldsOf(c)
    BY <2>7, <2>8, <2>9, MinNat
  <2>11. FieldIds(c, names)[k] = i
    BY <2>1, <2>8 DEF FieldIds
  <2>12. PICK type : type = FieldsOf(c)[i].type
    OBVIOUS
  <2>13. type \in FieldType
    <3>1. FieldsOf(c) \in Seq(Field)
      BY <2>10 DEF FieldsOf, RuntimeTypeOK
    <3>2. PICK list : list = FieldsOf(c)
      OBVIOUS
    <3>3. list[i] \in Field
      BY <2>10, <3>1, <3>2
    <3> QED
      BY <2>12, <3>2, <3>3 DEF Field
  <2>14. type.kind = "FIELD_INDEX" \/ (type.kind = "BUILTIN" /\ type.builtin = "ENTITY")
    BY <2>7, <2>8, <2>12 DEF IsAssocType
  <2>15. type.kind = "FIELD_INDEX" \/ type = BuiltinType("ENTITY")
    BY <2>13, <2>14 DEF FieldType, BuiltinType
  <2> QED
    BY <2>10, <2>11, <2>12, <2>15 DEF AssocField
<1> QED
  BY <1>1, <1>2

LEMMA AssocFieldStays ==
  ASSUME Blocks, [Next]_vars, NEW c, NEW i, AssocField(c, i)
  PROVE  AssocField(c, i)'
<1>1. /\ DOMAIN FieldsOf(c) \subseteq DOMAIN FieldsOf(c)'
      /\ \A k \in DOMAIN FieldsOf(c) : FieldsOf(c)'[k] = FieldsOf(c)[k]
  BY SlotsGrow, FieldsStep DEF Blocks, Inv, TypeOK
<1> QED
  BY <1>1 DEF AssocField

LEMMA AssocsHaveFieldsNext ==
  Blocks /\ DistinctIds /\ AssocsHaveFields /\ [Next]_vars => AssocsHaveFields'
<1> SUFFICES ASSUME Blocks, DistinctIds, AssocsHaveFields, [Next]_vars,
                    NEW s, NEW i \in DOMAIN AssocList(system_assoc_info', s),
                    NEW assoc, assoc = AssocList(system_assoc_info', s)[i]
             PROVE  AssocHasFields(assoc)'
  BY DEF AssocsHaveFields
<1>1. ASSUME NEW old, AssocHasFields(old),
             assoc.added_fields = old.added_fields, assoc.comp_id = old.comp_id
      PROVE  AssocHasFields(assoc)'
  <2>1. PICK c, list : c = assoc.comp_id /\ list = assoc.added_fields
    OBVIOUS
  <2>2. list # <<>> /\ \A k \in DOMAIN list : AssocField(c, list[k])
    BY <1>1, <2>1 DEF AssocHasFields
  <2>3. \A k \in DOMAIN list : AssocField(c, list[k])'
    <3>1. \A f : AssocField(c, f) => AssocField(c, f)'
      BY AssocFieldStays
    <3> QED
      BY <2>2, <3>1
  <2> QED
    BY <2>1, <2>2, <2>3 DEF AssocHasFields
<1>2. PICK old : old = AssocList(system_assoc_info, s)
  OBVIOUS
<1>3. i \in DOMAIN old => AssocHasFields(old[i])
  BY <1>2 DEF AssocsHaveFields
<1>4. CASE AssocList(system_assoc_info', s) = old
  BY <1>1, <1>3, <1>4
<1>5. CASE AssocsEvolve(s, old, AssocList(system_assoc_info', s))
  <2>1. CASE i \in DOMAIN old
    BY <1>1, <1>3, <1>5, <2>1 DEF AssocsEvolve, KeepsAssoc
  <2>2. CASE i \notin DOMAIN old
    <3>1. PICK comp \in SeenIds \cap KindIds(ComponentLikes), names \in Seq(STRING) \ {<<>>} :
            /\ Accepted(WithChecks(comp, names))
            /\ assoc = [id |-> last_assoc_id, comp_id |-> comp,
                        added_fields |-> FieldIds(comp, names), caps |-> EmptyMap]
      BY <1>5, <2>2 DEF AssocsEvolve, FreshAssoc
    <3>2. AssocHasFields(assoc)
      BY <3>1, WithFields DEF AssocHasFields, Blocks, Inv, TypeOK
    <3> QED
      BY <1>1, <3>2
  <2> QED
    BY <2>1, <2>2
<1> QED
  BY <1>2, <1>4, <1>5, AssocsStep DEF AssocsEvolve, assoc_vars

(* AssocFields drops the repetitions of a list; what is left is named      *)
(* below by the fold's function on the sets of positions.                  *)
AddOnce(seen, f) == IF Contains(seen, f) THEN seen ELSE Append(seen, f)

FoldBelow(list, g, k) ==
  \A S \in SUBSET (1 .. k) :
    g[S] = IF S = {} THEN <<>> ELSE AddOnce(g[S \ {Max(S)}], list[Max(S)])

LEMMA MaxOfTop ==
  ASSUME NEW k \in Nat, NEW S \in SUBSET (1 .. k + 1), ~(S \subseteq 1 .. k)
  PROVE  S # {} /\ Max(S) = k + 1 /\ S \ {Max(S)} \subseteq 1 .. k
<1>1. k + 1 \in S /\ \A x \in S : k + 1 >= x
  OBVIOUS
<1>2. \A x \in S : (\A y \in S : x >= y) => x = k + 1
  BY <1>1
<1>3. Max(S) = k + 1
  BY <1>1, <1>2 DEF Max
<1> QED
  BY <1>1, <1>3

LEMMA LeastNat ==
  ASSUME NEW B \in SUBSET Nat, B # {}, 0 \notin B
  PROVE  \E k \in Nat : k \notin B /\ k + 1 \in B
<1>1. Min(B) \in B /\ \A y \in B : Min(B) <= y
  BY MinNat
<1>2. PICK m : m = Min(B)
  OBVIOUS
<1>3. m \in Nat \ {0} /\ m \in B /\ \A y \in B : m <= y
  BY <1>1, <1>2
<1>4. m - 1 \in Nat /\ m - 1 \notin B /\ (m - 1) + 1 \in B
  BY <1>3
<1> QED
  BY <1>4

(* There is such a function, one more position at a time.                  *)
LEMMA FoldExists ==
  ASSUME NEW list, NEW n \in Nat
  PROVE  \E g : FoldBelow(list, g, n) /\ g = [S \in SUBSET (1 .. n) |-> g[S]]
<1> DEFINE D == SUBSET (1 .. n)
           B == {k \in Nat : ~\E g : FoldBelow(list, g, k)}
<1>1. 0 \notin B
  <2>1. PICK g : g = [S \in {{}} |-> <<>>]
    OBVIOUS
  <2>2. FoldBelow(list, g, 0)
    <3>1. SUBSET (1 .. 0) = {{}}
      OBVIOUS
    <3> QED
      BY <2>1, <3>1 DEF FoldBelow
  <2> QED
    BY <2>2
<1>2. ASSUME NEW k \in Nat, NEW g, FoldBelow(list, g, k)
      PROVE  \E h : FoldBelow(list, h, k + 1)
  <2>1. PICK h : h = [S \in SUBSET (1 .. k + 1) |->
                        IF S \subseteq 1 .. k THEN g[S]
                        ELSE AddOnce(g[S \ {k + 1}], list[k + 1])]
    OBVIOUS
  <2>2. 1 .. k \subseteq 1 .. k + 1
    OBVIOUS
  <2>3. \A S \in SUBSET (1 .. k) : h[S] = g[S] /\ S \in SUBSET (1 .. k + 1)
    BY <2>1, <2>2
  <2>4. ASSUME NEW S \in SUBSET (1 .. k + 1)
        PROVE  h[S] = IF S = {} THEN <<>> ELSE AddOnce(h[S \ {Max(S)}], list[Max(S)])
    <3>1. CASE S \subseteq 1 .. k
      <4>1. S \ {Max(S)} \in SUBSET (1 .. k)
        BY <3>1
      <4>2. h[S] = g[S] /\ h[S \ {Max(S)}] = g[S \ {Max(S)}]
        BY <2>3, <3>1, <4>1
      <4>3. g[S] = IF S = {} THEN <<>> ELSE AddOnce(g[S \ {Max(S)}], list[Max(S)])
        BY <1>2, <3>1 DEF FoldBelow
      <4> QED
        BY <4>2, <4>3
    <3>2. CASE ~(S \subseteq 1 .. k)
      <4>1. S # {} /\ Max(S) = k + 1 /\ S \ {Max(S)} \in SUBSET (1 .. k)
        BY <3>2, MaxOfTop
      <4>2. h[S] = AddOnce(g[S \ {k + 1}], list[k + 1])
        BY <2>1, <3>2
      <4>3. h[S \ {Max(S)}] = g[S \ {k + 1}]
        BY <2>3, <4>1
      <4> QED
        BY <4>1, <4>2, <4>3
    <3> QED
      BY <3>1, <3>2
  <2> QED
    BY <2>4 DEF FoldBelow
<1>3. B = {}
  <2>1. B \in SUBSET Nat
    OBVIOUS
  <2>2. \A k \in Nat : k \notin B => k + 1 \notin B
    BY <1>2
  <2> HIDE DEF B
  <2> QED
    BY <1>1, <2>1, <2>2, LeastNat
<1>4. PICK g : FoldBelow(list, g, n)
  BY <1>3
<1>5. PICK h : h = [S \in SUBSET (1 .. n) |-> g[S]]
  OBVIOUS
<1>6. FoldBelow(list, h, n)
  BY <1>4, <1>5 DEF FoldBelow
<1> QED
  BY <1>5, <1>6

LEMMA FieldsAreFold ==
  ASSUME NEW assoc, NEW n \in Nat, DOMAIN assoc.added_fields = 1 .. n
  PROVE  \E g : FoldBelow(assoc.added_fields, g, n) /\ AssocFields(assoc) = g[1 .. n]
<1> DEFINE list == assoc.added_fields
           Fold(g) == g = [S \in SUBSET (DOMAIN list) |->
                             IF S = {} THEN <<>>
                             ELSE LET x == Max(S)
                                  IN IF Contains(g[S \ {x}], list[x]) THEN g[S \ {x}]
                                     ELSE Append(g[S \ {x}], list[x])]
<1>1. \E g : Fold(g)
  <2>1. PICK g : FoldBelow(list, g, n) /\ g = [S \in SUBSET (1 .. n) |-> g[S]]
    BY FoldExists
  <2>2. g = [S \in SUBSET (1 .. n) |->
               IF S = {} THEN <<>>
               ELSE LET x == Max(S)
                    IN IF Contains(g[S \ {x}], list[x]) THEN g[S \ {x}]
                       ELSE Append(g[S \ {x}], list[x])]
    BY <2>1 DEF FoldBelow, AddOnce
  <2> QED
    BY <2>2
<1>2. PICK g : g = CHOOSE h : Fold(h)
  OBVIOUS
<1>3. Fold(g)
  BY <1>1, <1>2
<1>4. AssocFields(assoc) = g[DOMAIN list]
  BY <1>2, Zenon DEF AssocFields, FoldLeft, MapThenFoldSet
<1>5. FoldBelow(list, g, n)
  BY <1>3 DEF FoldBelow, AddOnce
<1> QED
  BY <1>4, <1>5

LEMMA AddOnceKeeps ==
  ASSUME NEW T, NEW seen \in Seq(T), NEW f \in T
  PROVE  AddOnce(seen, f) \in Seq(T) /\ AddOnce(seen, f) # <<>>
<1>1. CASE Contains(seen, f)
  <2>1. PICK i : i \in 1 .. Len(seen)
    BY <1>1 DEF Contains
  <2>2. Len(<<>>) = 0
    OBVIOUS
  <2>3. seen # <<>>
    BY <2>1, <2>2
  <2> QED
    BY <1>1, <2>3 DEF AddOnce
<1>2. CASE ~Contains(seen, f)
  BY <1>2, AppendParts DEF AddOnce
<1> QED
  BY <1>1, <1>2

LEMMA AssocFieldsAreAdded ==
  ASSUME NEW assoc, NEW T, assoc.added_fields \in Seq(T), assoc.added_fields # <<>>
  PROVE  /\ AssocFields(assoc) # <<>>
         /\ AssocFields(assoc) \in Seq(Range(assoc.added_fields))
<1> PICK list : list = assoc.added_fields
  OBVIOUS
<1>1. /\ Len(list) \in Nat /\ Len(list) # 0 /\ DOMAIN list = 1 .. Len(list)
  BY EmptySeq
<1>2. PICK n : n = Len(list)
  OBVIOUS
<1>3. PICK g : FoldBelow(list, g, n) /\ AssocFields(assoc) = g[1 .. n]
  BY <1>1, <1>2, FieldsAreFold
<1> DEFINE Good(k) == g[1 .. k] \in Seq(Range(list)) /\ (k # 0 => g[1 .. k] # <<>>)
           B == {k \in Nat : k <= n /\ ~Good(k)}
<1>4. 0 \notin B
  <2>1. 1 .. 0 = {} /\ {} \in SUBSET (1 .. n)
    OBVIOUS
  <2>2. g[{}] = <<>>
    BY <1>3, <2>1 DEF FoldBelow
  <2> QED
    BY <2>1, <2>2, EmptySeq
<1>5. ASSUME NEW k \in Nat, k + 1 <= n, Good(k)
      PROVE  Good(k + 1)
  <2>1. PICK S : S = 1 .. k + 1
    OBVIOUS
  <2>2. S \in SUBSET (1 .. k + 1) /\ ~(S \subseteq 1 .. k) /\ S \in SUBSET (1 .. n)
    BY <1>1, <1>2, <1>5, <2>1
  <2>3. S # {} /\ Max(S) = k + 1
    BY <2>2, MaxOfTop
  <2>4. S \ {k + 1} = 1 .. k
    BY <2>1
  <2>5. g[S] = AddOnce(g[1 .. k], list[k + 1])
    BY <1>3, <2>2, <2>3, <2>4 DEF FoldBelow
  <2>6. list[k + 1] \in Range(list)
    BY <1>1, <1>2, <1>5 DEF Range
  <2>7. g[S] \in Seq(Range(list)) /\ g[S] # <<>>
    <3>1. PICK seen, f, T2 : seen = g[1 .. k] /\ f = list[k + 1] /\ T2 = Range(list)
      OBVIOUS
    <3>2. seen \in Seq(T2) /\ f \in T2
      BY <1>5, <2>6, <3>1
    <3>3. AddOnce(seen, f) \in Seq(T2) /\ AddOnce(seen, f) # <<>>
      BY <3>2, AddOnceKeeps
    <3> QED
      BY <2>5, <3>1, <3>3
  <2> QED
    BY <2>1, <2>7
<1>6. B = {}
  <2>1. B \in SUBSET Nat
    OBVIOUS
  <2>2. \A k \in Nat : k \notin B => k + 1 \notin B
    BY <1>1, <1>2, <1>5
  <2> HIDE DEF B
  <2> QED
    BY <1>4, <2>1, <2>2, LeastNat
<1>7. Good(n)
  BY <1>1, <1>2, <1>6
<1> QED
  BY <1>1, <1>2, <1>3, <1>7

LEMMA AssocsAreWellFormed ==
  ASSUME Inv, DistinctIds, AssocsHaveFields
  PROVE  AssocsWellFormed
<1>1. ASSUME NEW s \in DOMAIN system_assoc_info, NEW i \in DOMAIN system_assoc_info[s],
             NEW assoc, assoc = system_assoc_info[s][i],
             NEW ids, ids = AssocFields(assoc)
      PROVE  /\ ids # <<>>
             /\ \A k \in DOMAIN ids : AssocField(assoc.comp_id, ids[k])
  <2>1. AssocHasFields(assoc) /\ IsAssoc(assoc)
    <3>1. AssocList(system_assoc_info, s) = system_assoc_info[s]
      BY DEF AssocList
    <3> QED
      BY <1>1, <3>1 DEF AssocsHaveFields, Inv, TypeOK, AssocTypeOK
  <2>2. assoc.added_fields \in Seq(Nat) /\ assoc.added_fields # <<>>
    BY <2>1 DEF AssocHasFields, IsAssoc
  <2>3. ids # <<>> /\ ids \in Seq(Range(assoc.added_fields))
    BY <1>1, <2>2, AssocFieldsAreAdded
  <2>4. ASSUME NEW k \in DOMAIN ids
        PROVE  AssocField(assoc.comp_id, ids[k])
    <3>1. ids[k] \in Range(assoc.added_fields)
      BY <2>3
    <3> QED
      BY <2>1, <3>1 DEF AssocHasFields, Range
  <2> QED
    BY <2>3, <2>4
<1>2. ASSUME NEW x \in AllAssocs, NEW y \in AllAssocs,
             system_assoc_info[x[1]][x[2]].id = system_assoc_info[y[1]][y[2]].id
      PROVE  x = y
  <2>1. /\ x = <<x[1], x[2]>> /\ y = <<y[1], y[2]>>
        /\ x[1] \in DOMAIN system_assoc_info /\ y[1] \in DOMAIN system_assoc_info
        /\ x[2] \in DOMAIN system_assoc_info[x[1]] /\ y[2] \in DOMAIN system_assoc_info[y[1]]
    BY DEF AllAssocs
  <2>2. x[1] = y[1] /\ x[2] = y[2]
    BY <1>2, <2>1 DEF DistinctIds, AssocList
  <2> QED
    BY <2>1, <2>2
<1> QED
  BY <1>1, <1>2 DEF AssocsWellFormed, AssocField

(* Every association goes through at least one field, each a field of its  *)
(* component that can associate it, and no two have the same id: the       *)
(* counter of assoc.cc is taken for one association only, and the checks   *)
(* of the with list come before the association is added.                  *)
THEOREM AssociationsAreSound == Spec => []AssocsWellFormed
<1>1. Init => DistinctIds /\ AssocsHaveFields
  BY DEF Init, RuntimeInit, AssocInit, EmptyMap, DistinctIds, AssocList, AssocsHaveFields
<1>2. Blocks => Inv
  BY DEF Blocks
<1> QED
  BY <1>1, <1>2, BlocksInit, BlocksNext, DistinctIdsNext, AssocsHaveFieldsNext,
     AssocsAreWellFormed, PTL DEF Spec

-----------------------------------------------------------------------------
(* The association of a block.  A with list that names no field twice has  *)
(* every field of an association at most once, so matching_fields.size()   *)
(* is a number of fields.                                                  *)
FieldsNamedOnce ==
  \A s \in Statements : \A i, j \in DOMAIN s.with : s.with[i] = s.with[j] => i = j

SumBelow(g, S, t) ==
  \A T \in SUBSET S :
    g[T] = IF T = {} THEN 0
           ELSE LET x == CHOOSE y \in T : TRUE IN t[x] + g[T \ {x}]
Ones(T, t) == {x \in T : t[x] = 1}

LEMMA OnesStep ==
  ASSUME NEW S, IsFiniteSet(S), NEW t \in [S -> {0, 1}], NEW T \in SUBSET S, NEW x \in T
  PROVE  Cardinality(Ones(T, t)) = t[x] + Cardinality(Ones(T \ {x}, t))
<1>1. IsFiniteSet(Ones(T, t))
  <2>1. Ones(T, t) \in SUBSET S
    BY DEF Ones
  <2> QED
    BY <2>1, FS_Subset
<1>2. Ones(T \ {x}, t) = Ones(T, t) \ {x}
  BY DEF Ones
<1>3. x \in Ones(T, t) <=> t[x] = 1
  BY DEF Ones
<1>4. t[x] \in {0, 1}
  OBVIOUS
<1>5. Cardinality(Ones(T, t)) \in Nat
  BY <1>1, FS_CardinalityType
<1>6. Cardinality(Ones(T, t) \ {x}) =
        IF x \in Ones(T, t) THEN Cardinality(Ones(T, t)) - 1 ELSE Cardinality(Ones(T, t))
  BY <1>1, FS_RemoveElement
<1>7. PICK m \in Nat : m = Cardinality(Ones(T, t))
  BY <1>5
<1>8. PICK k : k = Cardinality(Ones(T \ {x}, t))
  OBVIOUS
<1>9. k = IF t[x] = 1 THEN m - 1 ELSE m
  BY <1>2, <1>3, <1>6, <1>7, <1>8
<1>10. m = t[x] + k
  BY <1>4, <1>9
<1> QED
  BY <1>7, <1>8, <1>10

LEMMA SumExists ==
  ASSUME NEW S, IsFiniteSet(S), NEW t \in [S -> {0, 1}]
  PROVE  \E g : SumBelow(g, S, t) /\ g = [T \in SUBSET S |-> g[T]]
<1>1. PICK g : g = [T \in SUBSET S |-> Cardinality(Ones(T, t))]
  OBVIOUS
<1>2. ASSUME NEW T \in SUBSET S
      PROVE  g[T] = IF T = {} THEN 0
                    ELSE LET x == CHOOSE y \in T : TRUE IN t[x] + g[T \ {x}]
  <2>1. CASE T = {}
    BY <1>1, <2>1, FS_EmptySet DEF Ones
  <2>2. CASE T # {}
    <3>1. PICK x : x = CHOOSE y \in T : TRUE
      OBVIOUS
    <3>2. x \in T /\ T \ {x} \in SUBSET S
      BY <2>2, <3>1
    <3>3. g[T] = t[x] + g[T \ {x}]
      BY <1>1, <3>2, OnesStep
    <3> QED
      BY <2>2, <3>1, <3>3
  <2> QED
    BY <2>1, <2>2
<1>3. SumBelow(g, S, t)
  BY <1>2 DEF SumBelow
<1>4. g = [T \in SUBSET S |-> g[T]]
  BY <1>1
<1> QED
  BY <1>3, <1>4

LEMMA SumOfOnes ==
  ASSUME NEW S, IsFiniteSet(S), NEW t \in [S -> {0, 1}], NEW g, SumBelow(g, S, t)
  PROVE  g[S] = Cardinality(Ones(S, t))
<1> DEFINE Good(T) == g[T] = Cardinality(Ones(T, t))
           B == {k \in Nat : \E T \in SUBSET S : Cardinality(T) = k /\ ~Good(T)}
<1>1. \A T \in SUBSET S : IsFiniteSet(T) /\ Cardinality(T) \in Nat
  BY FS_Subset, FS_CardinalityType
<1>2. 0 \notin B
  <2>1. ASSUME NEW T \in SUBSET S, Cardinality(T) = 0
        PROVE  Good(T)
    <3>1. T = {}
      BY <1>1, <2>1, FS_EmptySet
    <3>2. Ones({}, t) = {}
      BY DEF Ones
    <3>3. g[{}] = 0
      BY DEF SumBelow
    <3> QED
      BY <3>1, <3>2, <3>3, FS_EmptySet
  <2> QED
    BY <2>1
<1>3. ASSUME NEW k \in Nat, k \notin B
      PROVE  k + 1 \notin B
  <2>1. ASSUME NEW T \in SUBSET S, Cardinality(T) = k + 1
        PROVE  Good(T)
    <3>1. T # {}
      BY <2>1, FS_EmptySet
    <3>2. PICK x : x = CHOOSE y \in T : TRUE
      OBVIOUS
    <3>3. x \in T /\ T \ {x} \in SUBSET S
      BY <3>1, <3>2
    <3>4. Cardinality(T \ {x}) = k
      <4>1. IsFiniteSet(T)
        BY <1>1
      <4>2. Cardinality(T \ {x}) = Cardinality(T) - 1
        BY <3>3, <4>1, FS_RemoveElement
      <4> QED
        BY <2>1, <4>2
    <3>5. Good(T \ {x})
      BY <1>3, <3>3, <3>4
    <3>6. g[T] = t[x] + g[T \ {x}]
      BY <3>1, <3>2 DEF SumBelow
    <3> QED
      BY <3>3, <3>5, <3>6, OnesStep
  <2> QED
    BY <2>1
<1>4. B = {}
  <2>1. B \in SUBSET Nat
    OBVIOUS
  <2> HIDE DEF B
  <2> QED
    BY <1>2, <1>3, <2>1, LeastNat
<1> QED
  BY <1>1, <1>4

(* How often a list of names has a field of an association.                *)
TimesNamed(c, ids, names, i) ==
  Cardinality({j \in DOMAIN names : names[j] = FieldsOf(c)[ids[i]].name})
Unnamed(c, ids, names) == {i \in DOMAIN ids : TimesNamed(c, ids, names, i) = 0}
NamedFirst(c, ids, names) ==
  IF Unnamed(c, ids, names) = {} THEN DOMAIN ids ELSE 1 .. Min(Unnamed(c, ids, names)) - 1

LEMMA MatchingIsSum ==
  ASSUME NEW c, NEW assoc, NEW names, NEW S, NEW t \in [S -> {0, 1}], IsFiniteSet(S),
         S = NamedFirst(c, AssocFields(assoc), names),
         \A i \in S : t[i] = TimesNamed(c, AssocFields(assoc), names, i)
  PROVE  MatchingFields(c, assoc, names) = Cardinality(Ones(S, t))
<1> DEFINE ids == AssocFields(assoc)
           Sum(g) == g = [T \in SUBSET S |->
                            IF T = {} THEN 0
                            ELSE LET x == CHOOSE y \in T : TRUE
                                 IN TimesNamed(c, ids, names, x) + g[T \ {x}]]
<1>1. \A T \in SUBSET S : T # {} => (CHOOSE y \in T : TRUE) \in S
  OBVIOUS
<1>2. \E g : Sum(g)
  <2>1. PICK g : SumBelow(g, S, t) /\ g = [T \in SUBSET S |-> g[T]]
    BY SumExists
  <2>2. ASSUME NEW T \in SUBSET S
        PROVE  g[T] = IF T = {} THEN 0
                      ELSE LET x == CHOOSE y \in T : TRUE
                           IN TimesNamed(c, ids, names, x) + g[T \ {x}]
    <3>1. PICK x : x = CHOOSE y \in T : TRUE
      OBVIOUS
    <3>2. g[T] = IF T = {} THEN 0 ELSE t[x] + g[T \ {x}]
      BY <2>1, <3>1 DEF SumBelow
    <3>3. T # {} => t[x] = TimesNamed(c, ids, names, x)
      BY <1>1, <3>1
    <3> QED
      BY <3>1, <3>2, <3>3
  <2>3. Sum(g)
    BY <2>1, <2>2
  <2> QED
    BY <2>3
<1>3. PICK g : g = CHOOSE h : Sum(h)
  OBVIOUS
<1>4. Sum(g)
  BY <1>2, <1>3
<1>5. MatchingFields(c, assoc, names) = g[S]
  BY <1>3, Zenon DEF MatchingFields, MapThenSumSet, MapThenFoldSet, NamedFirst, Unnamed, TimesNamed
<1>6. SumBelow(g, S, t)
  BY <1>1, <1>4 DEF SumBelow
<1> QED
  BY <1>5, <1>6, SumOfOnes

NoNameTwice(names) == \A i, j \in DOMAIN names : names[i] = names[j] => i = j

LEMMA NamedOnce ==
  ASSUME NEW c, NEW ids, NEW names, NoNameTwice(names), NEW i
  PROVE  /\ TimesNamed(c, ids, names, i) \in {0, 1}
         /\ (\E j \in DOMAIN names : names[j] = FieldsOf(c)[ids[i]].name) =>
              TimesNamed(c, ids, names, i) = 1
<1>1. PICK name : name = FieldsOf(c)[ids[i]].name
  OBVIOUS
<1>2. PICK at : at = {j \in DOMAIN names : names[j] = name}
  OBVIOUS
<1>3. TimesNamed(c, ids, names, i) = Cardinality(at)
  BY <1>1, <1>2 DEF TimesNamed
<1>4. CASE at = {}
  BY <1>1, <1>2, <1>3, <1>4, FS_EmptySet
<1>5. ASSUME NEW j \in at
      PROVE  at = {j}
  BY <1>2 DEF NoNameTwice
<1>6. CASE at # {}
  <2>1. PICK j \in at : at = {j}
    BY <1>5, <1>6
  <2>2. Cardinality(at) = 1
    BY <2>1, FS_Singleton
  <2> QED
    BY <1>3, <2>2
<1> QED
  BY <1>4, <1>6

LEMMA MatchingIsBounded ==
  ASSUME NEW c, NEW assoc, NEW names, NoNameTwice(names),
         NEW n \in Nat, n = Len(AssocFields(assoc)), DOMAIN AssocFields(assoc) = 1 .. n
  PROVE  /\ MatchingFields(c, assoc, names) <= n
         /\ (\A i \in 1 .. n : TimesNamed(c, AssocFields(assoc), names, i) = 1) =>
              MatchingFields(c, assoc, names) = n
<1>1. PICK ids : ids = AssocFields(assoc)
  OBVIOUS
<1>2. PICK S : S = NamedFirst(c, ids, names)
  OBVIOUS
<1>3. PICK t : t = [i \in S |-> TimesNamed(c, ids, names, i)]
  OBVIOUS
<1>4. Unnamed(c, ids, names) \subseteq 1 .. n
  BY <1>1 DEF Unnamed
<1>5. S \in SUBSET (1 .. n)
  <2>1. CASE Unnamed(c, ids, names) = {}
    BY <1>1, <1>2, <2>1 DEF NamedFirst
  <2>2. CASE Unnamed(c, ids, names) # {}
    <3>1. PICK m : m = Min(Unnamed(c, ids, names))
      OBVIOUS
    <3>2. m \in 1 .. n
      <4>1. Unnamed(c, ids, names) \subseteq Nat
        BY <1>4
      <4> QED
        BY <1>4, <2>2, <3>1, <4>1, MinNat
    <3>3. S = 1 .. m - 1
      BY <1>2, <2>2, <3>1 DEF NamedFirst
    <3> QED
      BY <3>2, <3>3
  <2> QED
    BY <2>1, <2>2
<1>6. t \in [S -> {0, 1}] /\ \A i \in S : t[i] = TimesNamed(c, ids, names, i)
  BY <1>3, NamedOnce
<1>7. IsFiniteSet(1 .. n) /\ Cardinality(1 .. n) = n
  <2>1. 1 \in Int /\ n \in Int
    OBVIOUS
  <2>2. IsFiniteSet(1 .. n) /\ Cardinality(1 .. n) = IF 1 > n THEN 0 ELSE n - 1 + 1
    BY <2>1, FS_Interval
  <2> QED
    BY <2>2
<1>8. IsFiniteSet(S)
  BY <1>5, <1>7, FS_Subset
<1>9. MatchingFields(c, assoc, names) = Cardinality(Ones(S, t))
  BY <1>1, <1>2, <1>6, <1>8, MatchingIsSum
<1>10. Cardinality(Ones(S, t)) <= n
  <2>1. Ones(S, t) \in SUBSET (1 .. n)
    BY <1>5 DEF Ones
  <2> QED
    BY <1>7, <2>1, FS_Subset
<1>11. ASSUME \A i \in 1 .. n : TimesNamed(c, ids, names, i) = 1
       PROVE  Cardinality(Ones(S, t)) = n
  <2>1. Unnamed(c, ids, names) = {}
    BY <1>1, <1>11 DEF Unnamed
  <2>2. S = 1 .. n
    BY <1>1, <1>2, <2>1 DEF NamedFirst
  <2>3. Ones(S, t) = 1 .. n
    BY <1>6, <1>11, <2>2 DEF Ones
  <2> QED
    BY <1>7, <2>3
<1> QED
  BY <1>1, <1>9, <1>10, <1>11

(* The association id of sys is of c, through the fields that names has.   *)
Linked(sys, c, names, id) ==
  /\ \A k \in DOMAIN names : FieldsNamed(c, names[k]) # {}
  /\ \E i \in DOMAIN AssocList(system_assoc_info, sys) :
       LET assoc == AssocList(system_assoc_info, sys)[i]
       IN assoc.id = id /\ assoc.comp_id = c /\ assoc.added_fields = FieldIds(c, names)

(* Through these names the lookup finds the association, and it finds no   *)
(* field of another one more often than the association has it.            *)
LEMMA FieldsListed ==
  ASSUME AssocTypeOK, AssocsHaveFields, NEW sys,
         NEW i \in DOMAIN AssocList(system_assoc_info, sys),
         NEW assoc, assoc = AssocList(system_assoc_info, sys)[i]
  PROVE  /\ AssocFields(assoc) \in Seq(Range(assoc.added_fields))
         /\ Len(AssocFields(assoc)) \in Nat
         /\ DOMAIN AssocFields(assoc) = 1 .. Len(AssocFields(assoc))
<1>1. assoc.added_fields \in Seq(Nat)
  BY AssocListType DEF IsAssoc
<1>2. assoc.added_fields # <<>>
  BY DEF AssocsHaveFields, AssocHasFields
<1>3. AssocFields(assoc) \in Seq(Range(assoc.added_fields))
  BY <1>1, <1>2, AssocFieldsAreAdded
<1> QED
  BY <1>3

LEMMA LinkedIsFound ==
  ASSUME RuntimeTypeOK, AssocTypeOK, AssocsHaveFields, NEW sys, NEW c, NEW names, NEW id,
         NoNameTwice(names), Linked(sys, c, names, id)
  PROVE  /\ FindAssocsAsserts(sys, c, names)
         /\ id \in {assoc.id : assoc \in FindAssocsWithFields(sys, c, names)}
<1>1. PICK list : list = AssocList(system_assoc_info, sys)
  OBVIOUS
<1>2. PICK i \in DOMAIN list :
        list[i].id = id /\ list[i].comp_id = c /\ list[i].added_fields = FieldIds(c, names)
  BY <1>1 DEF Linked
<1>3. PICK own : own = list[i]
  OBVIOUS
<1>4. ASSUME NEW assoc \in AssocsOf(sys, c)
      PROVE  MatchingFields(c, assoc, names) <= Len(AssocFields(assoc))
  <2>1. PICK k \in DOMAIN list : assoc = list[k]
    BY <1>1 DEF AssocsOf, Range
  <2> QED
    BY <1>1, <2>1, FieldsListed, MatchingIsBounded
<1>5. MatchingFields(c, own, names) = Len(AssocFields(own))
  <2>1. PICK ids : ids = AssocFields(own)
    OBVIOUS
  <2>2. ids \in Seq(Range(own.added_fields)) /\ Len(ids) \in Nat /\ DOMAIN ids = 1 .. Len(ids)
    BY <1>1, <1>2, <1>3, <2>1, FieldsListed
  <2>3. ASSUME NEW k \in 1 .. Len(ids)
        PROVE  TimesNamed(c, ids, names, k) = 1
    <3>1. ids[k] \in Range(FieldIds(c, names))
      BY <1>2, <1>3, <2>2
    <3>2. PICK j \in DOMAIN names : ids[k] = Min(FieldsNamed(c, names[j]))
      BY <3>1 DEF Range, FieldIds
    <3>3. PICK name : name = names[j]
      OBVIOUS
    <3>4. FieldsNamed(c, name) \subseteq Nat /\ FieldsNamed(c, name) # {}
      BY <3>3, FieldsNamedNat DEF Linked
    <3>5. ids[k] \in FieldsNamed(c, name)
      BY <3>2, <3>3, <3>4, MinNat
    <3>6. FieldsOf(c)[ids[k]].name = names[j]
      BY <3>3, <3>5 DEF FieldsNamed
    <3> QED
      BY <3>6, NamedOnce
  <2> QED
    BY <2>1, <2>2, <2>3, MatchingIsBounded
<1>6. own \in AssocsOf(sys, c)
  BY <1>1, <1>2, <1>3 DEF AssocsOf, Range
<1>7. own \in FindAssocsWithFields(sys, c, names)
  BY <1>5, <1>6 DEF FindAssocsWithFields
<1> QED
  BY <1>2, <1>3, <1>4, <1>7 DEF FindAssocsAsserts

(* What each block that a statement of a system body opens lies in, and    *)
(* the association that its with list added: to the system of the block    *)
(* around it, if both were opened in one package.                          *)
NotifyPlaced(stack, i) ==
  stack[i].s.op = "SYSTEM_NOTIFY" =>
    i - 1 \in DOMAIN stack /\ stack[i - 1].s.op \in SystemOps
ComponentPlaced(stack, i) ==
  /\ stack[i].s.op = "SYSTEM_COMPONENT" /\ stack[i].s.with # <<>>
  /\ i - 1 \in DOMAIN stack /\ stack[i - 1].s.op \in SystemOps
  /\ stack[i - 1].pkg = stack[i].pkg
  => Linked(stack[i - 1].ref, stack[i].ref, stack[i].s.with, stack[i].assoc)
WithPlaced(stack, i) ==
  stack[i].s.op = "SYSTEM_WITH" =>
    /\ i - 1 \in DOMAIN stack /\ i - 2 \in DOMAIN stack
    /\ stack[i - 1].s.op = "SYSTEM_COMPONENT" /\ stack[i - 2].s.op \in SystemOps
    /\ (stack[i - 1].pkg = stack[i].pkg /\ stack[i - 2].pkg = stack[i].pkg
         => Linked(stack[i - 2].ref, stack[i - 1].ref, stack[i].s.with, stack[i].assoc))
PlacedIn(stack, i) ==
  NotifyPlaced(stack, i) /\ ComponentPlaced(stack, i) /\ WithPlaced(stack, i)

BlocksPlaced == \A i \in DOMAIN context_stack : PlacedIn(context_stack, i)

(* A field that a name finds stays the one found.                          *)
LEMMA FieldsNamedStay ==
  ASSUME Blocks, [Next]_vars, NEW c, NEW name, FieldsNamed(c, name) # {}
  PROVE  /\ FieldsNamed(c, name)' # {}
         /\ Min(FieldsNamed(c, name))' = Min(FieldsNamed(c, name))
<1> PICK old, new : old = FieldsOf(c) /\ new = FieldsOf(c)'
  OBVIOUS
<1>1. DOMAIN old \subseteq DOMAIN new /\ \A i \in DOMAIN old : new[i] = old[i]
  BY SlotsGrow, FieldsStep DEF Blocks, Inv, TypeOK
<1>2. /\ FieldsNamed(c, name) = {i \in DOMAIN old : old[i].name = name}
      /\ FieldsNamed(c, name)' = {i \in DOMAIN new : new[i].name = name}
  BY DEF FieldsNamed
<1>3. FieldsNamed(c, name) \subseteq Nat /\ FieldsNamed(c, name)' \subseteq Nat
  <2>1. RuntimeTypeOK /\ RuntimeTypeOK'
    BY BlocksNext DEF Blocks, Inv, TypeOK
  <2>2. old \in Seq(Field) \cup {<<>>} /\ new \in Seq(Field') \cup {<<>>}
    BY <2>1 DEF RuntimeTypeOK, FieldsOf
  <2>3. DOMAIN old \subseteq Nat /\ DOMAIN new \subseteq Nat
    <3>1. DOMAIN <<>> = {}
      OBVIOUS
    <3>2. old \in Seq(Field) => DOMAIN old \subseteq Nat
      OBVIOUS
    <3>3. new \in Seq(Field') => DOMAIN new \subseteq Nat
      OBVIOUS
    <3> QED
      BY <2>2, <3>1, <3>2, <3>3
  <2> QED
    BY <1>2, <2>3
<1>4. PICK lo, hi : lo = Len(old) /\ DOMAIN old = 1 .. lo /\ lo \in Nat
  <2>1. old \in Seq(Field) \cup {<<>>}
    BY DEF Blocks, Inv, TypeOK, RuntimeTypeOK, FieldsOf
  <2> QED
    BY <2>1
<1>5. PICK m, k : m = Min(FieldsNamed(c, name)) /\ k = Min(FieldsNamed(c, name)')
  OBVIOUS
<1>6. m \in FieldsNamed(c, name) /\ \A y \in FieldsNamed(c, name) : m <= y
  BY <1>3, <1>5, MinNat
<1>7. m \in FieldsNamed(c, name)'
  BY <1>1, <1>2, <1>6
<1>8. k \in FieldsNamed(c, name)' /\ \A y \in FieldsNamed(c, name)' : k <= y
  BY <1>3, <1>5, <1>7, MinNat
<1>9. k \in FieldsNamed(c, name) \/ lo < k
  BY <1>1, <1>2, <1>3, <1>4, <1>8
<1>10. m \in Nat /\ k \in Nat /\ m <= lo /\ k <= m
  BY <1>2, <1>3, <1>4, <1>6, <1>7, <1>8
<1>11. k = m
  BY <1>4, <1>6, <1>9, <1>10
<1> QED
  BY <1>5, <1>7, <1>11

LEMMA LinkedStays ==
  ASSUME Blocks, DistinctIds, [Next]_vars, NEW sys, NEW c, NEW names, NEW id,
         Linked(sys, c, names, id)
  PROVE  Linked(sys, c, names, id)'
<1> PICK old, new : /\ old = AssocList(system_assoc_info, sys)
                    /\ new = AssocList(system_assoc_info', sys)
  OBVIOUS
<1>1. ASSUME NEW k \in DOMAIN names
      PROVE  /\ FieldsNamed(c, names[k])' # {}
             /\ Min(FieldsNamed(c, names[k]))' = Min(FieldsNamed(c, names[k]))
  <2>1. PICK name : name = names[k]
    OBVIOUS
  <2>2. FieldsNamed(c, name) # {}
    BY <2>1 DEF Linked
  <2> QED
    BY <2>1, <2>2, FieldsNamedStay
<1>2. FieldIds(c, names)' = FieldIds(c, names)
  BY <1>1 DEF FieldIds
<1>3. PICK i \in DOMAIN old :
        old[i].id = id /\ old[i].comp_id = c /\ old[i].added_fields = FieldIds(c, names)
  BY DEF Linked
<1>4. i \in DOMAIN new /\ new[i].id = id /\ new[i].comp_id = c
      /\ new[i].added_fields = FieldIds(c, names)
  <2>1. CASE new = old
    BY <1>3, <2>1
  <2>2. CASE AssocsEvolve(sys, old, new)
    BY <1>3, <2>2 DEF AssocsEvolve, KeepsAssoc
  <2>3. ASSUME NEW other, other # sys,
               AssocsEvolve(other, AssocList(system_assoc_info, other),
                                   AssocList(system_assoc_info', other))
        PROVE  new = old
    BY <2>3 DEF AssocsEvolve
  <2> QED
    BY <2>1, <2>2, <2>3, AssocsStep DEF assoc_vars
<1> QED
  BY <1>1, <1>2, <1>4 DEF Linked

LEMMA AddedIsLinked ==
  ASSUME AssocTypeOK, UNCHANGED fields, NEW sys, NEW c, NEW names, Accepted(WithChecks(c, names)),
         system_assoc_info' =
           AddSystemAssoc(system_assoc_info, last_assoc_id, sys, c, FieldIds(c, names)),
         NEW id, id = last_assoc_id
  PROVE  Linked(sys, c, names, id)'
<1>1. ASSUME NEW k \in DOMAIN names
      PROVE  FieldsNamed(c, names[k]) # {}
  <2>1. PICK named : named = FieldsNamed(c, names[k])
    OBVIOUS
  <2>2. PICK holds : holds = (named # {} /\ IsAssocType(FieldsOf(c)[Min(named)].type))
    OBVIOUS
  <2>3. PICK code : code = IF named = {} THEN "UNKNOWN_FIELD_NAME" ELSE "INVALID_ASSOC_FIELD_TYPE"
    OBVIOUS
  <2>4. /\ k \in DOMAIN WithChecks(c, names)
        /\ WithChecks(c, names)[k] = Check(holds, code)
    BY <2>1, <2>2, <2>3 DEF WithChecks
  <2>5. Check(holds, code).holds
    BY <2>4 DEF Accepted
  <2>6. holds
    BY <2>5, Zenon DEF Check
  <2> QED
    BY <2>1, <2>2, <2>6
<1>2. /\ FieldIds(c, names)' = FieldIds(c, names)
      /\ \A k \in DOMAIN names : FieldsNamed(c, names[k])' = FieldsNamed(c, names[k])
  BY DEF FieldIds, FieldsNamed, FieldsOf
<1>3. PICK old, x, ids : /\ old = AssocList(system_assoc_info, sys) /\ ids = FieldIds(c, names)
                         /\ x = [id |-> id, comp_id |-> c, added_fields |-> ids, caps |-> EmptyMap]
  OBVIOUS
<1>4. AssocList(system_assoc_info', sys) = Append(old, x)
  <2>1. system_assoc_info' = Put(system_assoc_info, sys, Append(old, x))
    BY <1>3 DEF AddSystemAssoc
  <2>2. PICK info, v : info = system_assoc_info /\ v = Append(old, x)
    OBVIOUS
  <2>3. AssocList(Put(info, sys, v), sys) = v
    BY ListOfPut
  <2> QED
    BY <2>1, <2>2, <2>3
<1>5. old \in Seq(Range(old))
  BY <1>3, AssocListType
<1>6. /\ Len(old) + 1 \in DOMAIN Append(old, x)
      /\ Append(old, x)[Len(old) + 1] = x
  <2>1. DOMAIN Append(old, x) = 1 .. Len(old) + 1 /\ Len(old) \in Nat
        /\ Append(old, x)[Len(old) + 1] = x
    BY <1>5, AppendIsSeq
  <2> QED
    BY <2>1
<1>7. x.id = id /\ x.comp_id = c /\ x.added_fields = ids
  BY <1>3
<1> QED
  BY <1>1, <1>2, <1>3, <1>4, <1>6, <1>7 DEF Linked

(* The handlers, where they open a block.                                  *)
LEMMA FinishOpens ==
  ASSUME NEW s, NEW ref, NEW assoc, NEW code, Finish(s, ref, assoc, code),
         context_stack' # context_stack
  PROVE  /\ context_stack' = Append(context_stack,
              [s |-> s, ref |-> ref, assoc |-> assoc, pkg |-> package_id])
         /\ code = "OK"
BY DEF Finish

OpensIn(sys, f) ==
  /\ context_stack' = Append(context_stack, f) /\ f.pkg = package_id
  /\ sys = ContextSystem /\ sys # NoId
OpensComponent(s, f, sys, names) ==
  /\ OpensIn(sys, f) /\ f.s = s /\ names = s.with
  /\ names # <<>> /\ Context(1).op \in SystemOps => Linked(sys, f.ref, names, f.assoc)'
OpensWith(s, f, sys, names) ==
  /\ OpensIn(sys, f) /\ f.s = s /\ names = s.with
  /\ Context(1).op = "SYSTEM_COMPONENT" /\ f.ref = ComponentLikeOf(Context(1))
  /\ Linked(sys, f.ref, names, f.assoc)'

LEMMA ComponentBlock ==
  ASSUME Blocks, package_id \in Packages, NEW s \in Statements, EvalSystemComponent(s),
         context_stack' # context_stack
  PROVE  \E f, sys, names : OpensComponent(s, f, sys, names)
<1>0. TypeOK /\ AssocTypeOK
  BY DEF Blocks, Inv, TypeOK
<1>1. Accepted(SystemComponentChecks(s))
  BY DEF EvalSystemComponent, Rejected, client_vars
<1>2. Accepted(WithChecks(NamedComponentLike(s), s.with)) /\ ContextSystem # NoId
  BY <1>0, <1>1, SystemComponentPassed
<1>3. PICK comp, sys, new, names, added :
        /\ comp = NamedComponentLike(s) /\ sys = ContextSystem /\ names = s.with
        /\ new = (IF s.with = <<>> THEN NoId ELSE last_assoc_id)
        /\ added = (IF s.with = <<>> THEN system_assoc_info
                    ELSE AddSystemAssoc(system_assoc_info, new, sys, comp, FieldIds(comp, names)))
  OBVIOUS
<1>4. /\ Finish(s, comp, new, "OK")
      /\ ~InAssocBlock => system_assoc_info' = added /\ SetSystemCapability(sys, comp, s.arg)
  <2>1. \/ Finish(s, comp, new, "MULTIPLE_CAPABILITIES_SAME_COMPONENT_LIKE")
        \/ /\ Finish(s, comp, new, "OK")
           /\ ~InAssocBlock => system_assoc_info' = added /\ SetSystemCapability(sys, comp, s.arg)
    BY <1>1, <1>3 DEF EvalSystemComponent, Rejected, client_vars
  <2>2. ~Finish(s, comp, new, "MULTIPLE_CAPABILITIES_SAME_COMPONENT_LIKE")
    BY DEF Finish
  <2> QED
    BY <2>1, <2>2
<1>5. context_stack' = Append(context_stack,
                              [s |-> s, ref |-> comp, assoc |-> new, pkg |-> package_id])
  BY <1>4, FinishOpens
<1>6. ASSUME names # <<>>, Context(1).op \in SystemOps
      PROVE  Linked(sys, comp, names, new)'
  <2>1. ~InAssocBlock
    BY <1>6 DEF InAssocBlock, SystemOps
  <2>2. UNCHANGED fields
    BY <1>4, <2>1 DEF SetSystemCapability, OnlySystemLikes
  <2>3. new = last_assoc_id
    BY <1>3, <1>6
  <2>4. system_assoc_info' =
          AddSystemAssoc(system_assoc_info, last_assoc_id, sys, comp, FieldIds(comp, names))
    BY <1>3, <1>4, <1>6, <2>1, <2>3
  <2>5. Accepted(WithChecks(comp, names))
    BY <1>2, <1>3
  <2> QED
    BY <1>0, <2>2, <2>3, <2>4, <2>5, AddedIsLinked
<1>7. PICK f : f = [s |-> s, ref |-> comp, assoc |-> new, pkg |-> package_id]
  OBVIOUS
<1>8. OpensIn(sys, f)
  BY <1>2, <1>3, <1>5, <1>7 DEF OpensIn
<1>9. f.s = s /\ f.ref = comp /\ f.assoc = new
  BY <1>7
<1>10. OpensComponent(s, f, sys, names)
  BY <1>3, <1>6, <1>8, <1>9 DEF OpensComponent
<1> QED
  BY <1>10

LEMMA WithBlock ==
  ASSUME Blocks, package_id \in Packages, NEW s \in Statements, EvalSystemWith(s),
         context_stack' # context_stack
  PROVE  \E f, sys, names : OpensWith(s, f, sys, names)
<1>0. TypeOK /\ AssocTypeOK
  BY DEF Blocks, Inv, TypeOK
<1>1. Accepted(SystemWithChecks(s))
  BY DEF EvalSystemWith, Rejected, client_vars
<1>2. /\ Accepted(WithChecks(ComponentLikeOf(Context(1)), s.with))
      /\ Context(1).op = "SYSTEM_COMPONENT" /\ ContextSystem # NoId
  BY <1>0, <1>1, SystemWithPassed
<1>3. PICK comp, sys, new, names :
        /\ comp = ComponentLikeOf(Context(1)) /\ sys = ContextSystem /\ names = s.with
        /\ new = last_assoc_id
  OBVIOUS
<1>4. /\ Finish(s, comp, new, "OK") /\ UNCHANGED fields
      /\ system_assoc_info' =
           AddSystemAssoc(system_assoc_info, last_assoc_id, sys, comp, FieldIds(comp, names))
  BY <1>3 DEF EvalSystemWith, Rejected, client_vars, runtime_vars
<1>5. context_stack' = Append(context_stack,
                              [s |-> s, ref |-> comp, assoc |-> new, pkg |-> package_id])
  BY <1>4, FinishOpens
<1>6. Accepted(WithChecks(comp, names))
  BY <1>2, <1>3
<1>7. Linked(sys, comp, names, new)'
  BY <1>0, <1>3, <1>4, <1>6, AddedIsLinked
<1>8. PICK f : f = [s |-> s, ref |-> comp, assoc |-> new, pkg |-> package_id]
  OBVIOUS
<1>9. OpensIn(sys, f)
  BY <1>2, <1>3, <1>5, <1>8 DEF OpensIn
<1>10. f.s = s /\ f.ref = comp /\ f.assoc = new
  BY <1>8
<1>11. OpensWith(s, f, sys, names)
  BY <1>2, <1>3, <1>7, <1>9, <1>10 DEF OpensWith
<1> QED
  BY <1>11

LEMMA StackAppended ==
  ASSUME Inv, NEW f, NEW stack, stack = Append(context_stack, f),
         NEW n, n = Len(context_stack)
  PROVE  /\ n \in Nat /\ DOMAIN stack = 1 .. n + 1 /\ DOMAIN context_stack = 1 .. n
         /\ stack[n + 1] = f /\ \A i \in 1 .. n : stack[i] = context_stack[i]
<1>1. context_stack \in Seq(FrameType \cup {f})
  BY StackLength, SeqMono
<1> QED
  BY <1>1

LEMMA OpenedIsPlaced ==
  ASSUME Blocks, package_id \in Packages, NEW s \in Statements, EvalStatement(s),
         context_stack' # context_stack, NEW n, n = Len(context_stack)
  PROVE  \E f, stack : /\ stack = context_stack' /\ stack = Append(context_stack, f)
                       /\ PlacedIn(stack, n + 1)'
<1>0. Inv /\ FramesResolve /\ ContextResolves
  BY ResolvesMeans DEF Blocks
<1>1. PICK ref, assoc :
        context_stack' = Append(context_stack,
                                [s |-> s, ref |-> ref, assoc |-> assoc, pkg |-> package_id])
  BY DEF EvalStatement, EvalEmpty, EvalPackageInBlock, EvalImport, EvalComponent, EvalTransient,
         EvalSystem, EvalAction, EvalEnum, EvalEnumValue, EvalBuiltinTypeField,
         EvalUserTypeField, EvalSystemComponent, EvalSystemWith, EvalSystemGenerates,
         EvalEntityConstraint, EvalSystemNotify, EvalSystemNotifyComponent, FinishField,
         FinishSystemLike, Finish, Rejected, client_vars
<1>2. PICK f, stack : /\ f = [s |-> s, ref |-> ref, assoc |-> assoc, pkg |-> package_id]
                      /\ stack = context_stack' /\ stack = Append(context_stack, f)
  BY <1>1
<1>3. f.s = s /\ f.pkg = package_id
  BY <1>2
<1>4. /\ n \in Nat /\ DOMAIN stack = 1 .. n + 1 /\ DOMAIN context_stack = 1 .. n
      /\ stack[n + 1] = f /\ \A i \in 1 .. n : stack[i] = context_stack[i]
  BY <1>0, <1>2, StackAppended
<1>5. \A g : stack = Append(context_stack, g) => g = f
  <2>1. ASSUME NEW g, stack = Append(context_stack, g)
        PROVE  g = f
    <3>1. stack[n + 1] = g
      BY <1>0, <2>1, StackAppended
    <3> QED
      BY <1>4, <3>1
  <2> QED
    BY <2>1
<1>6. Context(1).op # "NONE" =>
        n \in DOMAIN context_stack /\ Context(1) = context_stack[n].s
  <2>1. SUFFICES ASSUME Context(1).op # "NONE"
                 PROVE  n \in DOMAIN context_stack /\ Context(1) = context_stack[n].s
    OBVIOUS
  <2>2. n + 1 - 1 \in DOMAIN context_stack /\ Context(1) = context_stack[n + 1 - 1].s
    BY <1>0, <2>1, ContextFrame
  <2> QED
    BY <1>4, <2>2
<1>7. CASE s.op = "SYSTEM_NOTIFY"
  <2>1. EvalSystemNotify(s)
    BY <1>7 DEF EvalStatement, EvalEmpty, EvalPackageInBlock, EvalImport, EvalComponent,
       EvalTransient, EvalSystem, EvalAction, EvalEnum, EvalEnumValue, EvalBuiltinTypeField,
       EvalUserTypeField, EvalSystemComponent, EvalSystemWith, EvalSystemGenerates,
       EvalEntityConstraint, EvalSystemNotifyComponent
  <2>2. Accepted(SystemNotifyChecks(s))
    BY <2>1 DEF EvalSystemNotify, Rejected, client_vars
  <2>3. Context(1).op \in SystemOps
    BY <2>2, SystemNotifyPassed DEF SystemOps
  <2>4. n \in 1 .. n /\ stack[n].s.op \in SystemOps
    BY <1>4, <1>6, <2>3 DEF SystemOps
  <2>5. NotifyPlaced(stack, n + 1)
    <3>1. (n + 1) - 1 = n /\ n \in DOMAIN stack
      BY <1>4, <2>4
    <3> QED
      BY <2>4, <3>1 DEF NotifyPlaced
  <2>6. ComponentPlaced(stack, n + 1)' /\ WithPlaced(stack, n + 1)'
    BY <1>3, <1>4, <1>7 DEF ComponentPlaced, WithPlaced
  <2> QED
    BY <1>2, <2>5, <2>6 DEF PlacedIn, NotifyPlaced
<1>8. CASE s.op = "SYSTEM_COMPONENT"
  <2>1. EvalSystemComponent(s)
    BY <1>8 DEF EvalStatement, EvalEmpty, EvalPackageInBlock, EvalImport, EvalComponent,
       EvalTransient, EvalSystem, EvalAction, EvalEnum, EvalEnumValue, EvalBuiltinTypeField,
       EvalUserTypeField, EvalSystemWith, EvalSystemGenerates, EvalEntityConstraint,
       EvalSystemNotify, EvalSystemNotifyComponent
  <2>2. PICK g, sys, names : OpensComponent(s, g, sys, names)
    BY <2>1, ComponentBlock
  <2>3. g = f /\ sys = ContextSystem /\ sys # NoId /\ names = s.with
    BY <1>2, <1>5, <2>2 DEF OpensComponent, OpensIn
  <2>4. ASSUME names # <<>>, n \in DOMAIN stack, stack[n].s.op \in SystemOps,
               stack[n].pkg = package_id
        PROVE  Linked(stack[n].ref, f.ref, names, f.assoc)'
    <3>1. n \in DOMAIN context_stack /\ stack[n] = context_stack[n] /\ n <= n /\ 1 <= n
      BY <1>4, <2>4
    <3>2. Context(1).op \in SystemOps
      <4>1. Context(1) = context_stack[n].s
        <5>1. n + 1 - 1 = n /\ 1 <= Len(context_stack)
          BY <1>4, <3>1
        <5> QED
          BY <5>1 DEF Context
      <4> QED
        BY <2>4, <3>1, <4>1
    <3>3. stack[n].ref = sys
      BY <1>0, <2>3, <2>4, <3>1, <3>2, ContextSystemPlace
    <3>4. Linked(sys, f.ref, names, f.assoc)'
      BY <2>2, <2>3, <2>4, <3>2 DEF OpensComponent
    <3> QED
      BY <3>3, <3>4
  <2>5. ComponentPlaced(stack, n + 1)'
    <3>1. (n + 1) - 1 = n
      BY <1>4
    <3> QED
      BY <1>3, <1>4, <2>3, <2>4, <3>1 DEF ComponentPlaced
  <2>6. NotifyPlaced(stack, n + 1)' /\ WithPlaced(stack, n + 1)'
    BY <1>3, <1>4, <1>8 DEF NotifyPlaced, WithPlaced
  <2> QED
    BY <1>2, <2>5, <2>6 DEF PlacedIn
<1>9. CASE s.op = "SYSTEM_WITH"
  <2>1. EvalSystemWith(s)
    BY <1>9 DEF EvalStatement, EvalEmpty, EvalPackageInBlock, EvalImport, EvalComponent,
       EvalTransient, EvalSystem, EvalAction, EvalEnum, EvalEnumValue, EvalBuiltinTypeField,
       EvalUserTypeField, EvalSystemComponent, EvalSystemGenerates, EvalEntityConstraint,
       EvalSystemNotify, EvalSystemNotifyComponent
  <2>2. PICK g, sys, names : OpensWith(s, g, sys, names)
    BY <2>1, WithBlock
  <2>3. /\ g = f /\ sys = ContextSystem /\ sys # NoId /\ names = s.with
        /\ Context(1).op = "SYSTEM_COMPONENT" /\ f.ref = ComponentLikeOf(Context(1))
        /\ Linked(sys, f.ref, names, f.assoc)'
    BY <1>2, <1>5, <2>2 DEF OpensWith, OpensIn
  <2>4. /\ n - 1 \in DOMAIN context_stack /\ n \in DOMAIN context_stack
        /\ context_stack[n].s.op = "SYSTEM_COMPONENT"
        /\ context_stack[n - 1].s.op \in SystemOps
        /\ (context_stack[n - 1].pkg = package_id => context_stack[n - 1].ref = sys)
    BY <1>0, <2>3, ContextSystemPlace DEF SystemOps
  <2>5. ASSUME context_stack[n].pkg = package_id
        PROVE  context_stack[n].ref = f.ref
    <3>1. Context(1) = context_stack[n].s
      BY <1>6, <2>3
    <3>2. ComponentLikeOf(context_stack[n].s) = context_stack[n].ref
      BY <1>0, <2>4, <2>5 DEF ContextResolves, BlockResolves
    <3> QED
      BY <2>3, <3>1, <3>2
  <2>6. /\ n \in DOMAIN stack /\ n - 1 \in DOMAIN stack
        /\ stack[n].s.op = "SYSTEM_COMPONENT" /\ stack[n - 1].s.op \in SystemOps
        /\ (stack[n].pkg = package_id => stack[n].ref = f.ref)
        /\ (stack[n - 1].pkg = package_id => stack[n - 1].ref = sys)
    BY <1>4, <2>4, <2>5
  <2>7. WithPlaced(stack, n + 1)'
    <3>1. (n + 1) - 1 = n /\ (n + 1) - 2 = n - 1
      BY <1>4
    <3>2. ASSUME stack[n].pkg = stack[n + 1].pkg, stack[n - 1].pkg = stack[n + 1].pkg
          PROVE  Linked(stack[n - 1].ref, stack[n].ref, stack[n + 1].s.with, stack[n + 1].assoc)'
      BY <1>3, <1>4, <2>3, <2>6, <3>2
    <3> QED
      BY <2>6, <3>1, <3>2 DEF WithPlaced
  <2>8. NotifyPlaced(stack, n + 1)' /\ ComponentPlaced(stack, n + 1)'
    BY <1>3, <1>4, <1>9 DEF NotifyPlaced, ComponentPlaced
  <2> QED
    BY <1>2, <2>7, <2>8 DEF PlacedIn
<1>10. CASE s.op \notin {"SYSTEM_NOTIFY", "SYSTEM_COMPONENT", "SYSTEM_WITH"}
  <2>1. PlacedIn(stack, n + 1)'
    BY <1>3, <1>4, <1>10 DEF PlacedIn, NotifyPlaced, ComponentPlaced, WithPlaced
  <2> QED
    BY <1>2, <2>1
<1> QED
  BY <1>7, <1>8, <1>9, <1>10

LEMMA PlacedStays ==
  ASSUME Blocks, DistinctIds, BlocksPlaced, [Next]_vars, NEW stack, NEW m \in Nat,
         DOMAIN stack = 1 .. m, NEW i \in 1 .. m,
         \A k \in 1 .. i : k \in DOMAIN context_stack /\ stack[k] = context_stack[k]
  PROVE  PlacedIn(stack, i)'
<1>1. PICK old : old = context_stack /\ DOMAIN old \subseteq Nat \ {0}
  BY StackLength DEF Blocks
<1>2. /\ i \in DOMAIN old /\ stack[i] = old[i]
      /\ \A k \in {i - 1, i - 2} :
           /\ k \in DOMAIN stack <=> k \in 1 .. i
           /\ k \in 1 .. i => k \in DOMAIN old /\ stack[k] = old[k]
  BY <1>1
<1>3. /\ i - 1 \in DOMAIN old => i - 1 \in 1 .. i
      /\ i - 2 \in DOMAIN old => i - 2 \in 1 .. i
  BY <1>1
<1>4. PlacedIn(old, i)
  BY <1>1, <1>2 DEF BlocksPlaced
<1>5. NotifyPlaced(stack, i)
  BY <1>2, <1>3, <1>4 DEF PlacedIn, NotifyPlaced
<1>6. ComponentPlaced(stack, i)'
  <2>1. ASSUME stack[i].s.op = "SYSTEM_COMPONENT", stack[i].s.with # <<>>,
               i - 1 \in DOMAIN stack, stack[i - 1].s.op \in SystemOps,
               stack[i - 1].pkg = stack[i].pkg
        PROVE  Linked(stack[i - 1].ref, stack[i].ref, stack[i].s.with, stack[i].assoc)'
    <3>1. PICK sys, c, names, id : /\ sys = stack[i - 1].ref /\ c = stack[i].ref
                                   /\ names = stack[i].s.with /\ id = stack[i].assoc
      OBVIOUS
    <3>2. Linked(sys, c, names, id)
      BY <1>2, <1>4, <2>1, <3>1 DEF PlacedIn, ComponentPlaced
    <3>3. Linked(sys, c, names, id)'
      BY <3>2, LinkedStays
    <3> QED
      BY <3>1, <3>3
  <2> QED
    BY <2>1 DEF ComponentPlaced
<1>7. WithPlaced(stack, i)'
  <2>1. ASSUME stack[i].s.op = "SYSTEM_WITH"
        PROVE  /\ i - 1 \in DOMAIN stack /\ i - 2 \in DOMAIN stack
               /\ stack[i - 1].s.op = "SYSTEM_COMPONENT" /\ stack[i - 2].s.op \in SystemOps
               /\ (stack[i - 1].pkg = stack[i].pkg /\ stack[i - 2].pkg = stack[i].pkg
                    => Linked(stack[i - 2].ref, stack[i - 1].ref, stack[i].s.with,
                              stack[i].assoc)')
    <3>1. PICK sys, c, names, id : /\ sys = stack[i - 2].ref /\ c = stack[i - 1].ref
                                   /\ names = stack[i].s.with /\ id = stack[i].assoc
      OBVIOUS
    <3>2. /\ i - 1 \in DOMAIN stack /\ i - 2 \in DOMAIN stack
          /\ stack[i - 1].s.op = "SYSTEM_COMPONENT" /\ stack[i - 2].s.op \in SystemOps
          /\ (stack[i - 1].pkg = stack[i].pkg /\ stack[i - 2].pkg = stack[i].pkg
               => Linked(sys, c, names, id))
      BY <1>2, <1>3, <1>4, <2>1, <3>1 DEF PlacedIn, WithPlaced
    <3>3. Linked(sys, c, names, id) => Linked(sys, c, names, id)'
      BY LinkedStays
    <3> QED
      BY <3>1, <3>2, <3>3
  <2> QED
    BY <2>1 DEF WithPlaced
<1> QED
  BY <1>5, <1>6, <1>7 DEF PlacedIn, NotifyPlaced

LEMMA BlocksPlacedNext ==
  Blocks /\ DistinctIds /\ BlocksPlaced /\ [Next]_vars => BlocksPlaced'
<1> SUFFICES ASSUME Blocks, DistinctIds, BlocksPlaced, [Next]_vars
             PROVE  BlocksPlaced'
  OBVIOUS
<1>0. PICK n \in Nat : n = Len(context_stack) /\ DOMAIN context_stack = 1 .. n
  BY StackLength DEF Blocks
<1>1. ASSUME NEW stack, stack = context_stack', NEW m \in Nat, DOMAIN stack = 1 .. m, m <= n,
             \A i \in 1 .. m : stack[i] = context_stack[i]
      PROVE  BlocksPlaced'
  <2>1. ASSUME NEW i \in DOMAIN stack
        PROVE  PlacedIn(stack, i)'
    <3>1. \A k \in 1 .. i : k \in DOMAIN context_stack /\ stack[k] = context_stack[k]
      BY <1>0, <1>1
    <3> QED
      BY <1>1, <3>1, PlacedStays
  <2> QED
    BY <1>1, <2>1 DEF BlocksPlaced
<1>2. CASE UNCHANGED context_stack
  BY <1>0, <1>1, <1>2
<1>3. CASE EndBlock
  <2>1. PICK stack : stack = Front(context_stack)
    OBVIOUS
  <2>2. n # 0
    BY <1>0, <1>3, StackLength, EmptySeq DEF EndBlock, Blocks
  <2>3. DOMAIN stack = 1 .. n - 1 /\ \A i \in 1 .. n - 1 : stack[i] = context_stack[i]
    BY <1>0, <2>1, <2>2, StackLength DEF Front, Blocks
  <2> QED
    BY <1>0, <1>1, <1>3, <2>1, <2>2, <2>3 DEF EndBlock
<1>4. ASSUME package_id \in Packages, NEW s \in Statements, EvalStatement(s),
             context_stack' # context_stack
      PROVE  BlocksPlaced'
  <2>1. PICK f, stack : /\ stack = context_stack' /\ stack = Append(context_stack, f)
                        /\ PlacedIn(stack, n + 1)'
    BY <1>0, <1>4, OpenedIsPlaced
  <2>2. DOMAIN stack = 1 .. n + 1 /\ \A i \in 1 .. n : stack[i] = context_stack[i]
    BY <1>0, <2>1, StackAppended DEF Blocks
  <2>3. ASSUME NEW i \in DOMAIN stack
        PROVE  PlacedIn(stack, i)'
    <3>1. CASE i = n + 1
      BY <2>1, <3>1
    <3>2. CASE i # n + 1
      <4>1. i \in 1 .. n + 1 /\ n + 1 \in Nat
        BY <1>0, <2>2
      <4>2. \A k \in 1 .. i : k \in DOMAIN context_stack /\ stack[k] = context_stack[k]
        BY <1>0, <2>2, <3>2, <4>1
      <4> QED
        BY <2>2, <4>1, <4>2, PlacedStays
    <3> QED
      BY <3>1, <3>2
  <2> QED
    BY <2>1, <2>3 DEF BlocksPlaced
<1>5. CASE EvalPackageStatement \/ SelectPackage
  BY <1>2, <1>5 DEF EvalPackageStatement, SelectPackage
<1>6. CASE UNCHANGED vars
  BY <1>2, <1>6 DEF vars, client_vars
<1> QED
  BY <1>2, <1>3, <1>4, <1>5, <1>6 DEF Next

(* The block that a statement is evaluated in has an association of its    *)
(* own, which the lookup finds again by the names of its with list, if the *)
(* open blocks are of one package and their with lists repeat no name.     *)
NamesOnce == \A i \in DOMAIN context_stack : ~NamesTwice(context_stack[i].s.with)

LEMMA AssocBlockFound ==
  ASSUME Blocks, AssocsHaveFields, BlocksPlaced, BlocksHere, NamesOnce,
         InAssocBlock, ContextSystem # NoId
  PROVE  /\ FindAssocsAsserts(ContextSystem, AssocComponent, Context(1).with)
         /\ Last(context_stack).assoc \in {assoc.id : assoc \in ContextAssocs}
<1>0. Inv /\ FramesResolve /\ ContextResolves /\ RuntimeTypeOK /\ AssocTypeOK
  BY ResolvesMeans DEF Blocks, Inv, TypeOK
<1>1. PICK n \in Nat : n = Len(context_stack) /\ DOMAIN context_stack = 1 .. n
  BY <1>0, StackLength
<1>2. PICK f : f = context_stack[n]
  OBVIOUS
<1>3. n \in DOMAIN context_stack /\ Context(1) = f.s
  <2>1. Context(1).op # "NONE"
    BY DEF InAssocBlock
  <2>2. n + 1 - 1 \in DOMAIN context_stack /\ Context(1) = context_stack[n + 1 - 1].s
    BY <1>0, <1>1, <2>1, ContextFrame
  <2> QED
    BY <1>1, <1>2, <2>2
<1>4. PlacedIn(context_stack, n)
  BY <1>3 DEF BlocksPlaced
<1>5. NoNameTwice(f.s.with)
  BY <1>2, <1>3 DEF NamesOnce, NamesTwice, NoNameTwice
<1>6. PICK sys, c, names : sys = ContextSystem /\ c = AssocComponent /\ names = f.s.with
  OBVIOUS
<1>7. Linked(sys, c, names, f.assoc)
  <2>1. CASE Context(1).op = "SYSTEM_COMPONENT"
    <3>1. /\ n - 1 \in DOMAIN context_stack /\ context_stack[n - 1].ref = sys
          /\ context_stack[n - 1].s.op \in SystemOps
          /\ context_stack[n - 1].pkg = context_stack[n].pkg
      BY <1>0, <1>1, <1>3, <1>6, <2>1, ContextSystemPlace DEF SystemOps, BlocksHere
    <3>2. c = f.ref
      <4>1. AssocComponent = ComponentLikeOf(f.s)
        BY <1>3, <2>1 DEF AssocComponent
      <4> QED
        BY <1>0, <1>2, <1>3, <1>6, <2>1, <4>1 DEF ContextResolves, BlockResolves, BlocksHere
    <3>3. names # <<>> /\ f.s.op = "SYSTEM_COMPONENT"
      BY <1>3, <1>6, <2>1 DEF InAssocBlock
    <3> QED
      BY <1>2, <1>4, <1>6, <3>1, <3>2, <3>3 DEF PlacedIn, ComponentPlaced
  <2>2. CASE Context(1).op = "SYSTEM_WITH"
    <3>1. /\ n - 1 \in DOMAIN context_stack /\ n - 2 \in DOMAIN context_stack
          /\ context_stack[n - 1].s.op = "SYSTEM_COMPONENT"
          /\ context_stack[n - 2].s.op \in SystemOps
          /\ Linked(context_stack[n - 2].ref, context_stack[n - 1].ref, names, f.assoc)
      BY <1>2, <1>3, <1>4, <1>6, <2>2 DEF PlacedIn, WithPlaced, BlocksHere
    <3>2. Context(2) = context_stack[n - 1].s /\ Context(3) = context_stack[n - 2].s
      <4>1. 2 <= n /\ 3 <= n /\ n + 1 - 2 = n - 1 /\ n + 1 - 3 = n - 2
        BY <1>1, <3>1
      <4> QED
        BY <1>1, <4>1 DEF Context
    <3>3. c = context_stack[n - 1].ref
      <4>1. AssocComponent = ComponentLikeOf(Context(2))
        BY <2>2 DEF AssocComponent
      <4> QED
        BY <1>0, <1>6, <3>1, <3>2, <4>1 DEF ContextResolves, BlockResolves, BlocksHere
    <3>4. sys = context_stack[n - 2].ref
      <4>1. ContextSystem = SystemLikeOf(Context(3))
        BY <2>2 DEF ContextSystem
      <4> QED
        BY <1>0, <1>6, <3>1, <3>2, <4>1
        DEF ContextResolves, BlockResolves, BlocksHere, SystemOps
    <3> QED
      BY <3>1, <3>3, <3>4
  <2> QED
    BY <2>1, <2>2 DEF InAssocBlock
<1>8. PICK id : id = f.assoc
  OBVIOUS
<1>9. /\ FindAssocsAsserts(sys, c, names)
      /\ id \in {assoc.id : assoc \in FindAssocsWithFields(sys, c, names)}
  BY <1>0, <1>5, <1>6, <1>7, <1>8, LinkedIsFound
<1>10. Last(context_stack) = f
  BY <1>1, <1>2 DEF Last
<1> QED
  BY <1>3, <1>6, <1>8, <1>9, <1>10 DEF ContextAssocs

-----------------------------------------------------------------------------
(* The assertions.  Most handlers have no check that would end the         *)
(* process.                                                                *)
Plain(checks) == "ABORT" \notin CodesOf(checks)

LEMMA RejectedPlain ==
  ASSUME NEW checks, Plain(checks), Rejected(checks)
  PROVE  result' # "ABORT"
BY DEF Plain, CodesOf, Rejected

LEMMA PlainConcat ==
  ASSUME NEW a, a \in Seq(Range(a)), Plain(a), NEW b, b \in Seq(Range(b)), Plain(b)
  PROVE  Plain(a \o b) /\ a \o b \in Seq(Range(a \o b))
<1>1. a \o b \in Seq(Range(a) \cup Range(b))
  BY ConcatRanges
<1>2. CodesOf(a \o b) \subseteq CodesOf(a) \cup CodesOf(b)
  BY ConcatRanges
<1>3. a \o b \in Seq(Range(a \o b))
  BY <1>1, SeqOfRange
<1> QED
  BY <1>2, <1>3 DEF Plain

LEMMA PlainWith ==
  ASSUME NEW c, NEW names
  PROVE  Plain(WithChecks(c, names))
<1> PICK checks : checks = WithChecks(c, names)
  OBVIOUS
<1>1. ASSUME NEW i \in DOMAIN checks
      PROVE  checks[i].code # "ABORT"
  <2>1. PICK named : named = FieldsNamed(c, names[i])
    OBVIOUS
  <2>2. checks[i].code = IF named = {} THEN "UNKNOWN_FIELD_NAME" ELSE "INVALID_ASSOC_FIELD_TYPE"
    BY <1>1, <2>1, Zenon DEF WithChecks, Check
  <2> QED
    BY <2>2
<1> QED
  BY <1>1 DEF Plain, CodesOf

LEMMA PlainDeclarations ==
  ASSUME NEW s
  PROVE  /\ Plain(<<Check(FALSE, "UNEXPECTED_STATEMENT")>>) /\ Plain(ImportChecks(s))
         /\ Plain(ComponentChecks(s)) /\ Plain(PlainDeclChecks(s))
         /\ Plain(SystemChecks(s)) /\ Plain(ActionChecks(s))
         /\ Plain(EnumValueChecks(s)) /\ Plain(FieldChecks(s))
<1>1. Plain(<<Check(FALSE, "UNEXPECTED_STATEMENT")>>)
  BY DEF Plain, CodesOf, Check
<1>2. Plain(ImportChecks(s))
  BY DEF Plain, CodesOf, ImportChecks, Check, InContext, AllowParams
<1>3. Plain(ComponentChecks(s))
  BY DEF Plain, CodesOf, ComponentChecks, Check, InContext, AllowParams, NameFree
<1>4. Plain(PlainDeclChecks(s))
  BY DEF Plain, CodesOf, PlainDeclChecks, Check, InContext, AllowParams, NameFree
<1>5. Plain(SystemChecks(s))
  BY DEF Plain, CodesOf, SystemChecks, Check, InContext, AllowParams, NameFree
<1>6. Plain(ActionChecks(s))
  BY DEF Plain, CodesOf, ActionChecks, Check, InContext, AllowParams, NameFree
<1>7. Plain(EnumValueChecks(s))
  BY DEF Plain, CodesOf, EnumValueChecks, Check, InContext, AllowParams
<1>8. Plain(FieldChecks(s))
  BY DEF Plain, CodesOf, FieldChecks, Check, InContext, AllowParams
<1> QED
  BY <1>1, <1>2, <1>3, <1>4, <1>5, <1>6, <1>7, <1>8

LEMMA PlainBodies ==
  ASSUME NEW s \in Statements
  PROVE  /\ Plain(UserTypeChecks(s)) /\ Plain(SystemWithChecks(s))
         /\ Plain(SystemGeneratesChecks(s)) /\ Plain(EntityConstraintChecks(s))
<1>1. Plain(UserTypeChecks(s))
  <2> PICK own, field :
        /\ own = <<Check(EnumNamed(s) # NoId \/ IndexedFields(s) # {}, "UNKNOWN_FIELD_TYPE"),
                   Check(EnumNamed(s) = NoId \/ IndexedFields(s) = {}, "AMBIGUOUS_FIELD_TYPE")>>
        /\ field = FieldChecks(s)
    OBVIOUS
  <2>1. Plain(own) /\ own \in Seq(Range(own))
    BY DEF Plain, CodesOf, Check, Range
  <2>2. Plain(field) /\ field \in Seq(Range(field))
    BY PlainDeclarations DEF FieldChecks, Range
  <2>3. UserTypeChecks(s) = field \o own
    BY DEF UserTypeChecks
  <2> QED
    BY <2>1, <2>2, <2>3, PlainConcat
<1>2. Plain(SystemWithChecks(s))
  <2> PICK comp : comp = ComponentLikeOf(Context(1))
    OBVIOUS
  <2> PICK own, with, end :
        /\ own = <<InContext({"SYSTEM_COMPONENT"}), AllowParams(s, {}),
                   Check(ContextSystem # NoId, "INVALID_CONTEXT"),
                   Check(comp # NoId, "UNKNOWN_COMPONENT_LIKE_TYPE")>>
        /\ with = WithChecks(comp, s.with)
        /\ end = <<Check(s.with # <<>>, "UNEXPECTED_STATEMENT")>>
    OBVIOUS
  <2>1. Plain(own) /\ own \in Seq(Range(own))
    BY DEF Plain, CodesOf, Check, InContext, AllowParams, Range
  <2>2. Plain(end) /\ end \in Seq(Range(end))
    BY DEF Plain, CodesOf, Check, Range
  <2>3. Plain(with) /\ with \in Seq(Range(with))
    BY PlainWith, StatementType, WithCheckCodes
  <2>4. Plain(own \o with) /\ own \o with \in Seq(Range(own \o with))
    BY <2>1, <2>3, PlainConcat
  <2>5. Plain(own \o with \o end)
    BY <2>2, <2>4, PlainConcat
  <2>6. SystemWithChecks(s) = own \o with \o end
    BY DEF SystemWithChecks
  <2> QED
    BY <2>5, <2>6
<1>3. Plain(SystemGeneratesChecks(s))
  BY DEF Plain, CodesOf, SystemGeneratesChecks, Check, InContext, AllowParams
<1>4. Plain(EntityConstraintChecks(s))
  <2> PICK new : new = (\A g \in DOMAIN ContextGenerates :
                          NamedComponent(s) \notin DOMAIN ContextGenerates[g])
    OBVIOUS
  <2> PICK checks : checks = EntityConstraintChecks(s)
    OBVIOUS
  <2>1. checks = <<InContext({"SYSTEM_GENERATES"}), AllowParams(s, {}),
                   Check(ContextSystem # NoId, "INVALID_CONTEXT"),
                   Check(NamedComponent(s) # NoId, "UNKNOWN_COMPONENT_TYPE"),
                   Check(DOMAIN ContextGenerates # {}, "INVALID_CONTEXT"),
                   Check(new, "GENERATES_DUPLICATE_COMPONENT_CONSTRAINTS")>>
    BY Zenon DEF EntityConstraintChecks
  <2> QED
    BY <2>1 DEF Plain, CodesOf, Check, InContext, AllowParams
<1> QED
  BY <1>1, <1>2, <1>3, <1>4

(* The checks that would end the process hold when those before them do.   *)
Guarded(checks) ==
  \A i \in DOMAIN checks :
    checks[i].code = "ABORT" /\ (\A j \in 1 .. i - 1 : checks[j].holds) => checks[i].holds

LEMMA RejectedGuarded ==
  ASSUME NEW checks, Guarded(checks), Rejected(checks)
  PROVE  result' # "ABORT"
BY DEF Guarded, Rejected

(* The system or action of an open block is found again in its package.    *)
LEMMA SystemBlockFound ==
  ASSUME Blocks, BlocksHere, NEW k \in Nat \ {0}, Context(k).op \in SystemOps
  PROVE  SystemLikeOf(Context(k)) # NoId
<1>1. PICK i \in DOMAIN context_stack : Context(k) = context_stack[i].s
  BY ContextFrame DEF Blocks, SystemOps
<1>2. PICK f : f = context_stack[i]
  OBVIOUS
<1>3. f.ref \in KindIds({KindOf(f.s.op)})
  BY <1>1, <1>2 DEF Blocks, FramesResolve, FrameResolves, DeclOps, SystemOps
<1>4. f.ref # NoId
  BY <1>3, KindIdsNat DEF Blocks, Inv, TypeOK, NoId
<1>5. SystemLikeOf(f.s) = f.ref
  BY <1>1, <1>2, ResolvesMeans
  DEF Blocks, BlocksHere, ContextResolves, BlockResolves, SystemOps
<1> QED
  BY <1>1, <1>2, <1>4, <1>5

LEMMA SystemNotifyGuarded ==
  ASSUME Blocks, BlocksHere, NEW s \in Statements
  PROVE  Guarded(SystemNotifyChecks(s))
<1> PICK checks : checks = SystemNotifyChecks(s)
  OBVIOUS
<1>1. /\ DOMAIN checks = 1 .. 5
      /\ checks[1].holds => Context(1).op \in {"SYSTEM", "ACTION"}
      /\ ContextSystem # NoId => checks[3].holds
      /\ checks[1].code # "ABORT" /\ checks[2].code # "ABORT"
      /\ checks[4].code # "ABORT" /\ checks[5].code # "ABORT"
  <2> DEFINE k1 == InContext({"SYSTEM", "ACTION"})
             k2 == AllowParams(s, {})
             k3 == Check(ContextSystem # NoId, "ABORT")
             k4 == Check(~NotifyStarted, "MULTIPLE_NOTIFY_STATEMENTS")
             k5 == Check(s.arg \in NotifySettings \cup {""}, "INVALID_NOTIFY_SETTING")
  <2>1. checks = <<k1, k2, k3, k4, k5>>
    BY DEF SystemNotifyChecks
  <2>2. (k1.holds => Context(1).op \in {"SYSTEM", "ACTION"}) /\ k1.code # "ABORT"
    BY Zenon DEF InContext, Check
  <2>3. k2.code # "ABORT"
    BY DEF AllowParams, Check
  <2>4. ContextSystem # NoId => k3.holds
    BY Zenon DEF Check
  <2>5. k4.code # "ABORT" /\ k5.code # "ABORT"
    BY Zenon DEF Check
  <2> HIDE DEF k1, k2, k3, k4, k5
  <2> QED
    BY <2>1, <2>2, <2>3, <2>4, <2>5
<1>2. ASSUME Context(1).op \in {"SYSTEM", "ACTION"}
      PROVE  ContextSystem # NoId
  BY <1>2, SystemBlockFound DEF ContextSystem, SystemOps
<1>3. ASSUME NEW i \in DOMAIN checks, checks[i].code = "ABORT",
             \A j \in 1 .. i - 1 : checks[j].holds
      PROVE  checks[i].holds
  <2>1. i = 3
    BY <1>1, <1>3
  <2> QED
    BY <1>1, <1>2, <1>3, <2>1
<1> QED
  BY <1>3 DEF Guarded

LEMMA NotifyComponentGuarded ==
  ASSUME Blocks, BlocksPlaced, BlocksHere, NEW s \in Statements
  PROVE  Guarded(NotifyComponentChecks(s))
<1> PICK checks : checks = NotifyComponentChecks(s)
  OBVIOUS
<1>1. /\ DOMAIN checks = 1 .. 7
      /\ checks[1].holds => Context(1).op \in {"SYSTEM_NOTIFY"}
      /\ ContextSystem # NoId => checks[6].holds
      /\ \A i \in {1, 2, 3, 4, 5, 7} : checks[i].code # "ABORT"
  <2> DEFINE k1 == InContext({"SYSTEM_NOTIFY"})
             k2 == AllowParams(s, {})
             k3 == Check(Context(1).arg = "", "NOTIFY_BLOCK_AND_COMPONENTS")
             k4 == Check(NamedComponentLike(s) # NoId, "UNKNOWN_COMPONENT_LIKE_TYPE")
             k5 == Check(s.arg \in NotifySettings, "INVALID_NOTIFY_SETTING")
             k6 == Check(ContextSystem # NoId, "ABORT")
             k7 == Check(NamedComponentLike(s) \notin DOMAIN SystemRecord(ContextSystem).notify_settings,
                         "DUPLICATE_NOTIFY_COMPONENT")
  <2>1. checks = <<k1, k2, k3, k4, k5, k6, k7>>
    BY DEF NotifyComponentChecks
  <2>2. (k1.holds => Context(1).op \in {"SYSTEM_NOTIFY"}) /\ k1.code # "ABORT"
    BY Zenon DEF InContext, Check
  <2>3. k2.code # "ABORT"
    BY DEF AllowParams, Check
  <2>4. ContextSystem # NoId => k6.holds
    BY Zenon DEF Check
  <2>5. k3.code # "ABORT" /\ k4.code # "ABORT" /\ k5.code # "ABORT" /\ k7.code # "ABORT"
    BY Zenon DEF Check
  <2> HIDE DEF k1, k2, k3, k4, k5, k6, k7
  <2> QED
    BY <2>1, <2>2, <2>3, <2>4, <2>5
<1>2. ASSUME Context(1).op \in {"SYSTEM_NOTIFY"}
      PROVE  ContextSystem # NoId
  <2>1. PICK n \in Nat : n = Len(context_stack) /\ DOMAIN context_stack = 1 .. n
    BY StackLength DEF Blocks
  <2>2. n \in DOMAIN context_stack /\ Context(1) = context_stack[n].s
    <3>1. n + 1 - 1 \in DOMAIN context_stack /\ Context(1) = context_stack[n + 1 - 1].s
      BY <1>2, <2>1, ContextFrame DEF Blocks
    <3> QED
      BY <2>1, <3>1
  <2>3. n - 1 \in DOMAIN context_stack /\ context_stack[n - 1].s.op \in SystemOps
    BY <1>2, <2>2 DEF BlocksPlaced, PlacedIn, NotifyPlaced
  <2>4. Context(2) = context_stack[n - 1].s
    <3>1. 2 <= n /\ n + 1 - 2 = n - 1
      BY <2>1, <2>3
    <3> QED
      BY <2>1, <3>1 DEF Context
  <2>5. ContextSystem = SystemLikeOf(Context(2))
    BY <1>2 DEF ContextSystem
  <2> QED
    BY <2>3, <2>4, <2>5, SystemBlockFound
<1>3. ASSUME NEW i \in DOMAIN checks, checks[i].code = "ABORT",
             \A j \in 1 .. i - 1 : checks[j].holds
      PROVE  checks[i].holds
  <2>1. i = 6
    BY <1>1, <1>3
  <2> QED
    BY <1>1, <1>2, <1>3, <2>1
<1> QED
  BY <1>3 DEF Guarded

LEMMA SystemComponentGuarded ==
  ASSUME Blocks, AssocsHaveFields, BlocksPlaced, BlocksHere, NamesOnce, NEW s \in Statements
  PROVE  Guarded(SystemComponentChecks(s))
<1> PICK comp, checks : comp = NamedComponentLike(s) /\ checks = SystemComponentChecks(s)
  OBVIOUS
<1> DEFINE asserts == ~InAssocBlock \/
             FindAssocsAsserts(ContextSystem, AssocComponent, Context(1).with)
           nested == Context(1).op \in {"SYSTEM_COMPONENT", "SYSTEM_WITH"}
           k1 == InContext({"SYSTEM", "ACTION", "SYSTEM_COMPONENT", "SYSTEM_WITH"})
           k2 == AllowParams(s, {})
           k3 == Check(comp # NoId, "UNKNOWN_COMPONENT_LIKE_TYPE")
           k4 == Check(ContextSystem # NoId, "INVALID_CONTEXT")
           k5 == Check(~(Context(1).op = "SYSTEM_COMPONENT" /\ s.with # <<>>), "NESTED_ASSOC")
           k6 == Check(~nested \/ AssocComponent # NoId, "INVALID_CONTEXT")
           k7 == Check(asserts, "ABORT")
           k8 == Check(~InAssocBlock \/ Cardinality(ContextAssocs) <= 1,
                       "SAME_FIELDS_SYSTEM_ASSOCIATION")
           k9 == Check(~NotifyStarted, "NOTIFY_BEFORE_SYSTEM_COMPONENT")
           own == <<k1, k2, k3, k4, k5, k6, k7, k8, k9>>
           with == WithChecks(comp, s.with)
<1>1. checks = own \o with
  BY DEF SystemComponentChecks
<1>2. k4.holds = (ContextSystem # NoId) /\ k7.holds = asserts
  <2>1. k4.holds = (ContextSystem # NoId)
    BY Zenon DEF Check
  <2>2. k7.holds = asserts
    BY Zenon DEF Check
  <2> QED
    BY <2>1, <2>2
<1>3. ContextSystem # NoId => asserts
  BY AssocBlockFound
<1>4. /\ k1.code # "ABORT" /\ k2.code # "ABORT" /\ k3.code # "ABORT" /\ k4.code # "ABORT"
      /\ k5.code # "ABORT" /\ k6.code # "ABORT" /\ k8.code # "ABORT" /\ k9.code # "ABORT"
  <2>1. k1.code = "INVALID_CONTEXT"
    BY Zenon DEF InContext, Check
  <2>2. k2.code # "ABORT"
    BY DEF AllowParams, Check
  <2>3. k3.code = "UNKNOWN_COMPONENT_LIKE_TYPE"
    BY Zenon DEF Check
  <2>4. k4.code = "INVALID_CONTEXT" /\ k6.code = "INVALID_CONTEXT"
    BY Zenon DEF Check
  <2>5. k5.code = "NESTED_ASSOC" /\ k8.code = "SAME_FIELDS_SYSTEM_ASSOCIATION"
    BY Zenon DEF Check
  <2>6. k9.code = "NOTIFY_BEFORE_SYSTEM_COMPONENT"
    BY Zenon DEF Check
  <2> HIDE DEF k1, k2, k3, k4, k5, k6, k7, k8, k9
  <2> QED
    BY <2>1, <2>2, <2>3, <2>4, <2>5, <2>6
<1> HIDE DEF k1, k2, k3, k4, k5, k6, k7, k8, k9
<1>5. own \in Seq(Range(own)) /\ DOMAIN own = 1 .. 9 /\ Len(own) = 9
  BY DEF Range
<1>6. /\ own[4] = k4 /\ own[7] = k7
      /\ \A i \in DOMAIN own : own[i].code = "ABORT" => i = 7
  BY <1>4
<1>7. Plain(with) /\ with \in Seq(Range(with)) /\ Len(with) \in Nat /\ DOMAIN with = 1 .. Len(with)
  BY PlainWith, StatementType, WithCheckCodes
<1> HIDE DEF own, with, asserts
<1>8. /\ DOMAIN checks = 1 .. 9 + Len(with)
      /\ \A i \in 1 .. 9 : checks[i] = own[i]
      /\ \A i \in DOMAIN checks : i > 9 => checks[i] = with[i - 9]
  <2>1. own \in Seq(Range(own) \cup Range(with)) /\ with \in Seq(Range(own) \cup Range(with))
    BY <1>5, <1>7
  <2>2. PICK m, S : m = Len(with) /\ m \in Nat /\ S = Range(own) \cup Range(with)
    BY <1>7
  <2>3. /\ Len(own \o with) = 9 + m /\ own \o with \in Seq(S)
        /\ \A i \in 1 .. 9 + m : (own \o with)[i] = IF i <= 9 THEN own[i] ELSE with[i - 9]
    <3>1. own \in Seq(S) /\ with \in Seq(S)
      BY <2>1, <2>2
    <3>2. /\ Len(own \o with) = Len(own) + Len(with) /\ own \o with \in Seq(S)
          /\ \A i \in 1 .. Len(own) + Len(with) :
               (own \o with)[i] = IF i <= Len(own) THEN own[i] ELSE with[i - Len(own)]
      BY <3>1, ConcatProperties
    <3> QED
      BY <1>5, <2>2, <3>2
  <2>4. DOMAIN checks = 1 .. 9 + m
    BY <1>1, <2>3
  <2>5. \A i \in 1 .. 9 + m : checks[i] = IF i <= 9 THEN own[i] ELSE with[i - 9]
    BY <1>1, <2>3
  <2>6. 1 .. 9 \subseteq 1 .. 9 + m
    BY <2>2
  <2> QED
    BY <2>2, <2>4, <2>5, <2>6
<1>9. ASSUME NEW i \in DOMAIN checks, checks[i].code = "ABORT",
             \A j \in 1 .. i - 1 : checks[j].holds
      PROVE  checks[i].holds
  <2>1. i <= 9
    <3>1. ASSUME i > 9
          PROVE  FALSE
      <4>1. i - 9 \in DOMAIN with /\ with[i - 9].code = "ABORT"
        BY <1>7, <1>8, <1>9, <3>1
      <4> QED
        BY <1>7, <4>1 DEF Plain, CodesOf
    <3> QED
      BY <1>7, <1>8, <3>1
  <2>2. i = 7
    BY <1>5, <1>6, <1>7, <1>8, <1>9, <2>1
  <2>3. k4.holds
    BY <1>6, <1>8, <1>9, <2>2
  <2>4. asserts
    BY <1>2, <1>3, <2>3
  <2>5. checks[i] = k7
    BY <1>6, <1>8, <2>2
  <2> QED
    BY <1>2, <2>4, <2>5
<1> QED
  BY <1>9 DEF Guarded

(* A statement ends with the code of a check that does not hold, or with   *)
(* that of its effect.                                                     *)
LEMMA EvalStatementEnds ==
  ASSUME Blocks, AssocsHaveFields, BlocksPlaced, BlocksHere, NamesOnce,
         NEW s \in Statements, EvalStatement(s)
  PROVE  result' # "ABORT"
<1>1. CASE EvalEmpty(s) \/ EvalPackageInBlock(s)
  BY <1>1, PlainDeclarations, RejectedPlain DEF EvalEmpty, EvalPackageInBlock
<1>2. CASE EvalImport(s)
  BY <1>2, PlainDeclarations, RejectedPlain DEF EvalImport, Finish
<1>3. CASE EvalComponent(s)
  BY <1>3, PlainDeclarations, RejectedPlain DEF EvalComponent, Finish
<1>4. CASE EvalTransient(s) \/ EvalEnum(s)
  BY <1>4, PlainDeclarations, RejectedPlain DEF EvalTransient, EvalEnum, Finish
<1>5. CASE EvalSystem(s) \/ EvalAction(s)
  <2>1. ASSUME NEW kind, NEW parent, NEW lazy, FinishSystemLike(s, kind, parent, lazy)
        PROVE  result' # "ABORT"
    BY <2>1 DEF FinishSystemLike, Finish
  <2> QED
    BY <1>5, <2>1, PlainDeclarations, RejectedPlain DEF EvalSystem, EvalAction
<1>6. CASE EvalEnumValue(s)
  BY <1>6, PlainDeclarations, RejectedPlain DEF EvalEnumValue, Finish
<1>7. CASE EvalBuiltinTypeField(s) \/ EvalUserTypeField(s)
  <2>1. ASSUME NEW type, FinishField(s, type)
        PROVE  result' # "ABORT"
    BY <2>1 DEF FinishField, Finish
  <2> QED
    BY <1>7, <2>1, PlainDeclarations, PlainBodies, RejectedPlain
    DEF EvalBuiltinTypeField, EvalUserTypeField
<1>8. CASE EvalSystemComponent(s)
  <2>1. Rejected(SystemComponentChecks(s)) => result' # "ABORT"
    BY SystemComponentGuarded, RejectedGuarded
  <2>2. ASSUME NEW ref, NEW assoc, NEW code, Finish(s, ref, assoc, code), code # "ABORT"
        PROVE  result' # "ABORT"
    BY <2>2 DEF Finish
  <2> QED
    BY <1>8, <2>1, <2>2 DEF EvalSystemComponent
<1>9. CASE EvalSystemWith(s)
  BY <1>9, PlainBodies, RejectedPlain DEF EvalSystemWith, Finish
<1>10. CASE EvalSystemGenerates(s)
  BY <1>10, PlainBodies, RejectedPlain DEF EvalSystemGenerates, Finish
<1>11. CASE EvalEntityConstraint(s)
  BY <1>11, PlainBodies, RejectedPlain DEF EvalEntityConstraint, Finish
<1>12. CASE EvalSystemNotify(s)
  BY <1>12, SystemNotifyGuarded, RejectedGuarded DEF EvalSystemNotify, Finish
<1>13. CASE EvalSystemNotifyComponent(s)
  BY <1>13, NotifyComponentGuarded, RejectedGuarded DEF EvalSystemNotifyComponent, Finish
<1> QED
  BY <1>1, <1>2, <1>3, <1>4, <1>5, <1>6, <1>7, <1>8, <1>9, <1>10, <1>11, <1>12, <1>13
  DEF EvalStatement

LEMMA NextEnds ==
  ASSUME Blocks, AssocsHaveFields, BlocksPlaced, BlocksHere, NamesOnce, Next
  PROVE  result' # "ABORT"
<1>1. CASE EvalPackageStatement \/ SelectPackage
  BY <1>1 DEF EvalPackageStatement, SelectPackage, Next
<1>2. CASE EndBlock
  <2>1. ASSUME Context(1).op = "ACTION"
        PROVE  SystemLikeOf(Context(1)) # NoId
    BY <2>1, SystemBlockFound DEF SystemOps
  <2> QED
    BY <1>2, <2>1 DEF EndBlock, Next
<1>3. ASSUME NEW s \in Statements, EvalStatement(s)
      PROVE  result' # "ABORT"
  BY <1>3, EvalStatementEnds
<1> QED
  BY <1>1, <1>2, <1>3 DEF Next

(* A step that ends the process leaves the client where it was.            *)
LEMMA AbortLeavesClient ==
  ASSUME Next, result' = "ABORT"
  PROVE  UNCHANGED client_vars
<1>1. CASE EvalPackageStatement \/ SelectPackage
  BY <1>1 DEF EvalPackageStatement, SelectPackage, Next
<1>2. CASE EndBlock
  BY <1>2 DEF EndBlock, client_vars
<1>3. ASSUME NEW s \in Statements, EvalStatement(s)
      PROVE  UNCHANGED client_vars
  BY <1>3 DEF EvalStatement, EvalEmpty, EvalPackageInBlock, EvalImport, EvalComponent,
     EvalTransient, EvalSystem, EvalAction, EvalEnum, EvalEnumValue, EvalBuiltinTypeField,
     EvalUserTypeField, EvalSystemComponent, EvalSystemWith, EvalSystemGenerates,
     EvalEntityConstraint, EvalSystemNotify, EvalSystemNotifyComponent, FinishField,
     FinishSystemLike, Finish, Rejected
<1> QED
  BY <1>1, <1>2, <1>3 DEF Next

LEMMA AbortsStep ==
  ASSUME Blocks, AssocsHaveFields, BlocksPlaced, AbortsExplained, [Next]_vars
  PROVE  AbortsExplained'
<1>1. CASE UNCHANGED vars
  BY <1>1 DEF vars, client_vars, AbortsExplained, BlocksHere
<1>2. ASSUME Next, result' = "ABORT"
      PROVE  AbortsExplained'
  <2>1. UNCHANGED <<package_id, context_stack>>
    BY <1>2, AbortLeavesClient DEF client_vars
  <2>2. ~BlocksHere \/ ~NamesOnce
    BY <1>2, NextEnds
  <2> QED
    BY <2>1, <2>2 DEF AbortsExplained, BlocksHere, NamesOnce
<1> QED
  BY <1>1, <1>2 DEF AbortsExplained

LEMMA PlacedInit == Init => DistinctIds /\ AssocsHaveFields /\ BlocksPlaced /\ AbortsExplained
BY DEF Init, RuntimeInit, AssocInit, EmptyMap, DistinctIds, AssocList, AssocsHaveFields,
       BlocksPlaced, AbortsExplained

(* When no with list names a field twice, the block of an associating      *)
(* statement finds the association that its own statement added, by the    *)
(* component and the field names of the block alone, in the package it was *)
(* opened in: fields are not removed and names find the fields they found  *)
(* (FieldsNamedStay), so the association a block was opened with keeps     *)
(* matching its with list.  Without the hypothesis the claim is false (the *)
(* run doc_repeated_field).                                                *)
THEOREM OwnAssociations ==
  ASSUME FieldsNamedOnce
  PROVE  Spec => []OwnAssociationFound
<1>1. Blocks => NamesOnce
  <2>1. SUFFICES ASSUME Blocks, NEW i \in DOMAIN context_stack
                 PROVE  ~NamesTwice(context_stack[i].s.with)
    BY DEF NamesOnce
  <2>2. context_stack[i] \in FrameType
    BY <2>1, StackLength DEF Blocks
  <2>3. context_stack[i].s \in Statements
    BY <2>2 DEF FrameType
  <2> QED
    BY <2>3 DEF FieldsNamedOnce, NamesTwice
<1>2. Blocks /\ AssocsHaveFields /\ BlocksPlaced => OwnAssociationFound
  BY <1>1, AssocBlockFound DEF OwnAssociationFound
<1> QED
  BY <1>2, PlacedInit, BlocksInit, BlocksNext, DistinctIdsNext, AssocsHaveFieldsNext,
     BlocksPlacedNext, PTL DEF Spec

(* Whatever calls a client makes, an evaluation ends the process only when *)
(* a with list of an open block names a field twice or an open block is of *)
(* another package than the client is in.  Otherwise the two assertions of *)
(* find_assoc_ids_with_fields hold in every block, and the notify handlers *)
(* and the check at the end of an action, which dereference the system     *)
(* they look up without a test, find it.                                   *)
THEOREM AbortsAreExplained == Spec => []AbortsExplained
<1>1. Blocks /\ AssocsHaveFields /\ BlocksPlaced /\ AbortsExplained /\ [Next]_vars
        => AbortsExplained'
  BY AbortsStep
<1> QED
  BY <1>1, PlacedInit, BlocksInit, BlocksNext, DistinctIdsNext, AssocsHaveFieldsNext,
     BlocksPlacedNext, PTL DEF Spec
=============================================================================
