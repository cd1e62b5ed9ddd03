--------------------------- MODULE EvaluatorProofs ---------------------------
(***************************************************************************)
(* Lemmas about the containers; that every operation of the dynamic API    *)
(* keeps the runtime's types and only ever adds declarations; and that     *)
(* what a lookup by name finds is of the kind it searches for, and finding *)
(* nothing means that nothing has the name.                                *)
(*                                                                         *)
(* Then the evaluator keeps its types, the names of a package are unique,  *)
(* an error leaves the store as it was, and open blocks find their own     *)
(* declarations, for every set of statements and packages and every bound. *)
(***************************************************************************)
EXTENDS EvaluatorProps, SequenceTheorems, WellFoundedInduction, TLAPS

(* Maps: Put gives the key its value, keeps the others, and extends the    *)
(* type of the map.                                                        *)
LEMMA PutProperties ==
  ASSUME NEW f, NEW k, NEW v
  PROVE  /\ DOMAIN Put(f, k, v) = DOMAIN f \cup {k}
         /\ Put(f, k, v)[k] = v
         /\ \A x \in DOMAIN f \ {k} : Put(f, k, v)[x] = f[x]
BY DEF Put

LEMMA PutType ==
  ASSUME NEW D, NEW V, NEW f \in [D -> V], NEW k, NEW v \in V
  PROVE  Put(f, k, v) \in [D \cup {k} -> V]
BY DEF Put

LEMMA PutIsMap ==
  ASSUME NEW K, NEW V, NEW f, IsMap(f, K, V), NEW k \in K, NEW v \in V
  PROVE  IsMap(Put(f, k, v), K, V)
BY DEF Put, IsMap

LEMMA EmptyIsMap ==
  ASSUME NEW K, NEW V
  PROVE  IsMap(EmptyMap, K, V) /\ DOMAIN EmptyMap = {}
BY DEF EmptyMap, IsMap

LEMMA IsMapMono ==
  ASSUME NEW K, NEW L, NEW V, K \subseteq L, NEW f, IsMap(f, K, V)
  PROVE  IsMap(f, L, V)
BY DEF IsMap

LEMMA SeqMono ==
  ASSUME NEW S, NEW T, S \subseteq T
  PROVE  Seq(S) \subseteq Seq(T)
BY SeqMonotonic

-----------------------------------------------------------------------------
(* What an operation leaves true of what was there before it.              *)
Grows ==
  /\ last_id <= last_id'
  /\ Packages \subseteq Packages'
  /\ DOMAIN defs \subseteq DOMAIN defs'
  /\ \A d \in DOMAIN defs : defs'[d] = defs[d]

LEMMA GrowsSets ==
  ASSUME RuntimeTypeOK, Grows, last_id' \in Int
  PROVE  /\ Issued \subseteq Issued'
         /\ Packages \subseteq Packages'
         /\ \A kinds : KindIds(kinds) \subseteq KindIds(kinds)'
BY DEF RuntimeTypeOK, Grows, Issued, KindIds

(* A type of the runtime that mentions ids keeps its members as ids grow.  *)
LEMMA SystemLikeMono ==
  ASSUME RuntimeTypeOK, Grows, last_id' \in Int, NEW r, IsSystemLike(r)
  PROVE  IsSystemLike(r)'
<1> DEFINE LikeIds == KindIds(SystemLikes)
<1>1. /\ Issued \subseteq Issued'
      /\ KindIds(ComponentLikes) \subseteq KindIds(ComponentLikes)'
      /\ KindIds(SystemLikes) \subseteq KindIds(SystemLikes)'
      /\ KindIds({"component"}) \subseteq KindIds({"component"})'
  BY GrowsSets
<1>2. Seq(LikeIds) \subseteq Seq(LikeIds')
  BY <1>1, SeqMono
<1>3. IsCapabilities(r.caps)' /\ IsCapabilities(r.notify_settings)'
  BY <1>1, IsMapMono DEF IsSystemLike, IsCapabilities
<1>4. \A g \in DOMAIN r.generates :
        IsMap(r.generates[g], KindIds({"component"})', STRING)
  BY <1>1, IsMapMono DEF IsSystemLike
<1>5. DOMAIN r.generates \subseteq Issued'
  BY <1>1 DEF IsSystemLike
<1>6. r \in [caps : {r.caps}, generates : {r.generates},
             notify_settings : {r.notify_settings},
             parent_system_id : LikeIds' \cup {NoId},
             nested_systems : Seq(LikeIds'),
             parallel_execution : Executions, lazy_iteration_rate : Nat]
  BY <1>1, <1>2 DEF IsSystemLike
<1> QED
  BY <1>3, <1>4, <1>5, <1>6 DEF IsSystemLike

LEMMA PackageDefMono ==
  ASSUME RuntimeTypeOK, Grows, last_id' \in Int
  PROVE  PackageDef \subseteq PackageDef'
<1>1. /\ KindIds(SystemLikes) \subseteq KindIds(SystemLikes)'
      /\ Packages \subseteq Packages'
  BY GrowsSets
<1>2. /\ Seq(KindIds(SystemLikes)) \subseteq Seq(KindIds(SystemLikes)')
      /\ Seq(Packages) \subseteq Seq(Packages')
  BY <1>1, SeqMono
<1> QED
  BY <1>2 DEF PackageDef

LEMMA DefMono == ASSUME Grows PROVE Def \subseteq Def'
BY DEF Grows, Def

LEMMA FieldMono ==
  ASSUME RuntimeTypeOK, Grows, last_id' \in Int
  PROVE  Field \subseteq Field' /\ Seq(Field) \subseteq Seq(Field')
<1>1. Issued \subseteq Issued'
  BY GrowsSets
<1>2. FieldType \subseteq FieldType'
  BY <1>1 DEF FieldType
<1>3. Field \subseteq Field'
  BY <1>2 DEF Field
<1> QED
  BY <1>3, SeqMono

-----------------------------------------------------------------------------
(* An unchanged part of the store keeps its type as ids grow.              *)
LEMMA PackagesKept ==
  ASSUME RuntimeTypeOK, Grows, last_id' \in Int, UNCHANGED package_defs
  PROVE  /\ package_defs' \in [Packages' -> PackageDef'] /\ Packages' \subseteq Issued'
         /\ Packages' = Packages
<1>1. PackageDef \subseteq PackageDef'
  BY PackageDefMono
<1>2. Issued \subseteq Issued'
  BY GrowsSets
<1>3. package_defs' \in [Packages -> PackageDef'] /\ Packages' = Packages
  BY <1>1 DEF RuntimeTypeOK, Packages
<1> QED
  BY <1>2, <1>3 DEF RuntimeTypeOK

LEMMA SystemLikesKept ==
  ASSUME RuntimeTypeOK, Grows, last_id' \in Int,
         NEW s \in DOMAIN system_likes, system_likes'[s] = system_likes[s]
  PROVE  IsSystemLike(system_likes[s])' 
<1>1. IsSystemLike(system_likes[s])
  BY DEF RuntimeTypeOK
<1> DEFINE r == system_likes[s]
<1>2. \A q : IsSystemLike(q) => IsSystemLike(q)'
  BY SystemLikeMono
<1> QED
  BY <1>1, <1>2

(* A new declaration: the counter grows, and the id joins its kind.        *)
LEMMA NewDefType ==
  ASSUME RuntimeTypeOK, Packages \subseteq Packages',
         NEW kind \in Kinds, NEW owner \in Packages, NEW name \in STRING,
         NEW comp_type \in ComponentTypes,
         NewDef(kind, owner, name, comp_type)
  PROVE  /\ Grows
         /\ last_id' \in 0 .. MaxId /\ last_id' \in Int
         /\ last_id \in Issued' /\ last_id \notin DOMAIN defs
         /\ defs' \in [DOMAIN defs' -> Def'] /\ DOMAIN defs' \subseteq Issued'
         /\ DOMAIN defs' = DOMAIN defs \cup {last_id}
         /\ defs'[last_id] = [kind |-> kind, owner |-> owner, name |-> name,
                              comp_type |-> comp_type]
         /\ \A kinds : KindIds(kinds)' =
              IF kind \in kinds THEN KindIds(kinds) \cup {last_id} ELSE KindIds(kinds)
<1> DEFINE new == [kind |-> kind, owner |-> owner, name |-> name, comp_type |-> comp_type]
<1>1. /\ last_id \in 0 .. MaxId
      /\ last_id < MaxId /\ last_id' = last_id + 1
      /\ defs' = Put(defs, last_id, new)
      /\ defs \in [DOMAIN defs -> Def] /\ DOMAIN defs \subseteq 0 .. last_id - 1
  BY MaxIdAssumption DEF RuntimeTypeOK, NewDef, NextId, Issued
<1>2. /\ last_id' \in 0 .. MaxId /\ last_id' \in Int
      /\ last_id \in Issued' /\ last_id \notin DOMAIN defs
  BY <1>1, MaxIdAssumption DEF Issued
<1>3. /\ DOMAIN defs' = DOMAIN defs \cup {last_id}
      /\ defs'[last_id] = new
      /\ \A d \in DOMAIN defs : defs'[d] = defs[d]
  <2>1. \A v : LET f == Put(defs, last_id, v)
              IN /\ DOMAIN f = DOMAIN defs \cup {last_id}
                 /\ f[last_id] = v
                 /\ \A d \in DOMAIN defs : f[d] = defs[d]
    BY <1>2 DEF Put
  <2> QED
    BY <1>1, <2>1
<1>4. Grows
  BY <1>1, <1>3 DEF Grows
<1>5. Def \subseteq Def'
  BY <1>4, DefMono
<1>6. new \in Def'
  BY DEF Def
<1>7. defs' \in [DOMAIN defs' -> Def']
  <2>1. defs \in [DOMAIN defs -> Def']
    BY <1>1, <1>5
  <2>2. \A v \in Def' : Put(defs, last_id, v) \in [DOMAIN defs \cup {last_id} -> Def']
    BY <2>1, PutType
  <2> QED
    BY <1>1, <1>3, <1>6, <2>2
<1>8. DOMAIN defs' \subseteq Issued'
  BY <1>1, <1>3 DEF Issued
<1>9. ASSUME NEW kinds
      PROVE  KindIds(kinds)' =
               IF kind \in kinds THEN KindIds(kinds) \cup {last_id} ELSE KindIds(kinds)
  BY <1>2, <1>3 DEF KindIds
<1> QED
  BY <1>2, <1>3, <1>4, <1>7, <1>8, <1>9

(* Creating a package.                                                     *)
LEMMA CreatePackageType ==
  ASSUME RuntimeTypeOK, NEW name \in Seq(STRING) \ {<<>>}, NEW main,
         CreatePackage(name, main)
  PROVE  RuntimeTypeOK' /\ Grows /\ last_id \in Packages'
<1> DEFINE new == [name |-> name, dependencies |-> <<>>, top_level_systems |-> <<>>]
<1>1. /\ last_id \in 0 .. MaxId
      /\ last_id < MaxId /\ last_id' = last_id + 1
      /\ package_defs' = Put(package_defs, last_id, new)
      /\ UNCHANGED <<defs, full_names, fields, enum_values, system_likes>>
      /\ main_package_id' = IF main THEN last_id ELSE main_package_id
  BY MaxIdAssumption DEF RuntimeTypeOK, CreatePackage, NextId
<1>2. Packages' = Packages \cup {last_id}
  BY <1>1, PutProperties DEF Packages
<1>3. Grows /\ last_id' \in Int
  BY <1>1, <1>2 DEF Grows
<1>4. \A kinds : KindIds(kinds)' = KindIds(kinds)
  BY <1>1 DEF KindIds
<1>5. Issued \subseteq Issued' /\ last_id \in Issued'
  BY <1>1 DEF Issued
<1>6. new \in PackageDef'
  BY DEF PackageDef
<1>7. package_defs' \in [Packages' -> PackageDef'] /\ Packages' \subseteq Issued'
  <2>1. PackageDef \subseteq PackageDef'
    BY <1>3, PackageDefMono
  <2>2. package_defs \in [Packages -> PackageDef']
    BY <2>1 DEF RuntimeTypeOK
  <2> QED
    BY <1>1, <1>2, <1>5, <1>6, <2>2, PutType DEF RuntimeTypeOK
<1>8. main_package_id' \in Packages' \cup {NoId}
  BY <1>1, <1>2 DEF RuntimeTypeOK
<1>9. defs' \in [DOMAIN defs' -> Def'] /\ DOMAIN defs' \subseteq Issued'
  BY <1>1, <1>3, <1>5, DefMono DEF RuntimeTypeOK
<1>10. fields' \in [KindIds(Composites)' -> Seq(Field')]
  BY <1>1, <1>3, <1>4, FieldMono DEF RuntimeTypeOK
<1>11. /\ full_names' \in [KindIds(DeclKinds)' -> Seq(STRING)]
       /\ enum_values' \in [KindIds({"enum"})' -> Seq(EnumValue)]
       /\ DOMAIN system_likes' = KindIds(SystemLikes)'
  BY <1>1, <1>4 DEF RuntimeTypeOK
<1>12. \A s \in DOMAIN system_likes' : IsSystemLike(system_likes[s])'
  BY <1>1, <1>3, SystemLikesKept
<1>13. last_id' \in 0 .. MaxId
  BY <1>1, MaxIdAssumption
<1> QED
  BY <1>2, <1>3, <1>7, <1>8, <1>9, <1>10, <1>11, <1>12, <1>13 DEF RuntimeTypeOK, EnumValue

(* An operation that creates nothing leaves every type as it is.           *)
LEMMA TypesKept ==
  ASSUME RuntimeTypeOK, UNCHANGED <<last_id, defs>>, Packages' = Packages
  PROVE  /\ Grows /\ last_id' \in Int
         /\ Issued' = Issued /\ PackageDef' = PackageDef /\ Def' = Def
         /\ Field' = Field /\ EnumValue' = EnumValue
         /\ \A kinds : KindIds(kinds)' = KindIds(kinds)
<1>1. Grows /\ last_id' \in Int
  BY DEF Grows, RuntimeTypeOK
<1>2. \A kinds : KindIds(kinds)' = KindIds(kinds)
  BY DEF KindIds
<1>3. Issued' = Issued
  BY DEF Issued
<1>4. PackageDef' = PackageDef
  BY <1>2 DEF PackageDef
<1>5. Def' = Def
  BY DEF Def
<1>6. Field' = Field
  BY <1>3 DEF Field, FieldType
<1> QED
  BY <1>1, <1>2, <1>3, <1>4, <1>5, <1>6 DEF EnumValue

LEMMA OnlyPackagesType ==
  ASSUME RuntimeTypeOK, package_defs' \in [Packages -> PackageDef],
         UNCHANGED <<last_id, main_package_id, defs, full_names, fields,
                     enum_values, system_likes>>
  PROVE  RuntimeTypeOK' /\ Grows
<1>1. Packages' = Packages
  BY DEF Packages
<1>2. /\ Grows /\ last_id' \in Int
      /\ Issued' = Issued /\ PackageDef' = PackageDef /\ Def' = Def
      /\ Field' = Field /\ EnumValue' = EnumValue
      /\ \A kinds : KindIds(kinds)' = KindIds(kinds)
  BY <1>1, TypesKept
<1>3. \A s \in DOMAIN system_likes' : IsSystemLike(system_likes[s])'
  BY <1>2, SystemLikesKept
<1> QED
  BY <1>1, <1>2, <1>3 DEF RuntimeTypeOK

LEMMA RuntimeUnchanged ==
  ASSUME RuntimeTypeOK, UNCHANGED runtime_vars
  PROVE  RuntimeTypeOK' /\ Grows
<1>1. package_defs \in [Packages -> PackageDef]
  BY DEF RuntimeTypeOK
<1> QED
  BY <1>1, OnlyPackagesType DEF runtime_vars

LEMMA AddDependencyType ==
  ASSUME RuntimeTypeOK, NEW target \in Packages, NEW dependency \in Packages,
         AddDependency(target, dependency)
  PROVE  RuntimeTypeOK' /\ Grows
<1>1. package_defs \in [Packages -> PackageDef]
  BY DEF RuntimeTypeOK
<1>2. Append(package_defs[target].dependencies, dependency) \in Seq(Packages)
  BY <1>1 DEF PackageDef
<1>3. package_defs' \in [Packages -> PackageDef]
  BY <1>1, <1>2 DEF AddDependency, PackageDef
<1> QED
  BY <1>3, OnlyPackagesType DEF AddDependency

LEMMA CreateComponentLikeType ==
  ASSUME RuntimeTypeOK, NEW kind \in ComponentLikes, NEW owner \in Packages,
         NEW name \in STRING, NEW comp_type \in ComponentTypes,
         CreateComponentLike(kind, owner, name, comp_type)
  PROVE  RuntimeTypeOK' /\ Grows /\ last_id \in Issued'
<1>1. /\ NewDef(kind, owner, name, comp_type)
      /\ full_names' = Put(full_names, last_id, Append(package_defs[owner].name, name))
      /\ fields' = Put(fields, last_id, <<>>)
      /\ UNCHANGED <<package_defs, main_package_id, enum_values, system_likes>>
  BY DEF CreateComponentLike
<1>2. kind \in Kinds /\ Packages' = Packages
  BY <1>1 DEF Kinds, DeclKinds, Packages
<1>3. /\ Grows /\ last_id' \in 0 .. MaxId /\ last_id' \in Int
      /\ last_id \in Issued'
      /\ defs' \in [DOMAIN defs' -> Def'] /\ DOMAIN defs' \subseteq Issued'
      /\ \A kinds : KindIds(kinds)' =
           IF kind \in kinds THEN KindIds(kinds) \cup {last_id} ELSE KindIds(kinds)
  BY <1>1, <1>2, NewDefType
<1>4. /\ KindIds(DeclKinds)' = KindIds(DeclKinds) \cup {last_id}
      /\ KindIds(Composites)' = KindIds(Composites) \cup {last_id}
      /\ KindIds(SystemLikes)' = KindIds(SystemLikes)
      /\ KindIds({"enum"})' = KindIds({"enum"})
  BY <1>3 DEF DeclKinds, Composites, ComponentLikes, SystemLikes
<1>5. package_defs' \in [Packages' -> PackageDef'] /\ Packages' \subseteq Issued'
  BY <1>1, <1>3, PackagesKept
<1>6. full_names' \in [KindIds(DeclKinds)' -> Seq(STRING)]
  <2>1. Append(package_defs[owner].name, name) \in Seq(STRING)
    BY DEF RuntimeTypeOK, PackageDef
  <2>2. full_names \in [KindIds(DeclKinds) -> Seq(STRING)]
    BY DEF RuntimeTypeOK
  <2>3. Put(full_names, last_id, Append(package_defs[owner].name, name))
          \in [KindIds(DeclKinds) \cup {last_id} -> Seq(STRING)]
    BY <2>1, <2>2, PutType
  <2> QED
    BY <1>1, <1>4, <2>3
<1>7. fields' \in [KindIds(Composites)' -> Seq(Field')]
  <2>1. fields \in [KindIds(Composites) -> Seq(Field')]
    BY <1>3, FieldMono DEF RuntimeTypeOK
  <2>2. <<>> \in Seq(Field')
    BY EmptySeq
  <2>3. Put(fields, last_id, <<>>)
          \in [KindIds(Composites) \cup {last_id} -> Seq(Field')]
    BY <2>1, <2>2, PutType
  <2> QED
    BY <1>1, <1>4, <2>3
<1>8. \A s \in DOMAIN system_likes' : IsSystemLike(system_likes[s])'
  BY <1>1, <1>3, SystemLikesKept
<1>9. /\ main_package_id' \in Packages' \cup {NoId}
      /\ enum_values' \in [KindIds({"enum"})' -> Seq(EnumValue')]
      /\ DOMAIN system_likes' = KindIds(SystemLikes)'
  BY <1>1, <1>2, <1>4 DEF RuntimeTypeOK, EnumValue
<1> QED
  BY <1>3, <1>5, <1>6, <1>7, <1>8, <1>9 DEF RuntimeTypeOK

LEMMA CreateEnumType ==
  ASSUME RuntimeTypeOK, NEW owner \in Packages, NEW name \in STRING,
         CreateEnum(owner, name)
  PROVE  RuntimeTypeOK' /\ Grows /\ last_id \in Issued'
<1>1. /\ NewDef("enum", owner, name, "NONE")
      /\ enum_values' = Put(enum_values, last_id, <<>>)
      /\ UNCHANGED <<package_defs, main_package_id, full_names, fields, system_likes>>
  BY DEF CreateEnum
<1>2. "enum" \in Kinds /\ "NONE" \in ComponentTypes /\ Packages' = Packages
  BY <1>1 DEF Kinds, Packages, ComponentTypes
<1>3. /\ Grows /\ last_id' \in 0 .. MaxId /\ last_id' \in Int
      /\ last_id \in Issued'
      /\ defs' \in [DOMAIN defs' -> Def'] /\ DOMAIN defs' \subseteq Issued'
      /\ \A kinds : KindIds(kinds)' =
           IF "enum" \in kinds THEN KindIds(kinds) \cup {last_id} ELSE KindIds(kinds)
  BY <1>1, <1>2, NewDefType
<1>4. /\ KindIds(DeclKinds)' = KindIds(DeclKinds)
      /\ KindIds(Composites)' = KindIds(Composites)
      /\ KindIds(SystemLikes)' = KindIds(SystemLikes)
      /\ KindIds({"enum"})' = KindIds({"enum"}) \cup {last_id}
  BY <1>3 DEF DeclKinds, Composites, ComponentLikes, SystemLikes
<1>5. package_defs' \in [Packages' -> PackageDef'] /\ Packages' \subseteq Issued'
  BY <1>1, <1>3, PackagesKept
<1>6. enum_values' \in [KindIds({"enum"})' -> Seq(EnumValue')]
  <2>1. enum_values \in [KindIds({"enum"}) -> Seq(EnumValue')]
    BY DEF RuntimeTypeOK, EnumValue
  <2>2. <<>> \in Seq(EnumValue')
    BY EmptySeq
  <2>3. Put(enum_values, last_id, <<>>)
          \in [KindIds({"enum"}) \cup {last_id} -> Seq(EnumValue')]
    BY <2>1, <2>2, PutType
  <2> QED
    BY <1>1, <1>4, <2>3
<1>7. fields' \in [KindIds(Composites)' -> Seq(Field')]
  BY <1>1, <1>3, <1>4, FieldMono DEF RuntimeTypeOK
<1>8. \A s \in DOMAIN system_likes' : IsSystemLike(system_likes[s])'
  BY <1>1, <1>3, SystemLikesKept
<1>9. /\ main_package_id' \in Packages' \cup {NoId}
      /\ full_names' \in [KindIds(DeclKinds)' -> Seq(STRING)]
      /\ DOMAIN system_likes' = KindIds(SystemLikes)'
  BY <1>1, <1>2, <1>4 DEF RuntimeTypeOK
<1> QED
  BY <1>3, <1>5, <1>6, <1>7, <1>8, <1>9 DEF RuntimeTypeOK

LEMMA AddEnumValueType ==
  ASSUME RuntimeTypeOK, NEW e \in KindIds({"enum"}), NEW name \in STRING,
         NEW value \in STRING, AddEnumValue(e, name, value)
  PROVE  RuntimeTypeOK' /\ Grows
<1>1. /\ UNCHANGED <<last_id, package_defs, main_package_id, defs, full_names,
                     fields, system_likes>>
      /\ enum_values' =
           [enum_values EXCEPT ![e] = Append(@, [name |-> name, value |-> value])]
      /\ Packages' = Packages
  BY DEF AddEnumValue, Packages
<1>2. /\ Grows /\ last_id' \in Int
      /\ Issued' = Issued /\ PackageDef' = PackageDef /\ Def' = Def
      /\ Field' = Field /\ EnumValue' = EnumValue
      /\ \A kinds : KindIds(kinds)' = KindIds(kinds)
  BY <1>1, TypesKept
<1>3. \A s \in DOMAIN system_likes' : IsSystemLike(system_likes[s])'
  BY <1>1, <1>2, SystemLikesKept
<1>4. enum_values' \in [KindIds({"enum"}) -> Seq(EnumValue)]
  <2>1. enum_values \in [KindIds({"enum"}) -> Seq(EnumValue)]
    BY DEF RuntimeTypeOK
  <2>2. Append(enum_values[e], [name |-> name, value |-> value]) \in Seq(EnumValue)
    BY <2>1 DEF EnumValue
  <2> QED
    BY <1>1, <2>1, <2>2
<1> QED
  BY <1>1, <1>2, <1>3, <1>4 DEF RuntimeTypeOK

LEMMA AddFieldType ==
  ASSUME RuntimeTypeOK, NEW c \in KindIds(Composites), NEW name \in STRING,
         NEW type \in FieldType, AddField(c, name, type)
  PROVE  RuntimeTypeOK' /\ Grows
<1>1. /\ UNCHANGED <<last_id, package_defs, main_package_id, defs, full_names,
                     enum_values, system_likes>>
      /\ fields' = [fields EXCEPT ![c] = Append(@, [name |-> name, type |-> type])]
      /\ Packages' = Packages
  BY DEF AddField, Packages
<1>2. /\ Grows /\ last_id' \in Int
      /\ Issued' = Issued /\ PackageDef' = PackageDef /\ Def' = Def
      /\ Field' = Field /\ EnumValue' = EnumValue
      /\ \A kinds : KindIds(kinds)' = KindIds(kinds)
  BY <1>1, TypesKept
<1>3. \A s \in DOMAIN system_likes' : IsSystemLike(system_likes[s])'
  BY <1>1, <1>2, SystemLikesKept
<1>4. fields' \in [KindIds(Composites) -> Seq(Field)]
  <2>1. fields \in [KindIds(Composites) -> Seq(Field)]
    BY DEF RuntimeTypeOK
  <2>2. [name |-> name, type |-> type] \in Field
    BY DEF Field
  <2>3. Append(fields[c], [name |-> name, type |-> type]) \in Seq(Field)
    BY <2>1, <2>2, AppendProperties
  <2> QED
    BY <1>1, <2>1, <2>3
<1> QED
  BY <1>1, <1>2, <1>3, <1>4 DEF RuntimeTypeOK

-----------------------------------------------------------------------------
(* The operations on one system-like.                                      *)
LEMMA OneSystemLikeType ==
  ASSUME RuntimeTypeOK, OnlySystemLikes,
         last_id <= last_id', last_id' \in 0 .. MaxId,
         NEW s \in DOMAIN system_likes, NEW r,
         system_likes' = [system_likes EXCEPT ![s] = r],
         IsSystemLike(r)'
  PROVE  RuntimeTypeOK' /\ Grows
<1>1. /\ UNCHANGED <<package_defs, main_package_id, defs, full_names, fields, enum_values>>
      /\ Packages' = Packages
  BY DEF OnlySystemLikes, Packages
<1>2. Grows /\ last_id' \in Int
  BY <1>1, MaxIdAssumption DEF Grows
<1>3. \A kinds : KindIds(kinds)' = KindIds(kinds)
  BY <1>1 DEF KindIds
<1>4. /\ DOMAIN system_likes' = DOMAIN system_likes
      /\ system_likes'[s] = r
      /\ \A t \in DOMAIN system_likes \ {s} : system_likes'[t] = system_likes[t]
  OBVIOUS
<1>5. ASSUME NEW t \in DOMAIN system_likes'
      PROVE  IsSystemLike(system_likes[t])'
  <2>1. CASE t = s
    BY <1>4, <2>1
  <2>2. CASE t # s
    BY <1>2, <1>4, <2>2, SystemLikesKept
  <2> QED
    BY <2>1, <2>2
<1>6. package_defs' \in [Packages' -> PackageDef'] /\ Packages' \subseteq Issued'
  BY <1>1, <1>2, PackagesKept
<1>7. Issued \subseteq Issued'
  BY <1>2, GrowsSets
<1>8. defs' \in [DOMAIN defs' -> Def'] /\ DOMAIN defs' \subseteq Issued'
  BY <1>1, <1>2, <1>7, DefMono DEF RuntimeTypeOK
<1>9. fields' \in [KindIds(Composites)' -> Seq(Field')]
  BY <1>1, <1>2, <1>3, FieldMono DEF RuntimeTypeOK
<1>10. /\ full_names' \in [KindIds(DeclKinds)' -> Seq(STRING)]
       /\ enum_values' \in [KindIds({"enum"})' -> Seq(EnumValue')]
       /\ DOMAIN system_likes' = KindIds(SystemLikes)'
       /\ main_package_id' \in Packages' \cup {NoId}
  BY <1>1, <1>3, <1>4 DEF RuntimeTypeOK, EnumValue
<1> QED
  BY <1>2, <1>5, <1>6, <1>8, <1>9, <1>10 DEF RuntimeTypeOK

LEMMA SetSystemCapabilityType ==
  ASSUME RuntimeTypeOK, NEW s \in KindIds(SystemLikes),
         NEW c \in KindIds(ComponentLikes), NEW cap \in STRING,
         SetSystemCapability(s, c, cap)
  PROVE  RuntimeTypeOK' /\ Grows
<1> PICK r : r = [system_likes[s] EXCEPT !.caps = Put(@, c, cap)]
  OBVIOUS
<1>1. /\ s \in DOMAIN system_likes /\ IsSystemLike(system_likes[s])
      /\ last_id' = last_id /\ last_id \in Nat
      /\ last_id <= last_id' /\ last_id' \in 0 .. MaxId
      /\ system_likes' = [system_likes EXCEPT ![s] = r]
      /\ OnlySystemLikes
  BY MaxIdAssumption DEF RuntimeTypeOK, SetSystemCapability
<1>2. Grows /\ last_id' \in Int
  BY <1>1, MaxIdAssumption DEF OnlySystemLikes, Grows, Packages
<1>3. IsSystemLike(r)
  <2>1. IsMap(Put(system_likes[s].caps, c, cap), KindIds(ComponentLikes), STRING)
    BY <1>1, PutIsMap DEF IsSystemLike, IsCapabilities
  <2> QED
    BY <1>1, <2>1 DEF IsSystemLike, IsCapabilities
<1>4. IsSystemLike(r)'
  BY <1>2, <1>3, SystemLikeMono
<1> QED
  BY <1>1, <1>4, OneSystemLikeType

LEMMA SetNotifySettingsType ==
  ASSUME RuntimeTypeOK, NEW s \in KindIds(SystemLikes),
         NEW comps \in SUBSET KindIds(ComponentLikes), NEW setting \in STRING,
         SetNotifySettings(s, comps, setting)
  PROVE  RuntimeTypeOK' /\ Grows
<1> PICK r : r = [system_likes[s] EXCEPT !.notify_settings =
           [c \in DOMAIN @ \cup comps |-> IF c \in comps THEN setting ELSE @[c]]]
  OBVIOUS
<1>1. /\ s \in DOMAIN system_likes /\ IsSystemLike(system_likes[s])
      /\ last_id' = last_id /\ last_id \in Nat
      /\ last_id <= last_id' /\ last_id' \in 0 .. MaxId
      /\ system_likes' = [system_likes EXCEPT ![s] = r]
      /\ OnlySystemLikes
  BY MaxIdAssumption DEF RuntimeTypeOK, SetNotifySettings
<1>2. Grows /\ last_id' \in Int
  BY <1>1, MaxIdAssumption DEF OnlySystemLikes, Grows, Packages
<1>3. IsSystemLike(r)
  <2> DEFINE old == system_likes[s].notify_settings
             new == [c \in DOMAIN old \cup comps |-> IF c \in comps THEN setting ELSE old[c]]
  <2>1. IsMap(new, KindIds(ComponentLikes), STRING)
    BY <1>1 DEF IsSystemLike, IsCapabilities, IsMap
  <2> QED
    BY <1>1, <2>1 DEF IsSystemLike, IsCapabilities
<1>4. IsSystemLike(r)'
  BY <1>2, <1>3, SystemLikeMono
<1> QED
  BY <1>1, <1>4, OneSystemLikeType

LEMMA SystemGeneratesSetComponentType ==
  ASSUME RuntimeTypeOK, NEW s \in KindIds(SystemLikes),
         NEW gen \in DOMAIN system_likes[s].generates,
         NEW c \in KindIds({"component"}), NEW flag \in STRING,
         SystemGeneratesSetComponent(s, gen, c, flag)
  PROVE  RuntimeTypeOK' /\ Grows
<1> PICK r : r = [system_likes[s] EXCEPT !.generates[gen] = Put(@, c, flag)]
  OBVIOUS
<1>1. /\ s \in DOMAIN system_likes /\ IsSystemLike(system_likes[s])
      /\ last_id' = last_id /\ last_id \in Nat
      /\ last_id <= last_id' /\ last_id' \in 0 .. MaxId
      /\ system_likes' = [system_likes EXCEPT ![s] = r]
      /\ OnlySystemLikes
  BY MaxIdAssumption DEF RuntimeTypeOK, SystemGeneratesSetComponent
<1>2. Grows /\ last_id' \in Int
  BY <1>1, MaxIdAssumption DEF OnlySystemLikes, Grows, Packages
<1>3. IsSystemLike(r)
  <2>1. IsMap(Put(system_likes[s].generates[gen], c, flag), KindIds({"component"}), STRING)
    BY <1>1, PutIsMap DEF IsSystemLike
  <2>2. /\ DOMAIN r.generates = DOMAIN system_likes[s].generates
        /\ r.generates[gen] = Put(system_likes[s].generates[gen], c, flag)
        /\ \A g \in DOMAIN r.generates \ {gen} : r.generates[g] = system_likes[s].generates[g]
    BY <1>1 DEF IsSystemLike
  <2>3. \A g \in DOMAIN r.generates : IsMap(r.generates[g], KindIds({"component"}), STRING)
    BY <1>1, <2>1, <2>2 DEF IsSystemLike
  <2> QED
    BY <1>1, <2>2, <2>3 DEF IsSystemLike, IsCapabilities
<1>4. IsSystemLike(r)'
  BY <1>2, <1>3, SystemLikeMono
<1> QED
  BY <1>1, <1>4, OneSystemLikeType

LEMMA AddSystemGeneratesType ==
  ASSUME RuntimeTypeOK, NEW s \in KindIds(SystemLikes),
         AddSystemGenerates(s)
  PROVE  RuntimeTypeOK' /\ Grows /\ last_id \in Issued'
<1> PICK r : r = [system_likes[s] EXCEPT !.generates = Put(@, last_id, EmptyMap)]
  OBVIOUS
<1>1. /\ s \in DOMAIN system_likes /\ IsSystemLike(system_likes[s])
      /\ last_id' = last_id + 1 /\ last_id \in Nat
      /\ last_id <= last_id' /\ last_id' \in 0 .. MaxId
      /\ system_likes' = [system_likes EXCEPT ![s] = r]
      /\ OnlySystemLikes
  BY MaxIdAssumption DEF RuntimeTypeOK, AddSystemGenerates, NextId
<1>2. Grows /\ last_id' \in Int
  BY <1>1, MaxIdAssumption DEF OnlySystemLikes, Grows, Packages
<1>3. ASSUME NEW q, q = system_likes[s]
      PROVE  IsSystemLike(r)'
  <2>1. IsSystemLike(q)'
    BY <1>1, <1>2, <1>3, SystemLikeMono
  <2>2. \A v : LET m == Put(q.generates, last_id, v)
               IN /\ DOMAIN m = DOMAIN q.generates \cup {last_id}
                  /\ \A g \in DOMAIN m : m[g] = IF g = last_id THEN v ELSE q.generates[g]
    BY DEF Put
  <2>3. /\ r = [q EXCEPT !.generates = r.generates]
        /\ r.generates = Put(q.generates, last_id, EmptyMap)
    BY <1>1, <1>3 DEF IsSystemLike
  <2>4. DOMAIN r.generates \subseteq Issued'
    BY <1>1, <2>1, <2>2, <2>3 DEF IsSystemLike, Issued
  <2>5. \A g \in DOMAIN r.generates : IsMap(r.generates[g], KindIds({"component"})', STRING)
    BY <2>1, <2>2, <2>3, EmptyIsMap DEF IsSystemLike
  <2> QED
    BY <2>1, <2>3, <2>4, <2>5 DEF IsSystemLike, IsCapabilities
<1>4. IsSystemLike(r)'
  BY <1>3
<1>5. last_id \in Issued'
  BY <1>1 DEF Issued
<1> QED
  BY <1>1, <1>4, <1>5, OneSystemLikeType

-----------------------------------------------------------------------------
(* Creating a system or an action.                                         *)
LEMMA CreateSystemLikeType ==
  ASSUME RuntimeTypeOK, NEW kind \in SystemLikes, NEW owner \in Packages,
         NEW name \in STRING, NEW parent \in KindIds(SystemLikes) \cup {NoId},
         NEW parallel \in Executions, NEW lazy \in Nat,
         CreateSystemLike(kind, owner, name, parent, parallel, lazy)
  PROVE  RuntimeTypeOK' /\ Grows /\ last_id \in Issued'
<1> PICK new : new = NewSystemLike(parent, parallel, lazy)
  OBVIOUS
<1>1. /\ NewDef(kind, owner, name, "NONE")
      /\ full_names' = Put(full_names, last_id, SystemFullName(kind, owner, name, parent))
      /\ fields' = IF kind = "action" THEN Put(fields, last_id, <<>>) ELSE fields
      /\ UNCHANGED <<main_package_id, enum_values>>
      /\ IF parent = NoId
         THEN /\ package_defs' = [package_defs EXCEPT
                   ![owner].top_level_systems = Append(@, last_id)]
              /\ system_likes' = Put(system_likes, last_id, new)
         ELSE /\ system_likes' = Put(
                   [system_likes EXCEPT ![parent].nested_systems = Append(@, last_id)],
                   last_id, new)
              /\ UNCHANGED package_defs
  BY DEF CreateSystemLike
<1>2. kind \in Kinds /\ "NONE" \in ComponentTypes /\ Packages' = Packages
  BY <1>1 DEF Kinds, DeclKinds, Packages, ComponentTypes
<1>3. /\ Grows /\ last_id' \in 0 .. MaxId /\ last_id' \in Int
      /\ last_id \in Issued' /\ last_id \notin DOMAIN defs
      /\ defs' \in [DOMAIN defs' -> Def'] /\ DOMAIN defs' \subseteq Issued'
      /\ \A kinds : KindIds(kinds)' =
           IF kind \in kinds THEN KindIds(kinds) \cup {last_id} ELSE KindIds(kinds)
  BY <1>1, <1>2, NewDefType
<1>4. /\ KindIds(DeclKinds)' = KindIds(DeclKinds) \cup {last_id}
      /\ KindIds(Composites)' = IF kind = "action" THEN KindIds(Composites) \cup {last_id}
                                ELSE KindIds(Composites)
      /\ KindIds(SystemLikes)' = KindIds(SystemLikes) \cup {last_id}
      /\ KindIds({"enum"})' = KindIds({"enum"})
  BY <1>3 DEF DeclKinds, Composites, ComponentLikes, SystemLikes
<1>5. package_defs' \in [Packages' -> PackageDef'] /\ Packages' \subseteq Issued'
  <2>1. package_defs \in [Packages -> PackageDef'] /\ Packages \subseteq Issued'
    BY <1>3, PackageDefMono, GrowsSets DEF RuntimeTypeOK
  <2>2. Append(package_defs[owner].top_level_systems, last_id)
          \in Seq(KindIds(SystemLikes)')
    BY <2>1, <1>4, AppendProperties DEF PackageDef
  <2>3. [package_defs EXCEPT ![owner].top_level_systems = Append(@, last_id)]
          \in [Packages -> PackageDef']
    BY <2>1, <2>2 DEF PackageDef
  <2> QED
    BY <1>1, <1>2, <2>1, <2>3
<1>6. full_names' \in [KindIds(DeclKinds)' -> Seq(STRING)]
  <2>1. full_names \in [KindIds(DeclKinds) -> Seq(STRING)]
    BY DEF RuntimeTypeOK
  <2>2. parent # NoId => full_names[parent] \in Seq(STRING)
    BY <2>1 DEF KindIds, DeclKinds
  <2>3. package_defs[owner].name \in Seq(STRING)
    BY DEF RuntimeTypeOK, PackageDef
  <2>4. SystemFullName(kind, owner, name, parent) \in Seq(STRING)
    <3>1. Append(package_defs[owner].name, name) \in Seq(STRING)
      BY <2>3, AppendProperties
    <3>2. parent # NoId => Append(full_names[parent], name) \in Seq(STRING)
      BY <2>2, AppendProperties
    <3>3. <<>> \in Seq(STRING)
      BY EmptySeq
    <3> QED
      BY <3>1, <3>2, <3>3 DEF SystemFullName
  <2>5. Put(full_names, last_id, SystemFullName(kind, owner, name, parent))
          \in [KindIds(DeclKinds) \cup {last_id} -> Seq(STRING)]
    BY <2>1, <2>4, PutType
  <2> QED
    BY <1>1, <1>4, <2>5
<1>7. fields' \in [KindIds(Composites)' -> Seq(Field')]
  <2>1. fields \in [KindIds(Composites) -> Seq(Field')]
    BY <1>3, FieldMono DEF RuntimeTypeOK
  <2>2. <<>> \in Seq(Field')
    BY EmptySeq
  <2>3. Put(fields, last_id, <<>>) \in [KindIds(Composites) \cup {last_id} -> Seq(Field')]
    BY <2>1, <2>2, PutType
  <2> QED
    BY <1>1, <1>4, <2>1, <2>3
<1>8. IsSystemLike(new)'
  <2>1. parent \in KindIds(SystemLikes)' \cup {NoId}
    BY <1>4
  <2>2. EmptyMap = new.caps /\ EmptyMap = new.generates /\ EmptyMap = new.notify_settings
    BY DEF NewSystemLike
  <2>3. DOMAIN EmptyMap = {} /\ \A K : IsMap(EmptyMap, K, STRING)
    BY EmptyIsMap
  <2>4. new \in [caps : {new.caps}, generates : {new.generates},
             notify_settings : {new.notify_settings},
             parent_system_id : KindIds(SystemLikes)' \cup {NoId},
             nested_systems : Seq(KindIds(SystemLikes)'),
             parallel_execution : Executions, lazy_iteration_rate : Nat]
    BY <2>1 DEF NewSystemLike
  <2> QED
    BY <2>2, <2>3, <2>4 DEF IsSystemLike, IsCapabilities
<1>9. /\ DOMAIN system_likes = KindIds(SystemLikes) /\ last_id \notin DOMAIN system_likes
      /\ \A s \in DOMAIN system_likes : IsSystemLike(system_likes[s])
  BY <1>3 DEF RuntimeTypeOK, KindIds
<1>10. /\ DOMAIN system_likes' = KindIds(SystemLikes)'
       /\ system_likes'[last_id] = new
       /\ \A s \in DOMAIN system_likes :
            s # parent \/ parent = NoId => system_likes'[s] = system_likes[s]
       /\ parent # NoId => system_likes'[parent] =
            [system_likes[parent] EXCEPT !.nested_systems = Append(@, last_id)]
  BY <1>1, <1>4, <1>9 DEF Put
<1>11. ASSUME NEW s \in DOMAIN system_likes'
       PROVE  IsSystemLike(system_likes[s])'
  <2>1. CASE s = last_id
    BY <1>8, <1>10, <2>1
  <2>2. CASE s \in DOMAIN system_likes /\ (s # parent \/ parent = NoId)
    BY <1>3, <1>10, <2>2, SystemLikesKept
  <2>3. CASE s = parent /\ parent # NoId
    <3>1. PICK q : q = system_likes[s]
      OBVIOUS
    <3>2. IsSystemLike(q)
      BY <1>9, <2>3, <3>1
    <3>3. IsSystemLike(q)'
      BY <1>3, <3>2, SystemLikeMono
    <3>4. Append(q.nested_systems, last_id) \in Seq(KindIds(SystemLikes)')
      BY <1>4, <3>3, AppendProperties DEF IsSystemLike
    <3>5. PICK r : r = [q EXCEPT !.nested_systems = Append(@, last_id)]
      OBVIOUS
    <3>6. IsSystemLike(r)'
      BY <3>3, <3>4, <3>5 DEF IsSystemLike, IsCapabilities
    <3>7. system_likes'[s] = r
      BY <1>10, <2>3, <3>1, <3>5
    <3> QED
      BY <3>6, <3>7
  <2> QED
    BY <1>4, <1>9, <1>10, <2>1, <2>2, <2>3
<1>12. /\ main_package_id' \in Packages' \cup {NoId}
       /\ enum_values' \in [KindIds({"enum"})' -> Seq(EnumValue')]
  BY <1>1, <1>2, <1>4 DEF RuntimeTypeOK, EnumValue
<1> QED
  BY <1>3, <1>5, <1>6, <1>7, <1>10, <1>11, <1>12 DEF RuntimeTypeOK

-----------------------------------------------------------------------------
(* Lookups by name.                                                        *)
LEMMA MinNat ==
  ASSUME NEW S, S \subseteq Nat, S # {}
  PROVE  Min(S) \in S /\ \A y \in S : Min(S) <= y
<1>1. \E x \in S : \A y \in S : ~(<<y, x>> \in OpToRel(<, Nat))
  BY NatLessThanWellFounded, WFMin
<1>2. \A x, y \in Nat : y < x => <<y, x>> \in OpToRel(<, Nat)
  BY Zenon DEF OpToRel
<1>3. \E x \in S : \A y \in S : ~(y < x)
  BY <1>1, <1>2, Zenon
<1>4. \E x \in S : \A y \in S : x <= y
  BY <1>3
<1> QED
  BY <1>4 DEF Min

(* The first id of the first set that is not empty.                        *)
LEMMA EarliestFound ==
  ASSUME NEW S, S \subseteq Nat, NEW search \in Seq(SUBSET S)
  PROVE  /\ Found(search) => Earliest(search) \in S
         /\ ~Found(search) => Earliest(search) = NoId
         /\ Earliest(search) \in S \cup {NoId}
         /\ Earliest(search) # NoId => Found(search)
<1>1. ~Found(search) => Earliest(search) = NoId
  BY DEF Earliest
<1>2. ASSUME Found(search)
      PROVE  Earliest(search) \in S
  <2> DEFINE I == {i \in DOMAIN search : search[i] # {}}
  <2>1. I \subseteq Nat /\ I # {}
    BY <1>2 DEF Found
  <2>2. Min(I) \in I
    BY <2>1, MinNat
  <2>3. PICK m \in I : m = Min(I)
    BY <2>2
  <2>4. search[m] \subseteq S /\ search[m] # {} /\ search[m] \subseteq Nat
    <3>1. m \in 1 .. Len(search) /\ search[m] # {}
      OBVIOUS
    <3>2. search[m] \in SUBSET S
      BY <3>1, ElementOfSeq
    <3> QED
      BY <3>1, <3>2
  <2>5. Min(search[m]) \in S
    BY <2>4, MinNat
  <2> QED
    BY <1>2, <2>3, <2>5 DEF Earliest
<1> QED
  BY <1>1, <1>2

LEMMA FoundConcat ==
  ASSUME NEW S, NEW a \in Seq(S), NEW b \in Seq(S)
  PROVE  Found(a \o b) <=> Found(a) \/ Found(b)
<1>1. /\ a \o b \in Seq(S) /\ Len(a \o b) = Len(a) + Len(b)
      /\ \A i \in 1 .. Len(a) : (a \o b)[i] = a[i]
      /\ \A i \in 1 .. Len(b) : (a \o b)[Len(a) + i] = b[i]
  BY ConcatProperties
<1>2. Found(a \o b) => Found(a) \/ Found(b)
  BY <1>1 DEF Found
<1>3. ASSUME Found(a) PROVE Found(a \o b)
  BY <1>1, <1>3 DEF Found
<1>4. ASSUME Found(b) PROVE Found(a \o b)
  <2>1. PICK i \in 1 .. Len(b) : b[i] # {}
    BY <1>4 DEF Found
  <2>2. Len(a) + i \in DOMAIN (a \o b) /\ (a \o b)[Len(a) + i] # {}
    BY <1>1, <2>1
  <2> QED
    BY <2>2 DEF Found
<1> QED
  BY <1>2, <1>3, <1>4

LEMMA FunctionIsSeq ==
  ASSUME NEW S, NEW n \in Nat, NEW f \in [1 .. n -> S]
  PROVE  f \in Seq(S) /\ Len(f) = n
BY SeqDef

-----------------------------------------------------------------------------
(* Searches find ids of their kind.                                        *)
LEMMA KindIdsNat ==
  ASSUME RuntimeTypeOK, NEW kinds
  PROVE  /\ KindIds(kinds) \subseteq Nat
         /\ KindIds(kinds) \subseteq Issued
         /\ KindIds(kinds) \subseteq DOMAIN defs
         /\ Issued \subseteq Nat
BY DEF KindIds, RuntimeTypeOK, Issued

LEMMA SearchType ==
  ASSUME RuntimeTypeOK, package_id \in Packages, NEW kind, NEW path
  PROVE  Search(kind, path) \in Seq(SUBSET KindIds({kind}))
<1> DEFINE dependencies == package_defs[package_id].dependencies
           own == <<Bare(package_id, kind, path) \cup Qualified(package_id, kind, path)>>
           imported == [i \in DOMAIN dependencies |-> Qualified(dependencies[i], kind, path)]
           S == SUBSET KindIds({kind})
<1>1. \A p : Bare(p, kind, path) \in S /\ Qualified(p, kind, path) \in S
  BY DEF Bare, Qualified, Owned, KindIds
<1>2. dependencies \in Seq(Packages)
  BY DEF RuntimeTypeOK, PackageDef
<1>3. imported \in Seq(S)
  <2>1. Len(dependencies) \in Nat /\ DOMAIN dependencies = 1 .. Len(dependencies)
    BY <1>2
  <2>2. imported \in [1 .. Len(dependencies) -> S]
    BY <1>1, <2>1
  <2> QED
    BY <2>1, <2>2, FunctionIsSeq
<1>4. own \in Seq(S)
  BY <1>1
<1>5. own \o imported \in Seq(S)
  BY <1>3, <1>4, ConcatProperties
<1>6. <<Bare(package_id, kind, path)>> \in Seq(S)
  BY <1>1
<1> QED
  BY <1>5, <1>6 DEF Search

LEMMA SearchTypes ==
  ASSUME RuntimeTypeOK, package_id \in Packages, NEW path
  PROVE  /\ SearchComponentLike(path) \in Seq(SUBSET KindIds(ComponentLikes))
         /\ SearchComposite(path) \in Seq(SUBSET KindIds(Composites))
         /\ SearchDecl(path) \in Seq(SUBSET KindIds(DeclKinds))
<1>1. ASSUME NEW kind, NEW kinds, kind \in kinds
      PROVE  Search(kind, path) \in Seq(SUBSET KindIds(kinds))
  <2>1. SUBSET KindIds({kind}) \subseteq SUBSET KindIds(kinds)
    BY <1>1 DEF KindIds
  <2> QED
    BY <2>1, SearchType, SeqMono
<1>2. ASSUME NEW kinds, ComponentLikes \subseteq kinds
      PROVE  SearchComponentLike(path) \in Seq(SUBSET KindIds(kinds))
  <2>1. /\ Search("component", path) \in Seq(SUBSET KindIds(kinds))
        /\ Search("transient", path) \in Seq(SUBSET KindIds(kinds))
    BY <1>1, <1>2 DEF ComponentLikes
  <2> QED
    BY <2>1, ConcatProperties DEF SearchComponentLike
<1>3. SearchComposite(path) \in Seq(SUBSET KindIds(Composites))
  BY <1>1, <1>2, ConcatProperties DEF SearchComposite, Composites
<1>4. SearchDecl(path) \in Seq(SUBSET KindIds(DeclKinds))
  <2>1. /\ SearchComponentLike(path) \in Seq(SUBSET KindIds(DeclKinds))
        /\ Search("system", path) \in Seq(SUBSET KindIds(DeclKinds))
        /\ Search("action", path) \in Seq(SUBSET KindIds(DeclKinds))
    BY <1>1, <1>2 DEF DeclKinds, SystemLikes
  <2> QED
    BY <2>1, ConcatProperties DEF SearchDecl
<1> QED
  BY <1>2, <1>3, <1>4

-----------------------------------------------------------------------------
(* The lookups of a handler.                                               *)
LEMMA EarliestKind ==
  ASSUME RuntimeTypeOK, NEW kinds, NEW search \in Seq(SUBSET KindIds(kinds))
  PROVE  Earliest(search) \in KindIds(kinds) \cup {NoId}
<1>1. KindIds(kinds) \subseteq Nat
  BY KindIdsNat
<1> QED
  BY <1>1, EarliestFound

LEMMA DeclaredType ==
  ASSUME RuntimeTypeOK, package_id \in Packages, NEW s
  PROVE  /\ CompositeOf(s) \in KindIds(Composites) \cup {NoId}
         /\ SystemLikeOf(s) \in KindIds(SystemLikes) \cup {NoId}
         /\ ComponentLikeOf(s) \in KindIds(ComponentLikes) \cup {NoId}
<1>1. ASSUME NEW kind, NEW kinds, kind \in kinds
      PROVE  Earliest(Search(kind, <<s.name>>)) \in KindIds(kinds) \cup {NoId}
  <2>1. Earliest(Search(kind, <<s.name>>)) \in KindIds({kind}) \cup {NoId}
    BY SearchType, EarliestKind
  <2> QED
    BY <1>1, <2>1 DEF KindIds
<1>2. CompositeOf(s) \in KindIds(Composites) \cup {NoId}
  BY <1>1 DEF CompositeOf, FindDeclared, KindOf, Composites, ComponentLikes
<1>3. SystemLikeOf(s) \in KindIds(SystemLikes) \cup {NoId}
  BY <1>1 DEF SystemLikeOf, FindDeclared, KindOf, SystemLikes
<1>4. ComponentLikeOf(s) \in KindIds(ComponentLikes) \cup {NoId}
  <2>1. Earliest(SearchComponentLike(s.path)) \in KindIds(ComponentLikes) \cup {NoId}
    BY SearchTypes, EarliestKind
  <2> QED
    BY <1>1, <2>1 DEF ComponentLikeOf, FindDeclared, KindOf, ComponentLikes
<1> QED
  BY <1>2, <1>3, <1>4

LEMMA ContextSystemType ==
  ASSUME RuntimeTypeOK, package_id \in Packages
  PROVE  /\ ContextSystem \in KindIds(SystemLikes) \cup {NoId}
         /\ AssocComponent \in KindIds(ComponentLikes) \cup {NoId}
BY DeclaredType DEF ContextSystem, AssocComponent

LEMMA StatementType ==
  ASSUME NEW s \in Statements
  PROVE  /\ s.name \in STRING /\ s.arg \in STRING /\ s.block \in BOOLEAN
         /\ s.path \in Seq(STRING) /\ s.with \in Seq(STRING)
         /\ IsMap(s.params, ParamNames, ParamValues)
BY StatementsAssumption DEF IsStatement

LEMMA ContextType ==
  ASSUME ClientTypeOK, NEW k \in Nat \ {0}
  PROVE  /\ Context(k) \in Statements \cup {NoStatement}
         /\ Context(k).with \in Seq(STRING)
<1>1. CASE k <= Len(context_stack)
  <2>1. /\ context_stack \in Seq(FrameType)
        /\ Len(context_stack) + 1 - k \in 1 .. Len(context_stack)
    BY <1>1 DEF ClientTypeOK
  <2>2. context_stack[Len(context_stack) + 1 - k] \in FrameType
    BY <2>1, ElementOfSeq
  <2>3. Context(k) \in Statements
    BY <1>1, <2>2 DEF Context, FrameType
  <2> QED
    BY <2>3, StatementType
<1>2. CASE ~(k <= Len(context_stack))
  <2>1. Context(k) = NoStatement
    BY <1>2 DEF Context
  <2>2. NoStatement.with \in Seq(STRING)
    BY EmptySeq DEF NoStatement
  <2> QED
    BY <2>1, <2>2, Zenon
<1> QED
  BY <1>1, <1>2

-----------------------------------------------------------------------------
(* No name found is no name taken.                                         *)
LEMMA NameFreeMeans ==
  ASSUME RuntimeTypeOK, package_id \in Packages, NEW s, NameFree(s).holds
  PROVE  \A d \in KindIds(DeclKinds) : defs[d].owner = package_id => defs[d].name # s.name
<1> DEFINE path == <<s.name>>
<1>1. ~Found(SearchDecl(path))
  BY DEF NameFree, Check
<1>2. \A kind \in DeclKinds : Search(kind, path) \in Seq(SUBSET KindIds(DeclKinds))
  <2> TAKE kind \in DeclKinds
  <2>1. SUBSET KindIds({kind}) \subseteq SUBSET KindIds(DeclKinds)
    BY DEF KindIds
  <2>2. Seq(SUBSET KindIds({kind})) \subseteq Seq(SUBSET KindIds(DeclKinds))
    BY <2>1, SeqMono
  <2>3. Search(kind, path) \in Seq(SUBSET KindIds({kind}))
    BY SearchType
  <2> QED
    BY <2>2, <2>3
<1>3. \A kind \in DeclKinds : ~Found(Search(kind, path))
  <2> DEFINE S == SUBSET KindIds(DeclKinds)
  <2>1. /\ Search("component", path) \in Seq(S) /\ Search("transient", path) \in Seq(S)
        /\ Search("system", path) \in Seq(S) /\ Search("action", path) \in Seq(S)
    BY <1>2 DEF DeclKinds, ComponentLikes, SystemLikes
  <2>2. /\ SearchComponentLike(path) \in Seq(S)
        /\ SearchComponentLike(path) \o Search("system", path) \in Seq(S)
    BY <2>1, ConcatProperties DEF SearchComponentLike
  <2>3. /\ ~Found(SearchComponentLike(path) \o Search("system", path))
        /\ ~Found(Search("action", path))
    BY <1>1, <2>1, <2>2, FoundConcat DEF SearchDecl
  <2>4. ~Found(SearchComponentLike(path)) /\ ~Found(Search("system", path))
    BY <2>1, <2>2, <2>3, FoundConcat
  <2>5. ~Found(Search("component", path)) /\ ~Found(Search("transient", path))
    BY <2>1, <2>4, FoundConcat DEF SearchComponentLike
  <2> QED
    BY <2>3, <2>4, <2>5 DEF DeclKinds, ComponentLikes, SystemLikes
<1>4. \A kind \in DeclKinds : Bare(package_id, kind, path) = {}
  <2> TAKE kind \in DeclKinds
  <2>1. Search(kind, path) \in Seq(SUBSET KindIds(DeclKinds))
    BY <1>2
  <2>2. 1 \in DOMAIN Search(kind, path)
        /\ Bare(package_id, kind, path) \subseteq Search(kind, path)[1]
    <3>1. CASE kind \in SystemLikes
      BY <3>1 DEF Search
    <3>2. CASE kind \notin SystemLikes
      <4> DEFINE dependencies == package_defs[package_id].dependencies
                 own == <<Bare(package_id, kind, path) \cup Qualified(package_id, kind, path)>>
                 imported == [i \in DOMAIN dependencies |-> Qualified(dependencies[i], kind, path)]
                 T == SUBSET DOMAIN defs
      <4>1. own \in Seq(T)
        BY DEF Bare, Qualified, Owned
      <4>2. imported \in Seq(T)
        <5>1. Len(dependencies) \in Nat /\ DOMAIN dependencies = 1 .. Len(dependencies)
          BY DEF RuntimeTypeOK, PackageDef
        <5>2. imported \in [1 .. Len(dependencies) -> T]
          BY <5>1 DEF Qualified, Owned
        <5> QED
          BY <5>1, <5>2, FunctionIsSeq
      <4>3. Search(kind, path) = own \o imported
        BY <3>2 DEF Search
      <4>4. Len(own) = 1 /\ own[1] = Bare(package_id, kind, path) \cup Qualified(package_id, kind, path)
        OBVIOUS
      <4> HIDE DEF own, imported
      <4> QED
        BY <4>1, <4>2, <4>3, <4>4, ConcatProperties
    <3> QED
      BY <3>1, <3>2
  <2> QED
    BY <1>3, <2>2 DEF Found
<1> QED
  BY <1>4 DEF Bare, Owned, KindIds

-----------------------------------------------------------------------------
(* The parts of the state that an action leaves alone.                     *)
LEMMA AssocKept ==
  ASSUME RuntimeTypeOK, Grows, last_id' \in Int, AssocTypeOK, UNCHANGED assoc_vars
  PROVE  AssocTypeOK'
<1>1. /\ KindIds(ComponentLikes) \subseteq KindIds(ComponentLikes)'
      /\ KindIds(SystemLikes) \subseteq KindIds(SystemLikes)'
  BY GrowsSets
<1>2. UNCHANGED <<last_assoc_id, system_assoc_info>>
  BY DEF assoc_vars
<1>3. \A r : IsAssoc(r) => IsAssoc(r)'
  BY <1>1, <1>2, IsMapMono DEF IsAssoc, IsCapabilities
<1> QED
  BY <1>1, <1>2, <1>3 DEF AssocTypeOK

LEMMA FramesKept ==
  ASSUME RuntimeTypeOK, Grows, last_id' \in Int, ClientTypeOK,
         last_assoc_id \in Nat, last_assoc_id' \in Nat, last_assoc_id <= last_assoc_id'
  PROVE  FrameType \subseteq FrameType' /\ Seq(FrameType) \subseteq Seq(FrameType')
<1>1. Issued \subseteq Issued'
  BY GrowsSets
<1>2. \A m, n \in Nat : m <= n => \A i \in 0 .. m - 1 : i \in 0 .. n - 1
  OBVIOUS
<1>3. FrameType \subseteq FrameType'
  BY <1>1, <1>2 DEF FrameType, Grows
<1> QED
  BY <1>3, SeqMono

LEMMA FinishType ==
  ASSUME RuntimeTypeOK, Grows, last_id' \in Int, ClientTypeOK, package_id \in Packages,
         last_assoc_id \in Nat, last_assoc_id' \in Nat, last_assoc_id <= last_assoc_id',
         NEW s \in Statements, NEW ref \in Issued' \cup {NoId},
         NEW assoc \in 0 .. last_assoc_id' - 1 \cup {NoId}, NEW code \in Codes,
         Finish(s, ref, assoc, code)
  PROVE  ClientTypeOK'
<1> DEFINE frame == [s |-> s, ref |-> ref, assoc |-> assoc, pkg |-> package_id]
<1>1. /\ result' = code
      /\ context_stack' = IF s.block /\ code = "OK"
           THEN Append(context_stack, frame) ELSE context_stack
      /\ package_id' = package_id
  BY DEF Finish
<1>2. context_stack \in Seq(FrameType')
  BY FramesKept DEF ClientTypeOK
<1>6. package_id \in Packages'
  BY GrowsSets
<1>3. frame \in FrameType'
  BY <1>6 DEF FrameType
<1> HIDE DEF frame
<1>4. Append(context_stack, frame) \in Seq(FrameType')
  BY <1>2, <1>3, AppendProperties
<1>5. context_stack' \in Seq(FrameType')
  BY <1>1, <1>2, <1>4
<1> QED
  BY <1>1, <1>5, <1>6 DEF ClientTypeOK, Codes

(* A rejected statement changes the result only.                           *)
CodesOf(checks) == {checks[i].code : i \in DOMAIN checks}

LEMMA RejectedType ==
  ASSUME TypeOK, NEW checks, Rejected(checks), CodesOf(checks) \subseteq Codes
  PROVE  TypeOK' /\ UNCHANGED defs
<1>1. /\ result' \in Codes
      /\ UNCHANGED <<runtime_vars, assoc_vars, client_vars>>
  BY DEF Rejected, CodesOf
<1>2. RuntimeTypeOK' /\ Grows
  BY <1>1, RuntimeUnchanged DEF TypeOK
<1>3. /\ UNCHANGED <<last_id, package_defs, defs>> /\ UNCHANGED <<package_id, context_stack>>
      /\ last_assoc_id' = last_assoc_id /\ last_id' \in Int
  BY <1>1, MaxIdAssumption DEF runtime_vars, client_vars, assoc_vars, TypeOK, RuntimeTypeOK
<1>4. AssocTypeOK'
  BY <1>1, <1>2, <1>3, AssocKept DEF TypeOK
<1>5. Packages' = Packages /\ FrameType' = FrameType
  BY <1>3 DEF Packages, FrameType, Issued
<1>6. ClientTypeOK'
  BY <1>1, <1>3, <1>5 DEF TypeOK, ClientTypeOK, Codes
<1> QED
  BY <1>2, <1>3, <1>4, <1>6 DEF TypeOK

(* An evaluation that changes the runtime alone.                           *)
LEMMA RuntimeStepType ==
  ASSUME TypeOK, package_id \in Packages, RuntimeTypeOK', Grows, UNCHANGED assoc_vars,
         NEW s \in Statements, NEW ref \in Issued' \cup {NoId}, NEW code \in Codes,
         Finish(s, ref, NoId, code)
  PROVE  TypeOK'
<1>1. last_id' \in Int
  BY MaxIdAssumption DEF RuntimeTypeOK
<1>2. /\ last_assoc_id \in Nat /\ last_assoc_id' = last_assoc_id
      /\ last_assoc_id <= last_assoc_id' /\ last_assoc_id' \in Nat
      /\ NoId \in 0 .. last_assoc_id' - 1 \cup {NoId}
  BY MaxAssocIdAssumption DEF TypeOK, AssocTypeOK, assoc_vars
<1>3. AssocTypeOK'
  BY <1>1, AssocKept DEF TypeOK
<1>4. ClientTypeOK'
  BY <1>1, <1>2, FinishType DEF TypeOK
<1> QED
  BY <1>3, <1>4 DEF TypeOK

-----------------------------------------------------------------------------
(* Names stay unique: a step that creates nothing keeps them, and a new    *)
(* declaration has a name that the search found free.                      *)
LEMMA NamesKept ==
  ASSUME NamesUnique, UNCHANGED defs
  PROVE  NamesUnique'
BY DEF NamesUnique, KindIds

LEMMA NewName ==
  ASSUME TypeOK, NamesUnique, package_id \in Packages, Packages \subseteq Packages',
         NEW s \in Statements, NameFree(s).holds,
         NEW kind \in Kinds, NEW comp_type \in ComponentTypes,
         NewDef(kind, package_id, s.name, comp_type)
  PROVE  NamesUnique'
<1>0. RuntimeTypeOK /\ s.name \in STRING
  BY StatementType DEF TypeOK
<1>1. /\ Grows /\ last_id \notin DOMAIN defs
      /\ DOMAIN defs' = DOMAIN defs \cup {last_id}
      /\ defs'[last_id] = [kind |-> kind, owner |-> package_id, name |-> s.name,
                           comp_type |-> comp_type]
      /\ KindIds(DeclKinds)' \subseteq KindIds(DeclKinds) \cup {last_id}
  <2>1. /\ Grows /\ last_id \notin DOMAIN defs
        /\ DOMAIN defs' = DOMAIN defs \cup {last_id}
        /\ defs'[last_id] = [kind |-> kind, owner |-> package_id, name |-> s.name,
                             comp_type |-> comp_type]
        /\ \A kinds : KindIds(kinds)' =
             IF kind \in kinds THEN KindIds(kinds) \cup {last_id} ELSE KindIds(kinds)
    BY <1>0, NewDefType
  <2>2. KindIds(DeclKinds)' \subseteq KindIds(DeclKinds) \cup {last_id}
    BY <2>1
  <2> QED
    BY <2>1, <2>2
<1>2. \A d \in KindIds(DeclKinds) : d \in DOMAIN defs /\ defs'[d] = defs[d]
  BY <1>1 DEF KindIds, Grows
<1>3. \A d \in KindIds(DeclKinds) : defs[d].owner = package_id => defs[d].name # s.name
  BY NameFreeMeans DEF TypeOK
<1>4. ASSUME NEW d \in KindIds(DeclKinds)', NEW e \in KindIds(DeclKinds)',
             defs'[d].owner = defs'[e].owner, defs'[d].name = defs'[e].name
      PROVE  d = e
  <2>1. CASE d \in KindIds(DeclKinds) /\ e \in KindIds(DeclKinds)
    BY <1>2, <1>4, <2>1 DEF NamesUnique
  <2>2. CASE d = last_id /\ e \in KindIds(DeclKinds)
    BY <1>1, <1>2, <1>3, <1>4, <2>2
  <2>3. CASE e = last_id /\ d \in KindIds(DeclKinds)
    BY <1>1, <1>2, <1>3, <1>4, <2>3
  <2> QED
    BY <1>1, <1>4, <2>1, <2>2, <2>3
<1> QED
  BY <1>4 DEF NamesUnique

-----------------------------------------------------------------------------
(* Declarations.                                                           *)
Inv == TypeOK /\ NamesUnique

LEMMA RejectedInv ==
  ASSUME Inv, NEW checks, Rejected(checks), CodesOf(checks) \subseteq Codes
  PROVE  Inv'
BY RejectedType, NamesKept DEF Inv

LEMMA EvalComponentInv ==
  ASSUME Inv, package_id \in Packages, NEW s \in Statements, EvalComponent(s)
  PROVE  Inv'
<1>1. CASE Rejected(ComponentChecks(s))
  <2>1. CodesOf(ComponentChecks(s)) \subseteq Codes
    BY DEF CodesOf, ComponentChecks, Codes, Check, InContext, AllowParams, NameFree
  <2> QED
    BY <1>1, <2>1, RejectedInv
<1>2. CASE Accepted(ComponentChecks(s))
           /\ CreateComponentLike("component", package_id, s.name,
                IF AsksTransient(s) THEN "TRANSIENT" ELSE StreamParam(s))
           /\ Finish(s, last_id, NoId, "OK")
           /\ UNCHANGED assoc_vars
  <2> PICK comp_type : comp_type = IF AsksTransient(s) THEN "TRANSIENT" ELSE StreamParam(s)
    OBVIOUS
  <2>0. 3 \in DOMAIN ComponentChecks(s) /\ 5 \in DOMAIN ComponentChecks(s)
    BY DEF ComponentChecks
  <2>1. StreamParam(s) # "INVALID" /\ NameFree(s).holds
    <3>1. ComponentChecks(s)[3].holds /\ ComponentChecks(s)[5].holds
      BY <1>2, <2>0 DEF Accepted
    <3>2. ComponentChecks(s)[3] = Check(StreamParam(s) # "INVALID", "INVALID_PARAMETER_VALUE")
      BY DEF ComponentChecks
    <3>3. ComponentChecks(s)[5] = NameFree(s)
      BY DEF ComponentChecks
    <3>4. Check(StreamParam(s) # "INVALID", "INVALID_PARAMETER_VALUE").holds
      BY <3>1, <3>2
    <3>5. StreamParam(s) # "INVALID"
      BY <3>4, Zenon DEF Check
    <3> QED
      BY <3>1, <3>3, <3>5
  <2>2. comp_type \in ComponentTypes
    BY <2>1 DEF StreamParam, ComponentTypes
  <2>3. "component" \in ComponentLikes /\ "component" \in Kinds
    BY DEF ComponentLikes, Kinds, DeclKinds
  <2>4. CreateComponentLike("component", package_id, s.name, comp_type)
    BY <1>2
  <2>5. RuntimeTypeOK' /\ Grows /\ last_id \in Issued'
    BY <2>2, <2>3, <2>4, StatementType, CreateComponentLikeType DEF Inv, TypeOK
  <2>6. TypeOK'
    BY <1>2, <2>5, RuntimeStepType DEF Inv, Codes
  <2>7. NewDef("component", package_id, s.name, comp_type) /\ Packages' = Packages
    BY <2>4 DEF CreateComponentLike, Packages
  <2>8. NamesUnique'
    BY <2>1, <2>2, <2>3, <2>7, NewName DEF Inv
  <2> QED
    BY <2>6, <2>8 DEF Inv
<1> QED
  BY <1>1, <1>2 DEF EvalComponent

LEMMA EvalTransientInv ==
  ASSUME Inv, package_id \in Packages, NEW s \in Statements, EvalTransient(s)
  PROVE  Inv'
<1>1. CASE Rejected(PlainDeclChecks(s))
  <2>1. CodesOf(PlainDeclChecks(s)) \subseteq Codes
    BY DEF CodesOf, PlainDeclChecks, Codes, Check, InContext, AllowParams, NameFree
  <2> QED
    BY <1>1, <2>1, RejectedInv
<1>2. CASE Accepted(PlainDeclChecks(s))
           /\ CreateComponentLike("transient", package_id, s.name, "TRANSIENT")
           /\ Finish(s, last_id, NoId, "OK")
           /\ UNCHANGED assoc_vars
  <2>1. NameFree(s).holds
    BY <1>2 DEF Accepted, PlainDeclChecks, Check
  <2>2. "TRANSIENT" \in ComponentTypes
    BY DEF ComponentTypes
  <2>3. "transient" \in ComponentLikes /\ "transient" \in Kinds
    BY DEF ComponentLikes, Kinds, DeclKinds
  <2>4. RuntimeTypeOK' /\ Grows /\ last_id \in Issued'
    BY <1>2, <2>2, <2>3, StatementType, CreateComponentLikeType DEF Inv, TypeOK
  <2>5. TypeOK'
    BY <1>2, <2>4, RuntimeStepType DEF Inv, Codes
  <2>6. NewDef("transient", package_id, s.name, "TRANSIENT") /\ Packages' = Packages
    BY <1>2 DEF CreateComponentLike, Packages
  <2>7. NamesUnique'
    BY <2>1, <2>2, <2>3, <2>6, NewName DEF Inv
  <2> QED
    BY <2>5, <2>7 DEF Inv
<1> QED
  BY <1>1, <1>2 DEF EvalTransient

LEMMA EvalEnumInv ==
  ASSUME Inv, package_id \in Packages, NEW s \in Statements, EvalEnum(s)
  PROVE  Inv'
<1>1. CASE Rejected(PlainDeclChecks(s))
  <2>1. CodesOf(PlainDeclChecks(s)) \subseteq Codes
    BY DEF CodesOf, PlainDeclChecks, Codes, Check, InContext, AllowParams, NameFree
  <2> QED
    BY <1>1, <2>1, RejectedInv
<1>2. CASE Accepted(PlainDeclChecks(s))
           /\ CreateEnum(package_id, s.name)
           /\ Finish(s, last_id, NoId, "OK")
           /\ UNCHANGED assoc_vars
  <2>1. NameFree(s).holds
    BY <1>2 DEF Accepted, PlainDeclChecks, Check
  <2>2. "NONE" \in ComponentTypes /\ "enum" \in Kinds
    BY DEF ComponentTypes, Kinds
  <2>3. RuntimeTypeOK' /\ Grows /\ last_id \in Issued'
    BY <1>2, StatementType, CreateEnumType DEF Inv, TypeOK
  <2>4. TypeOK'
    BY <1>2, <2>3, RuntimeStepType DEF Inv, Codes
  <2>5. NewDef("enum", package_id, s.name, "NONE") /\ Packages' = Packages
    BY <1>2 DEF CreateEnum, Packages
  <2>6. NamesUnique'
    BY <2>1, <2>2, <2>5, NewName DEF Inv
  <2> QED
    BY <2>4, <2>6 DEF Inv
<1> QED
  BY <1>1, <1>2 DEF EvalEnum

-----------------------------------------------------------------------------
(* Systems and actions.                                                    *)
LEMMA MaxZero == ASSUME NEW x \in Int PROVE Max({0, x}) \in Nat
<1>1. \E m \in {0, x} : \A y \in {0, x} : m >= y
  OBVIOUS
<1>2. Max({0, x}) \in {0, x} /\ Max({0, x}) >= 0
  BY <1>1 DEF Max
<1> QED
  BY <1>2

LEMMA ParamTypes ==
  ASSUME NEW s \in Statements
  PROVE  ParallelParam(s) \in Executions \cup {"INVALID"} /\ LazyRate(s) \in Nat
<1>1. ParallelParam(s) \in Executions \cup {"INVALID"}
  BY DEF ParallelParam, Executions
<1>2. LazyRate(s) \in Nat
  <2>1. CASE HasParam(s, "lazy", {"BOOL", "INTEGER"})
    <3>1. s.params["lazy"] \in ParamValues
      BY <2>1, StatementType DEF HasParam, IsMap
    <3>2. s.params["lazy"].int \in Int
      BY <3>1 DEF ParamValues
    <3> QED
      BY <2>1, <3>2, MaxZero DEF LazyRate
  <2>2. CASE ~HasParam(s, "lazy", {"BOOL", "INTEGER"})
    BY <2>2 DEF LazyRate
  <2> QED
    BY <2>1, <2>2
<1> QED
  BY <1>1, <1>2

LEMMA FinishSystemLikeInv ==
  ASSUME Inv, package_id \in Packages, NEW s \in Statements, NameFree(s).holds,
         NEW kind \in SystemLikes, NEW parent \in KindIds(SystemLikes) \cup {NoId},
         NEW lazy \in Nat, FinishSystemLike(s, kind, parent, lazy)
  PROVE  Inv'
<1> PICK parallel : parallel = IF ParallelParam(s) = "INVALID" THEN "AUTO" ELSE ParallelParam(s)
  OBVIOUS
<1> PICK code : code = IF ParallelParam(s) = "INVALID" THEN "INVALID_PARAMETER_VALUE" ELSE "OK"
  OBVIOUS
<1>1. parallel \in Executions /\ code \in Codes
  BY ParamTypes DEF Executions, Codes
<1>2. /\ CreateSystemLike(kind, package_id, s.name, parent, parallel, lazy)
      /\ Finish(s, last_id, NoId, code)
      /\ UNCHANGED assoc_vars
  BY DEF FinishSystemLike
<1>3. RuntimeTypeOK' /\ Grows /\ last_id \in Issued'
  BY <1>1, <1>2, StatementType, CreateSystemLikeType DEF Inv, TypeOK
<1>4. TypeOK'
  BY <1>1, <1>2, <1>3, RuntimeStepType DEF Inv
<1>5. NewDef(kind, package_id, s.name, "NONE")
  BY <1>2 DEF CreateSystemLike
<1>6. kind \in Kinds /\ "NONE" \in ComponentTypes
  BY DEF Kinds, DeclKinds, SystemLikes, ComponentTypes
<1>7. Packages \subseteq Packages'
  BY <1>3 DEF Grows
<1>8. NamesUnique'
  BY <1>5, <1>6, <1>7, NewName DEF Inv
<1> QED
  BY <1>4, <1>8 DEF Inv

LEMMA EvalSystemInv ==
  ASSUME Inv, package_id \in Packages, NEW s \in Statements, EvalSystem(s)
  PROVE  Inv'
<1>1. CASE Rejected(SystemChecks(s))
  <2>1. CodesOf(SystemChecks(s)) \subseteq Codes
    BY DEF CodesOf, SystemChecks, Codes, Check, InContext, AllowParams, NameFree
  <2> QED
    BY <1>1, <2>1, RejectedInv
<1>2. CASE /\ Accepted(SystemChecks(s))
           /\ FinishSystemLike(s, "system", SystemLikeOf(Context(1)), LazyRate(s))
  <2>1. NameFree(s).holds
    BY <1>2 DEF Accepted, SystemChecks
  <2>2. SystemLikeOf(Context(1)) \in KindIds(SystemLikes) \cup {NoId}
    BY DeclaredType DEF Inv, TypeOK
  <2>3. "system" \in SystemLikes /\ LazyRate(s) \in Nat
    BY ParamTypes DEF SystemLikes
  <2> QED
    BY <1>2, <2>1, <2>2, <2>3, FinishSystemLikeInv
<1> QED
  BY <1>1, <1>2 DEF EvalSystem

LEMMA EvalActionInv ==
  ASSUME Inv, package_id \in Packages, NEW s \in Statements, EvalAction(s)
  PROVE  Inv'
<1>1. CASE Rejected(ActionChecks(s))
  <2>1. CodesOf(ActionChecks(s)) \subseteq Codes
    BY DEF CodesOf, ActionChecks, Codes, Check, InContext, AllowParams, NameFree
  <2> QED
    BY <1>1, <2>1, RejectedInv
<1>2. CASE Accepted(ActionChecks(s)) /\ FinishSystemLike(s, "action", NoId, 0)
  <2>1. NameFree(s).holds
    BY <1>2 DEF Accepted, ActionChecks
  <2>2. "action" \in SystemLikes /\ NoId \in KindIds(SystemLikes) \cup {NoId} /\ 0 \in Nat
    BY DEF SystemLikes
  <2> QED
    BY <1>2, <2>1, <2>2, FinishSystemLikeInv
<1> QED
  BY <1>1, <1>2 DEF EvalAction

-----------------------------------------------------------------------------
(* A step that changes the runtime, or the associations, but no            *)
(* declaration.                                                            *)
LEMMA BodyInv ==
  ASSUME Inv, package_id \in Packages, UNCHANGED defs,
         RuntimeTypeOK', Grows, UNCHANGED assoc_vars,
         NEW s \in Statements, NEW ref \in Issued' \cup {NoId}, NEW code \in Codes,
         Finish(s, ref, NoId, code)
  PROVE  Inv'
BY RuntimeStepType, NamesKept DEF Inv

(* A step that changes the client's state alone.                           *)
LEMMA ClientInv ==
  ASSUME Inv, UNCHANGED <<runtime_vars, assoc_vars>>,
         context_stack' \in Seq(FrameType), package_id' \in Packages \cup {NoId},
         context_stack' # <<>> => package_id' \in Packages, result' \in Codes
  PROVE  Inv'
<1>1. RuntimeTypeOK' /\ Grows /\ UNCHANGED <<last_id, package_defs, defs>>
  BY RuntimeUnchanged DEF Inv, TypeOK, runtime_vars
<1>2. last_id' \in Int
  BY <1>1, MaxIdAssumption DEF RuntimeTypeOK
<1>3. AssocTypeOK'
  BY <1>1, <1>2, AssocKept DEF Inv, TypeOK
<1>4. Packages' = Packages /\ FrameType' = FrameType
  BY <1>1 DEF Packages, FrameType, Issued, assoc_vars
<1>5. ClientTypeOK'
  BY <1>4 DEF ClientTypeOK
<1> QED
  BY <1>1, <1>3, <1>5, NamesKept DEF Inv, TypeOK

LEMMA KindIdsIssued ==
  ASSUME RuntimeTypeOK, Grows, RuntimeTypeOK', NEW kinds, NEW d \in KindIds(kinds)
  PROVE  d \in Issued' \cup {NoId}
BY KindIdsNat, GrowsSets, MaxIdAssumption DEF RuntimeTypeOK

(* The checks of a handler one after the other.                            *)
LEMMA ConcatChecks ==
  ASSUME NEW S, NEW a \in Seq(S), NEW b \in Seq(S)
  PROVE  /\ Accepted(a \o b) => Accepted(a) /\ Accepted(b)
         /\ CodesOf(a \o b) \subseteq CodesOf(a) \cup CodesOf(b)
<1>1. /\ a \o b \in Seq(S) /\ Len(a \o b) = Len(a) + Len(b)
      /\ \A i \in 1 .. Len(a) + Len(b) : (a \o b)[i] =
           IF i <= Len(a) THEN a[i] ELSE b[i - Len(a)]
  BY ConcatProperties
<1>2. /\ DOMAIN a = 1 .. Len(a) /\ DOMAIN b = 1 .. Len(b)
      /\ DOMAIN (a \o b) = 1 .. Len(a) + Len(b)
      /\ Len(a) \in Nat /\ Len(b) \in Nat
  BY <1>1
<1>3. \A i \in DOMAIN a : i \in DOMAIN (a \o b) /\ (a \o b)[i] = a[i]
  BY <1>1, <1>2
<1>4. \A i \in DOMAIN b : Len(a) + i \in DOMAIN (a \o b) /\ (a \o b)[Len(a) + i] = b[i]
  BY <1>1, <1>2
<1>5. \A i \in DOMAIN (a \o b) : \/ i \in DOMAIN a /\ (a \o b)[i] = a[i]
                                 \/ i - Len(a) \in DOMAIN b /\ (a \o b)[i] = b[i - Len(a)]
  BY <1>1, <1>2
<1>6. Accepted(a \o b) => Accepted(a) /\ Accepted(b)
  BY <1>3, <1>4 DEF Accepted
<1>7. CodesOf(a \o b) \subseteq CodesOf(a) \cup CodesOf(b)
  BY <1>5 DEF CodesOf
<1> QED
  BY <1>6, <1>7

-----------------------------------------------------------------------------
(* Statements that do nothing, packages and imports.                       *)
LEMMA EvalEmptyInv ==
  ASSUME Inv, NEW s \in Statements, EvalEmpty(s) \/ EvalPackageInBlock(s)
  PROVE  Inv'
<1>1. ClientTypeOK /\ UNCHANGED <<runtime_vars, assoc_vars, client_vars>>
  BY DEF EvalEmpty, EvalPackageInBlock, Rejected, Inv, TypeOK
<1>2. result' \in Codes
  BY DEF EvalEmpty, EvalPackageInBlock, Rejected, Check, Codes
<1> QED
  BY <1>1, <1>2, ClientInv DEF ClientTypeOK, client_vars

LEMMA EvalImportInv ==
  ASSUME Inv, package_id \in Packages, NEW s \in Statements, EvalImport(s)
  PROVE  Inv'
<1>1. CASE Rejected(ImportChecks(s))
  <2>1. CodesOf(ImportChecks(s)) \subseteq Codes
    BY DEF CodesOf, ImportChecks, Codes, Check, InContext, AllowParams
  <2> QED
    BY <1>1, <2>1, RejectedInv
<1>2. CASE /\ \E p \in PackagesNamed(s.path) : AddDependency(package_id, p)
           /\ Finish(s, NoId, NoId, "OK")
           /\ UNCHANGED assoc_vars
  <2>1. PICK p \in Packages : AddDependency(package_id, p)
    BY <1>2 DEF PackagesNamed
  <2>2. RuntimeTypeOK' /\ Grows /\ UNCHANGED defs
    BY <2>1, AddDependencyType DEF Inv, TypeOK, AddDependency
  <2> QED
    BY <1>2, <2>2, BodyInv DEF Codes
<1> QED
  BY <1>1, <1>2 DEF EvalImport

LEMMA EvalPackageStatementInv ==
  ASSUME Inv, EvalPackageStatement
  PROVE  Inv'
<1>1. PICK s \in PackageStatements : CreatePackage(s.name, s.main)
  BY DEF EvalPackageStatement
<1>2. s.name \in Seq(STRING) \ {<<>>}
  BY StatementsAssumption
<1>3. RuntimeTypeOK' /\ Grows /\ last_id \in Packages'
  BY <1>1, <1>2, CreatePackageType DEF Inv, TypeOK
<1>4. last_id' \in Int
  BY <1>3, MaxIdAssumption DEF RuntimeTypeOK
<1>5. AssocTypeOK'
  BY <1>3, <1>4, AssocKept DEF Inv, TypeOK, EvalPackageStatement
<1>6. ClientTypeOK'
  <2>1. /\ context_stack' = context_stack /\ package_id' = last_id /\ result' = "OK"
        /\ last_assoc_id' = last_assoc_id
    BY DEF EvalPackageStatement, assoc_vars
  <2>2. last_assoc_id \in Nat /\ last_assoc_id <= last_assoc_id'
    BY <2>1, MaxAssocIdAssumption DEF Inv, TypeOK, AssocTypeOK
  <2>3. context_stack \in Seq(FrameType')
    BY <1>3, <1>4, <2>1, <2>2, FramesKept DEF Inv, TypeOK, ClientTypeOK
  <2> QED
    BY <1>3, <2>1, <2>3 DEF ClientTypeOK, Codes
<1>7. NamesUnique'
  BY <1>1, NamesKept DEF Inv, CreatePackage
<1> QED
  BY <1>3, <1>5, <1>6, <1>7 DEF Inv, TypeOK

LEMMA SelectPackageInv ==
  ASSUME Inv, SelectPackage
  PROVE  Inv'
<1>1. ClientTypeOK /\ Packages' = Packages
  BY DEF SelectPackage, Inv, TypeOK, runtime_vars, Packages
<1> QED
  BY <1>1, ClientInv DEF SelectPackage, ClientTypeOK

LEMMA EndBlockInv ==
  ASSUME Inv, EndBlock
  PROVE  Inv'
<1>1. /\ ClientTypeOK /\ context_stack # <<>>
      /\ context_stack' = context_stack \/ context_stack' = Front(context_stack)
      /\ UNCHANGED <<runtime_vars, assoc_vars, package_id>>
  BY DEF EndBlock, Inv, TypeOK
<1>2. result' \in Codes
  BY <1>1 DEF EndBlock, ClientTypeOK, Codes
<1>3. Front(context_stack) \in Seq(FrameType)
  <2>1. context_stack \in Seq(FrameType) /\ Len(context_stack) \in Nat
    BY <1>1 DEF ClientTypeOK
  <2>2. \A i \in 1 .. Len(context_stack) - 1 : context_stack[i] \in FrameType
    BY <2>1, ElementOfSeq
  <2> QED
    BY <2>1, <2>2, SubSeqProperties DEF Front
<1> QED
  BY <1>1, <1>2, <1>3, ClientInv DEF ClientTypeOK

-----------------------------------------------------------------------------
(* Enum values and fields.                                                 *)
LEMMA EvalEnumValueInv ==
  ASSUME Inv, package_id \in Packages, NEW s \in Statements, EvalEnumValue(s)
  PROVE  Inv'
<1>1. CASE Rejected(EnumValueChecks(s))
  <2>1. CodesOf(EnumValueChecks(s)) \subseteq Codes
    BY DEF CodesOf, EnumValueChecks, Codes, Check, InContext, AllowParams
  <2> QED
    BY <1>1, <2>1, RejectedInv
<1>2. CASE /\ Accepted(EnumValueChecks(s))
           /\ AddEnumValue(ContextEnum, s.name, s.arg)
           /\ Finish(s, ContextEnum, NoId, "OK")
           /\ UNCHANGED assoc_vars
  <2>1. ContextEnum # NoId
    <3>1. Check(ContextEnum # NoId, "INVALID_CONTEXT").holds
      BY <1>2 DEF Accepted, EnumValueChecks
    <3> QED
      BY <3>1, Zenon DEF Check
  <2>2. ContextEnum \in KindIds({"enum"})
    <3>1. Search("enum", <<Context(1).name>>) \in Seq(SUBSET KindIds({"enum"}))
      BY SearchType DEF Inv, TypeOK
    <3> QED
      BY <2>1, <3>1, EarliestKind DEF ContextEnum, Inv, TypeOK
  <2>3. RuntimeTypeOK' /\ Grows /\ UNCHANGED defs
    BY <1>2, <2>2, StatementType, AddEnumValueType DEF Inv, TypeOK, AddEnumValue
  <2>4. ContextEnum \in Issued' \cup {NoId}
    BY <2>2, <2>3, KindIdsIssued DEF Inv, TypeOK
  <2> QED
    BY <1>2, <2>3, <2>4, BodyInv DEF Codes
<1> QED
  BY <1>1, <1>2 DEF EvalEnumValue

LEMMA FinishFieldInv ==
  ASSUME Inv, package_id \in Packages, NEW s \in Statements,
         Accepted(FieldChecks(s)), NEW type \in FieldType, FinishField(s, type)
  PROVE  Inv'
<1> DEFINE composite == CompositeOf(Context(1))
<1>1. composite # NoId
  <2>1. /\ 3 \in DOMAIN FieldChecks(s)
        /\ FieldChecks(s)[3] = Check(composite # NoId, "INVALID_CONTEXT")
    BY DEF FieldChecks
  <2>2. Check(composite # NoId, "INVALID_CONTEXT").holds
    BY <2>1, Zenon DEF Accepted
  <2> QED
    BY <2>2, Zenon DEF Check
<1>2. composite \in KindIds(Composites)
  BY <1>1, DeclaredType DEF Inv, TypeOK
<1>3. RuntimeTypeOK' /\ Grows /\ UNCHANGED defs
  BY <1>2, StatementType, AddFieldType DEF FinishField, Inv, TypeOK, AddField
<1>4. composite \in Issued' \cup {NoId}
  BY <1>2, <1>3, KindIdsIssued DEF Inv, TypeOK
<1> QED
  BY <1>3, <1>4, BodyInv DEF FinishField, Codes

LEMMA FieldCheckCodes ==
  ASSUME NEW s
  PROVE  CodesOf(FieldChecks(s)) \subseteq Codes
BY DEF CodesOf, FieldChecks, Codes, Check, InContext, AllowParams

LEMMA EvalBuiltinTypeFieldInv ==
  ASSUME Inv, package_id \in Packages, NEW s \in Statements, EvalBuiltinTypeField(s)
  PROVE  Inv'
<1>1. CASE Rejected(FieldChecks(s))
  BY <1>1, FieldCheckCodes, RejectedInv
<1>2. CASE Accepted(FieldChecks(s)) /\ FinishField(s, BuiltinType(s.arg))
  <2>1. BuiltinType(s.arg) \in FieldType
    BY StatementType DEF BuiltinType, FieldType
  <2> QED
    BY <1>2, <2>1, FinishFieldInv
<1> QED
  BY <1>1, <1>2 DEF EvalBuiltinTypeField

(* The fields of a composite are at natural positions, and NoId has none.  *)
LEMMA FieldsNamedNat ==
  ASSUME RuntimeTypeOK, NEW c, NEW name
  PROVE  /\ FieldsNamed(c, name) \subseteq Nat
         /\ FieldsNamed(c, name) # {} => c \in KindIds(Composites)
<1>1. CASE c \in DOMAIN fields
  <2>1. fields[c] \in Seq(Field) /\ c \in KindIds(Composites)
    BY <1>1 DEF RuntimeTypeOK
  <2> QED
    BY <1>1, <2>1 DEF FieldsNamed, FieldsOf
<1>2. CASE c \notin DOMAIN fields
  BY <1>2 DEF FieldsNamed, FieldsOf
<1> QED
  BY <1>1, <1>2

LEMMA UserTypePassed ==
  ASSUME NEW s
  PROVE  /\ CodesOf(UserTypeChecks(s)) \subseteq Codes
         /\ Accepted(UserTypeChecks(s)) =>
              Accepted(FieldChecks(s)) /\ (EnumNamed(s) # NoId \/ IndexedFields(s) # {})
<1> DEFINE own == <<Check(EnumNamed(s) # NoId \/ IndexedFields(s) # {}, "UNKNOWN_FIELD_TYPE"),
                    Check(EnumNamed(s) = NoId \/ IndexedFields(s) = {}, "AMBIGUOUS_FIELD_TYPE")>>
           S == {FieldChecks(s)[i] : i \in DOMAIN FieldChecks(s)}
                \cup {own[i] : i \in DOMAIN own}
<1>1. FieldChecks(s) \in Seq(S) /\ own \in Seq(S)
  BY DEF FieldChecks
<1>2. UserTypeChecks(s) = FieldChecks(s) \o own
  BY DEF UserTypeChecks
<1>3. CodesOf(own) \subseteq Codes
  BY DEF CodesOf, Codes, Check
<1>4. /\ 1 \in DOMAIN own
      /\ own[1] = Check(EnumNamed(s) # NoId \/ IndexedFields(s) # {}, "UNKNOWN_FIELD_TYPE")
  OBVIOUS
<1>5. Accepted(own) => Check(EnumNamed(s) # NoId \/ IndexedFields(s) # {},
                             "UNKNOWN_FIELD_TYPE").holds
  BY <1>4, Zenon DEF Accepted
<1> HIDE DEF own, S
<1>6. CodesOf(FieldChecks(s) \o own) \subseteq CodesOf(FieldChecks(s)) \cup CodesOf(own)
  BY <1>1, ConcatChecks
<1>7. CodesOf(UserTypeChecks(s)) \subseteq Codes
  BY <1>2, <1>3, <1>6, FieldCheckCodes
<1>8. ASSUME Accepted(UserTypeChecks(s))
      PROVE  Accepted(FieldChecks(s)) /\ (EnumNamed(s) # NoId \/ IndexedFields(s) # {})
  <2>1. Accepted(FieldChecks(s)) /\ Accepted(own)
    BY <1>1, <1>2, <1>8, ConcatChecks
  <2>2. EnumNamed(s) # NoId \/ IndexedFields(s) # {}
    BY <1>5, <2>1, Zenon DEF Check
  <2> QED
    BY <2>1, <2>2
<1> QED
  BY <1>7, <1>8

(* The type that an accepted field statement names: an enum, or a field    *)
(* that the composite has.                                                 *)
UserType(s) == IF EnumNamed(s) # NoId THEN EnumType(EnumNamed(s))
               ELSE FieldIndex(IndexedComposite(s), Min(IndexedFields(s)))

KnownType(type) ==
  CASE type.kind = "BUILTIN" -> TRUE
    [] type.kind = "ENUM"    -> type.ref \in KindIds({"enum"})
    [] OTHER                 -> type.field \in DOMAIN FieldsOf(type.ref)

LEMMA UserTypeKnown ==
  ASSUME TypeOK, package_id \in Packages, NEW s,
         EnumNamed(s) # NoId \/ IndexedFields(s) # {}
  PROVE  UserType(s) \in FieldType /\ KnownType(UserType(s))
<1>1. CASE EnumNamed(s) # NoId
  <2>1. Search("enum", s.path) \in Seq(SUBSET KindIds({"enum"}))
    BY SearchType DEF TypeOK
  <2>2. EnumNamed(s) \in KindIds({"enum"})
    BY <1>1, <2>1, EarliestKind DEF EnumNamed, TypeOK
  <2>3. UserType(s) = [kind |-> "ENUM", ref |-> EnumNamed(s)]
    BY <1>1 DEF UserType, EnumType
  <2> QED
    BY <2>2, <2>3, KindIdsNat DEF FieldType, TypeOK, KnownType
<1>2. CASE EnumNamed(s) = NoId
  <2>1. IndexedFields(s) # {}
    BY <1>2
  <2>2. /\ IndexedFields(s) \subseteq Nat
        /\ IndexedComposite(s) \in KindIds(Composites)
    BY <2>1, FieldsNamedNat DEF IndexedFields, TypeOK
  <2>3. PICK i : i = Min(IndexedFields(s))
    OBVIOUS
  <2>4. i \in Nat /\ i \in IndexedFields(s)
    BY <2>1, <2>2, <2>3, MinNat
  <2>5. IndexedComposite(s) \in Issued
    BY <2>2, KindIdsNat DEF TypeOK
  <2>6. UserType(s) = [kind |-> "FIELD_INDEX", ref |-> IndexedComposite(s), field |-> i]
    BY <1>2, <2>3 DEF UserType, FieldIndex
  <2>7. i \in DOMAIN FieldsOf(IndexedComposite(s))
    BY <2>4 DEF IndexedFields, FieldsNamed
  <2> QED
    BY <2>4, <2>5, <2>6, <2>7 DEF FieldType, KnownType
<1> QED
  BY <1>1, <1>2

LEMMA EvalUserTypeFieldInv ==
  ASSUME Inv, package_id \in Packages, NEW s \in Statements, EvalUserTypeField(s)
  PROVE  Inv'
<1>1. CASE Rejected(UserTypeChecks(s))
  BY <1>1, UserTypePassed, RejectedInv
<1>2. CASE Accepted(UserTypeChecks(s)) /\ FinishField(s, UserType(s))
  <2>1. Accepted(FieldChecks(s)) /\ UserType(s) \in FieldType
    BY <1>2, UserTypePassed, UserTypeKnown DEF Inv
  <2> QED
    BY <1>2, <2>1, FinishFieldInv
<1> QED
  BY <1>1, <1>2 DEF EvalUserTypeField, UserType

-----------------------------------------------------------------------------
(* Associations: the type of the map, with its sets as parameters.         *)
IsAssocOf(r, n, comps) ==
  /\ r \in [id : 0 .. n - 1, comp_id : comps, added_fields : Seq(Nat), caps : {r.caps}]
  /\ IsMap(r.caps, comps, STRING)

AssocMap(info, n, comps, likes) ==
  /\ DOMAIN info \subseteq likes
  /\ \A s \in DOMAIN info :
       /\ info[s] \in Seq(Range(info[s]))
       /\ \A i \in DOMAIN info[s] : IsAssocOf(info[s][i], n, comps)

LEMMA AssocTypeMeans ==
  /\ AssocTypeOK <=>
       /\ last_assoc_id \in 0 .. MaxAssocId
       /\ AssocMap(system_assoc_info, last_assoc_id, KindIds(ComponentLikes), KindIds(SystemLikes))
  /\ AssocTypeOK' <=>
       /\ last_assoc_id' \in 0 .. MaxAssocId
       /\ AssocMap(system_assoc_info', last_assoc_id', KindIds(ComponentLikes)', KindIds(SystemLikes)')
BY DEF AssocTypeOK, AssocMap, IsAssoc, IsAssocOf, IsCapabilities

LEMMA AssocMapMono ==
  ASSUME NEW info, NEW m \in Nat, NEW n \in Nat, m <= n,
         NEW comps, NEW more, comps \subseteq more,
         NEW likes, NEW others, likes \subseteq others,
         AssocMap(info, m, comps, likes)
  PROVE  AssocMap(info, n, more, others)
<1>1. \A r : IsAssocOf(r, m, comps) => IsAssocOf(r, n, more)
  BY IsMapMono DEF IsAssocOf
<1> QED
  BY <1>1 DEF AssocMap

(* An appended sequence is one of its own elements.                        *)
LEMMA AppendIsSeq ==
  ASSUME NEW q, q \in Seq(Range(q)), NEW x
  PROVE  /\ Append(q, x) \in Seq(Range(Append(q, x)))
         /\ DOMAIN Append(q, x) = 1 .. Len(q) + 1
         /\ DOMAIN q = 1 .. Len(q) /\ Len(q) \in Nat
         /\ \A i \in 1 .. Len(q) : Append(q, x)[i] = q[i]
         /\ Append(q, x)[Len(q) + 1] = x
<1> DEFINE T == Range(q) \cup {x}
<1>1. q \in Seq(T) /\ x \in T
  <2>1. Range(q) \subseteq T
    OBVIOUS
  <2> QED
    BY <2>1, SeqMono
<1> HIDE DEF T
<1>2. /\ Append(q, x) \in Seq(T) /\ Len(Append(q, x)) = Len(q) + 1
      /\ DOMAIN Append(q, x) = 1 .. Len(q) + 1
      /\ DOMAIN q = 1 .. Len(q) /\ Len(q) \in Nat
      /\ \A i \in 1 .. Len(q) : Append(q, x)[i] = q[i]
      /\ Append(q, x)[Len(q) + 1] = x
  BY <1>1, AppendProperties
<1>a. PICK a : a = Append(q, x)
  OBVIOUS
<1>n. PICK n : n = Len(q) + 1
  OBVIOUS
<1>3. n \in Nat /\ a \in Seq(T) /\ Len(a) = n
  BY <1>2, <1>a, <1>n
<1>4. a \in [1 .. n -> Range(a)]
  BY <1>3 DEF Range
<1>5. a \in Seq(Range(a))
  BY <1>3, <1>4, FunctionIsSeq
<1> QED
  BY <1>2, <1>5, <1>a

LEMMA AddSystemAssocType ==
  ASSUME NEW info, NEW n \in Nat, NEW comps, NEW likes, AssocMap(info, n, comps, likes),
         NEW s \in likes, NEW c \in comps, NEW list \in Seq(Nat)
  PROVE  AssocMap(AddSystemAssoc(info, n, s, c, list), n + 1, comps, likes)
<1> DEFINE new == [id |-> n, comp_id |-> c, added_fields |-> list, caps |-> EmptyMap]
           old == AssocList(info, s)
           out == AddSystemAssoc(info, n, s, c, list)
<1>1. /\ DOMAIN out = DOMAIN info \cup {s}
      /\ out[s] = Append(old, new)
      /\ \A t \in DOMAIN info \ {s} : out[t] = info[t]
  <2>1. out = Put(info, s, Append(old, new))
    BY DEF AddSystemAssoc
  <2> HIDE DEF out, old, new
  <2>v. PICK v : v = Append(old, new)
    OBVIOUS
  <2>2. /\ DOMAIN Put(info, s, v) = DOMAIN info \cup {s}
        /\ Put(info, s, v)[s] = v
        /\ \A t \in DOMAIN info \ {s} : Put(info, s, v)[t] = info[t]
    BY DEF Put
  <2> QED
    BY <2>1, <2>2, <2>v
<1>2. IsAssocOf(new, n + 1, comps)
  BY EmptyIsMap DEF IsAssocOf
<1>3. AssocMap(info, n + 1, comps, likes)
  BY AssocMapMono
<1>4. /\ old \in Seq(Range(old))
      /\ \A i \in DOMAIN old : IsAssocOf(old[i], n + 1, comps)
  <2>1. CASE s \in DOMAIN info
    BY <1>3, <2>1 DEF AssocList, AssocMap
  <2>2. CASE s \notin DOMAIN info
    <3>1. old = <<>> /\ <<>> \in Seq(Range(<<>>))
      BY <2>2, EmptySeq DEF AssocList
    <3> QED
      BY <3>1
  <2> QED
    BY <2>1, <2>2
<1> HIDE DEF out, old, new
<1>5. /\ Append(old, new) \in Seq(Range(Append(old, new)))
      /\ DOMAIN Append(old, new) = 1 .. Len(old) + 1
      /\ DOMAIN old = 1 .. Len(old) /\ Len(old) \in Nat
      /\ \A i \in 1 .. Len(old) : Append(old, new)[i] = old[i]
      /\ Append(old, new)[Len(old) + 1] = new
  BY <1>4, AppendIsSeq
<1>6. \A i \in DOMAIN Append(old, new) : IsAssocOf(Append(old, new)[i], n + 1, comps)
  BY <1>2, <1>4, <1>5
<1>7. ASSUME NEW t \in DOMAIN out
      PROVE  /\ out[t] \in Seq(Range(out[t]))
             /\ \A i \in DOMAIN out[t] : IsAssocOf(out[t][i], n + 1, comps)
  <2>1. CASE t = s
    BY <1>1, <1>5, <1>6, <2>1
  <2>2. CASE t # s
    BY <1>1, <1>3, <2>2 DEF AssocMap
  <2> QED
    BY <2>1, <2>2
<1>8. DOMAIN out \subseteq likes
  BY <1>1, <1>3 DEF AssocMap
<1>9. AssocMap(out, n + 1, comps, likes)
  BY <1>7, <1>8 DEF AssocMap
<1> QED
  BY <1>9 DEF out

LEMMA SetSystemAssocCapabilityType ==
  ASSUME NEW info, NEW n, NEW comps, NEW likes, AssocMap(info, n, comps, likes),
         NEW s, NEW a, NEW c \in comps, NEW cap \in STRING
  PROVE  AssocMap(SetSystemAssocCapability(info, s, a, c, cap), n, comps, likes)
<1> PICK out : out = SetSystemAssocCapability(info, s, a, c, cap)
  OBVIOUS
<1>1. /\ DOMAIN out = DOMAIN info
      /\ \A t \in DOMAIN info \ {s} : out[t] = info[t]
  BY DEF SetSystemAssocCapability
<1>2. ASSUME s \in DOMAIN info
      PROVE  /\ out[s] \in Seq(Range(out[s]))
             /\ \A i \in DOMAIN out[s] : IsAssocOf(out[s][i], n, comps)
  <2> PICK q : q = info[s]
    OBVIOUS
  <2>1. out[s] = [i \in DOMAIN q |-> IF q[i].id = a THEN WithCapability(q[i], c, cap)
                                     ELSE q[i]]
    BY <1>2 DEF SetSystemAssocCapability
  <2>2. /\ q \in Seq(Range(q))
        /\ \A i \in DOMAIN q : IsAssocOf(q[i], n, comps)
    BY <1>2 DEF AssocMap
  <2>3. DOMAIN q = 1 .. Len(q) /\ Len(q) \in Nat
    BY <2>2
  <2> PICK p : p = out[s]
    OBVIOUS
  <2>4. DOMAIN p = 1 .. Len(q)
    BY <2>1, <2>3
  <2>5. p \in [1 .. Len(q) -> Range(p)]
    BY <2>1, <2>4 DEF Range
  <2>6. p \in Seq(Range(p))
    BY <2>3, <2>5, FunctionIsSeq
  <2>7. ASSUME NEW i \in DOMAIN p
        PROVE  IsAssocOf(p[i], n, comps)
    <3> PICK r : r = q[i]
      OBVIOUS
    <3>1. IsAssocOf(r, n, comps)
      BY <2>2, <2>3, <2>4
    <3>2. IsMap(Put(r.caps, c, cap), comps, STRING)
      BY <3>1, PutIsMap DEF IsAssocOf
    <3>3. IsAssocOf(WithCapability(r, c, cap), n, comps)
      BY <3>1, <3>2 DEF IsAssocOf, WithCapability
    <3>4. p[i] = IF r.id = a THEN WithCapability(r, c, cap) ELSE r
      BY <2>1, <2>3, <2>4
    <3> QED
      BY <3>1, <3>3, <3>4
  <2> QED
    BY <2>6, <2>7
<1>3. ASSUME NEW t \in DOMAIN info
      PROVE  /\ out[t] \in Seq(Range(out[t]))
             /\ \A i \in DOMAIN out[t] : IsAssocOf(out[t][i], n, comps)
  <2>1. CASE t = s
    BY <1>2, <2>1
  <2>2. CASE t # s
    BY <1>1, <2>2 DEF AssocMap
  <2> QED
    BY <2>1, <2>2
<1>4. DOMAIN out \subseteq likes
  BY <1>1 DEF AssocMap
<1>5. AssocMap(out, n, comps, likes)
  BY <1>1, <1>3, <1>4 DEF AssocMap
<1> QED
  BY <1>5

-----------------------------------------------------------------------------
(* The with list of a statement.                                           *)
LEMMA FieldIdsType ==
  ASSUME RuntimeTypeOK, NEW c, NEW names \in Seq(STRING), Accepted(WithChecks(c, names))
  PROVE  FieldIds(c, names) \in Seq(Nat)
<1>1. DOMAIN names = 1 .. Len(names) /\ Len(names) \in Nat
  OBVIOUS
<1>2. ASSUME NEW i \in DOMAIN names
      PROVE  Min(FieldsNamed(c, names[i])) \in Nat
  <2> DEFINE named == FieldsNamed(c, names[i])
             code  == IF named = {} THEN "UNKNOWN_FIELD_NAME" ELSE "INVALID_ASSOC_FIELD_TYPE"
             holds == named # {} /\ IsAssocType(FieldsOf(c)[Min(named)].type)
  <2>1. WithChecks(c, names)[i] = Check(holds, code) /\ i \in DOMAIN WithChecks(c, names)
    BY <1>2 DEF WithChecks
  <2>2. Check(holds, code).holds
    BY <2>1, Zenon DEF Accepted
  <2>3. named # {}
    BY <2>2, Zenon DEF Check
  <2> QED
    BY <2>3, FieldsNamedNat, MinNat
<1>3. FieldIds(c, names) \in [1 .. Len(names) -> Nat]
  BY <1>1, <1>2 DEF FieldIds
<1> QED
  BY <1>1, <1>3, FunctionIsSeq

LEMMA WithCheckCodes ==
  ASSUME NEW c, NEW names \in Seq(STRING)
  PROVE  /\ CodesOf(WithChecks(c, names)) \subseteq Codes
         /\ WithChecks(c, names) \in Seq(Range(WithChecks(c, names)))
<1> PICK checks : checks = WithChecks(c, names)
  OBVIOUS
<1>1. /\ DOMAIN names = 1 .. Len(names) /\ Len(names) \in Nat
      /\ DOMAIN checks = DOMAIN names
  BY DEF WithChecks
<1>2. checks \in [1 .. Len(names) -> Range(checks)]
  BY <1>1 DEF WithChecks, Range
<1>3. checks \in Seq(Range(checks))
  BY <1>1, <1>2, FunctionIsSeq
<1>4. \A i \in DOMAIN checks : checks[i].code \in Codes
  BY DEF WithChecks, Check, Codes
<1> QED
  BY <1>3, <1>4 DEF CodesOf

LEMMA ConcatRanges ==
  ASSUME NEW a, a \in Seq(Range(a)), NEW b, b \in Seq(Range(b))
  PROVE  /\ Accepted(a \o b) => Accepted(a) /\ Accepted(b)
         /\ CodesOf(a \o b) \subseteq CodesOf(a) \cup CodesOf(b)
         /\ a \o b \in Seq(Range(a) \cup Range(b))
<1> DEFINE S == Range(a) \cup Range(b)
<1>1. Range(a) \subseteq S /\ Range(b) \subseteq S
  OBVIOUS
<1> HIDE DEF S
<1>2. a \in Seq(S) /\ b \in Seq(S)
  BY <1>1, SeqMono
<1> QED
  BY <1>2, ConcatChecks, ConcatProperties DEF S

-----------------------------------------------------------------------------
(* Capabilities.                                                           *)
LEMMA AssocStepType ==
  ASSUME TypeOK, package_id \in Packages, RuntimeTypeOK', Grows,
         last_assoc_id' \in 0 .. MaxAssocId, last_assoc_id <= last_assoc_id',
         AssocMap(system_assoc_info', last_assoc_id', KindIds(ComponentLikes), KindIds(SystemLikes)),
         NEW s \in Statements, NEW ref \in Issued' \cup {NoId},
         NEW assoc \in 0 .. last_assoc_id' - 1 \cup {NoId}, NEW code \in Codes,
         Finish(s, ref, assoc, code)
  PROVE  TypeOK'
<1>1. last_id' \in Int
  BY MaxIdAssumption DEF RuntimeTypeOK
<1>2. last_assoc_id \in Nat /\ last_assoc_id' \in Nat
  BY MaxAssocIdAssumption DEF TypeOK, AssocTypeOK
<1>3. /\ KindIds(ComponentLikes) \subseteq KindIds(ComponentLikes)'
      /\ KindIds(SystemLikes) \subseteq KindIds(SystemLikes)'
  BY <1>1, GrowsSets DEF TypeOK
<1>4. AssocMap(system_assoc_info', last_assoc_id', KindIds(ComponentLikes)', KindIds(SystemLikes)')
  BY <1>2, <1>3, AssocMapMono
<1>5. AssocTypeOK'
  BY <1>4, AssocTypeMeans
<1>6. ClientTypeOK'
  BY <1>1, <1>2, FinishType DEF TypeOK
<1> QED
  BY <1>5, <1>6 DEF TypeOK

(* An association that a statement may add.                                *)
LEMMA AddedType ==
  ASSUME AssocTypeOK, NEW comp \in KindIds(ComponentLikes), NEW sys \in KindIds(SystemLikes),
         NEW list \in Seq(Nat), NextAssocId
  PROVE  /\ last_assoc_id' \in 0 .. MaxAssocId /\ last_assoc_id <= last_assoc_id'
         /\ last_assoc_id \in 0 .. last_assoc_id' - 1 \cup {NoId}
         /\ AssocMap(AddSystemAssoc(system_assoc_info, last_assoc_id, sys, comp, list),
                     last_assoc_id', KindIds(ComponentLikes), KindIds(SystemLikes))
<1>1. /\ last_assoc_id \in Nat /\ last_assoc_id' = last_assoc_id + 1
      /\ last_assoc_id < MaxAssocId
  BY MaxAssocIdAssumption DEF AssocTypeOK, NextAssocId
<1>2. AssocMap(system_assoc_info, last_assoc_id, KindIds(ComponentLikes), KindIds(SystemLikes))
  BY AssocTypeMeans
<1>3. AssocMap(AddSystemAssoc(system_assoc_info, last_assoc_id, sys, comp, list),
               last_assoc_id + 1, KindIds(ComponentLikes), KindIds(SystemLikes))
  BY <1>1, <1>2, AddSystemAssocType
<1> QED
  BY <1>1, <1>3, MaxAssocIdAssumption

LEMMA SystemComponentAccepted ==
  ASSUME TypeOK, package_id \in Packages, NEW s \in Statements
  PROVE  /\ CodesOf(SystemComponentChecks(s)) \subseteq Codes
         /\ Accepted(SystemComponentChecks(s)) =>
              /\ NamedComponentLike(s) \in KindIds(ComponentLikes)
              /\ ContextSystem \in KindIds(SystemLikes)
              /\ Accepted(WithChecks(NamedComponentLike(s), s.with))
<1> DEFINE comp   == NamedComponentLike(s)
           nested == Context(1).op \in {"SYSTEM_COMPONENT", "SYSTEM_WITH"}
           own == <<InContext({"SYSTEM", "ACTION", "SYSTEM_COMPONENT", "SYSTEM_WITH"}),
       AllowParams(s, {}),
       Check(comp # NoId, "UNKNOWN_COMPONENT_LIKE_TYPE"),
       Check(ContextSystem # NoId, "INVALID_CONTEXT"),
       Check(~(Context(1).op = "SYSTEM_COMPONENT" /\ s.with # <<>>), "NESTED_ASSOC"),
       Check(~nested \/ AssocComponent # NoId, "INVALID_CONTEXT"),
       Check(~InAssocBlock \/
             FindAssocsAsserts(ContextSystem, AssocComponent, Context(1).with), "ABORT"),
       Check(~InAssocBlock \/ Cardinality(ContextAssocs) <= 1,
             "SAME_FIELDS_SYSTEM_ASSOCIATION"),
       Check(~NotifyStarted, "NOTIFY_BEFORE_SYSTEM_COMPONENT")>>
           with == WithChecks(comp, s.with)
<1>1. SystemComponentChecks(s) = own \o with
  BY DEF SystemComponentChecks
<1>2. CodesOf(own) \subseteq Codes
  BY DEF CodesOf, Codes, Check, InContext, AllowParams
<1>3. own \in Seq(Range(own))
  BY DEF Range
<1>4. /\ 3 \in DOMAIN own /\ own[3] = Check(comp # NoId, "UNKNOWN_COMPONENT_LIKE_TYPE")
      /\ 4 \in DOMAIN own /\ own[4] = Check(ContextSystem # NoId, "INVALID_CONTEXT")
  OBVIOUS
<1> HIDE DEF own
<1>5. with \in Seq(Range(with)) /\ CodesOf(with) \subseteq Codes
  BY StatementType, WithCheckCodes
<1> HIDE DEF with
<1>6. /\ Accepted(own \o with) => Accepted(own) /\ Accepted(with)
      /\ CodesOf(own \o with) \subseteq CodesOf(own) \cup CodesOf(with)
  BY <1>3, <1>5, ConcatRanges
<1>7. ASSUME Accepted(own)
      PROVE  comp # NoId /\ ContextSystem # NoId
  <2>1. /\ Check(comp # NoId, "UNKNOWN_COMPONENT_LIKE_TYPE").holds
        /\ Check(ContextSystem # NoId, "INVALID_CONTEXT").holds
    BY <1>4, <1>7, Zenon DEF Accepted
  <2>2. comp # NoId
    BY <2>1, Zenon DEF Check
  <2>3. ContextSystem # NoId
    BY <2>1, Zenon DEF Check
  <2> QED
    BY <2>2, <2>3
<1>8. /\ comp \in KindIds(ComponentLikes) \cup {NoId}
      /\ ContextSystem \in KindIds(SystemLikes) \cup {NoId}
  <2>1. RuntimeTypeOK
    BY DEF TypeOK
  <2>2. SearchComponentLike(s.path) \in Seq(SUBSET KindIds(ComponentLikes))
    BY <2>1, SearchTypes
  <2>3. comp \in KindIds(ComponentLikes) \cup {NoId}
    BY <2>1, <2>2, EarliestKind DEF NamedComponentLike
  <2> QED
    BY <2>1, <2>3, ContextSystemType
<1> QED
  BY <1>1, <1>2, <1>5, <1>6, <1>7, <1>8 DEF with

LEMMA EvalSystemComponentInv ==
  ASSUME Inv, package_id \in Packages, NEW s \in Statements, EvalSystemComponent(s)
  PROVE  Inv'
<1>c. PICK comp : comp = NamedComponentLike(s)
  OBVIOUS
<1>s. PICK sys : sys = ContextSystem
  OBVIOUS
<1>n. PICK new : new = IF s.with = <<>> THEN NoId ELSE last_assoc_id
  OBVIOUS
<1>a. PICK added : added = IF s.with = <<>> THEN system_assoc_info
                ELSE AddSystemAssoc(system_assoc_info, new, sys, comp, FieldIds(comp, s.with))
  OBVIOUS
<1>1. CASE Rejected(SystemComponentChecks(s))
  BY <1>1, RejectedInv, SystemComponentAccepted DEF Inv
<1>2. CASE Accepted(SystemComponentChecks(s)) /\ ~Rejected(SystemComponentChecks(s))
  <2>1. /\ comp \in KindIds(ComponentLikes) /\ sys \in KindIds(SystemLikes)
        /\ Accepted(WithChecks(comp, s.with))
    BY <1>2, <1>c, <1>s, SystemComponentAccepted DEF Inv
  <2>2. TypeOK /\ RuntimeTypeOK /\ AssocTypeOK
    BY DEF Inv, TypeOK
  <2>3. /\ last_assoc_id' \in 0 .. MaxAssocId /\ last_assoc_id <= last_assoc_id'
        /\ new \in 0 .. last_assoc_id' - 1 \cup {NoId}
        /\ AssocMap(added, last_assoc_id', KindIds(ComponentLikes), KindIds(SystemLikes))
    <3>1. CASE s.with = <<>>
      <4>1. last_assoc_id' = last_assoc_id
        BY <1>2, <3>1 DEF EvalSystemComponent
      <4> QED
        BY <3>1, <4>1, <1>n, <1>a, <2>2, AssocTypeMeans, MaxAssocIdAssumption
    <3>2. CASE s.with # <<>>
      <4>1. NextAssocId
        BY <1>2, <3>2 DEF EvalSystemComponent
      <4>2. FieldIds(comp, s.with) \in Seq(Nat)
        BY <2>1, <2>2, StatementType, FieldIdsType
      <4> QED
        BY <3>2, <4>1, <4>2, <1>n, <1>a, <2>1, <2>2, AddedType
    <3> QED
      BY <3>1, <3>2
  <2>4. \/ /\ system_assoc_info' = added
           /\ UNCHANGED runtime_vars
           /\ Finish(s, comp, new, "MULTIPLE_CAPABILITIES_SAME_COMPONENT_LIKE")
        \/ /\ system_assoc_info' =
                SetSystemAssocCapability(added, sys, ContextAssoc.id, comp, s.arg)
           /\ UNCHANGED runtime_vars
           /\ Finish(s, comp, new, "OK")
        \/ /\ system_assoc_info' = added
           /\ SetSystemCapability(sys, comp, s.arg)
           /\ Finish(s, comp, new, "OK")
    BY <1>2, <1>c, <1>s, <1>n, <1>a, Zenon DEF EvalSystemComponent
  <2>5. AssocMap(system_assoc_info', last_assoc_id', KindIds(ComponentLikes), KindIds(SystemLikes))
    <3>1. AssocMap(SetSystemAssocCapability(added, sys, ContextAssoc.id, comp, s.arg),
                   last_assoc_id', KindIds(ComponentLikes), KindIds(SystemLikes))
      BY <2>1, <2>3, StatementType, SetSystemAssocCapabilityType
    <3> QED
      BY <2>3, <2>4, <3>1
  <2>6. RuntimeTypeOK' /\ Grows /\ UNCHANGED defs
    <3>1. CASE UNCHANGED runtime_vars
      BY <3>1, <2>2, RuntimeUnchanged DEF runtime_vars
    <3>2. CASE SetSystemCapability(sys, comp, s.arg)
      BY <3>2, <2>1, <2>2, StatementType, SetSystemCapabilityType
      DEF SetSystemCapability, OnlySystemLikes
    <3> QED
      BY <2>4, <3>1, <3>2
  <2>7. comp \in Issued' \cup {NoId}
    BY <2>1, <2>2, <2>6, KindIdsIssued
  <2>8. PICK code \in Codes : Finish(s, comp, new, code)
    BY <2>4 DEF Codes
  <2>9. TypeOK'
    BY <2>2, <2>3, <2>5, <2>6, <2>7, <2>8, AssocStepType
  <2> QED
    BY <2>6, <2>9, NamesKept DEF Inv
<1> QED
  BY <1>1, <1>2 DEF EvalSystemComponent

LEMMA SystemWithAccepted ==
  ASSUME TypeOK, package_id \in Packages, NEW s \in Statements
  PROVE  /\ CodesOf(SystemWithChecks(s)) \subseteq Codes
         /\ Accepted(SystemWithChecks(s)) =>
              /\ ComponentLikeOf(Context(1)) \in KindIds(ComponentLikes)
              /\ ContextSystem \in KindIds(SystemLikes)
              /\ Accepted(WithChecks(ComponentLikeOf(Context(1)), s.with))
<1> DEFINE comp == ComponentLikeOf(Context(1))
           own  == <<InContext({"SYSTEM_COMPONENT"}), AllowParams(s, {}),
                     Check(ContextSystem # NoId, "INVALID_CONTEXT"),
                     Check(comp # NoId, "UNKNOWN_COMPONENT_LIKE_TYPE")>>
           with == WithChecks(comp, s.with)
           end  == <<Check(s.with # <<>>, "UNEXPECTED_STATEMENT")>>
<1>1. SystemWithChecks(s) = own \o with \o end
  BY DEF SystemWithChecks
<1>2. CodesOf(own) \subseteq Codes /\ CodesOf(end) \subseteq Codes
  BY DEF CodesOf, Codes, Check, InContext, AllowParams
<1>3. own \in Seq(Range(own)) /\ end \in Seq(Range(end))
  BY DEF Range
<1>4. /\ 3 \in DOMAIN own /\ own[3] = Check(ContextSystem # NoId, "INVALID_CONTEXT")
      /\ 4 \in DOMAIN own /\ own[4] = Check(comp # NoId, "UNKNOWN_COMPONENT_LIKE_TYPE")
  OBVIOUS
<1> HIDE DEF own, end
<1>5. with \in Seq(Range(with)) /\ CodesOf(with) \subseteq Codes
  BY StatementType, WithCheckCodes
<1> HIDE DEF with
<1> DEFINE S == Range(own) \cup Range(with) \cup Range(end)
<1>6. own \o with \in Seq(S) /\ end \in Seq(S)
  <2>1. own \o with \in Seq(Range(own) \cup Range(with))
    BY <1>3, <1>5, ConcatRanges
  <2>2. Range(own) \cup Range(with) \subseteq S /\ Range(end) \subseteq S
    OBVIOUS
  <2> HIDE DEF S
  <2> QED
    BY <1>3, <2>1, <2>2, SeqMono
<1> HIDE DEF S
<1>7. /\ Accepted(own \o with) => Accepted(own) /\ Accepted(with)
      /\ CodesOf(own \o with) \subseteq CodesOf(own) \cup CodesOf(with)
  BY <1>3, <1>5, ConcatRanges
<1>8. /\ Accepted(own \o with \o end) => Accepted(own \o with)
      /\ CodesOf(own \o with \o end) \subseteq CodesOf(own \o with) \cup CodesOf(end)
  BY <1>6, ConcatChecks
<1>9. ASSUME Accepted(own)
      PROVE  comp # NoId /\ ContextSystem # NoId
  <2>1. /\ Check(comp # NoId, "UNKNOWN_COMPONENT_LIKE_TYPE").holds
        /\ Check(ContextSystem # NoId, "INVALID_CONTEXT").holds
    BY <1>4, <1>9, Zenon DEF Accepted
  <2>2. comp # NoId
    BY <2>1, Zenon DEF Check
  <2>3. ContextSystem # NoId
    BY <2>1, Zenon DEF Check
  <2> QED
    BY <2>2, <2>3
<1>10. /\ comp \in KindIds(ComponentLikes) \cup {NoId}
       /\ ContextSystem \in KindIds(SystemLikes) \cup {NoId}
  BY DeclaredType, ContextSystemType DEF TypeOK
<1> QED
  BY <1>1, <1>2, <1>5, <1>7, <1>8, <1>9, <1>10 DEF with

LEMMA EvalSystemWithInv ==
  ASSUME Inv, package_id \in Packages, NEW s \in Statements, EvalSystemWith(s)
  PROVE  Inv'
<1>c. PICK comp : comp = ComponentLikeOf(Context(1))
  OBVIOUS
<1>s. PICK sys : sys = ContextSystem
  OBVIOUS
<1>1. CASE Rejected(SystemWithChecks(s))
  BY <1>1, RejectedInv, SystemWithAccepted DEF Inv
<1>2. CASE Accepted(SystemWithChecks(s)) /\ ~Rejected(SystemWithChecks(s))
  <2>1. /\ comp \in KindIds(ComponentLikes) /\ sys \in KindIds(SystemLikes)
        /\ Accepted(WithChecks(comp, s.with))
    BY <1>2, <1>c, <1>s, SystemWithAccepted DEF Inv
  <2>2. TypeOK /\ RuntimeTypeOK /\ AssocTypeOK
    BY DEF Inv, TypeOK
  <2>3. FieldIds(comp, s.with) \in Seq(Nat)
    BY <2>1, <2>2, StatementType, FieldIdsType
  <2>4. /\ NextAssocId
        /\ system_assoc_info' = AddSystemAssoc(system_assoc_info, last_assoc_id,
                                  sys, comp, FieldIds(comp, s.with))
        /\ Finish(s, comp, last_assoc_id, "OK")
        /\ UNCHANGED runtime_vars
    BY <1>2, <1>c, <1>s, Zenon DEF EvalSystemWith
  <2>5. /\ last_assoc_id' \in 0 .. MaxAssocId /\ last_assoc_id <= last_assoc_id'
        /\ last_assoc_id \in 0 .. last_assoc_id' - 1 \cup {NoId}
        /\ AssocMap(system_assoc_info', last_assoc_id', KindIds(ComponentLikes), KindIds(SystemLikes))
    BY <2>1, <2>2, <2>3, <2>4, AddedType
  <2>6. RuntimeTypeOK' /\ Grows /\ UNCHANGED defs
    BY <2>2, <2>4, RuntimeUnchanged DEF runtime_vars
  <2>7. comp \in Issued' \cup {NoId} /\ "OK" \in Codes
    BY <2>1, <2>2, <2>6, KindIdsIssued DEF Codes
  <2>8. TypeOK'
    BY <2>2, <2>4, <2>5, <2>6, <2>7, AssocStepType
  <2> QED
    BY <2>6, <2>8, NamesKept DEF Inv
<1> QED
  BY <1>1, <1>2 DEF EvalSystemWith

-----------------------------------------------------------------------------
(* Generates and notify.                                                   *)
LEMMA SystemRecordType ==
  ASSUME RuntimeTypeOK, NEW sys \in KindIds(SystemLikes)
  PROVE  SystemRecord(sys) = system_likes[sys] /\ IsSystemLike(SystemRecord(sys))
BY DEF RuntimeTypeOK, SystemRecord

LEMMA NamedComponentType ==
  ASSUME RuntimeTypeOK, package_id \in Packages, NEW s
  PROVE  /\ NamedComponent(s) \in KindIds({"component"}) \cup {NoId}
         /\ NamedComponentLike(s) \in KindIds(ComponentLikes) \cup {NoId}
<1>1. Search("component", s.path) \in Seq(SUBSET KindIds({"component"}))
  BY SearchType
<1>2. SearchComponentLike(s.path) \in Seq(SUBSET KindIds(ComponentLikes))
  BY SearchTypes
<1> QED
  BY <1>1, <1>2, EarliestKind DEF NamedComponent, NamedComponentLike

LEMMA EvalSystemGeneratesInv ==
  ASSUME Inv, package_id \in Packages, NEW s \in Statements, EvalSystemGenerates(s)
  PROVE  Inv'
<1>1. CASE Rejected(SystemGeneratesChecks(s))
  <2>1. CodesOf(SystemGeneratesChecks(s)) \subseteq Codes
    BY DEF CodesOf, SystemGeneratesChecks, Codes, Check, InContext, AllowParams
  <2> QED
    BY <1>1, <2>1, RejectedInv
<1>2. CASE /\ Accepted(SystemGeneratesChecks(s))
           /\ AddSystemGenerates(ContextSystem)
           /\ Finish(s, last_id, NoId, "OK")
           /\ UNCHANGED assoc_vars
  <2>1. Check(ContextSystem # NoId, "INVALID_CONTEXT").holds
    BY <1>2 DEF Accepted, SystemGeneratesChecks
  <2>2. ContextSystem # NoId
    BY <2>1, Zenon DEF Check
  <2>3. ContextSystem \in KindIds(SystemLikes)
    BY <2>2, ContextSystemType DEF Inv, TypeOK
  <2>4. RuntimeTypeOK' /\ Grows /\ last_id \in Issued' /\ UNCHANGED defs
    BY <1>2, <2>3, AddSystemGeneratesType
    DEF Inv, TypeOK, AddSystemGenerates, OnlySystemLikes
  <2> QED
    BY <1>2, <2>4, BodyInv DEF Codes
<1> QED
  BY <1>1, <1>2 DEF EvalSystemGenerates

LEMMA EvalEntityConstraintInv ==
  ASSUME Inv, package_id \in Packages, NEW s \in Statements, EvalEntityConstraint(s)
  PROVE  Inv'
<1>1. CASE Rejected(EntityConstraintChecks(s))
  <2>1. CodesOf(EntityConstraintChecks(s)) \subseteq Codes
    BY DEF CodesOf, EntityConstraintChecks, Codes, Check, InContext, AllowParams
  <2> QED
    BY <1>1, <2>1, RejectedInv
<1>2. CASE /\ Accepted(EntityConstraintChecks(s))
           /\ LET gen == CHOOSE g \in DOMAIN ContextGenerates : TRUE
              IN SystemGeneratesSetComponent(ContextSystem, gen, NamedComponent(s), s.arg)
           /\ Finish(s, NamedComponent(s), NoId, "OK")
           /\ UNCHANGED assoc_vars
  <2>1. /\ Check(ContextSystem # NoId, "INVALID_CONTEXT").holds
        /\ Check(NamedComponent(s) # NoId, "UNKNOWN_COMPONENT_TYPE").holds
        /\ Check(DOMAIN ContextGenerates # {}, "INVALID_CONTEXT").holds
    <3>1. /\ 3 \in DOMAIN EntityConstraintChecks(s)
          /\ EntityConstraintChecks(s)[3] = Check(ContextSystem # NoId, "INVALID_CONTEXT")
          /\ 4 \in DOMAIN EntityConstraintChecks(s)
          /\ EntityConstraintChecks(s)[4] =
               Check(NamedComponent(s) # NoId, "UNKNOWN_COMPONENT_TYPE")
          /\ 5 \in DOMAIN EntityConstraintChecks(s)
          /\ EntityConstraintChecks(s)[5] =
               Check(DOMAIN ContextGenerates # {}, "INVALID_CONTEXT")
      BY DEF EntityConstraintChecks
    <3> QED
      BY <1>2, <3>1, Zenon DEF Accepted
  <2>2. ContextSystem # NoId /\ NamedComponent(s) # NoId /\ DOMAIN ContextGenerates # {}
    BY <2>1, Zenon DEF Check
  <2>3. RuntimeTypeOK
    BY DEF Inv, TypeOK
  <2>4. /\ ContextSystem \in KindIds(SystemLikes)
        /\ NamedComponent(s) \in KindIds({"component"})
    BY <2>2, <2>3, ContextSystemType, NamedComponentType
  <2>5. PICK gen : /\ gen \in DOMAIN ContextGenerates
                   /\ SystemGeneratesSetComponent(ContextSystem, gen, NamedComponent(s), s.arg)
    BY <1>2, <2>2
  <2>6. gen \in DOMAIN system_likes[ContextSystem].generates
    BY <2>3, <2>4, <2>5, SystemRecordType DEF ContextGenerates
  <2>7. RuntimeTypeOK' /\ Grows /\ UNCHANGED defs
    BY <2>3, <2>4, <2>5, <2>6, StatementType, SystemGeneratesSetComponentType
    DEF SystemGeneratesSetComponent, OnlySystemLikes
  <2>8. NamedComponent(s) \in Issued' \cup {NoId}
    BY <2>3, <2>4, <2>7, KindIdsIssued
  <2> QED
    BY <1>2, <2>7, <2>8, BodyInv DEF Codes
<1> QED
  BY <1>1, <1>2 DEF EvalEntityConstraint

LEMMA EvalSystemNotifyInv ==
  ASSUME Inv, package_id \in Packages, NEW s \in Statements, EvalSystemNotify(s)
  PROVE  Inv'
<1>1. CASE Rejected(SystemNotifyChecks(s))
  <2>1. CodesOf(SystemNotifyChecks(s)) \subseteq Codes
    <3> PICK checks : checks = SystemNotifyChecks(s)
      OBVIOUS
    <3>1. DOMAIN checks = 1 .. 5
      <4> DEFINE k1 == InContext({"SYSTEM", "ACTION"})
                 k2 == AllowParams(s, {})
                 k3 == Check(ContextSystem # NoId, "ABORT")
                 k4 == Check(~NotifyStarted, "MULTIPLE_NOTIFY_STATEMENTS")
                 k5 == Check(s.arg \in NotifySettings \cup {""}, "INVALID_NOTIFY_SETTING")
      <4>1. checks = <<k1, k2, k3, k4, k5>>
        BY DEF SystemNotifyChecks
      <4> HIDE DEF k1, k2, k3, k4, k5
      <4> QED
        BY <4>1
    <3>2. checks[1].code = "INVALID_CONTEXT"
      BY Zenon DEF SystemNotifyChecks, InContext, Check
    <3>3. checks[2].code = "PARAMETERS_NOT_ALLOWED"
      BY Zenon DEF SystemNotifyChecks, AllowParams, Check
    <3>4. checks[3].code = "ABORT"
      BY Zenon DEF SystemNotifyChecks, Check
    <3>5. checks[4].code = "MULTIPLE_NOTIFY_STATEMENTS"
      BY Zenon DEF SystemNotifyChecks, Check
    <3>6. checks[5].code = "INVALID_NOTIFY_SETTING"
      BY Zenon DEF SystemNotifyChecks, Check
    <3>7. \A i \in DOMAIN checks : checks[i].code \in Codes
      BY <3>1, <3>2, <3>3, <3>4, <3>5, <3>6 DEF Codes
    <3> QED
      BY <3>7 DEF CodesOf
  <2> QED
    BY <1>1, <2>1, RejectedInv
<1>2. CASE /\ Accepted(SystemNotifyChecks(s))
           /\ IF s.arg = "" THEN UNCHANGED runtime_vars
              ELSE SetNotifySettings(ContextSystem, DOMAIN SystemRecord(ContextSystem).caps, s.arg)
           /\ Finish(s, ContextSystem, NoId, "OK")
           /\ UNCHANGED assoc_vars
  <2>1. Check(ContextSystem # NoId, "ABORT").holds
    <3>1. /\ 3 \in DOMAIN SystemNotifyChecks(s)
          /\ SystemNotifyChecks(s)[3] = Check(ContextSystem # NoId, "ABORT")
      BY DEF SystemNotifyChecks
    <3> QED
      BY <1>2, <3>1, Zenon DEF Accepted
  <2>2. ContextSystem # NoId
    BY <2>1, Zenon DEF Check
  <2>3. RuntimeTypeOK
    BY DEF Inv, TypeOK
  <2>4. ContextSystem \in KindIds(SystemLikes)
    BY <2>2, <2>3, ContextSystemType
  <2>5. DOMAIN SystemRecord(ContextSystem).caps \in SUBSET KindIds(ComponentLikes)
    BY <2>3, <2>4, SystemRecordType DEF IsSystemLike, IsCapabilities, IsMap
  <2>6. RuntimeTypeOK' /\ Grows /\ UNCHANGED defs
    <3>1. CASE UNCHANGED runtime_vars
      BY <3>1, <2>3, RuntimeUnchanged DEF runtime_vars
    <3>2. CASE SetNotifySettings(ContextSystem, DOMAIN SystemRecord(ContextSystem).caps, s.arg)
      BY <3>2, <2>3, <2>4, <2>5, StatementType, SetNotifySettingsType
      DEF SetNotifySettings, OnlySystemLikes
    <3> QED
      BY <1>2, <3>1, <3>2
  <2>7. ContextSystem \in Issued' \cup {NoId}
    BY <2>3, <2>4, <2>6, KindIdsIssued
  <2> QED
    BY <1>2, <2>6, <2>7, BodyInv DEF Codes
<1> QED
  BY <1>1, <1>2 DEF EvalSystemNotify

LEMMA EvalSystemNotifyComponentInv ==
  ASSUME Inv, package_id \in Packages, NEW s \in Statements, EvalSystemNotifyComponent(s)
  PROVE  Inv'
<1>1. CASE Rejected(NotifyComponentChecks(s))
  <2>1. CodesOf(NotifyComponentChecks(s)) \subseteq Codes
    <3> PICK checks : checks = NotifyComponentChecks(s)
      OBVIOUS
    <3>1. DOMAIN checks = 1 .. 7
      <4> DEFINE k1 == InContext({"SYSTEM_NOTIFY"})
                 k2 == AllowParams(s, {})
                 k3 == Check(Context(1).arg = "", "NOTIFY_BLOCK_AND_COMPONENTS")
                 k4 == Check(NamedComponentLike(s) # NoId, "UNKNOWN_COMPONENT_LIKE_TYPE")
                 k5 == Check(s.arg \in NotifySettings, "INVALID_NOTIFY_SETTING")
                 k6 == Check(ContextSystem # NoId, "ABORT")
                 k7 == Check(NamedComponentLike(s) \notin DOMAIN SystemRecord(ContextSystem).notify_settings,
                        "DUPLICATE_NOTIFY_COMPONENT")
      <4>1. checks = <<k1, k2, k3, k4, k5, k6, k7>>
        BY DEF NotifyComponentChecks
      <4> HIDE DEF k1, k2, k3, k4, k5, k6, k7
      <4> QED
        BY <4>1
    <3>2. checks[1].code = "INVALID_CONTEXT"
      BY Zenon DEF NotifyComponentChecks, InContext, Check
    <3>3. checks[2].code = "PARAMETERS_NOT_ALLOWED"
      BY Zenon DEF NotifyComponentChecks, AllowParams, Check
    <3>4. checks[3].code = "NOTIFY_BLOCK_AND_COMPONENTS"
      BY Zenon DEF NotifyComponentChecks, Check
    <3>5. checks[4].code = "UNKNOWN_COMPONENT_LIKE_TYPE"
      BY Zenon DEF NotifyComponentChecks, Check
    <3>6. checks[5].code = "INVALID_NOTIFY_SETTING"
      BY Zenon DEF NotifyComponentChecks, Check
    <3>7. checks[6].code = "ABORT"
      BY Zenon DEF NotifyComponentChecks, Check
    <3>8. checks[7].code = "DUPLICATE_NOTIFY_COMPONENT"
      BY Zenon DEF NotifyComponentChecks, Check
    <3>9. \A i \in DOMAIN checks : checks[i].code \in Codes
      BY <3>1, <3>2, <3>3, <3>4, <3>5, <3>6, <3>7, <3>8 DEF Codes
    <3> QED
      BY <3>9 DEF CodesOf
  <2> QED
    BY <1>1, <2>1, RejectedInv
<1>2. CASE /\ Accepted(NotifyComponentChecks(s))
           /\ SetNotifySettings(ContextSystem, {NamedComponentLike(s)}, s.arg)
           /\ Finish(s, NamedComponentLike(s), NoId, "OK")
           /\ UNCHANGED assoc_vars
  <2>1. /\ Check(NamedComponentLike(s) # NoId, "UNKNOWN_COMPONENT_LIKE_TYPE").holds
        /\ Check(ContextSystem # NoId, "ABORT").holds
    <3>1. /\ 4 \in DOMAIN NotifyComponentChecks(s) /\ 6 \in DOMAIN NotifyComponentChecks(s)
          /\ NotifyComponentChecks(s)[4] =
               Check(NamedComponentLike(s) # NoId, "UNKNOWN_COMPONENT_LIKE_TYPE")
          /\ NotifyComponentChecks(s)[6] = Check(ContextSystem # NoId, "ABORT")
      BY DEF NotifyComponentChecks
    <3> QED
      BY <1>2, <3>1, Zenon DEF Accepted
  <2>2. ContextSystem # NoId /\ NamedComponentLike(s) # NoId
    BY <2>1, Zenon DEF Check
  <2>3. RuntimeTypeOK
    BY DEF Inv, TypeOK
  <2>4. /\ ContextSystem \in KindIds(SystemLikes)
        /\ NamedComponentLike(s) \in KindIds(ComponentLikes)
    BY <2>2, <2>3, ContextSystemType, NamedComponentType
  <2>5. RuntimeTypeOK' /\ Grows /\ UNCHANGED defs
    BY <1>2, <2>3, <2>4, StatementType, SetNotifySettingsType
    DEF SetNotifySettings, OnlySystemLikes
  <2>6. NamedComponentLike(s) \in Issued' \cup {NoId}
    BY <2>3, <2>4, <2>5, KindIdsIssued
  <2> QED
    BY <1>2, <2>5, <2>6, BodyInv DEF Codes
<1> QED
  BY <1>1, <1>2 DEF EvalSystemNotifyComponent

-----------------------------------------------------------------------------
(* The invariant of the specification.                                     *)
LEMMA InitInv == Init => Inv
<1> SUFFICES ASSUME Init PROVE Inv
  OBVIOUS
<1>1. /\ last_id = 0 /\ package_defs = EmptyMap /\ main_package_id = NoId /\ defs = EmptyMap
      /\ full_names = EmptyMap /\ fields = EmptyMap /\ enum_values = EmptyMap
      /\ system_likes = EmptyMap
      /\ last_assoc_id = 0 /\ system_assoc_info = EmptyMap
      /\ package_id = NoId /\ context_stack = <<>> /\ result = "OK"
  BY DEF Init, RuntimeInit, AssocInit
<1>2. Packages = {} /\ \A kinds : KindIds(kinds) = {}
  BY <1>1 DEF Packages, KindIds, EmptyMap
<1>3. RuntimeTypeOK
  BY <1>1, <1>2, MaxIdAssumption DEF RuntimeTypeOK, EmptyMap
<1>4. AssocTypeOK
  BY <1>1, MaxAssocIdAssumption DEF AssocTypeOK, EmptyMap
<1>5. <<>> \in Seq(FrameType)
  BY EmptySeq
<1>6. ClientTypeOK
  BY <1>1, <1>5 DEF ClientTypeOK, Codes
<1>7. NamesUnique
  BY <1>2 DEF NamesUnique
<1> QED
  BY <1>3, <1>4, <1>6, <1>7 DEF Inv, TypeOK

LEMMA EvalStatementInv ==
  ASSUME Inv, package_id \in Packages, NEW s \in Statements, EvalStatement(s)
  PROVE  Inv'
BY EvalEmptyInv, EvalImportInv, EvalComponentInv, EvalTransientInv, EvalSystemInv,
   EvalActionInv, EvalEnumInv, EvalEnumValueInv, EvalBuiltinTypeFieldInv,
   EvalUserTypeFieldInv, EvalSystemComponentInv, EvalSystemWithInv,
   EvalSystemGeneratesInv, EvalEntityConstraintInv, EvalSystemNotifyInv,
   EvalSystemNotifyComponentInv
DEF EvalStatement

LEMMA UnchangedInv ==
  ASSUME Inv, UNCHANGED vars
  PROVE  Inv'
<1>1. /\ ClientTypeOK /\ Packages' = Packages
      /\ UNCHANGED <<runtime_vars, assoc_vars, package_id, context_stack, result>>
  BY DEF vars, client_vars, Inv, TypeOK, runtime_vars, Packages
<1> QED
  BY <1>1, ClientInv DEF ClientTypeOK

LEMMA NextInv == Inv /\ [Next]_vars => Inv'
<1> SUFFICES ASSUME Inv, [Next]_vars PROVE Inv'
  OBVIOUS
<1>1. CASE EvalPackageStatement
  BY <1>1, EvalPackageStatementInv
<1>2. CASE SelectPackage
  BY <1>2, SelectPackageInv
<1>3. CASE EndBlock
  BY <1>3, EndBlockInv
<1>4. CASE package_id \in Packages /\ \E s \in Statements : EvalStatement(s)
  BY <1>4, EvalStatementInv
<1>5. CASE UNCHANGED vars
  BY <1>5, UnchangedInv
<1> QED
  BY <1>1, <1>2, <1>3, <1>4, <1>5 DEF Next

(* Every variable keeps its type: whatever the statements, the evaluator   *)
(* stores an id only where the runtime has an entry of the right kind for  *)
(* it, and leaves every kind of declaration with exactly its entries.      *)
THEOREM TypeCorrect == Spec => []TypeOK
<1>1. Spec => []Inv
  BY InitInv, NextInv, PTL DEF Spec
<1>2. Inv => TypeOK
  BY DEF Inv
<1> QED
  BY <1>1, <1>2, PTL

(* No two components, transients, systems or actions of a package share a  *)
(* name, however many packages, imports and declarations there are.        *)
THEOREM UniqueNames == Spec => []NamesUnique
<1>1. Spec => []Inv
  BY InitInv, NextInv, PTL DEF Spec
<1>2. Inv => NamesUnique
  BY DEF Inv
<1> QED
  BY <1>1, <1>2, PTL

-----------------------------------------------------------------------------
(* Errors and the store.  A handler answers an error either from one of    *)
(* its checks, which leaves all but the result, or after its effect.       *)
LEMMA RejectedStore ==
  ASSUME NEW checks, Rejected(checks)
  PROVE  UNCHANGED store
BY DEF Rejected, store, runtime_vars, assoc_vars

LEMMA FinishedOk ==
  ASSUME NEW s, NEW ref, NEW assoc, Finish(s, ref, assoc, "OK")
  PROVE  result' = "OK"
BY DEF Finish

LEMMA FinishSystemLikeResidue ==
  ASSUME NEW s, NEW kind \in SystemLikes, NEW parent, NEW lazy,
         FinishSystemLike(s, kind, parent, lazy), result' # "OK"
  PROVE  Residue
<1> DEFINE invalid  == ParallelParam(s) = "INVALID"
           parallel == IF invalid THEN "AUTO" ELSE ParallelParam(s)
           new      == NewSystemLike(parent, parallel, lazy)
           def      == [kind |-> kind, owner |-> package_id, name |-> s.name, comp_type |-> "NONE"]
<1>1. /\ CreateSystemLike(kind, package_id, s.name, parent, parallel, lazy)
      /\ Finish(s, last_id, NoId, IF invalid THEN "INVALID_PARAMETER_VALUE" ELSE "OK")
      /\ UNCHANGED assoc_vars
  BY DEF FinishSystemLike
<1>2. result' = "INVALID_PARAMETER_VALUE"
  BY <1>1 DEF Finish
<1>3. /\ last_id' = last_id + 1
      /\ defs' = Put(defs, last_id, def)
      /\ UNCHANGED <<main_package_id, enum_values>>
  BY <1>1 DEF CreateSystemLike, NewDef, NextId
<1>4. DOMAIN defs' = DOMAIN defs \cup {last_id} /\ defs'[last_id].kind \in SystemLikes
  BY <1>3 DEF Put
<1>5. \E m : system_likes' = Put(m, last_id, new)
  BY <1>1 DEF CreateSystemLike
<1>6. system_likes'[last_id] = new
  BY <1>5 DEF Put
<1>7. DOMAIN system_likes'[last_id].caps = {}
  BY <1>6 DEF NewSystemLike, EmptyMap
<1> QED
  BY <1>1, <1>2, <1>3, <1>4, <1>7 DEF Residue

LEMMA EvalSystemComponentResidue ==
  ASSUME NEW s, EvalSystemComponent(s), result' # "OK"
  PROVE  UNCHANGED store \/ Residue
<1> DEFINE comp  == NamedComponentLike(s)
           new   == IF s.with = <<>> THEN NoId ELSE last_assoc_id
           added == IF s.with = <<>> THEN system_assoc_info
                    ELSE AddSystemAssoc(system_assoc_info, new, ContextSystem, comp,
                                        FieldIds(comp, s.with))
<1>1. CASE Rejected(SystemComponentChecks(s))
  BY <1>1, RejectedStore
<1>2. CASE Finish(s, comp, new, "OK")
  BY <1>2, FinishedOk
<1>3. CASE /\ IF s.with = <<>> THEN UNCHANGED last_assoc_id ELSE NextAssocId
           /\ system_assoc_info' = added
           /\ UNCHANGED runtime_vars
           /\ Finish(s, comp, new, "MULTIPLE_CAPABILITIES_SAME_COMPONENT_LIKE")
  <2>1. result' = "MULTIPLE_CAPABILITIES_SAME_COMPONENT_LIKE"
    BY <1>3 DEF Finish
  <2>2. CASE s.with = <<>>
    BY <1>3, <2>2 DEF store, assoc_vars
  <2>3. CASE s.with # <<>>
    BY <1>3, <2>1, <2>3 DEF Residue, NextAssocId
  <2> QED
    BY <2>2, <2>3
<1> QED
  BY <1>1, <1>2, <1>3 DEF EvalSystemComponent

LEMMA EvalStatementResidue ==
  ASSUME NEW s \in Statements, EvalStatement(s), result' # "OK"
  PROVE  UNCHANGED store \/ Residue
<1>1. CASE EvalEmpty(s) \/ EvalPackageInBlock(s)
  BY <1>1, RejectedStore DEF EvalEmpty, EvalPackageInBlock
<1>2. CASE EvalImport(s) \/ EvalComponent(s) \/ EvalTransient(s) \/ EvalEnum(s) \/ EvalEnumValue(s)
  BY <1>2, RejectedStore, FinishedOk
  DEF EvalImport, EvalComponent, EvalTransient, EvalEnum, EvalEnumValue
<1>3. CASE EvalSystem(s) \/ EvalAction(s)
  BY <1>3, RejectedStore, FinishSystemLikeResidue DEF EvalSystem, EvalAction, SystemLikes
<1>4. CASE EvalBuiltinTypeField(s) \/ EvalUserTypeField(s)
  BY <1>4, RejectedStore, FinishedOk DEF EvalBuiltinTypeField, EvalUserTypeField, FinishField
<1>5. CASE EvalSystemComponent(s)
  BY <1>5, EvalSystemComponentResidue
<1>6. CASE EvalSystemWith(s)
  BY <1>6, RejectedStore, FinishedOk DEF EvalSystemWith
<1>7. CASE EvalSystemGenerates(s) \/ EvalEntityConstraint(s)
  BY <1>7, RejectedStore, FinishedOk DEF EvalSystemGenerates, EvalEntityConstraint
<1>8. CASE EvalSystemNotify(s) \/ EvalSystemNotifyComponent(s)
  BY <1>8, RejectedStore, FinishedOk DEF EvalSystemNotify, EvalSystemNotifyComponent
<1> QED
  BY <1>1, <1>2, <1>3, <1>4, <1>5, <1>6, <1>7, <1>8 DEF EvalStatement

LEMMA NextResidue ==
  ASSUME [Next]_vars
  PROVE  [result' # "OK" => UNCHANGED store \/ Residue]_vars
<1>1. CASE EvalPackageStatement
  BY <1>1 DEF EvalPackageStatement
<1>2. CASE SelectPackage \/ EndBlock
  BY <1>2 DEF SelectPackage, EndBlock, store
<1>3. CASE \E s \in Statements : EvalStatement(s)
  BY <1>3, EvalStatementResidue
<1> QED
  BY <1>1, <1>2, <1>3 DEF Next

(* An evaluation that answers an error leaves the store as it was, but for *)
(* the two residues: a system or action with an invalid parallel value,    *)
(* and the association of a statement that repeats a capability.           *)
THEOREM ErrorsLeaveStore == Spec => ErrorLeavesStore
<1>1. [Next]_vars => [result' # "OK" => UNCHANGED store \/ Residue]_vars
  BY NextResidue
<1> QED
  BY <1>1, PTL DEF Spec, ErrorLeavesStore

-----------------------------------------------------------------------------
(* The open blocks.  A block's statement finds its declaration by name: in *)
(* the package, a name of one part is found only as the bare name, and     *)
(* NamesUnique leaves one declaration with it.  The invariant is about the *)
(* package of each block, whichever one the client is in: it must hold     *)
(* again when the client comes back to that of the block.                  *)
DeclOps == {"COMPONENT", "TRANSIENT", "SYSTEM", "ACTION"}

SearchIn(p, kind, path) ==
  IF kind \in SystemLikes THEN <<Bare(p, kind, path)>>
  ELSE LET dependencies == package_defs[p].dependencies
       IN <<Bare(p, kind, path) \cup Qualified(p, kind, path)>>
          \o [i \in DOMAIN dependencies |-> Qualified(dependencies[i], kind, path)]
SearchComponentLikeIn(p, path) ==
  SearchIn(p, "component", path) \o SearchIn(p, "transient", path)

LEMMA SearchHere ==
  /\ \A kind, path : Search(kind, path) = SearchIn(package_id, kind, path)
  /\ \A path : SearchComponentLike(path) = SearchComponentLikeIn(package_id, path)
BY Zenon DEF Search, SearchIn, SearchComponentLike, SearchComponentLikeIn

FrameResolves(f) ==
  /\ f.s.op # "NONE" /\ f.pkg \in Packages
  /\ f.s.op \in DeclOps =>
       /\ f.ref \in KindIds({KindOf(f.s.op)})
       /\ defs[f.ref].owner = f.pkg /\ defs[f.ref].name = f.s.name
  /\ f.s.op = "SYSTEM_COMPONENT" => Earliest(SearchComponentLikeIn(f.pkg, f.s.path)) = f.ref

FramesResolve == \A i \in DOMAIN context_stack : FrameResolves(context_stack[i])

LEMMA EarliestFirst ==
  ASSUME NEW S, NEW search \in Seq(S), NEW d \in Nat, Len(search) > 0, search[1] = {d}
  PROVE  Earliest(search) = d
<1> DEFINE I == {i \in DOMAIN search : search[i] # {}}
<1>1. I \subseteq Nat /\ 1 \in I /\ \A i \in I : i >= 1
  <2>1. DOMAIN search = 1 .. Len(search) /\ Len(search) \in Nat /\ {d} # {}
    OBVIOUS
  <2>2. 1 \in DOMAIN search /\ search[1] # {}
    BY <2>1
  <2>3. \A i : i \in I <=> i \in DOMAIN search /\ search[i] # {}
    OBVIOUS
  <2> HIDE DEF I
  <2>4. 1 \in I
    BY <2>2, <2>3, Zenon
  <2>5. PICK n \in Nat : n = Len(search)
    BY <2>1
  <2>6. \A i : i \in I => i \in 1 .. n
    BY <2>1, <2>3, <2>5, Zenon
  <2>7. I \subseteq Nat /\ \A i \in I : i >= 1
    BY <2>6
  <2> QED
    BY <2>4, <2>7
<1>2. Min(I) = 1
  <2>1. Min(I) \in I /\ \A y \in I : Min(I) <= y
    BY <1>1, MinNat
  <2>2. PICK m : m = Min(I)
    OBVIOUS
  <2> HIDE DEF I
  <2>3. m \in I /\ m <= 1
    BY <1>1, <2>1, <2>2
  <2> QED
    BY <1>1, <2>2, <2>3
<1>3. Min({d}) = d
  BY MinNat
<1>4. Found(search)
  BY <1>1 DEF Found
<1> QED
  BY <1>2, <1>3, <1>4 DEF Earliest

(* The first set of a search is about the package itself.                  *)
LEMMA SearchFirst ==
  ASSUME RuntimeTypeOK, package_id \in Packages, NEW kind, NEW path
  PROVE  /\ Search(kind, path) \in Seq(SUBSET KindIds({kind})) /\ Len(Search(kind, path)) > 0
         /\ Search(kind, path)[1] =
              IF kind \in SystemLikes THEN Bare(package_id, kind, path)
              ELSE Bare(package_id, kind, path) \cup Qualified(package_id, kind, path)
<1>1. Search(kind, path) \in Seq(SUBSET KindIds({kind}))
  BY SearchType
<1>2. CASE kind \in SystemLikes
  BY <1>1, <1>2 DEF Search
<1>3. CASE kind \notin SystemLikes
  <2> DEFINE dependencies == package_defs[package_id].dependencies
             own == <<Bare(package_id, kind, path) \cup Qualified(package_id, kind, path)>>
             imported == [i \in DOMAIN dependencies |-> Qualified(dependencies[i], kind, path)]
             T == SUBSET DOMAIN defs
  <2>1. own \in Seq(T)
    BY DEF Bare, Qualified, Owned
  <2>2. imported \in Seq(T)
    <3>1. Len(dependencies) \in Nat /\ DOMAIN dependencies = 1 .. Len(dependencies)
      BY DEF RuntimeTypeOK, PackageDef
    <3>2. imported \in [1 .. Len(dependencies) -> T]
      BY <3>1 DEF Qualified, Owned
    <3> QED
      BY <3>1, <3>2, FunctionIsSeq
  <2>3. Search(kind, path) = own \o imported
    BY <1>3 DEF Search
  <2>4. Len(own) = 1 /\ own[1] = Bare(package_id, kind, path) \cup Qualified(package_id, kind, path)
    OBVIOUS
  <2> HIDE DEF own, imported
  <2> QED
    BY <1>1, <1>3, <2>1, <2>2, <2>3, <2>4, ConcatProperties
<1> QED
  BY <1>2, <1>3

LEMMA OwnDeclFound ==
  ASSUME Inv, package_id \in Packages, NEW kind \in DeclKinds,
         NEW d \in KindIds({kind}), defs[d].owner = package_id,
         NEW name, name = defs[d].name
  PROVE  Earliest(Search(kind, <<name>>)) = d
<1>1. RuntimeTypeOK /\ d \in Nat /\ d \in Owned(package_id, kind)
  BY KindIdsNat DEF Inv, TypeOK, KindIds, Owned
<1>2. Owned(package_id, kind) \subseteq KindIds(DeclKinds)
  BY DEF Owned, KindIds
<1>3. Bare(package_id, kind, <<name>>) = {d}
  <2>1. \A e \in Owned(package_id, kind) : <<name>> = <<defs[e].name>> <=> defs[e].name = defs[d].name
    BY SMT
  <2>2. \A e \in Owned(package_id, kind) : defs[e].name = defs[d].name => e = d
    BY <1>1, <1>2 DEF Inv, NamesUnique, Owned
  <2> QED
    BY <1>1, <2>1, <2>2 DEF Bare
<1>4. Qualified(package_id, kind, <<name>>) = {}
  <2>1. package_defs[package_id].name \in Seq(STRING) \ {<<>>}
    BY <1>1 DEF RuntimeTypeOK, PackageDef
  <2>2. \A x \in STRING : <<name>> # Append(package_defs[package_id].name, x)
    <3> TAKE x \in STRING
    <3>1. Len(Append(package_defs[package_id].name, x)) = Len(package_defs[package_id].name) + 1
      BY <2>1
    <3>2. Len(package_defs[package_id].name) # 0
      BY <2>1
    <3> QED
      BY <3>1, <3>2
  <2>3. \A e \in Owned(package_id, kind) : defs[e].name \in STRING
    BY <1>1 DEF RuntimeTypeOK, Def, Owned
  <2> QED
    BY <2>2, <2>3 DEF Qualified
<1>5. PICK path : path = <<name>>
  OBVIOUS
<1>6. Bare(package_id, kind, path) = {d} /\ Qualified(package_id, kind, path) = {}
  BY <1>3, <1>4, <1>5, Zenon
<1>7. PICK search : search = Search(kind, path)
  OBVIOUS
<1>8. /\ search \in Seq(SUBSET KindIds({kind})) /\ Len(search) > 0
      /\ search[1] = {d}
  <2>1. /\ Search(kind, path) \in Seq(SUBSET KindIds({kind})) /\ Len(Search(kind, path)) > 0
        /\ Search(kind, path)[1] =
             IF kind \in SystemLikes THEN Bare(package_id, kind, path)
             ELSE Bare(package_id, kind, path) \cup Qualified(package_id, kind, path)
    BY <1>1, SearchFirst, Zenon
  <2>2. {d} \cup {} = {d}
    OBVIOUS
  <2> QED
    BY <1>6, <1>7, <2>1, <2>2
<1>9. Earliest(search) = d
  BY <1>1, <1>8, EarliestFirst
<1> QED
  BY <1>5, <1>7, <1>9

LEMMA BlockMeans ==
  ASSUME Inv, NEW f, FrameResolves(f), f.pkg = package_id
  PROVE  BlockResolves(f)
<1>3. package_id \in Packages
  BY DEF FrameResolves
<1>4. f.s.op \in DeclOps => Earliest(Search(KindOf(f.s.op), <<f.s.name>>)) = f.ref
  <2> SUFFICES ASSUME f.s.op \in DeclOps
               PROVE  Earliest(Search(KindOf(f.s.op), <<f.s.name>>)) = f.ref
    OBVIOUS
  <2>1. KindOf(f.s.op) \in DeclKinds
    BY DEF DeclOps, KindOf, DeclKinds, ComponentLikes, SystemLikes
  <2>2. PICK kind \in DeclKinds : kind = KindOf(f.s.op)
    BY <2>1
  <2> QED
    BY <1>3, <2>2, OwnDeclFound DEF FrameResolves
<1>5. /\ f.s.op \in {"COMPONENT", "TRANSIENT"} => ComponentLikeOf(f.s) = f.ref
      /\ f.s.op \in {"COMPONENT", "TRANSIENT", "ACTION"} => CompositeOf(f.s) = f.ref
      /\ f.s.op \in {"SYSTEM", "ACTION"} => SystemLikeOf(f.s) = f.ref
  BY <1>4 DEF ComponentLikeOf, CompositeOf, SystemLikeOf, FindDeclared, DeclOps
<1>6. f.s.op = "SYSTEM_COMPONENT" => ComponentLikeOf(f.s) = f.ref
  BY SearchHere DEF ComponentLikeOf, FrameResolves
<1> QED
  BY <1>5, <1>6 DEF BlockResolves

LEMMA ResolvesMeans ==
  ASSUME Inv, FramesResolve
  PROVE  ContextResolves
<1> SUFFICES ASSUME NEW i \in DOMAIN context_stack, context_stack[i].pkg = package_id
             PROVE  BlockResolves(context_stack[i])
  BY DEF ContextResolves
<1> QED
  BY BlockMeans DEF FramesResolve

(* No block has the empty statement, so only the top level is its context. *)
LEMMA TopLevel ==
  ASSUME Inv, FramesResolve, Context(1).op = "NONE"
  PROVE  context_stack = <<>>
<1>1. context_stack \in Seq(FrameType)
  BY DEF Inv, TypeOK, ClientTypeOK
<1>2. SUFFICES ASSUME context_stack # <<>> PROVE FALSE
  OBVIOUS
<1>3. PICK n \in Nat : n = Len(context_stack) /\ n >= 1 /\ DOMAIN context_stack = 1 .. n
  BY <1>1, <1>2
<1>4. Context(1) = context_stack[n].s
  BY <1>3 DEF Context
<1>5. FrameResolves(context_stack[n])
  BY <1>3 DEF FramesResolve
<1>6. context_stack[n].s.op # "NONE"
  BY <1>5, Zenon DEF FrameResolves
<1> QED
  BY <1>4, <1>6

LEMMA TopLevelChecked ==
  ASSUME Inv, FramesResolve, NEW s,
         \/ Accepted(ImportChecks(s)) \/ Accepted(ComponentChecks(s))
         \/ Accepted(PlainDeclChecks(s)) \/ Accepted(ActionChecks(s))
  PROVE  context_stack = <<>>
<1>1. ASSUME NEW checks, 1 \in DOMAIN checks, checks[1] = InContext({"NONE"}), Accepted(checks)
      PROVE  context_stack = <<>>
  <2>1. InContext({"NONE"}).holds
    BY <1>1 DEF Accepted
  <2>2. Context(1).op = "NONE"
    BY <2>1 DEF InContext, Check
  <2> QED
    BY <2>2, TopLevel
<1>2. /\ 1 \in DOMAIN ImportChecks(s) /\ ImportChecks(s)[1] = InContext({"NONE"})
      /\ 1 \in DOMAIN ComponentChecks(s) /\ ComponentChecks(s)[1] = InContext({"NONE"})
      /\ 1 \in DOMAIN PlainDeclChecks(s) /\ PlainDeclChecks(s)[1] = InContext({"NONE"})
      /\ 1 \in DOMAIN ActionChecks(s) /\ ActionChecks(s)[1] = InContext({"NONE"})
  BY DEF ImportChecks, ComponentChecks, PlainDeclChecks, ActionChecks
<1> QED
  BY <1>1, <1>2, Zenon

(* What an evaluation does to what the lookups of open blocks read.        *)

SameNamesAndImports ==
  /\ Packages \subseteq Packages'
  /\ \A p \in Packages : /\ package_defs'[p].name = package_defs[p].name
                         /\ package_defs'[p].dependencies = package_defs[p].dependencies

NothingDone == UNCHANGED <<defs, package_defs, package_id, context_stack>>

StatementDone(s) ==
  \E ref, assoc, code :
    /\ Finish(s, ref, assoc, code)
    /\ s.op \notin DeclOps \cup {"NONE"}
    /\ s.op = "SYSTEM_COMPONENT" => ref = Earliest(SearchComponentLike(s.path))
    /\ \/ UNCHANGED <<defs, package_defs>>
       \/ context_stack = <<>> /\ s.op # "SYSTEM_COMPONENT" /\ Packages' = Packages

Declares(s) ==
  /\ s.op \in DeclOps
  /\ context_stack = <<>> \/ s.op = "SYSTEM"
  /\ \E comp_type : NewDef(KindOf(s.op), package_id, s.name, comp_type)
  /\ \E code : Finish(s, last_id, NoId, code)
  /\ SameNamesAndImports

LEMMA RejectedNothing ==
  ASSUME NEW checks, Rejected(checks)
  PROVE  NothingDone
BY DEF Rejected, NothingDone, runtime_vars, client_vars

LEMMA SystemLikeDeclares ==
  ASSUME Inv, package_id \in Packages, NEW s, s.op \in {"SYSTEM", "ACTION"},
         context_stack = <<>> \/ s.op = "SYSTEM",
         NEW parent, NEW lazy, FinishSystemLike(s, KindOf(s.op), parent, lazy)
  PROVE  Declares(s)
<1> PICK kind : kind = KindOf(s.op)
  OBVIOUS
<1> PICK parallel : parallel = IF ParallelParam(s) = "INVALID" THEN "AUTO" ELSE ParallelParam(s)
  OBVIOUS
<1>1. /\ CreateSystemLike(kind, package_id, s.name, parent, parallel, lazy)
      /\ \E code : Finish(s, last_id, NoId, code)
  BY DEF FinishSystemLike
<1>2. NewDef(kind, package_id, s.name, "NONE")
  BY <1>1 DEF CreateSystemLike
<1>3. SameNamesAndImports
  <2>1. \/ UNCHANGED package_defs
        \/ package_defs' = [package_defs EXCEPT
                              ![package_id].top_level_systems = Append(@, last_id)]
    BY <1>1 DEF CreateSystemLike
  <2>2. package_defs \in [Packages -> PackageDef]
    BY DEF Inv, TypeOK, RuntimeTypeOK
  <2>3. CASE UNCHANGED package_defs
    BY <2>3 DEF SameNamesAndImports, Packages
  <2>4. ASSUME NEW list,
               package_defs' = [package_defs EXCEPT ![package_id].top_level_systems = list]
        PROVE  SameNamesAndImports
    <3>1. Packages' = Packages
      BY <2>4 DEF Packages
    <3>2. ASSUME NEW p \in Packages
          PROVE  /\ package_defs'[p].name = package_defs[p].name
                 /\ package_defs'[p].dependencies = package_defs[p].dependencies
      <4>1. package_defs[p] \in PackageDef
        BY <2>2
      <4>2. package_defs'[p] = package_defs[p]
            \/ package_defs'[p] = [package_defs[p] EXCEPT !.top_level_systems = list]
        BY <2>2, <2>4
      <4> QED
        BY <4>1, <4>2 DEF PackageDef
    <3> QED
      BY <3>1, <3>2 DEF SameNamesAndImports
  <2> QED
    BY <2>1, <2>3, <2>4
<1> QED
  BY <1>1, <1>2, <1>3 DEF Declares, DeclOps

LEMMA CreateDeclares ==
  ASSUME NEW s, s.op \in {"COMPONENT", "TRANSIENT"}, context_stack = <<>>,
         NEW comp_type, CreateComponentLike(KindOf(s.op), package_id, s.name, comp_type),
         Finish(s, last_id, NoId, "OK")
  PROVE  Declares(s)
<1>1. /\ NewDef(KindOf(s.op), package_id, s.name, comp_type)
      /\ UNCHANGED package_defs
  BY DEF CreateComponentLike
<1>2. SameNamesAndImports
  BY <1>1 DEF SameNamesAndImports, Packages
<1> QED
  BY <1>1, <1>2 DEF Declares, DeclOps

LEMMA StatementKinds ==
  ASSUME Inv, FramesResolve, package_id \in Packages, NEW s \in Statements, EvalStatement(s)
  PROVE  NothingDone \/ StatementDone(s) \/ Declares(s)
<1>1. CASE EvalEmpty(s) \/ EvalPackageInBlock(s)
  BY <1>1, RejectedNothing DEF EvalEmpty, EvalPackageInBlock, NothingDone, runtime_vars,
                               client_vars
<1>2. CASE EvalImport(s)
  <2>1. ASSUME NEW p, AddDependency(package_id, p) PROVE Packages' = Packages
    BY <2>1 DEF AddDependency, Packages
  <2> QED
    BY <1>2, <2>1, RejectedNothing, TopLevelChecked DEF EvalImport, StatementDone, DeclOps
<1>3. CASE EvalEnum(s)
  <2>1. CreateEnum(package_id, s.name) => Packages' = Packages
    BY DEF CreateEnum, Packages
  <2> QED
    BY <1>3, <2>1, RejectedNothing, TopLevelChecked DEF EvalEnum, StatementDone, DeclOps
<1>4. CASE EvalComponent(s)
  <2>1. CASE Rejected(ComponentChecks(s))
    BY <2>1, RejectedNothing
  <2>2. CASE ~Rejected(ComponentChecks(s))
    <3> PICK comp_type : comp_type = IF AsksTransient(s) THEN "TRANSIENT" ELSE StreamParam(s)
      OBVIOUS
    <3>1. /\ s.op = "COMPONENT" /\ Accepted(ComponentChecks(s))
          /\ CreateComponentLike("component", package_id, s.name, comp_type)
          /\ Finish(s, last_id, NoId, "OK")
      BY <1>4, <2>2 DEF EvalComponent
    <3>2. KindOf(s.op) = "component" /\ context_stack = <<>>
      BY <3>1, TopLevelChecked DEF KindOf
    <3> QED
      BY <3>1, <3>2, CreateDeclares
  <2> QED
    BY <2>1, <2>2
<1>5. CASE EvalTransient(s)
  <2>1. CASE Rejected(PlainDeclChecks(s))
    BY <2>1, RejectedNothing
  <2>2. CASE ~Rejected(PlainDeclChecks(s))
    <3>1. /\ s.op = "TRANSIENT" /\ Accepted(PlainDeclChecks(s))
          /\ CreateComponentLike("transient", package_id, s.name, "TRANSIENT")
          /\ Finish(s, last_id, NoId, "OK")
      BY <1>5, <2>2 DEF EvalTransient
    <3>2. KindOf(s.op) = "transient" /\ context_stack = <<>>
      BY <3>1, TopLevelChecked DEF KindOf
    <3> QED
      BY <3>1, <3>2, CreateDeclares
  <2> QED
    BY <2>1, <2>2
<1>6. CASE EvalSystem(s)
  <2>1. CASE Rejected(SystemChecks(s))
    BY <2>1, RejectedNothing
  <2>2. CASE ~Rejected(SystemChecks(s))
    <3>1. /\ s.op = "SYSTEM"
          /\ FinishSystemLike(s, "system", SystemLikeOf(Context(1)), LazyRate(s))
      BY <1>6, <2>2 DEF EvalSystem
    <3>2. KindOf(s.op) = "system"
      BY <3>1 DEF KindOf
    <3> QED
      BY <3>1, <3>2, SystemLikeDeclares
  <2> QED
    BY <2>1, <2>2
<1>7. CASE EvalAction(s)
  <2>1. CASE Rejected(ActionChecks(s))
    BY <2>1, RejectedNothing
  <2>2. CASE ~Rejected(ActionChecks(s))
    <3>1. /\ s.op = "ACTION" /\ Accepted(ActionChecks(s))
          /\ FinishSystemLike(s, "action", NoId, 0)
      BY <1>7, <2>2 DEF EvalAction
    <3>2. KindOf(s.op) = "action" /\ context_stack = <<>>
      BY <3>1, TopLevelChecked DEF KindOf
    <3> QED
      BY <3>1, <3>2, SystemLikeDeclares
  <2> QED
    BY <2>1, <2>2
<1>8. CASE EvalEnumValue(s)
  BY <1>8, RejectedNothing DEF EvalEnumValue, AddEnumValue, StatementDone, DeclOps
<1>9. CASE EvalBuiltinTypeField(s) \/ EvalUserTypeField(s)
  BY <1>9, RejectedNothing
  DEF EvalBuiltinTypeField, EvalUserTypeField, FinishField, AddField, StatementDone, DeclOps
<1>10. CASE EvalSystemComponent(s)
  BY <1>10, RejectedNothing
  DEF EvalSystemComponent, SetSystemCapability, OnlySystemLikes, runtime_vars,
      NamedComponentLike, StatementDone, DeclOps
<1>11. CASE EvalSystemWith(s)
  BY <1>11, RejectedNothing DEF EvalSystemWith, runtime_vars, StatementDone, DeclOps
<1>12. CASE EvalSystemGenerates(s) \/ EvalEntityConstraint(s)
  BY <1>12, RejectedNothing
  DEF EvalSystemGenerates, EvalEntityConstraint, AddSystemGenerates,
      SystemGeneratesSetComponent, OnlySystemLikes, StatementDone, DeclOps
<1>13. CASE EvalSystemNotify(s) \/ EvalSystemNotifyComponent(s)
  BY <1>13, RejectedNothing
  DEF EvalSystemNotify, EvalSystemNotifyComponent, SetNotifySettings, OnlySystemLikes,
      runtime_vars, StatementDone, DeclOps
<1> QED
  BY <1>1, <1>2, <1>3, <1>4, <1>5, <1>6, <1>7, <1>8, <1>9, <1>10, <1>11, <1>12, <1>13
  DEF EvalStatement

(* Lookups of components do not change as long as no component is created  *)
(* and packages keep their names and imports.                              *)
ComponentsStay ==
  \A kind \in ComponentLikes :
    /\ KindIds({kind})' = KindIds({kind})
    /\ \A d \in KindIds({kind}) : defs'[d] = defs[d]

LEMMA LookupsStay ==
  ASSUME RuntimeTypeOK, NEW pkg \in Packages,
         SameNamesAndImports, ComponentsStay, NEW path
  PROVE  SearchComponentLikeIn(pkg, path)' = SearchComponentLikeIn(pkg, path)
<1>1. ASSUME NEW kind \in ComponentLikes, NEW p
      PROVE  /\ Bare(p, kind, path)' = Bare(p, kind, path)
             /\ Qualified(p, kind, path)' = Qualified(p, kind, path)
  <2>1. \A q, d : d \in Owned(q, kind) <=> d \in KindIds({kind}) /\ defs[d].owner = q
    BY DEF Owned, KindIds
  <2>2. \A q, d : d \in Owned(q, kind)' <=> d \in KindIds({kind})' /\ defs'[d].owner = q
    BY DEF Owned, KindIds
  <2>9. /\ KindIds({kind})' = KindIds({kind})
        /\ \A d \in KindIds({kind}) : defs'[d] = defs[d]
    BY <1>1, Zenon DEF ComponentsStay
  <2>3. \A d : d \in Owned(p, kind)' <=> d \in Owned(p, kind)
    <3> TAKE d
    <3>1. d \in Owned(p, kind) <=> d \in KindIds({kind}) /\ defs[d].owner = p
      BY <2>1
    <3>2. d \in Owned(p, kind)' <=> d \in KindIds({kind})' /\ defs'[d].owner = p
      BY <2>2
    <3>3. d \in KindIds({kind}) => defs'[d] = defs[d]
      BY <2>9
    <3>4. d \in KindIds({kind})' <=> d \in KindIds({kind})
      BY <2>9
    <3>5. CASE d \in KindIds({kind})
      <4>1. defs'[d].owner = defs[d].owner
        BY <3>3, <3>5
      <4> QED
        BY <3>1, <3>2, <3>4, <3>5, <4>1
    <3>6. CASE d \notin KindIds({kind})
      BY <3>1, <3>2, <3>4, <3>6
    <3> QED
      BY <3>5, <3>6
  <2>4. \A d \in Owned(p, kind) : defs'[d] = defs[d] /\ defs[d].owner = p /\ d \in DOMAIN defs
    BY <2>1, <2>9 DEF KindIds
  <2>5. \A d \in Owned(p, kind) : p \in Packages
    <3> TAKE d \in Owned(p, kind)
    <3>1. defs[d] \in Def
      BY <2>4 DEF RuntimeTypeOK
    <3> QED
      BY <2>4, <3>1 DEF Def
  <2>6. \A d \in Owned(p, kind) : package_defs'[p].name = package_defs[p].name
    BY <2>5 DEF SameNamesAndImports
  <2>7. Bare(p, kind, path)' = Bare(p, kind, path)
    BY <2>3, <2>4 DEF Bare
  <2>8. Qualified(p, kind, path)' = Qualified(p, kind, path)
    BY <2>3, <2>4, <2>6 DEF Qualified
  <2> QED
    BY <2>7, <2>8
<1>2. ASSUME NEW kind \in ComponentLikes
      PROVE  SearchIn(pkg, kind, path)' = SearchIn(pkg, kind, path)
  <2>1. package_defs'[pkg].dependencies = package_defs[pkg].dependencies
    BY DEF SameNamesAndImports
  <2>2. PICK dependencies : dependencies = package_defs[pkg].dependencies
    OBVIOUS
  <2>3. kind \notin SystemLikes
    BY DEF ComponentLikes, SystemLikes
  <2>4. SearchIn(pkg, kind, path) =
          <<Bare(pkg, kind, path) \cup Qualified(pkg, kind, path)>>
            \o [i \in DOMAIN dependencies |-> Qualified(dependencies[i], kind, path)]
    BY <2>2, <2>3, Zenon DEF SearchIn
  <2>5. SearchIn(pkg, kind, path)' =
          <<Bare(pkg, kind, path)' \cup Qualified(pkg, kind, path)'>>
            \o [i \in DOMAIN dependencies |-> Qualified(dependencies[i], kind, path)']
    BY <2>1, <2>2, <2>3 DEF SearchIn
  <2>6. [i \in DOMAIN dependencies |-> Qualified(dependencies[i], kind, path)']
          = [i \in DOMAIN dependencies |-> Qualified(dependencies[i], kind, path)]
    BY <1>1
  <2> QED
    BY <1>1, <2>4, <2>5, <2>6
<1> QED
  BY <1>2, Zenon DEF SearchComponentLikeIn, ComponentLikes

(* An open block keeps resolving.                                          *)
LEMMA FrameStays ==
  ASSUME RuntimeTypeOK,
         DOMAIN defs \subseteq DOMAIN defs', \A d \in DOMAIN defs : defs'[d] = defs[d],
         SameNamesAndImports, ComponentsStay, NEW f, FrameResolves(f)
  PROVE  FrameResolves(f)'
<1>1. f.s.op # "NONE" /\ f.pkg \in Packages /\ f.pkg \in Packages'
  BY DEF FrameResolves, SameNamesAndImports
<1>2. ASSUME f.s.op \in DeclOps
      PROVE  /\ f.ref \in KindIds({KindOf(f.s.op)})'
             /\ defs'[f.ref].owner = f.pkg /\ defs'[f.ref].name = f.s.name
  <2>1. /\ f.ref \in KindIds({KindOf(f.s.op)})
        /\ defs[f.ref].owner = f.pkg /\ defs[f.ref].name = f.s.name
    BY <1>2 DEF FrameResolves
  <2>2. f.ref \in DOMAIN defs /\ defs[f.ref].kind \in {KindOf(f.s.op)}
    BY <2>1 DEF KindIds
  <2>3. f.ref \in KindIds({KindOf(f.s.op)})'
    BY <2>2 DEF KindIds
  <2> QED
    BY <2>1, <2>2, <2>3
<1>3. ASSUME f.s.op = "SYSTEM_COMPONENT"
      PROVE  Earliest(SearchComponentLikeIn(f.pkg, f.s.path))' = f.ref
  <2>1. PICK path : path = f.s.path
    OBVIOUS
  <2>6. PICK pkg \in Packages : pkg = f.pkg
    BY <1>1
  <2>2. SearchComponentLikeIn(pkg, path)' = SearchComponentLikeIn(pkg, path)
    BY LookupsStay
  <2>3. PICK search : search = SearchComponentLikeIn(pkg, path)
    OBVIOUS
  <2>4. Earliest(search) = f.ref
    BY <1>3, <2>1, <2>3, <2>6 DEF FrameResolves
  <2>5. Earliest(SearchComponentLikeIn(pkg, path))' = Earliest(search)
    BY <2>2, <2>3 DEF Earliest, Found
  <2> QED
    BY <2>1, <2>4, <2>5, <2>6
<1> QED
  BY <1>1, <1>2, <1>3 DEF FrameResolves

(* The blocks after an evaluation: those before it, and perhaps a new one. *)
LEMMA FinishResolves ==
  ASSUME ClientTypeOK, NEW s, NEW ref, NEW assoc, NEW code, Finish(s, ref, assoc, code),
         NEW new, new = [s |-> s, ref |-> ref, assoc |-> assoc, pkg |-> package_id],
         FrameResolves(new)',
         \A f : (\E i \in DOMAIN context_stack : f = context_stack[i]) => FrameResolves(f)'
  PROVE  FramesResolve'
<1>1. context_stack \in Seq(FrameType)
  BY DEF ClientTypeOK
<1>2. context_stack' = context_stack \/ context_stack' = Append(context_stack, new)
  BY DEF Finish
<1>3. \A i \in DOMAIN context_stack' :
         context_stack'[i] = new \/ \E j \in DOMAIN context_stack : context_stack'[i] = context_stack[j]
  BY <1>1, <1>2
<1> SUFFICES ASSUME NEW i \in DOMAIN context_stack'
             PROVE  FrameResolves(context_stack[i])'
  BY DEF FramesResolve
<1>4. PICK f : f = context_stack'[i]
  OBVIOUS
<1>5. FrameResolves(f)'
  BY <1>3, <1>4
<1> QED
  BY <1>4, <1>5

(* A declaration adds one of its own kind, of the package and the name     *)
(* that its statement gives.                                               *)
LEMMA DeclaresResolves ==
  ASSUME Inv, FramesResolve, package_id \in Packages, NEW s, Declares(s)
  PROVE  FramesResolve'
<1>1. PICK comp_type, code :
        /\ NewDef(KindOf(s.op), package_id, s.name, comp_type)
        /\ Finish(s, last_id, NoId, code)
  BY DEF Declares
<1>2. s.op \in DeclOps /\ SameNamesAndImports /\ (context_stack = <<>> \/ s.op = "SYSTEM")
  BY DEF Declares
<1>3. RuntimeTypeOK /\ ClientTypeOK
  BY DEF Inv, TypeOK
<1>4. last_id \notin DOMAIN defs
  BY <1>3 DEF RuntimeTypeOK, Issued
<1>5. PICK def : /\ def.kind = KindOf(s.op) /\ def.owner = package_id /\ def.name = s.name
                 /\ defs' = Put(defs, last_id, def)
  BY <1>1, Zenon DEF NewDef
<1>6. /\ DOMAIN defs' = DOMAIN defs \cup {last_id}
      /\ \A d \in DOMAIN defs : defs'[d] = defs[d]
      /\ defs'[last_id] = def
  BY <1>4, <1>5 DEF Put
<1>7. package_id' = package_id
  BY <1>1 DEF Finish
<1> PICK new : new = [s |-> s, ref |-> last_id, assoc |-> NoId, pkg |-> package_id]
  OBVIOUS
<1>8. FrameResolves(new)'
  <2>1. last_id \in KindIds({KindOf(s.op)})'
    BY <1>5, <1>6 DEF KindIds
  <2>2. s.op # "NONE" /\ s.op # "SYSTEM_COMPONENT" /\ package_id \in Packages'
    BY <1>2 DEF DeclOps, SameNamesAndImports
  <2> QED
    BY <1>5, <1>6, <2>1, <2>2 DEF FrameResolves
<1>9. \A f : (\E i \in DOMAIN context_stack : f = context_stack[i]) => FrameResolves(f)'
  <2>1. CASE context_stack = <<>>
    BY <2>1
  <2>2. CASE s.op = "SYSTEM"
    <3>1. KindOf(s.op) \notin ComponentLikes
      BY <2>2 DEF KindOf, ComponentLikes
    <3>2. ComponentsStay
      <4> SUFFICES ASSUME NEW kind \in ComponentLikes
                   PROVE  /\ KindIds({kind})' = KindIds({kind})
                          /\ \A d \in KindIds({kind}) : defs'[d] = defs[d]
        BY DEF ComponentsStay
      <4>1. defs'[last_id].kind # kind
        BY <1>5, <1>6, <3>1
      <4> QED
        BY <1>4, <1>6, <4>1 DEF KindIds
    <3>3. ASSUME NEW f, NEW i \in DOMAIN context_stack, f = context_stack[i]
          PROVE  FrameResolves(f)'
      <4>1. FrameResolves(f)
        BY <3>3 DEF FramesResolve
      <4> QED
        BY <1>2, <1>3, <1>6, <3>2, <4>1, FrameStays
    <3> QED
      BY <3>3
  <2> QED
    BY <1>2, <2>1, <2>2
<1> QED
  BY <1>1, <1>3, <1>8, <1>9, FinishResolves

(* Nothing that a lookup reads changes, so every open block finds what it  *)
(* found.                                                                  *)
LEMMA UnchangedStays ==
  ASSUME Inv, UNCHANGED <<defs, package_defs>>
  PROVE  \A f : FrameResolves(f) => FrameResolves(f)'
<1>1. RuntimeTypeOK
  BY DEF Inv, TypeOK
<1>2. SameNamesAndImports
  BY DEF SameNamesAndImports, Packages
<1>3. ComponentsStay
  BY DEF ComponentsStay, KindIds
<1> QED
  BY <1>1, <1>2, <1>3, FrameStays

LEMMA StatementDoneResolves ==
  ASSUME Inv, FramesResolve, package_id \in Packages, NEW s, StatementDone(s)
  PROVE  FramesResolve'
<1>1. PICK ref, assoc, code :
        /\ Finish(s, ref, assoc, code)
        /\ s.op \notin DeclOps \cup {"NONE"}
        /\ s.op = "SYSTEM_COMPONENT" => ref = Earliest(SearchComponentLike(s.path))
        /\ \/ UNCHANGED <<defs, package_defs>>
           \/ context_stack = <<>> /\ s.op # "SYSTEM_COMPONENT" /\ Packages' = Packages
  BY DEF StatementDone
<1>2. ClientTypeOK /\ package_id' = package_id
  BY <1>1 DEF Inv, TypeOK, Finish
<1> PICK new : new = [s |-> s, ref |-> ref, assoc |-> assoc, pkg |-> package_id]
  OBVIOUS
<1>3. CASE UNCHANGED <<defs, package_defs>>
  <2>1. \A f : FrameResolves(f) => FrameResolves(f)'
    BY <1>2, <1>3, UnchangedStays
  <2>2. FrameResolves(new)
    BY <1>1, SearchHere DEF FrameResolves
  <2>3. \A f : (\E i \in DOMAIN context_stack : f = context_stack[i]) => FrameResolves(f)'
    BY <2>1 DEF FramesResolve
  <2> QED
    BY <1>1, <1>2, <2>1, <2>2, <2>3, FinishResolves
<1>4. CASE context_stack = <<>> /\ s.op # "SYSTEM_COMPONENT" /\ Packages' = Packages
  <2>1. FrameResolves(new)'
    BY <1>1, <1>4 DEF FrameResolves
  <2> QED
    BY <1>1, <1>2, <1>4, <2>1, FinishResolves
<1> QED
  BY <1>1, <1>3, <1>4

(* A new package takes nothing from the others.                            *)
LEMMA PackageStays ==
  ASSUME Inv, EvalPackageStatement
  PROVE  \A f : FrameResolves(f) => FrameResolves(f)'
<1>1. PICK s \in PackageStatements : CreatePackage(s.name, s.main)
  BY DEF EvalPackageStatement
<1>2. RuntimeTypeOK /\ last_id \notin Packages
  BY DEF Inv, TypeOK, RuntimeTypeOK, Issued
<1>3. PICK new : package_defs' = Put(package_defs, last_id, new) /\ UNCHANGED defs
  BY <1>1 DEF CreatePackage
<1>4. SameNamesAndImports
  BY <1>2, <1>3 DEF SameNamesAndImports, Packages, Put
<1>5. ComponentsStay
  BY <1>3 DEF ComponentsStay, KindIds
<1> QED
  BY <1>2, <1>3, <1>4, <1>5, FrameStays

LEMMA NextResolves == Inv /\ FramesResolve /\ [Next]_vars => FramesResolve'
<1> SUFFICES ASSUME Inv, FramesResolve, [Next]_vars PROVE FramesResolve'
  OBVIOUS
<1>1. context_stack \in Seq(FrameType)
  BY DEF Inv, TypeOK, ClientTypeOK
<1>2. CASE /\ \A f : FrameResolves(f) => FrameResolves(f)'
           /\ \A i \in DOMAIN context_stack' :
                i \in DOMAIN context_stack /\ context_stack'[i] = context_stack[i]
  <2> SUFFICES ASSUME NEW i \in DOMAIN context_stack'
               PROVE  FrameResolves(context_stack[i])'
    BY DEF FramesResolve
  <2>1. PICK f : f = context_stack'[i]
    OBVIOUS
  <2>2. FrameResolves(f)
    BY <1>2, <2>1 DEF FramesResolve
  <2>3. FrameResolves(f)'
    BY <1>2, <2>2
  <2> QED
    BY <2>1, <2>3
<1>3. CASE EvalPackageStatement
  BY <1>2, <1>3, PackageStays DEF EvalPackageStatement
<1>4. CASE SelectPackage
  BY <1>2, <1>4, UnchangedStays DEF SelectPackage, runtime_vars
<1>5. CASE EndBlock
  <2>1. \/ context_stack' = context_stack
        \/ context_stack # <<>> /\ context_stack' = Front(context_stack)
    BY <1>5 DEF EndBlock
  <2>2. UNCHANGED <<defs, package_defs>>
    BY <1>5 DEF EndBlock, runtime_vars
  <2>3. \A i \in DOMAIN context_stack' :
          i \in DOMAIN context_stack /\ context_stack'[i] = context_stack[i]
    BY <1>1, <2>1 DEF Front
  <2> QED
    BY <1>2, <2>2, <2>3, UnchangedStays
<1>6. CASE package_id \in Packages /\ \E s \in Statements : EvalStatement(s)
  <2>1. PICK s \in Statements : EvalStatement(s)
    BY <1>6
  <2>2. CASE NothingDone
    BY <1>2, <2>2, UnchangedStays DEF NothingDone
  <2> QED
    BY <1>6, <2>1, <2>2, StatementKinds, StatementDoneResolves, DeclaresResolves
<1>7. CASE UNCHANGED vars
  BY <1>2, <1>7, UnchangedStays DEF vars, runtime_vars, client_vars
<1> QED
  BY <1>3, <1>4, <1>5, <1>6, <1>7 DEF Next

(* Whatever is declared while a block is open, and whatever is refused,    *)
(* the lookup that its body statements go through in the package of the    *)
(* block still gives the declaration that its own statement created, and a *)
(* capability block still means the component that its statement found;    *)
(* also when the client has been in other packages since.                  *)
THEOREM ContextsResolve == Spec => []ContextResolves
<1>1. Init => Inv /\ FramesResolve
  BY InitInv DEF Init, FramesResolve
<1>2. (Inv /\ FramesResolve) /\ [Next]_vars => (Inv /\ FramesResolve)'
  BY NextInv, NextResolves
<1>3. Inv /\ FramesResolve => ContextResolves
  BY ResolvesMeans
<1> QED
  BY <1>1, <1>2, <1>3, PTL DEF Spec
=============================================================================
