-------------------------- MODULE DynamicApiProps --------------------------
(***************************************************************************)
(* What a host may rely on, whatever calls it makes: no system gets lost   *)
(* in the tree, full names follow parents, and the destruction of a        *)
(* package takes its own declarations and nothing else.                    *)
(***************************************************************************)
EXTENDS DynamicApi

AllLists ==
  {package_defs[p].top_level_systems : p \in Packages}
    \cup {system_likes[s].nested_systems : s \in DOMAIN system_likes}

ListedAtTop(s) ==
  defs[s].owner \in Packages /\ Contains(package_defs[defs[s].owner].top_level_systems, s)

(* Types.  Only an enum outlives its package.                              *)
ApiTypeOK ==
  /\ last_id \in 0 .. MaxId /\ last_assoc_id \in 0 .. MaxAssocId
  /\ Packages \subseteq 0 .. last_id - 1 /\ DOMAIN defs \subseteq 0 .. last_id - 1
  /\ \A d \in DOMAIN defs : defs[d].kind # "enum" => defs[d].owner \in Packages
  /\ DOMAIN system_likes = Declared(SystemLikes)
  /\ DOMAIN fields = Declared(Composites)
  /\ Declared(DeclKinds) \subseteq DOMAIN full_names
  /\ (UNION {ToSet(list) : list \in AllLists}) \subseteq DOMAIN system_likes
  /\ callbacks \subseteq [index : {"system_like", "component_like"}, id : 0 .. MaxId,
                          system : 0 .. MaxId, assoc : 0 .. MaxAssocId]

(* Every system is in the list that its parent says, also after moves that *)
(* left it in others: what the meta API walks reaches every system.        *)
NoSystemLost ==
  \A s \in Declared(SystemLikes) :
    LET parent == system_likes[s].parent_system_id
    IN IF parent = NoId THEN ListedAtTop(s)
       ELSE parent \in DOMAIN system_likes
            /\ Contains(system_likes[parent].nested_systems, s)

(* And in no other list, and there once, unless it went straight from one  *)
(* parent to another, which leaves it with the old one.                    *)
Entries(list, s) == {i \in DOMAIN list : list[i] = s}

OneListUnlessMoved ==
  \A s \in Declared(SystemLikes) \ moved :
    /\ Cardinality({list \in AllLists : Contains(list, s)}) = 1
    /\ \A list \in AllLists : Cardinality(Entries(list, s)) <= 1

(* The full name of a system is the one its parent gives it, through all   *)
(* moves and removals, unless the parent was renamed by a move of its own: *)
(* the names of the systems below it are then those of before.             *)
NamesFollowParents ==
  \A s \in Declared({"system"}) :
    LET parent == system_likes[s].parent_system_id
    IN parent \notin renamed =>
         full_names[s] = SystemFullName("system", defs[s].owner, defs[s].name, parent)

(* Whatever packages were destroyed, no association is left of a system    *)
(* or a component that is gone (the callbacks of add_system_assoc).        *)
AssocsReferToLiving ==
  \A s \in DOMAIN system_assoc_info :
    system_assoc_info[s] # <<>> =>
      /\ s \in Declared(SystemLikes)
      /\ \A i \in DOMAIN system_assoc_info[s] :
           system_assoc_info[s][i].comp_id \in Declared(ComponentLikes)

(* A package that is destroyed takes nothing of the others with it: their  *)
(* declarations, the trees and settings of their systems stay, and of      *)
(* their associations exactly those of a destroyed component go.           *)
DestroyKeepsOthers ==
  [][\A p \in Packages : Packages' = Packages \ {p} =>
       /\ defs' = [d \in {d \in DOMAIN defs : defs[d].owner # p \/ defs[d].kind = "enum"}
                     |-> defs[d]]
       /\ \A q \in Packages' : package_defs'[q] = package_defs[q]
       /\ \A s \in Declared(SystemLikes)' :
            /\ system_likes'[s] = system_likes[s] /\ full_names'[s] = full_names[s]
            /\ AssocList(system_assoc_info', s) =
                 Kept(AssocList(system_assoc_info, s),
                      {a \in ToSet(AssocList(system_assoc_info, s)) :
                         defs[a.comp_id].owner # p})]_api_vars
=============================================================================
