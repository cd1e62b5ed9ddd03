---------------------------- MODULE Associations ----------------------------
(***************************************************************************)
(* System associations (parse-resolver-runtime/assoc.cc): per system-like  *)
(* a list of associations, each of a component through some of its fields, *)
(* with its own capabilities.  Association ids come from a counter of      *)
(* their own (parse-resolver-runtime/ids.cc).                              *)
(*                                                                         *)
(* One statement may both add an association and set a capability of       *)
(* another one, so the operations map one value of the map to the next.    *)
(***************************************************************************)
EXTENDS Integers, Sequences, SequencesExt, Maps

CONSTANT MaxAssocId   \* bound on the association counter
ASSUME MaxAssocIdAssumption == MaxAssocId \in Nat

VARIABLES
  last_assoc_id,       \* the counter of gen_next_id_
  system_assoc_info    \* system-like id -> list of assoc_info

assoc_vars == <<last_assoc_id, system_assoc_info>>

AssocInit ==
  /\ last_assoc_id = 0
  /\ system_assoc_info = EmptyMap

(* get_system_assoc_list: no list is as good as an empty one *)
AssocList(info, s) == IF s \in DOMAIN info THEN info[s] ELSE <<>>

(* ecsact_add_system_assoc, then ecsact_add_system_assoc_field for each of *)
(* a list of fields.                                                       *)
AddSystemAssocOnce(info, id, s, c, field_list) ==   \* mutant: one for each component
  IF \E a \in Range(AssocList(info, s)) : a.comp_id = c THEN info
  ELSE Put(info, s, Append(AssocList(info, s),
         [id |-> id, comp_id |-> c, added_fields |-> field_list, caps |-> EmptyMap]))
AddSystemAssoc(info, id, s, c, field_list) ==
  Put(info, s, Append(AssocList(info, s),
    [id |-> id, comp_id |-> c, added_fields |-> field_list, caps |-> EmptyMap]))

(* The fields of an association: one that is there already is not added.   *)
AssocFields(assoc) ==
  FoldLeft(LAMBDA seen, f : IF Contains(seen, f) THEN seen ELSE Append(seen, f),
           <<>>, assoc.added_fields)

(* The capability of a statement is never ECSACT_SYS_CAP_NONE.             *)
WithOneCapability(assoc, c, cap) ==   \* mutant: the earlier capabilities are lost
  [assoc EXCEPT !.caps = Put(EmptyMap, c, cap)]
WithCapability(assoc, c, cap) == [assoc EXCEPT !.caps = Put(@, c, cap)]
SetSystemAssocCapability(info, s, a, c, cap) ==
  [info EXCEPT ![s] = [i \in DOMAIN @ |->
    IF @[i].id = a THEN WithCapability(@[i], c, cap) ELSE @[i]]]

(* gen_next_id_ throws at the end of its range; MaxAssocId stands for it.  *)
NextAssocId == /\ last_assoc_id < MaxAssocId
               /\ last_assoc_id' = last_assoc_id + 1
=============================================================================
