----------------------------- MODULE Lifecycle -----------------------------
(***************************************************************************)
(* The callbacks that run when a declaration is destroyed                  *)
(* (parse-resolver-runtime/lifecycle.cc).  The code has a table of         *)
(* callbacks per type of id; here a callback carries its type as index.    *)
(* The one user is assoc.cc: the callback of an association removes it.    *)
(* Clearing an event_ref takes nothing out of the tables, so the callbacks *)
(* of an association that is gone stay until an id of theirs is destroyed. *)
(***************************************************************************)

(* callback_indices: the id's own type and the types it may be cast to     *)
CallbackIndicesOwn(kind) == {kind}   \* mutant: callbacks on cast ids do not run
CallbackIndices(kind) ==
  {kind} \cup (CASE kind = "component" -> {"component_like", "composite", "decl"}
                 [] kind = "transient" -> {"component_like", "composite", "decl"}
                 [] kind = "action"    -> {"system_like", "composite", "decl"}
                 [] kind = "system"    -> {"system_like", "decl"}
                 [] OTHER              -> {})

(* on_destroy                                                              *)
Callback(index, id, system, assoc) ==
  [index |-> index, id |-> id, system |-> system, assoc |-> assoc]

(* The callbacks that trigger_on_destroy runs, and erases.                 *)
Triggered(callbacks, id, kind) ==
  {c \in callbacks : c.id = id /\ c.index \in CallbackIndices(kind)}
=============================================================================
