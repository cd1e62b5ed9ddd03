----------------------------- MODULE DocClaims -----------------------------
(***************************************************************************)
(* What the comments of ecsact/interpret/eval_error.h promise and the      *)
(* evaluator does not do.  Each run that checks one of these shows how.    *)
(*                                                                         *)
(* notified has the systems and actions that a notify statement was        *)
(* accepted for: the runtime keeps no trace of an empty one.               *)
(***************************************************************************)
EXTENDS EvaluatorProps

VARIABLE notified

DocInit == Init /\ notified = {}

DocNext ==
  /\ OrderlyNext
  /\ notified' =
       IF \E s \in Statements : EvalSystemNotify(s) /\ result' = "OK"
       THEN notified \cup {ContextSystem} ELSE notified

DocSpec == DocInit /\ [][DocNext]_<<vars, notified>>

(* eval_error.h:12: a declaration's name is not taken.  An enum is a       *)
(* declaration too.                                                        *)
EnumNamesUnique ==
  \A d \in KindIds({"enum"}), e \in DOMAIN defs :
    defs[d].owner = defs[e].owner /\ defs[d].name = defs[e].name => d = e

(* eval_error.h:44: no import comes after a declaration.                   *)
ImportsFirst ==
  [][\A p \in Packages :
       package_defs'[p].dependencies # package_defs[p].dependencies =>
         \A d \in DOMAIN defs : defs[d].owner # p]_vars

(* eval_error.h:72: the notify statement is after all capabilities.        *)
NotifyAfterCapabilities ==
  [][\A s \in notified : system_likes'[s].caps = system_likes[s].caps]_vars

(* eval_error.h:81: an association is not within the block of another.     *)
Associates(s) == s.op \in {"SYSTEM_COMPONENT", "SYSTEM_WITH"} /\ s.with # <<>>
NoNestedAssociation ==
  \A i, j \in DOMAIN context_stack :
    Associates(context_stack[i].s) /\ Associates(context_stack[j].s) => i = j
=============================================================================
