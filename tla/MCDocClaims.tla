---------------------------- MODULE MCDocClaims ----------------------------
(***************************************************************************)
(* The statements of the runs that refute the claims of DocClaims.         *)
(***************************************************************************)
EXTENDS MCStatements, DocClaims

(* The assertions of find_assoc_ids_with_fields: a with list that names a  *)
(* field twice.                                                            *)
RepeatedFieldStatements ==
  {Declare("COMPONENT", "C"), FieldOf("ENTITY", "x"), Declare("SYSTEM", "S"),
   UsesWith(<<"C">>, <<"x", "x">>), Uses(<<"C">>)}
=============================================================================
