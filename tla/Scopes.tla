------------------------------- MODULE Scopes -------------------------------
(***************************************************************************)
(* What the evaluation of statements promises, without the lookups by name *)
(* through which the evaluator finds the context of a statement again: the *)
(* language has lexical scopes.  Every open block is in the body of one    *)
(* declaration; what a statement declares is a child of the innermost one, *)
(* what it says otherwise is held by the innermost one, for good, and      *)
(* whatever is refused changes nothing.                                    *)
(*                                                                         *)
(* An enum alone is known by its name only: what is said in the block of   *)
(* one may be held by another enum of the same package and name.           *)
(***************************************************************************)
EXTENDS Sequences, SequencesExt, Maps

CONSTANT NoDecl   \* no declaration, and no package

VARIABLES
  package,   \* the package that statements are evaluated in
  scopes,    \* for each open block, the declaration whose body it is in
  decl,      \* declaration -> kind, owner, name, parent and its settings
  holds      \* declaration -> what was said in its blocks

scope_vars == <<package, scopes, decl, holds>>

Enclosing == IF scopes = <<>> THEN NoDecl ELSE Last(scopes)

Init ==
  /\ package = NoDecl
  /\ scopes = <<>>
  /\ decl = EmptyMap
  /\ holds = EmptyMap

(* At top level, or a system in a system or action.  The name is not that  *)
(* of anything but an enum in the package.  Not every declaration opens a  *)
(* block.                                                                  *)
MayDeclare(new) ==
  /\ new.owner = package
  /\ new.parent = Enclosing
  /\ scopes # <<>> =>
       /\ new.kind = "system"
       /\ Enclosing \in DOMAIN decl /\ decl[Enclosing].kind \in {"system", "action"}
  /\ \A e \in DOMAIN decl :
       decl[e].owner = package /\ decl[e].name = new.name => decl[e].kind = "enum"

Declare(d) ==
  /\ d \notin DOMAIN decl
  /\ decl' = Put(decl, d, decl'[d])
  /\ MayDeclare(decl'[d])
  /\ holds' = Put(holds, d, {})
  /\ scopes' \in {scopes, Append(scopes, d)}
  /\ UNCHANGED package

SameEnum(d, e) ==
  /\ decl[d].kind = "enum" /\ decl[e].kind = "enum"
  /\ decl[d].owner = decl[e].owner /\ decl[d].name = decl[e].name

Fill(d) ==
  /\ Enclosing \in DOMAIN decl
  /\ d = Enclosing \/ SameEnum(d, Enclosing)
  /\ DOMAIN holds' = DOMAIN holds
  /\ holds[d] \subseteq holds'[d]
  /\ \A e \in DOMAIN holds \ {d} : holds'[e] = holds[e]
  /\ scopes' \in {scopes, Append(scopes, Enclosing)}
  /\ UNCHANGED <<package, decl>>

(* An import says nothing about a declaration.                             *)
Import ==
  /\ scopes = <<>>
  /\ scopes' \in {scopes, Append(scopes, NoDecl)}
  /\ UNCHANGED <<package, decl, holds>>

Close ==
  /\ scopes # <<>>
  /\ scopes' = Front(scopes)
  /\ UNCHANGED <<package, decl, holds>>

(* The client goes on in another package, between top level statements.    *)
SwitchPackage ==
  /\ scopes = <<>>
  /\ UNCHANGED <<scopes, decl, holds>>

Next == \/ \E d \in DOMAIN decl' : Declare(d)
        \/ \E d \in DOMAIN decl : Fill(d)
        \/ Import \/ Close \/ SwitchPackage

Spec == Init /\ [][Next]_scope_vars
=============================================================================
