---------------------------- MODULE MCStatements ----------------------------
(***************************************************************************)
(* The statements that the model checking runs submit: every run takes one *)
(* of the sets below for Statements, chosen around one part of the         *)
(* language, and the names of one or two packages.                         *)
(***************************************************************************)
EXTENDS EvaluatorProps

Declare(op, name) == [NoStatement EXCEPT !.op = op, !.name = name, !.block = TRUE]
Import(path) == [NoStatement EXCEPT !.op = "IMPORT", !.path = path]
FieldOf(builtin, name) ==
  [NoStatement EXCEPT !.op = "BUILTIN_TYPE_FIELD", !.name = name, !.arg = builtin]
UserField(path, name) ==
  [NoStatement EXCEPT !.op = "USER_TYPE_FIELD", !.name = name, !.path = path]
EnumValueOf(name, value) ==
  [NoStatement EXCEPT !.op = "ENUM_VALUE", !.name = name, !.arg = value]
Uses(path) == [NoStatement EXCEPT !.op = "SYSTEM_COMPONENT", !.path = path, !.arg = "readwrite"]
UsesWith(path, names) == [Uses(path) EXCEPT !.with = names, !.block = TRUE]
With(names) == [NoStatement EXCEPT !.op = "SYSTEM_WITH", !.with = names, !.block = TRUE]
Generates == [NoStatement EXCEPT !.op = "SYSTEM_GENERATES", !.block = TRUE]
Constraint(path) ==
  [NoStatement EXCEPT !.op = "ENTITY_CONSTRAINT", !.path = path, !.arg = "required"]
Notify(setting) == [NoStatement EXCEPT !.op = "SYSTEM_NOTIFY", !.arg = setting,
                                       !.block = (setting = "")]
NotifyComponent(path, setting) ==
  [NoStatement EXCEPT !.op = "SYSTEM_NOTIFY_COMPONENT", !.path = path, !.arg = setting]

Opened(s) == [s EXCEPT !.block = TRUE]
Closed(s) == [s EXCEPT !.block = FALSE]
Param(s, name, value) == [s EXCEPT !.params = Put(@, name, value)]
Bool(b)    == [type |-> "BOOL", int |-> IF b THEN 1 ELSE 0, str |-> ""]
String(t)  == [type |-> "STRING", int |-> 0, str |-> t]
Integer(n) == [type |-> "INTEGER", int |-> n, str |-> ""]

Package(name, main) == [name |-> name, main |-> main]
OnePackage  == {Package(<<"p">>, TRUE)}

-----------------------------------------------------------------------------
(* Declarations: the five kinds under two names, nested systems, anonymous *)
(* ones, in one package or two of the same name; parameters that are       *)
(* accepted, that are refused before anything is created, and after.       *)
DeclarationStatements ==
  LET component == Declare("COMPONENT", "A")
      system    == Declare("SYSTEM", "A")
  IN {NoStatement, [NoStatement EXCEPT !.op = "PACKAGE"],
      Param(component, "stream", String("lazy")), Declare("TRANSIENT", "B"),
      Param(Param(system, "lazy", Integer(2)), "parallel", Bool(FALSE)),
      Declare("SYSTEM", ""), Param(Declare("ACTION", "B"), "parallel", String("preferred")),
      Declare("ENUM", "A"), Uses(<<"A">>), Param(component, "stream", String("slow")),
      Param(Param(component, "stream", Bool(TRUE)), "transient", Bool(TRUE)),
      Param(Declare("TRANSIENT", "A"), "stream", Bool(TRUE)),
      Param(system, "parallel", String("never"))}

(* Packages: two, one of which may import the other, each with a component *)
(* that systems name; a component and an enum whose qualified names meet,  *)
(* since a package has the component's name; fields of every type, and two *)
(* that would refer to each other.                                         *)
FieldPackages == {Package(<<"C">>, TRUE), Package(<<"q">>, FALSE)}
PackageStatementSet ==
  {Import(<<"q">>), Param(Import(<<"q">>), "other", Bool(TRUE)),
   Declare("COMPONENT", "C"), Declare("ACTION", "A"), Declare("ENUM", "x"),
   EnumValueOf("v", "1"), FieldOf("ENTITY", "x"),
   UserField(<<"C", "x">>, "y"), UserField(<<"q", "C", "x">>, "y"),
   UserField(<<"C", "y">>, "x"), Uses(<<"C">>), Uses(<<"q", "C">>)}

(* Associations: a component with two entity fields, used by a system      *)
(* through one of them, through both, through each in turn, and within a   *)
(* block of one of these.                                                  *)
AssocStatements ==
  {Declare("COMPONENT", "C"), FieldOf("ENTITY", "x"), FieldOf("i32", "y"),
   FieldOf("ENTITY", "y"), Closed(Declare("TRANSIENT", "D")), Declare("SYSTEM", "S"),
   Opened(Uses(<<"C">>)), Uses(<<"D">>),
   UsesWith(<<"C">>, <<"x">>), UsesWith(<<"C">>, <<"x", "y">>), With(<<"x">>),
   With(<<"y">>), Notify("always")}

(* System bodies: two components used, generated and notified of by a      *)
(* system and by an action in it or beside it.                             *)
BodyStatements ==
  {Closed(Declare("COMPONENT", "C")), Closed(Declare("COMPONENT", "D")),
   Declare("SYSTEM", "S"), Declare("ACTION", "T"), Uses(<<"C">>), Uses(<<"D">>),
   Generates, Constraint(<<"C">>), Constraint(<<"D">>),
   Notify(""), Notify("always"), Notify("sometimes"),
   NotifyComponent(<<"C">>, "oninit"), NotifyComponent(<<"C">>, "onchange")}
=============================================================================
