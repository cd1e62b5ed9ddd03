------------------------------- MODULE MCApi -------------------------------
(***************************************************************************)
(* Hosts of the dynamic API, each of which makes the calls of one kind:    *)
(* one builds trees of systems, one changes settings, one associations,    *)
(* one fills enums and one lays out fields.  The first three also destroy  *)
(* packages.                                                               *)
(***************************************************************************)
EXTENDS DynamicApiProps, Layout

CONSTANT MaxSystems   \* bound on the systems and actions of the tree host

MCPackageNames == {<<"a">>}

VARIABLE host

Hosts == {"tree", "settings", "assocs", "enums", "fields"}
MCInit == ApiInit /\ host \in Hosts

MCEnumNumbers ==
  {-2147483647 - 1, -32769, -32768, -129, -128, -1, 0, 127, 128, 255, 256,
   32767, 32768, 65535, 65536, 2147483647}

Count(kinds) == Cardinality(Declared(kinds))

(* What a host creates: packages first, and at most so many packages,      *)
(* systems, components and enums that live at a time.                      *)
Few(packages_, systems, components, enums) ==
  /\ Cardinality(Packages) <= packages_ /\ Count(SystemLikes) <= systems
  /\ Count(ComponentLikes) <= components /\ Cardinality(DOMAIN enum_values) <= enums

Creates ==
  /\ CreateCalls \/ SystemCalls
  /\ CASE host = "tree"     -> Few(1, MaxSystems, 0, 0)'
       [] host = "settings" -> Few(2, 1, 1, 0)'
       [] host = "assocs"   -> Few(2, 1, 2, 0)'
       [] host = "enums"    -> Few(1, 0, 0, 1)'
       [] host = "fields"   -> Few(1, 0, 1, 1)'
  /\ host # "settings" => main_package_id' = NoId
  /\ Packages' # Packages => DOMAIN defs = {}

MCNext ==
  /\ UNCHANGED host
  /\ \/ Creates
     \/ host = "tree" /\ TreeCalls
     \/ host = "settings" /\ SettingCalls
     \/ host = "assocs" /\ AssocCalls
     \/ host = "enums" /\ LayoutCalls(EnumNumbers)
     \/ host = "fields" /\ LayoutCalls({0, 256})
     \/ host \in {"tree", "settings", "assocs"} /\ DestroyCalls

MCSpec == MCInit /\ [][MCNext]_<<api_vars, host>>
=============================================================================
