----------------------------- MODULE BodyProofs -----------------------------
(***************************************************************************)
(* What the statements of a system body do to the systems and their        *)
(* associations.  Every proof goes through one lemma that lists the ways   *)
(* in which a step may change them.                                        *)
(***************************************************************************)
EXTENDS EvaluatorProofs, FiniteSetTheorems

-----------------------------------------------------------------------------
(* What the lookups of a body find: a system of the package itself, and    *)
(* components that the package sees.                                       *)
SeenIds == {d \in DOMAIN defs : defs[d].owner \in Visible(package_id)}
OwnIds  == {d \in DOMAIN defs : defs[d].owner = package_id}

LEMMA SearchSeen ==
  ASSUME RuntimeTypeOK, package_id \in Packages, NEW kind, NEW path
  PROVE  /\ Search(kind, path) \in Seq(SUBSET SeenIds)
         /\ kind \in SystemLikes => Search(kind, path) \in Seq(SUBSET OwnIds)
<1> DEFINE own == Bare(package_id, kind, path) \cup Qualified(package_id, kind, path)
<1>1. PICK dependencies : dependencies = package_defs[package_id].dependencies
  OBVIOUS
<1>2. Len(dependencies) \in Nat /\ DOMAIN dependencies = 1 .. Len(dependencies)
  BY <1>1 DEF RuntimeTypeOK, PackageDef
<1>3. Visible(package_id) = {package_id} \cup {dependencies[i] : i \in DOMAIN dependencies}
  BY <1>1 DEF Visible, ToSet
<1>4. Bare(package_id, kind, path) \subseteq OwnIds /\ own \subseteq SeenIds
  BY <1>3 DEF Bare, Qualified, Owned, OwnIds, SeenIds
<1>5. \A i \in DOMAIN dependencies : Qualified(dependencies[i], kind, path) \subseteq SeenIds
  BY <1>3 DEF Qualified, Owned, SeenIds
<1>6. CASE kind \in SystemLikes
  <2>1. Search(kind, path) = <<Bare(package_id, kind, path)>>
    BY <1>6 DEF Search
  <2> QED
    BY <1>4, <2>1
<1>7. CASE kind \notin SystemLikes
  <2> DEFINE imported == [i \in DOMAIN dependencies |-> Qualified(dependencies[i], kind, path)]
  <2>1. imported \in [1 .. Len(dependencies) -> SUBSET SeenIds]
    BY <1>2, <1>5
  <2>2. imported \in Seq(SUBSET SeenIds)
    BY <1>2, <2>1, FunctionIsSeq
  <2>3. <<own>> \in Seq(SUBSET SeenIds)
    BY <1>4
  <2>4. Search(kind, path) = <<own>> \o imported
    BY <1>1, <1>7 DEF Search
  <2> HIDE DEF own, imported
  <2> QED
    BY <1>7, <2>2, <2>3, <2>4, ConcatProperties
<1> QED
  BY <1>6, <1>7

LEMMA SeenNat ==
  ASSUME RuntimeTypeOK
  PROVE  SeenIds \subseteq Nat /\ OwnIds \subseteq Nat
BY KindIdsNat DEF SeenIds, OwnIds, RuntimeTypeOK, Issued

(* A component that a statement names, or that a block is about, is seen;  *)
(* the system of a body is of the package itself.                          *)
LEMMA LookupsSeen ==
  ASSUME RuntimeTypeOK, package_id \in Packages, NEW s
  PROVE  /\ NamedComponentLike(s) # NoId => NamedComponentLike(s) \in SeenIds
         /\ NamedComponent(s) # NoId => NamedComponent(s) \in SeenIds
         /\ s.op = "SYSTEM_COMPONENT" /\ ComponentLikeOf(s) # NoId => ComponentLikeOf(s) \in SeenIds
         /\ SystemLikeOf(s) # NoId => SystemLikeOf(s) \in OwnIds
<1>1. ASSUME NEW search \in Seq(SUBSET SeenIds), Earliest(search) # NoId
      PROVE  Earliest(search) \in SeenIds
  BY <1>1, SeenNat, EarliestFound
<1>2. ASSUME NEW search \in Seq(SUBSET OwnIds), Earliest(search) # NoId
      PROVE  Earliest(search) \in OwnIds
  BY <1>2, SeenNat, EarliestFound
<1>3. \A path : SearchComponentLike(path) \in Seq(SUBSET SeenIds)
  BY SearchSeen, ConcatProperties DEF SearchComponentLike
<1>4. \A path : Search("component", path) \in Seq(SUBSET SeenIds)
  BY SearchSeen
<1>5. \A path : /\ Search("system", path) \in Seq(SUBSET OwnIds)
                /\ Search("action", path) \in Seq(SUBSET OwnIds)
  BY SearchSeen DEF SystemLikes
<1>6. SystemLikeOf(s) # NoId => SystemLikeOf(s) \in OwnIds
  BY <1>2, <1>5 DEF SystemLikeOf, FindDeclared, KindOf
<1> QED
  BY <1>1, <1>3, <1>4, <1>6 DEF NamedComponentLike, NamedComponent, ComponentLikeOf

-----------------------------------------------------------------------------
(* The checks that a handler has passed.                                   *)
LEMMA SystemComponentPassed ==
  ASSUME TypeOK, package_id \in Packages, NEW s \in Statements,
         Accepted(SystemComponentChecks(s))
  PROVE  /\ Context(1).op \in {"SYSTEM", "ACTION", "SYSTEM_COMPONENT", "SYSTEM_WITH"}
         /\ NamedComponentLike(s) # NoId /\ ContextSystem # NoId
         /\ InAssocBlock => FindAssocsAsserts(ContextSystem, AssocComponent, Context(1).with)
         /\ ~NotifyStarted
         /\ Accepted(WithChecks(NamedComponentLike(s), s.with))
<1> PICK comp : comp = NamedComponentLike(s)
  OBVIOUS
<1> DEFINE nested == Context(1).op \in {"SYSTEM_COMPONENT", "SYSTEM_WITH"}
           asserts == ~InAssocBlock \/
             FindAssocsAsserts(ContextSystem, AssocComponent, Context(1).with)
           own == <<InContext({"SYSTEM", "ACTION", "SYSTEM_COMPONENT", "SYSTEM_WITH"}),
       AllowParams(s, {}),
       Check(comp # NoId, "UNKNOWN_COMPONENT_LIKE_TYPE"),
       Check(ContextSystem # NoId, "INVALID_CONTEXT"),
       Check(~(Context(1).op = "SYSTEM_COMPONENT" /\ s.with # <<>>), "NESTED_ASSOC"),
       Check(~nested \/ AssocComponent # NoId, "INVALID_CONTEXT"),
       Check(asserts, "ABORT"),
       Check(~InAssocBlock \/ Cardinality(ContextAssocs) <= 1,
             "SAME_FIELDS_SYSTEM_ASSOCIATION"),
       Check(~NotifyStarted, "NOTIFY_BEFORE_SYSTEM_COMPONENT")>>
           with == WithChecks(comp, s.with)
<1>1. Accepted(own \o with)
  BY DEF SystemComponentChecks
<1>2. own \in Seq(Range(own))
  BY DEF Range
<1>3. DOMAIN own = 1 .. 9
  OBVIOUS
<1>4. /\ own[1] = Check(Context(1).op \in {"SYSTEM", "ACTION", "SYSTEM_COMPONENT", "SYSTEM_WITH"},
                       "INVALID_CONTEXT")
      /\ own[3] = Check(comp # NoId, "UNKNOWN_COMPONENT_LIKE_TYPE")
      /\ own[4] = Check(ContextSystem # NoId, "INVALID_CONTEXT")
      /\ own[7] = Check(asserts, "ABORT")
      /\ own[9] = Check(~NotifyStarted, "NOTIFY_BEFORE_SYSTEM_COMPONENT")
  BY DEF InContext
<1> HIDE DEF own, asserts
<1>5. with \in Seq(Range(with))
  BY StatementType, WithCheckCodes
<1> HIDE DEF with
<1>6. Accepted(own) /\ Accepted(with)
  BY <1>1, <1>2, <1>5, ConcatRanges
<1>7. Context(1).op \in {"SYSTEM", "ACTION", "SYSTEM_COMPONENT", "SYSTEM_WITH"}
  <2>1. own[1].holds
    BY <1>3, <1>6 DEF Accepted
  <2>2. Check(Context(1).op \in {"SYSTEM", "ACTION", "SYSTEM_COMPONENT", "SYSTEM_WITH"}, "INVALID_CONTEXT").holds
    BY <1>4, <2>1, Zenon
  <2> QED
    BY <2>2, Zenon DEF Check
<1>8. comp # NoId
  <2>1. own[3].holds
    BY <1>3, <1>6 DEF Accepted
  <2>2. Check(comp # NoId, "UNKNOWN_COMPONENT_LIKE_TYPE").holds
    BY <1>4, <2>1, Zenon
  <2> QED
    BY <2>2, Zenon DEF Check
<1>9. ContextSystem # NoId
  <2>1. own[4].holds
    BY <1>3, <1>6 DEF Accepted
  <2>2. Check(ContextSystem # NoId, "INVALID_CONTEXT").holds
    BY <1>4, <2>1, Zenon
  <2> QED
    BY <2>2, Zenon DEF Check
<1>10. asserts
  <2>1. own[7].holds
    BY <1>3, <1>6 DEF Accepted
  <2>2. Check(asserts, "ABORT").holds
    BY <1>4, <2>1, Zenon
  <2> QED
    BY <2>2, Zenon DEF Check
<1>11. ~NotifyStarted
  <2>1. own[9].holds
    BY <1>3, <1>6 DEF Accepted
  <2>2. Check(~NotifyStarted, "NOTIFY_BEFORE_SYSTEM_COMPONENT").holds
    BY <1>4, <2>1, Zenon
  <2> QED
    BY <2>2, Zenon DEF Check
<1> QED
  BY <1>6, <1>7, <1>8, <1>9, <1>10, <1>11 DEF with, asserts

LEMMA SystemWithPassed ==
  ASSUME TypeOK, package_id \in Packages, NEW s \in Statements,
         Accepted(SystemWithChecks(s))
  PROVE  /\ Context(1).op = "SYSTEM_COMPONENT"
         /\ ContextSystem # NoId /\ ComponentLikeOf(Context(1)) # NoId
         /\ Accepted(WithChecks(ComponentLikeOf(Context(1)), s.with))
         /\ s.with # <<>>
<1> PICK comp : comp = ComponentLikeOf(Context(1))
  OBVIOUS
<1> DEFINE own  == <<InContext({"SYSTEM_COMPONENT"}), AllowParams(s, {}),
                     Check(ContextSystem # NoId, "INVALID_CONTEXT"),
                     Check(comp # NoId, "UNKNOWN_COMPONENT_LIKE_TYPE")>>
           with == WithChecks(comp, s.with)
           end  == <<Check(s.with # <<>>, "UNEXPECTED_STATEMENT")>>
<1>1. Accepted(own \o with \o end)
  BY DEF SystemWithChecks
<1>2. own \in Seq(Range(own)) /\ end \in Seq(Range(end))
  BY DEF Range
<1>3. /\ 1 \in DOMAIN own
      /\ own[1] = Check(Context(1).op \in {"SYSTEM_COMPONENT"}, "INVALID_CONTEXT")
      /\ 3 \in DOMAIN own /\ own[3] = Check(ContextSystem # NoId, "INVALID_CONTEXT")
      /\ 4 \in DOMAIN own /\ own[4] = Check(comp # NoId, "UNKNOWN_COMPONENT_LIKE_TYPE")
      /\ 1 \in DOMAIN end /\ end[1] = Check(s.with # <<>>, "UNEXPECTED_STATEMENT")
  BY DEF InContext
<1> HIDE DEF own, end
<1>4. with \in Seq(Range(with))
  BY StatementType, WithCheckCodes
<1> HIDE DEF with
<1>5. own \o with \in Seq(Range(own \o with))
  <2>1. own \o with \in Seq(Range(own) \cup Range(with))
    BY <1>2, <1>4, ConcatRanges
  <2> QED
    BY <2>1, SeqOfRange
<1>6. Accepted(own \o with) /\ Accepted(end)
  BY <1>1, <1>2, <1>5, ConcatRanges
<1>7. Accepted(own) /\ Accepted(with)
  BY <1>2, <1>4, <1>6, ConcatRanges
<1>8. own[1].holds /\ own[3].holds /\ own[4].holds /\ end[1].holds
  BY <1>3, <1>6, <1>7 DEF Accepted
<1>9. /\ Check(Context(1).op \in {"SYSTEM_COMPONENT"}, "INVALID_CONTEXT").holds
      /\ Check(ContextSystem # NoId, "INVALID_CONTEXT").holds
      /\ Check(comp # NoId, "UNKNOWN_COMPONENT_LIKE_TYPE").holds
      /\ Check(s.with # <<>>, "UNEXPECTED_STATEMENT").holds
  BY <1>3, <1>8, Zenon
<1>10. Context(1).op = "SYSTEM_COMPONENT"
  BY <1>9 DEF Check
<1>11. ContextSystem # NoId /\ comp # NoId
  BY <1>9, Zenon DEF Check
<1>12. s.with # <<>>
  BY <1>9, Zenon DEF Check
<1> QED
  BY <1>7, <1>10, <1>11, <1>12 DEF with

LEMMA SystemNotifyPassed ==
  ASSUME NEW s, Accepted(SystemNotifyChecks(s))
  PROVE  Context(1).op \in {"SYSTEM", "ACTION"} /\ ContextSystem # NoId /\ ~NotifyStarted
<1> DEFINE k1 == InContext({"SYSTEM", "ACTION"})
           k2 == AllowParams(s, {})
           k3 == Check(ContextSystem # NoId, "ABORT")
           k4 == Check(~NotifyStarted, "MULTIPLE_NOTIFY_STATEMENTS")
           k5 == Check(s.arg \in NotifySettings \cup {""}, "INVALID_NOTIFY_SETTING")
<1>1. SystemNotifyChecks(s) = <<k1, k2, k3, k4, k5>>
  BY DEF SystemNotifyChecks
<1> HIDE DEF k1, k2, k3, k4, k5
<1>2. k1.holds /\ k3.holds /\ k4.holds
  BY <1>1 DEF Accepted
<1>3. Context(1).op \in {"SYSTEM", "ACTION"}
  BY <1>2 DEF k1, InContext, Check
<1>4. ContextSystem # NoId
  BY <1>2, Zenon DEF k3, Check
<1>5. ~NotifyStarted
  BY <1>2, Zenon DEF k4, Check
<1> QED
  BY <1>3, <1>4, <1>5

LEMMA NotifyComponentPassed ==
  ASSUME NEW s, Accepted(NotifyComponentChecks(s))
  PROVE  /\ Context(1).op = "SYSTEM_NOTIFY"
         /\ NamedComponentLike(s) # NoId /\ ContextSystem # NoId
         /\ NamedComponentLike(s) \notin DOMAIN SystemRecord(ContextSystem).notify_settings
<1> DEFINE k1 == InContext({"SYSTEM_NOTIFY"})
           k2 == AllowParams(s, {})
           k3 == Check(Context(1).arg = "", "NOTIFY_BLOCK_AND_COMPONENTS")
           k4 == Check(NamedComponentLike(s) # NoId, "UNKNOWN_COMPONENT_LIKE_TYPE")
           k5 == Check(s.arg \in NotifySettings, "INVALID_NOTIFY_SETTING")
           k6 == Check(ContextSystem # NoId, "ABORT")
           k7 == Check(NamedComponentLike(s) \notin DOMAIN SystemRecord(ContextSystem).notify_settings,
                       "DUPLICATE_NOTIFY_COMPONENT")
<1>1. NotifyComponentChecks(s) = <<k1, k2, k3, k4, k5, k6, k7>>
  BY DEF NotifyComponentChecks
<1> HIDE DEF k1, k2, k3, k4, k5, k6, k7
<1>2. k1.holds /\ k4.holds /\ k6.holds /\ k7.holds
  BY <1>1 DEF Accepted
<1>3. Context(1).op = "SYSTEM_NOTIFY"
  BY <1>2 DEF k1, InContext, Check
<1>4. NamedComponentLike(s) # NoId
  BY <1>2, Zenon DEF k4, Check
<1>5. ContextSystem # NoId
  BY <1>2, Zenon DEF k6, Check
<1>6. NamedComponentLike(s) \notin DOMAIN SystemRecord(ContextSystem).notify_settings
  BY <1>2, Zenon DEF k7, Check
<1> QED
  BY <1>3, <1>4, <1>5, <1>6

LEMMA EntityConstraintPassed ==
  ASSUME NEW s, Accepted(EntityConstraintChecks(s))
  PROVE  /\ Context(1).op = "SYSTEM_GENERATES"
         /\ ContextSystem # NoId /\ NamedComponent(s) # NoId
         /\ DOMAIN ContextGenerates # {}
         /\ \A g \in DOMAIN ContextGenerates :
              NamedComponent(s) \notin DOMAIN ContextGenerates[g]
<1> DEFINE k1 == InContext({"SYSTEM_GENERATES"})
           k2 == AllowParams(s, {})
           k3 == Check(ContextSystem # NoId, "INVALID_CONTEXT")
           k4 == Check(NamedComponent(s) # NoId, "UNKNOWN_COMPONENT_TYPE")
           k5 == Check(DOMAIN ContextGenerates # {}, "INVALID_CONTEXT")
           k6 == Check(\A g \in DOMAIN ContextGenerates :
                         NamedComponent(s) \notin DOMAIN ContextGenerates[g],
                       "GENERATES_DUPLICATE_COMPONENT_CONSTRAINTS")
<1>1. EntityConstraintChecks(s) = <<k1, k2, k3, k4, k5, k6>>
  BY DEF EntityConstraintChecks
<1> HIDE DEF k1, k2, k3, k4, k5, k6
<1>2. k1.holds /\ k3.holds /\ k4.holds /\ k5.holds /\ k6.holds
  BY <1>1 DEF Accepted
<1>3. ContextSystem # NoId
  BY <1>2, Zenon DEF k3, Check
<1>4. NamedComponent(s) # NoId
  BY <1>2, Zenon DEF k4, Check
<1>5. DOMAIN ContextGenerates # {}
  BY <1>2, Zenon DEF k5, Check
<1>6. \A g \in DOMAIN ContextGenerates : NamedComponent(s) \notin DOMAIN ContextGenerates[g]
  BY <1>2, Zenon DEF k6, Check
<1>7. Context(1).op \in {"SYSTEM_GENERATES"}
  BY <1>2, Zenon DEF k1, InContext, Check
<1> QED
  BY <1>3, <1>4, <1>5, <1>6, <1>7

-----------------------------------------------------------------------------
(* The blocks around a statement.  Systems and actions are the outermost   *)
(* of the open blocks, and a capability block right inside a system, both  *)
(* opened in one package, is open only while the system has no notify      *)
(* setting.                                                                *)
SystemOps == {"SYSTEM", "ACTION"}

SystemsOutside ==
  \A i, j \in DOMAIN context_stack :
    i < j /\ context_stack[j].s.op \in SystemOps => context_stack[i].s.op \in SystemOps

NotifyWaits ==
  \A i, j \in DOMAIN context_stack :
    /\ i = j + 1 /\ context_stack[i].pkg = context_stack[j].pkg
    /\ context_stack[i].s.op = "SYSTEM_COMPONENT" /\ context_stack[j].s.op \in SystemOps
    => DOMAIN system_likes[context_stack[j].ref].notify_settings = {}

Blocks == Inv /\ FramesResolve /\ SystemsOutside /\ NotifyWaits

NoCapabilityBlock ==
  \A i \in DOMAIN context_stack : context_stack[i].s.op # "SYSTEM_COMPONENT"

LEMMA StackLength ==
  ASSUME Inv
  PROVE  /\ context_stack \in Seq(FrameType)
         /\ Len(context_stack) \in Nat /\ DOMAIN context_stack = 1 .. Len(context_stack)
<1>1. context_stack \in Seq(FrameType)
  BY DEF Inv, TypeOK, ClientTypeOK
<1> QED
  BY <1>1

LEMMA ContextFrame ==
  ASSUME Inv, NEW k \in Nat \ {0}, Context(k).op # "NONE"
  PROVE  /\ k <= Len(context_stack) /\ Len(context_stack) + 1 - k \in DOMAIN context_stack
         /\ Context(k) = context_stack[Len(context_stack) + 1 - k].s
<1>1. k <= Len(context_stack)
  BY DEF Context, NoStatement
<1> QED
  BY <1>1, StackLength DEF Context

LEMMA SystemOfContext ==
  ASSUME Inv, FramesResolve, NEW k \in Nat \ {0}, SystemLikeOf(Context(k)) # NoId,
         NEW n, n = Len(context_stack)
  PROVE  /\ k <= n /\ n + 1 - k \in DOMAIN context_stack
         /\ context_stack[n + 1 - k].s.op \in SystemOps
         /\ context_stack[n + 1 - k].s = Context(k)
         /\ context_stack[n + 1 - k].pkg = package_id =>
              SystemLikeOf(Context(k)) = context_stack[n + 1 - k].ref
         /\ SystemLikeOf(Context(k)) \in KindIds(SystemLikes) \cap OwnIds
<1>1. PICK c : c = Context(k)
  OBVIOUS
<1>2. c.op \in SystemOps
  BY <1>1 DEF SystemLikeOf, FindDeclared, SystemOps
<1>3. /\ k <= n /\ n + 1 - k \in DOMAIN context_stack
      /\ c = context_stack[n + 1 - k].s
  BY <1>1, <1>2, ContextFrame DEF SystemOps
<1>4. PICK f : f = context_stack[n + 1 - k]
  OBVIOUS
<1>5. FrameResolves(f)
  BY <1>3, <1>4 DEF FramesResolve
<1>6. package_id \in Packages /\ RuntimeTypeOK
  BY <1>3 DEF Inv, TypeOK, ClientTypeOK
<1>7. SystemLikeOf(c) \in KindIds(SystemLikes) \cap OwnIds
  BY <1>1, <1>6, DeclaredType, LookupsSeen
<1>8. f.pkg = package_id => SystemLikeOf(f.s) = f.ref
  <2>1. ASSUME f.pkg = package_id PROVE BlockResolves(f)
    BY <1>5, <2>1, BlockMeans
  <2> QED
    BY <1>2, <1>3, <1>4, <2>1 DEF BlockResolves, SystemOps
<1> QED
  BY <1>1, <1>2, <1>3, <1>4, <1>7, <1>8

(* Where the system of a body statement is: just outside the statement, or *)
(* outside the notify, generates or capability block it is in; and it is   *)
(* the system of that block, if that was opened in the client's package.   *)
LEMMA ContextSystemPlace ==
  ASSUME Inv, FramesResolve, ContextSystem # NoId, NEW n, n = Len(context_stack)
  PROVE  /\ ContextSystem \in KindIds(SystemLikes) \cap OwnIds
         /\ Context(1).op \in SystemOps => n \in DOMAIN context_stack
              /\ context_stack[n].s.op \in SystemOps
              /\ (context_stack[n].pkg = package_id => context_stack[n].ref = ContextSystem)
         /\ Context(1).op \notin SystemOps \cup {"SYSTEM_WITH"} =>
              /\ n - 1 \in DOMAIN context_stack /\ n \in DOMAIN context_stack
              /\ context_stack[n].s.op = Context(1).op
              /\ context_stack[n - 1].s.op \in SystemOps
              /\ (context_stack[n - 1].pkg = package_id
                    => context_stack[n - 1].ref = ContextSystem)
<1>0. n \in Nat /\ DOMAIN context_stack = 1 .. n
  BY StackLength
<1>1. CASE Context(1).op \in SystemOps
  <2>1. ContextSystem = SystemLikeOf(Context(1))
    BY <1>1 DEF ContextSystem, SystemOps
  <2>2. /\ 1 <= n /\ n + 1 - 1 \in DOMAIN context_stack
        /\ context_stack[n + 1 - 1].s.op \in SystemOps
        /\ context_stack[n + 1 - 1].pkg = package_id =>
             SystemLikeOf(Context(1)) = context_stack[n + 1 - 1].ref
        /\ SystemLikeOf(Context(1)) \in KindIds(SystemLikes) \cap OwnIds
    BY <2>1, SystemOfContext
  <2>3. n + 1 - 1 = n
    BY <1>0
  <2> QED
    BY <1>1, <2>1, <2>2, <2>3
<1>2. CASE Context(1).op = "SYSTEM_WITH"
  <2>1. ContextSystem = SystemLikeOf(Context(3))
    BY <1>2 DEF ContextSystem
  <2>2. SystemLikeOf(Context(3)) \in KindIds(SystemLikes) \cap OwnIds
    BY <2>1, SystemOfContext
  <2> QED
    BY <1>2, <2>1, <2>2 DEF SystemOps
<1>3. CASE Context(1).op \notin SystemOps \cup {"SYSTEM_WITH"}
  <2>1. ContextSystem = SystemLikeOf(Context(2))
    BY <1>3 DEF ContextSystem, SystemOps
  <2>2. /\ 2 <= n /\ n + 1 - 2 \in DOMAIN context_stack
        /\ context_stack[n + 1 - 2].s.op \in SystemOps
        /\ context_stack[n + 1 - 2].pkg = package_id =>
             SystemLikeOf(Context(2)) = context_stack[n + 1 - 2].ref
        /\ SystemLikeOf(Context(2)) \in KindIds(SystemLikes) \cap OwnIds
    BY <2>1, SystemOfContext
  <2>3. n + 1 - 2 = n - 1 /\ n \in DOMAIN context_stack
    BY <1>0, <2>2
  <2>4. Context(1) = context_stack[n].s
    BY <1>0, <2>2 DEF Context
  <2> QED
    BY <1>3, <2>1, <2>2, <2>3, <2>4
<1> QED
  BY <1>1, <1>2, <1>3

(* A notify statement is never inside a capability block.                  *)
LEMMA NotifyOutside ==
  ASSUME Blocks, ContextSystem # NoId, Context(1).op \in SystemOps \cup {"SYSTEM_NOTIFY"}
  PROVE  NoCapabilityBlock
<1>0. PICK n \in Nat : n = Len(context_stack) /\ DOMAIN context_stack = 1 .. n
  BY StackLength DEF Blocks
<1>1. Inv /\ FramesResolve
  BY DEF Blocks
<1>2. \A j \in DOMAIN context_stack : context_stack[j].s.op \in SystemOps =>
        \A i \in DOMAIN context_stack : i < j => context_stack[i].s.op # "SYSTEM_COMPONENT"
  BY DEF Blocks, SystemsOutside, SystemOps
<1>3. CASE Context(1).op \in SystemOps
  <2>1. n \in DOMAIN context_stack /\ context_stack[n].s.op \in SystemOps
    BY <1>0, <1>1, <1>3, ContextSystemPlace
  <2>2. \A i \in DOMAIN context_stack : i < n \/ i = n
    BY <1>0
  <2> QED
    BY <1>2, <2>1, <2>2 DEF NoCapabilityBlock, SystemOps
<1>4. CASE Context(1).op = "SYSTEM_NOTIFY"
  <2>1. /\ n - 1 \in DOMAIN context_stack /\ context_stack[n - 1].s.op \in SystemOps
        /\ context_stack[n].s.op = "SYSTEM_NOTIFY"
    BY <1>0, <1>1, <1>4, ContextSystemPlace DEF SystemOps
  <2>2. \A i \in DOMAIN context_stack : i < n - 1 \/ i = n - 1 \/ i = n
    BY <1>0
  <2> QED
    BY <1>2, <2>1, <2>2 DEF NoCapabilityBlock, SystemOps
<1> QED
  BY <1>3, <1>4

-----------------------------------------------------------------------------
(* The ways in which a step changes a system, its associations or their    *)
(* counter.                                                                *)
SetsNotify(sys, comps, setting) ==
  /\ SetNotifySettings(sys, comps, setting) /\ UNCHANGED assoc_vars
  /\ comps \cap DOMAIN system_likes[sys].notify_settings = {}
  /\ comps \subseteq DOMAIN system_likes[sys].caps \/ comps \subseteq SeenIds
  /\ NoCapabilityBlock

AddsGenerates(sys) == AddSystemGenerates(sys) /\ UNCHANGED assoc_vars

Constrains(sys, gen, comp, flag) ==
  /\ SystemGeneratesSetComponent(sys, gen, comp, flag) /\ UNCHANGED assoc_vars
  /\ gen \in DOMAIN system_likes[sys].generates /\ comp \in SeenIds
  /\ comp \notin DOMAIN system_likes[sys].generates[gen]

(* The associations with the one of a with list added, if there is one.    *)
AddedAssoc(sys, comp, names) ==
  AddSystemAssoc(system_assoc_info, last_assoc_id, sys, comp, FieldIds(comp, names))
Associates(sys, info) ==
  \/ info = system_assoc_info /\ UNCHANGED last_assoc_id
  \/ /\ NextAssocId
     /\ \E comp \in SeenIds \cap KindIds(ComponentLikes), names \in Seq(STRING) \ {<<>>} :
          Accepted(WithChecks(comp, names)) /\ info = AddedAssoc(sys, comp, names)

SetsCapability(sys, info) ==
  \/ system_assoc_info' = info /\ UNCHANGED runtime_vars
  \/ /\ system_assoc_info' = info
     /\ \E comp \in SeenIds : \E cap :
          comp \notin DOMAIN system_likes[sys].caps /\ SetSystemCapability(sys, comp, cap)
  \/ /\ UNCHANGED runtime_vars
     /\ \E a \in Range(AssocList(system_assoc_info, sys)), comp \in SeenIds : \E cap :
          /\ comp \notin DOMAIN a.caps
          /\ system_assoc_info' = SetSystemAssocCapability(info, sys, a.id, comp, cap)
AddsCapability(sys) ==
  /\ BlocksHere => DOMAIN system_likes[sys].notify_settings = {}
  /\ \E info : Associates(sys, info) /\ SetsCapability(sys, info)

ChangesBody(sys) ==
  \/ \E comps, setting : SetsNotify(sys, comps, setting)
  \/ AddsGenerates(sys)
  \/ \E gen, comp, flag : Constrains(sys, gen, comp, flag)
  \/ AddsCapability(sys)

OwnSystems == KindIds(SystemLikes) \cap OwnIds

(* In which system: the one that the statement finds by name.              *)
ChangesContext == \E sys \in OwnSystems : sys = ContextSystem /\ ChangesBody(sys)

CreatesSystem ==
  \E kind \in SystemLikes, name \in STRING, parent \in OwnSystems \cup {NoId},
     parallel \in Executions, lazy \in Nat :
    CreateSystemLike(kind, package_id, name, parent, parallel, lazy) /\ UNCHANGED assoc_vars

LEMMA NotifyKinds ==
  ASSUME Blocks, package_id \in Packages, NEW s \in Statements,
         EvalSystemNotify(s) \/ EvalSystemNotifyComponent(s)
  PROVE  UNCHANGED store \/ ChangesContext
<1>0. Inv /\ FramesResolve /\ RuntimeTypeOK
  BY DEF Blocks, Inv, TypeOK
<1> PICK sys : sys = ContextSystem
  OBVIOUS
<1>1. CASE UNCHANGED store
  BY <1>1
<1>2. CASE /\ Accepted(SystemNotifyChecks(s)) /\ UNCHANGED assoc_vars
           /\ SetNotifySettings(ContextSystem, DOMAIN SystemRecord(ContextSystem).caps, s.arg)
  <2>1. Context(1).op \in SystemOps /\ ContextSystem # NoId /\ ~NotifyStarted
    BY <1>2, SystemNotifyPassed DEF SystemOps
  <2>5. sys \in OwnSystems /\ NoCapabilityBlock
    BY <1>0, <2>1, ContextSystemPlace, NotifyOutside DEF OwnSystems
  <2>6. SystemRecord(sys) = system_likes[sys]
    BY <1>0, <2>5, SystemRecordType DEF OwnSystems
  <2>7. DOMAIN system_likes[sys].notify_settings = {}
    BY <2>1, <2>6, Zenon DEF NotifyStarted
  <2>8. SetsNotify(sys, DOMAIN system_likes[sys].caps, s.arg)
    BY <1>2, <2>5, <2>6, <2>7 DEF SetsNotify
  <2> QED
    BY <2>5, <2>8 DEF ChangesContext, ChangesBody
<1>3. CASE /\ Accepted(NotifyComponentChecks(s)) /\ UNCHANGED assoc_vars
           /\ SetNotifySettings(ContextSystem, {NamedComponentLike(s)}, s.arg)
  <2> PICK comp : comp = NamedComponentLike(s)
    OBVIOUS
  <2>1. /\ Context(1).op = "SYSTEM_NOTIFY"
        /\ NamedComponentLike(s) # NoId /\ ContextSystem # NoId
        /\ NamedComponentLike(s) \notin DOMAIN SystemRecord(ContextSystem).notify_settings
    BY <1>3, NotifyComponentPassed
  <2>6. sys \in OwnSystems /\ NoCapabilityBlock
    BY <1>0, <2>1, ContextSystemPlace, NotifyOutside DEF OwnSystems
  <2>7. SystemRecord(sys) = system_likes[sys]
    BY <1>0, <2>6, SystemRecordType DEF OwnSystems
  <2>8. comp \in SeenIds /\ comp \notin DOMAIN system_likes[sys].notify_settings
    BY <1>0, <2>1, <2>7, LookupsSeen
  <2>9. SetsNotify(sys, {comp}, s.arg)
    BY <1>3, <2>6, <2>8 DEF SetsNotify
  <2> QED
    BY <2>6, <2>9 DEF ChangesContext, ChangesBody
<1>4. CASE EvalSystemNotify(s)
  BY <1>1, <1>2, <1>4 DEF EvalSystemNotify, Rejected, store
<1>5. CASE EvalSystemNotifyComponent(s)
  BY <1>1, <1>3, <1>5 DEF EvalSystemNotifyComponent, Rejected, store
<1> QED
  BY <1>4, <1>5

LEMMA GeneratesKinds ==
  ASSUME Blocks, package_id \in Packages, NEW s \in Statements,
         EvalSystemGenerates(s) \/ EvalEntityConstraint(s)
  PROVE  UNCHANGED store \/ ChangesContext
<1>0. Inv /\ FramesResolve /\ RuntimeTypeOK
  BY DEF Blocks, Inv, TypeOK
<1> PICK sys : sys = ContextSystem
  OBVIOUS
<1>1. CASE UNCHANGED store
  BY <1>1
<1>2. CASE /\ Accepted(SystemGeneratesChecks(s)) /\ UNCHANGED assoc_vars
           /\ AddSystemGenerates(ContextSystem)
  <2>1. SystemGeneratesChecks(s)[3].holds
    BY <1>2 DEF Accepted, SystemGeneratesChecks
  <2>2. Check(ContextSystem # NoId, "INVALID_CONTEXT").holds
    BY <2>1 DEF SystemGeneratesChecks
  <2>3. ContextSystem # NoId
    BY <2>2, Zenon DEF Check
  <2>4. sys \in OwnSystems
    BY <1>0, <2>3, ContextSystemPlace DEF OwnSystems
  <2> QED
    BY <1>2, <2>4 DEF ChangesContext, ChangesBody, AddsGenerates
<1>3. CASE /\ Accepted(EntityConstraintChecks(s)) /\ UNCHANGED assoc_vars
           /\ LET gen == CHOOSE g \in DOMAIN ContextGenerates : TRUE
              IN SystemGeneratesSetComponent(ContextSystem, gen, NamedComponent(s), s.arg)
  <2> PICK comp : comp = NamedComponent(s)
    OBVIOUS
  <2> PICK gen : gen = CHOOSE g \in DOMAIN ContextGenerates : TRUE
    OBVIOUS
  <2>1. /\ ContextSystem # NoId /\ NamedComponent(s) # NoId
        /\ DOMAIN ContextGenerates # {}
        /\ \A g \in DOMAIN ContextGenerates :
             NamedComponent(s) \notin DOMAIN ContextGenerates[g]
    BY <1>3, EntityConstraintPassed
  <2>7. sys \in OwnSystems
    BY <1>0, <2>1, ContextSystemPlace DEF OwnSystems
  <2>8. ContextGenerates = system_likes[sys].generates
    BY <1>0, <2>7, SystemRecordType DEF OwnSystems, ContextGenerates
  <2>9. gen \in DOMAIN system_likes[sys].generates
    BY <2>1, <2>8
  <2>10. comp \in SeenIds /\ comp \notin DOMAIN system_likes[sys].generates[gen]
    BY <1>0, <2>1, <2>8, <2>9, LookupsSeen
  <2>11. Constrains(sys, gen, comp, s.arg)
    BY <1>3, <2>9, <2>10 DEF Constrains
  <2> QED
    BY <2>7, <2>11 DEF ChangesContext, ChangesBody
<1>4. CASE EvalSystemGenerates(s)
  BY <1>1, <1>2, <1>4 DEF EvalSystemGenerates, Rejected, store
<1>5. CASE EvalEntityConstraint(s)
  BY <1>1, <1>3, <1>5 DEF EvalEntityConstraint, Rejected, store
<1> QED
  BY <1>4, <1>5

(* The association of a block that associates is one of the system's.      *)
LEMMA ContextAssocIsOne ==
  ASSUME FindAssocsAsserts(ContextSystem, AssocComponent, Context(1).with)
  PROVE  ContextAssoc \in Range(AssocList(system_assoc_info, ContextSystem))
<1>1. ContextAssocs # {}
  BY DEF FindAssocsAsserts, ContextAssocs
<1>2. ContextAssocs \subseteq Range(AssocList(system_assoc_info, ContextSystem))
  BY DEF ContextAssocs, FindAssocsWithFields, AssocsOf
<1>3. ContextAssoc \in ContextAssocs
  BY <1>1 DEF ContextAssoc
<1> QED
  BY <1>2, <1>3

LEMMA ComponentKinds ==
  ASSUME Blocks, package_id \in Packages, NEW s \in Statements, EvalSystemComponent(s)
  PROVE  UNCHANGED store \/ \E sys \in OwnSystems : sys = ContextSystem /\ AddsCapability(sys)
<1>0. Inv /\ FramesResolve /\ RuntimeTypeOK /\ TypeOK
  BY DEF Blocks, Inv, TypeOK
<1> PICK sys : sys = ContextSystem
  OBVIOUS
<1> PICK comp : comp = NamedComponentLike(s)
  OBVIOUS
<1> PICK names : names = s.with
  OBVIOUS
<1> PICK new : new = IF s.with = <<>> THEN NoId ELSE last_assoc_id
  OBVIOUS
<1> PICK added : added = IF names = <<>> THEN system_assoc_info
               ELSE AddSystemAssoc(system_assoc_info, new, sys, comp, FieldIds(comp, names))
  OBVIOUS
<1>1. CASE Rejected(SystemComponentChecks(s))
  BY <1>1 DEF Rejected, store
<1>2. CASE ~Rejected(SystemComponentChecks(s))
  <2>1. /\ Accepted(SystemComponentChecks(s))
        /\ IF names = <<>> THEN UNCHANGED last_assoc_id ELSE NextAssocId
        /\ \/ /\ comp \in ContextCaps
              /\ system_assoc_info' = added
              /\ UNCHANGED runtime_vars
           \/ /\ comp \notin ContextCaps
              /\ IF InAssocBlock
                 THEN /\ system_assoc_info' =
                           SetSystemAssocCapability(added, sys, ContextAssoc.id, comp, s.arg)
                      /\ UNCHANGED runtime_vars
                 ELSE /\ system_assoc_info' = added
                      /\ SetSystemCapability(sys, comp, s.arg)
    BY <1>2 DEF EvalSystemComponent
  <2>2. /\ NamedComponentLike(s) # NoId /\ ContextSystem # NoId
        /\ InAssocBlock => FindAssocsAsserts(ContextSystem, AssocComponent, Context(1).with)
        /\ ~NotifyStarted
        /\ Accepted(WithChecks(NamedComponentLike(s), s.with))
    BY <1>0, <2>1, SystemComponentPassed
  <2>3. sys \in OwnSystems
    BY <1>0, <2>2, ContextSystemPlace DEF OwnSystems
  <2>4. SystemRecord(sys) = system_likes[sys]
    BY <1>0, <2>3, SystemRecordType DEF OwnSystems
  <2>5. DOMAIN system_likes[sys].notify_settings = {}
    BY <2>2, <2>4, Zenon DEF NotifyStarted
  <2>6. comp \in SeenIds /\ comp \in KindIds(ComponentLikes)
    BY <1>0, <2>2, LookupsSeen, NamedComponentType
  <2>7. names \in Seq(STRING) /\ Accepted(WithChecks(comp, names))
    BY <2>2, StatementType
  <2>8. Associates(sys, added)
    <3>1. CASE names = <<>>
      BY <2>1, <3>1 DEF Associates
    <3>2. CASE names # <<>>
      <4>1. added = AddedAssoc(sys, comp, names)
        BY <3>2 DEF AddedAssoc
      <4> QED
        BY <2>1, <2>6, <2>7, <3>2, <4>1 DEF Associates
    <3> QED
      BY <3>1, <3>2
  <2>9. SetsCapability(sys, added)
    <3>1. CASE comp \in ContextCaps
      BY <2>1, <3>1 DEF SetsCapability
    <3>2. CASE comp \notin ContextCaps /\ InAssocBlock
      <4>1. /\ system_assoc_info' = SetSystemAssocCapability(added, sys, ContextAssoc.id, comp, s.arg)
            /\ UNCHANGED runtime_vars
        BY <2>1, <3>2
      <4>2. ContextAssoc \in Range(AssocList(system_assoc_info, sys))
        BY <2>2, <3>2, ContextAssocIsOne
      <4>3. comp \notin DOMAIN ContextAssoc.caps
        BY <3>2 DEF ContextCaps
      <4> QED
        BY <2>6, <4>1, <4>2, <4>3 DEF SetsCapability
    <3>3. CASE comp \notin ContextCaps /\ ~InAssocBlock
      <4>1. system_assoc_info' = added /\ SetSystemCapability(sys, comp, s.arg)
        BY <2>1, <3>3
      <4>2. comp \notin DOMAIN system_likes[sys].caps
        BY <2>4, <3>3 DEF ContextCaps
      <4> QED
        BY <2>6, <4>1, <4>2 DEF SetsCapability
    <3> QED
      BY <3>1, <3>2, <3>3
  <2>10. AddsCapability(sys)
    BY <2>5, <2>8, <2>9 DEF AddsCapability
  <2> QED
    BY <2>3, <2>10
<1> QED
  BY <1>1, <1>2

(* A with statement does not look at the notify settings: the block it is  *)
(* in was opened while there was none.                                     *)
LEMMA WithKinds ==
  ASSUME Blocks, package_id \in Packages, NEW s \in Statements, EvalSystemWith(s)
  PROVE  UNCHANGED store \/ ChangesContext
<1>0. Inv /\ FramesResolve /\ RuntimeTypeOK /\ TypeOK
  BY DEF Blocks, Inv, TypeOK
<1> PICK sys : sys = ContextSystem
  OBVIOUS
<1> PICK comp : comp = ComponentLikeOf(Context(1))
  OBVIOUS
<1>1. CASE Rejected(SystemWithChecks(s))
  BY <1>1 DEF Rejected, store
<1>2. CASE ~Rejected(SystemWithChecks(s))
  <2>1. /\ Accepted(SystemWithChecks(s)) /\ NextAssocId
        /\ system_assoc_info' = AddSystemAssoc(system_assoc_info, last_assoc_id,
                                  sys, comp, FieldIds(comp, s.with))
        /\ UNCHANGED runtime_vars
    BY <1>2 DEF EvalSystemWith
  <2>2. /\ Context(1).op = "SYSTEM_COMPONENT"
        /\ ContextSystem # NoId /\ ComponentLikeOf(Context(1)) # NoId
        /\ Accepted(WithChecks(ComponentLikeOf(Context(1)), s.with))
        /\ s.with # <<>>
    BY <1>0, <2>1, SystemWithPassed
  <2>3. PICK n : n = Len(context_stack)
    OBVIOUS
  <2>4. /\ sys \in OwnSystems
        /\ n - 1 \in DOMAIN context_stack /\ n \in DOMAIN context_stack
        /\ context_stack[n].s.op = "SYSTEM_COMPONENT"
        /\ (BlocksHere => context_stack[n - 1].ref = sys)
        /\ context_stack[n - 1].s.op \in SystemOps
    BY <1>0, <2>2, <2>3, ContextSystemPlace DEF OwnSystems, SystemOps, BlocksHere
  <2>5. n = (n - 1) + 1
    BY <1>0, <2>3, StackLength
  <2>6. BlocksHere => DOMAIN system_likes[sys].notify_settings = {}
    BY <2>4, <2>5 DEF Blocks, NotifyWaits, BlocksHere
  <2>7. comp \in SeenIds /\ comp \in KindIds(ComponentLikes)
    BY <1>0, <2>2, LookupsSeen, DeclaredType
  <2>8. s.with \in Seq(STRING) \ {<<>>} /\ Accepted(WithChecks(comp, s.with))
    BY <2>2, StatementType
  <2>9. system_assoc_info' = AddedAssoc(sys, comp, s.with)
    BY <2>1 DEF AddedAssoc
  <2>10. Associates(sys, system_assoc_info')
    BY <2>1, <2>7, <2>8, <2>9 DEF Associates
  <2>11. SetsCapability(sys, system_assoc_info')
    BY <2>1 DEF SetsCapability
  <2>12. AddsCapability(sys)
    BY <2>6, <2>10, <2>11 DEF AddsCapability
  <2> QED
    BY <2>4, <2>12 DEF ChangesContext, ChangesBody
<1> QED
  BY <1>1, <1>2

-----------------------------------------------------------------------------
(* The ways in which a step changes the store.                             *)
CreatesPackage ==
  \E name \in Seq(STRING) \ {<<>>}, main \in BOOLEAN : CreatePackage(name, main)
Imports == \E p \in Packages : AddDependency(package_id, p)
DeclaresComponent ==
  \E kind \in ComponentLikes, name \in STRING, comp_type \in ComponentTypes :
    CreateComponentLike(kind, package_id, name, comp_type)
DeclaresEnum == \E name \in STRING : CreateEnum(package_id, name)
AddsEnumValue ==
  \E e \in KindIds({"enum"}), name \in STRING, value \in STRING : AddEnumValue(e, name, value)

AddsField ==
  \E c \in KindIds(Composites), name \in STRING, type \in FieldType :
    /\ FieldsNamed(c, name) = {} /\ KnownType(type)
    /\ AddField(c, name, type)

StoreStep ==
  \/ UNCHANGED store
  \/ CreatesPackage /\ UNCHANGED assoc_vars
  \/ /\ package_id \in Packages
     /\ \/ /\ UNCHANGED assoc_vars
           /\ \/ Imports \/ DeclaresComponent \/ DeclaresEnum
              \/ AddsEnumValue \/ AddsField
        \/ CreatesSystem
        \/ \E sys \in OwnSystems : ChangesBody(sys)

LEMMA RejectedStep ==
  ASSUME NEW checks, Rejected(checks)
  PROVE  StoreStep
BY DEF Rejected, StoreStep, store

LEMMA DeclarationStep ==
  ASSUME Blocks, package_id \in Packages, NEW s \in Statements,
         EvalComponent(s) \/ EvalTransient(s) \/ EvalEnum(s)
  PROVE  StoreStep
<1>0. s.name \in STRING
  BY StatementType
<1>1. CASE EvalComponent(s)
  <2> DEFINE comp_type == IF AsksTransient(s) THEN "TRANSIENT" ELSE StreamParam(s)
  <2>1. CASE Rejected(ComponentChecks(s))
    BY <2>1, RejectedStep
  <2>2. CASE ~Rejected(ComponentChecks(s))
    <3>1. /\ CreateComponentLike("component", package_id, s.name, comp_type)
          /\ Accepted(ComponentChecks(s)) /\ UNCHANGED assoc_vars
      BY <1>1, <2>2 DEF EvalComponent
    <3>2. ComponentChecks(s)[3] = Check(StreamParam(s) # "INVALID", "INVALID_PARAMETER_VALUE")
      BY DEF ComponentChecks
    <3>3. 3 \in DOMAIN ComponentChecks(s)
      BY DEF ComponentChecks
    <3>4. Check(StreamParam(s) # "INVALID", "INVALID_PARAMETER_VALUE").holds
      BY <3>1, <3>2, <3>3 DEF Accepted
    <3>5. StreamParam(s) # "INVALID"
      BY <3>4, Zenon DEF Check
    <3>6. StreamParam(s) \in {"NONE", "STREAM", "LAZY_STREAM", "INVALID"}
      BY DEF StreamParam
    <3>7. comp_type \in ComponentTypes
      BY <3>5, <3>6 DEF ComponentTypes
    <3> HIDE DEF comp_type
    <3> QED
      BY <1>0, <3>1, <3>7 DEF StoreStep, DeclaresComponent, ComponentLikes
  <2> QED
    BY <2>1, <2>2
<1>2. CASE EvalTransient(s)
  <2>1. CASE Rejected(PlainDeclChecks(s))
    BY <2>1, RejectedStep
  <2>2. CASE ~Rejected(PlainDeclChecks(s))
    <3>1. /\ CreateComponentLike("transient", package_id, s.name, "TRANSIENT")
          /\ UNCHANGED assoc_vars
      BY <1>2, <2>2 DEF EvalTransient
    <3> QED
      BY <1>0, <3>1 DEF StoreStep, DeclaresComponent, ComponentLikes, ComponentTypes
  <2> QED
    BY <2>1, <2>2
<1>3. CASE EvalEnum(s)
  <2>1. CASE Rejected(PlainDeclChecks(s))
    BY <2>1, RejectedStep
  <2>2. CASE ~Rejected(PlainDeclChecks(s))
    BY <1>0, <1>3, <2>2 DEF EvalEnum, StoreStep, DeclaresEnum
  <2> QED
    BY <2>1, <2>2
<1> QED
  BY <1>1, <1>2, <1>3

LEMMA ImportStep ==
  ASSUME Blocks, package_id \in Packages, NEW s \in Statements,
         EvalEmpty(s) \/ EvalPackageInBlock(s) \/ EvalImport(s)
  PROVE  StoreStep
<1>1. CASE EvalEmpty(s)
  BY <1>1 DEF EvalEmpty, StoreStep, store
<1>2. CASE EvalPackageInBlock(s)
  BY <1>2, RejectedStep DEF EvalPackageInBlock
<1>3. CASE EvalImport(s)
  <2>1. CASE Rejected(ImportChecks(s))
    BY <2>1, RejectedStep
  <2>2. CASE ~Rejected(ImportChecks(s))
    BY <1>3, <2>2 DEF EvalImport, PackagesNamed, StoreStep, Imports
  <2> QED
    BY <2>1, <2>2
<1> QED
  BY <1>1, <1>2, <1>3

LEMMA EnumValueStep ==
  ASSUME Blocks, package_id \in Packages, NEW s \in Statements, EvalEnumValue(s)
  PROVE  StoreStep
<1>1. CASE Rejected(EnumValueChecks(s))
  BY <1>1, RejectedStep
<1>2. CASE ~Rejected(EnumValueChecks(s))
  <2>1. /\ Accepted(EnumValueChecks(s)) /\ UNCHANGED assoc_vars
        /\ AddEnumValue(ContextEnum, s.name, s.arg)
    BY <1>2 DEF EvalEnumValue
  <2>2. /\ 3 \in DOMAIN EnumValueChecks(s)
        /\ EnumValueChecks(s)[3] = Check(ContextEnum # NoId, "INVALID_CONTEXT")
    BY DEF EnumValueChecks
  <2>3. Check(ContextEnum # NoId, "INVALID_CONTEXT").holds
    BY <2>1, <2>2 DEF Accepted
  <2>4. ContextEnum # NoId
    BY <2>3, Zenon DEF Check
  <2>5. ContextEnum \in KindIds({"enum"})
    BY <2>4, SearchType, EarliestKind DEF ContextEnum, Blocks, Inv, TypeOK
  <2> QED
    BY <2>1, <2>5, StatementType DEF StoreStep, AddsEnumValue
<1> QED
  BY <1>1, <1>2

LEMMA SystemStep ==
  ASSUME Blocks, package_id \in Packages, NEW s \in Statements, EvalSystem(s) \/ EvalAction(s)
  PROVE  StoreStep
<1>1. ASSUME NEW kind \in SystemLikes, NEW parent \in OwnSystems \cup {NoId}, NEW lazy \in Nat,
             FinishSystemLike(s, kind, parent, lazy)
      PROVE  StoreStep
  <2> DEFINE parallel == IF ParallelParam(s) = "INVALID" THEN "AUTO" ELSE ParallelParam(s)
  <2>1. parallel \in Executions
    BY ParamTypes DEF Executions
  <2>2. CreateSystemLike(kind, package_id, s.name, parent, parallel, lazy) /\ UNCHANGED assoc_vars
    BY <1>1 DEF FinishSystemLike
  <2> HIDE DEF parallel
  <2> QED
    BY <2>1, <2>2, StatementType DEF StoreStep, CreatesSystem
<1>2. CASE EvalSystem(s)
  <2>1. CASE Rejected(SystemChecks(s))
    BY <2>1, RejectedStep
  <2>2. CASE ~Rejected(SystemChecks(s))
    <3>1. FinishSystemLike(s, "system", SystemLikeOf(Context(1)), LazyRate(s))
      BY <1>2, <2>2 DEF EvalSystem
    <3>2. SystemLikeOf(Context(1)) \in OwnSystems \cup {NoId}
      BY LookupsSeen, DeclaredType DEF OwnSystems, Blocks, Inv, TypeOK
    <3> QED
      BY <1>1, <3>1, <3>2, ParamTypes DEF SystemLikes
  <2> QED
    BY <2>1, <2>2
<1>3. CASE EvalAction(s)
  <2>1. CASE Rejected(ActionChecks(s))
    BY <2>1, RejectedStep
  <2>2. CASE ~Rejected(ActionChecks(s))
    BY <1>1, <1>3, <2>2 DEF EvalAction, SystemLikes
  <2> QED
    BY <2>1, <2>2
<1> QED
  BY <1>2, <1>3

LEMMA FieldStep ==
  ASSUME Blocks, package_id \in Packages, NEW s \in Statements,
         EvalBuiltinTypeField(s) \/ EvalUserTypeField(s)
  PROVE  StoreStep
<1>0. TypeOK /\ RuntimeTypeOK
  BY DEF Blocks, Inv, TypeOK
<1>1. ASSUME NEW type \in FieldType, KnownType(type), Accepted(FieldChecks(s)), FinishField(s, type)
      PROVE  StoreStep
  <2> DEFINE c == CompositeOf(Context(1))
  <2>1. /\ 3 \in DOMAIN FieldChecks(s) /\ 4 \in DOMAIN FieldChecks(s)
        /\ FieldChecks(s)[3] = Check(c # NoId, "INVALID_CONTEXT")
        /\ FieldChecks(s)[4] = Check(FieldsNamed(c, s.name) = {}, "FIELD_NAME_ALREADY_EXISTS")
    BY DEF FieldChecks
  <2>2. /\ Check(c # NoId, "INVALID_CONTEXT").holds
        /\ Check(FieldsNamed(c, s.name) = {}, "FIELD_NAME_ALREADY_EXISTS").holds
    BY <1>1, <2>1, Zenon DEF Accepted
  <2>3. c # NoId
    BY <2>2, Zenon DEF Check
  <2>4. FieldsNamed(c, s.name) = {}
    BY <2>2, Zenon DEF Check
  <2>5. c \in KindIds(Composites)
    BY <1>0, <2>3, DeclaredType
  <2>6. AddField(c, s.name, type) /\ UNCHANGED assoc_vars
    BY <1>1 DEF FinishField
  <2> HIDE DEF c
  <2>7. AddsField
    BY <1>1, <2>4, <2>5, <2>6, StatementType DEF AddsField
  <2> QED
    BY <2>6, <2>7 DEF StoreStep
<1>2. CASE EvalBuiltinTypeField(s)
  <2>1. CASE Rejected(FieldChecks(s))
    BY <2>1, RejectedStep
  <2>2. CASE ~Rejected(FieldChecks(s))
    <3>1. Accepted(FieldChecks(s)) /\ FinishField(s, BuiltinType(s.arg))
      BY <1>2, <2>2 DEF EvalBuiltinTypeField
    <3>2. BuiltinType(s.arg) \in FieldType /\ KnownType(BuiltinType(s.arg))
      BY StatementType DEF BuiltinType, FieldType, KnownType
    <3> QED
      BY <1>1, <3>1, <3>2
  <2> QED
    BY <2>1, <2>2
<1>3. CASE EvalUserTypeField(s)
  <2>1. CASE Rejected(UserTypeChecks(s))
    BY <2>1, RejectedStep
  <2>2. CASE ~Rejected(UserTypeChecks(s))
    <3>1. Accepted(UserTypeChecks(s)) /\ FinishField(s, UserType(s))
      BY <1>3, <2>2 DEF EvalUserTypeField, UserType
    <3>2. Accepted(FieldChecks(s)) /\ UserType(s) \in FieldType /\ KnownType(UserType(s))
      BY <1>0, <3>1, UserTypePassed, UserTypeKnown
    <3> QED
      BY <1>1, <3>1, <3>2
  <2> QED
    BY <2>1, <2>2
<1> QED
  BY <1>2, <1>3

LEMMA NextStores == Blocks /\ [Next]_vars => StoreStep
<1> SUFFICES ASSUME Blocks, [Next]_vars PROVE StoreStep
  OBVIOUS
<1>1. CASE EvalPackageStatement
  <2>1. PICK s \in PackageStatements : CreatePackage(s.name, s.main)
    BY <1>1 DEF EvalPackageStatement
  <2>2. s.name \in Seq(STRING) \ {<<>>} /\ s.main \in BOOLEAN
    BY StatementsAssumption
  <2>3. CreatesPackage
    BY <2>1, <2>2 DEF CreatesPackage
  <2> QED
    BY <1>1, <2>3 DEF EvalPackageStatement, StoreStep
<1>2. CASE SelectPackage \/ EndBlock \/ UNCHANGED vars
  BY <1>2 DEF SelectPackage, EndBlock, StoreStep, store, vars
<1>3. CASE package_id \in Packages /\ \E s \in Statements : EvalStatement(s)
  <2>1. PICK s \in Statements : EvalStatement(s)
    BY <1>3
  <2>2. CASE EvalEmpty(s) \/ EvalPackageInBlock(s) \/ EvalImport(s)
    BY <1>3, <2>2, ImportStep
  <2>3. CASE EvalComponent(s) \/ EvalTransient(s) \/ EvalEnum(s)
    BY <1>3, <2>3, DeclarationStep
  <2>4. CASE EvalSystem(s) \/ EvalAction(s)
    BY <1>3, <2>4, SystemStep
  <2>5. CASE EvalEnumValue(s)
    BY <1>3, <2>5, EnumValueStep
  <2>6. CASE EvalBuiltinTypeField(s) \/ EvalUserTypeField(s)
    BY <1>3, <2>6, FieldStep
  <2>7. CASE EvalSystemComponent(s)
    BY <1>3, <2>7, ComponentKinds DEF StoreStep, ChangesBody
  <2>8. CASE EvalSystemWith(s)
    BY <1>3, <2>8, WithKinds DEF StoreStep, ChangesContext
  <2>9. CASE EvalSystemGenerates(s) \/ EvalEntityConstraint(s)
    BY <1>3, <2>9, GeneratesKinds DEF StoreStep, ChangesContext
  <2>10. CASE EvalSystemNotify(s) \/ EvalSystemNotifyComponent(s)
    BY <1>3, <2>10, NotifyKinds DEF StoreStep, ChangesContext
  <2> QED
    BY <2>1, <2>2, <2>3, <2>4, <2>5, <2>6, <2>7, <2>8, <2>9, <2>10 DEF EvalStatement
<1> QED
  BY <1>1, <1>2, <1>3 DEF Next

-----------------------------------------------------------------------------
(* What an operation changes in each of the systems there were before.     *)
SameCaps(s)      == system_likes'[s].caps = system_likes[s].caps
SameNotify(s)    == system_likes'[s].notify_settings = system_likes[s].notify_settings
SameGenerates(s) == system_likes'[s].generates = system_likes[s].generates
SameSettings(s)  ==
  /\ system_likes'[s].parent_system_id = system_likes[s].parent_system_id
  /\ system_likes'[s].parallel_execution = system_likes[s].parallel_execution
  /\ system_likes'[s].lazy_iteration_rate = system_likes[s].lazy_iteration_rate
SamePlace(s)     == /\ SameSettings(s)
                    /\ system_likes'[s].nested_systems = system_likes[s].nested_systems
SameOthers(s)    == /\ DOMAIN system_likes' = DOMAIN system_likes
                    /\ \A t \in DOMAIN system_likes \ {s} : system_likes'[t] = system_likes[t]

LEMMA CapabilityEffect ==
  ASSUME RuntimeTypeOK, NEW s \in KindIds(SystemLikes), NEW c, NEW cap,
         SetSystemCapability(s, c, cap)
  PROVE  /\ SameOthers(s) /\ SameNotify(s) /\ SameGenerates(s) /\ SamePlace(s)
         /\ system_likes'[s].caps = Put(system_likes[s].caps, c, cap)
<1>1. PICK q : q = system_likes[s]
  OBVIOUS
<1>2. PICK r : r = [q EXCEPT !.caps = Put(@, c, cap)]
  OBVIOUS
<1>3. s \in DOMAIN system_likes /\ IsSystemLike(q)
  BY <1>1 DEF RuntimeTypeOK
<1>4. system_likes' = [system_likes EXCEPT ![s] = r]
  BY <1>1, <1>2, Zenon DEF SetSystemCapability
<1>5. system_likes'[s] = r /\ SameOthers(s)
  BY <1>3, <1>4 DEF SameOthers
<1>6. /\ r.caps = Put(q.caps, c, cap) /\ r.generates = q.generates
      /\ r.notify_settings = q.notify_settings
      /\ r.parent_system_id = q.parent_system_id /\ r.nested_systems = q.nested_systems
      /\ r.parallel_execution = q.parallel_execution
      /\ r.lazy_iteration_rate = q.lazy_iteration_rate
  BY <1>2, <1>3 DEF IsSystemLike
<1> QED
  BY <1>1, <1>5, <1>6 DEF SameNotify, SameGenerates, SamePlace, SameSettings

LEMMA NotifyEffect ==
  ASSUME RuntimeTypeOK, NEW s \in KindIds(SystemLikes), NEW comps, NEW setting,
         SetNotifySettings(s, comps, setting)
  PROVE  /\ SameOthers(s) /\ SameCaps(s) /\ SameGenerates(s) /\ SamePlace(s)
         /\ DOMAIN system_likes'[s].notify_settings =
              DOMAIN system_likes[s].notify_settings \cup comps
         /\ \A c \in DOMAIN system_likes[s].notify_settings \ comps :
              system_likes'[s].notify_settings[c] = system_likes[s].notify_settings[c]
<1>1. PICK q : q = system_likes[s]
  OBVIOUS
<1> DEFINE new == [c \in DOMAIN q.notify_settings \cup comps |->
                     IF c \in comps THEN setting ELSE q.notify_settings[c]]
<1>2. PICK r : r = [q EXCEPT !.notify_settings = new]
  OBVIOUS
<1>3. s \in DOMAIN system_likes /\ IsSystemLike(q)
  BY <1>1 DEF RuntimeTypeOK
<1>4. system_likes' = [system_likes EXCEPT ![s] = r]
  BY <1>1, <1>2 DEF SetNotifySettings
<1>5. system_likes'[s] = r /\ SameOthers(s)
  BY <1>3, <1>4 DEF SameOthers
<1>6. /\ DOMAIN new = DOMAIN q.notify_settings \cup comps
      /\ \A c \in DOMAIN q.notify_settings \ comps : new[c] = q.notify_settings[c]
  OBVIOUS
<1> HIDE DEF new
<1>7. /\ r.caps = q.caps /\ r.generates = q.generates /\ r.notify_settings = new
      /\ r.parent_system_id = q.parent_system_id /\ r.nested_systems = q.nested_systems
      /\ r.parallel_execution = q.parallel_execution
      /\ r.lazy_iteration_rate = q.lazy_iteration_rate
  BY <1>2, <1>3 DEF IsSystemLike
<1> QED
  BY <1>1, <1>5, <1>6, <1>7 DEF SameCaps, SameGenerates, SamePlace, SameSettings

LEMMA GeneratesEffect ==
  ASSUME RuntimeTypeOK, NEW s \in KindIds(SystemLikes), AddSystemGenerates(s)
  PROVE  /\ SameOthers(s) /\ SameCaps(s) /\ SameNotify(s) /\ SamePlace(s)
         /\ system_likes'[s].generates = Put(system_likes[s].generates, last_id, EmptyMap)
         /\ last_id \notin DOMAIN system_likes[s].generates
<1>1. PICK q : q = system_likes[s]
  OBVIOUS
<1>2. PICK r : r = [q EXCEPT !.generates = Put(@, last_id, EmptyMap)]
  OBVIOUS
<1>3. s \in DOMAIN system_likes /\ IsSystemLike(q)
  BY <1>1 DEF RuntimeTypeOK
<1>4. system_likes' = [system_likes EXCEPT ![s] = r]
  BY <1>1, <1>2, Zenon DEF AddSystemGenerates
<1>5. system_likes'[s] = r /\ SameOthers(s)
  BY <1>3, <1>4 DEF SameOthers
<1>6. /\ r.generates = Put(q.generates, last_id, EmptyMap) /\ r.caps = q.caps
      /\ r.notify_settings = q.notify_settings
      /\ r.parent_system_id = q.parent_system_id /\ r.nested_systems = q.nested_systems
      /\ r.parallel_execution = q.parallel_execution
      /\ r.lazy_iteration_rate = q.lazy_iteration_rate
  BY <1>2, <1>3 DEF IsSystemLike
<1>7. last_id \notin DOMAIN q.generates
  BY <1>3, MaxIdAssumption DEF IsSystemLike, Issued, RuntimeTypeOK
<1> QED
  BY <1>1, <1>5, <1>6, <1>7 DEF SameCaps, SameNotify, SamePlace, SameSettings

LEMMA ConstraintEffect ==
  ASSUME RuntimeTypeOK, NEW s \in KindIds(SystemLikes),
         NEW gen \in DOMAIN system_likes[s].generates, NEW c, NEW flag,
         SystemGeneratesSetComponent(s, gen, c, flag)
  PROVE  /\ SameOthers(s) /\ SameCaps(s) /\ SameNotify(s) /\ SamePlace(s)
         /\ DOMAIN system_likes'[s].generates = DOMAIN system_likes[s].generates
         /\ \A g \in DOMAIN system_likes[s].generates \ {gen} :
              system_likes'[s].generates[g] = system_likes[s].generates[g]
         /\ system_likes'[s].generates[gen] = Put(system_likes[s].generates[gen], c, flag)
<1>1. PICK q : q = system_likes[s]
  OBVIOUS
<1>2. PICK r : r = [q EXCEPT !.generates[gen] = Put(@, c, flag)]
  OBVIOUS
<1>3. s \in DOMAIN system_likes /\ IsSystemLike(q) /\ gen \in DOMAIN q.generates
  BY <1>1 DEF RuntimeTypeOK
<1>4. system_likes' = [system_likes EXCEPT ![s] = r]
  BY <1>1, <1>2 DEF SystemGeneratesSetComponent
<1>5. system_likes'[s] = r /\ SameOthers(s)
  BY <1>3, <1>4 DEF SameOthers
<1>6. /\ r.caps = q.caps
      /\ r.notify_settings = q.notify_settings
      /\ r.parent_system_id = q.parent_system_id /\ r.nested_systems = q.nested_systems
      /\ r.parallel_execution = q.parallel_execution
      /\ r.lazy_iteration_rate = q.lazy_iteration_rate
  BY <1>2, <1>3 DEF IsSystemLike
<1>7. /\ DOMAIN r.generates = DOMAIN q.generates
      /\ \A g \in DOMAIN q.generates \ {gen} : r.generates[g] = q.generates[g]
      /\ r.generates[gen] = Put(q.generates[gen], c, flag)
  BY <1>2, <1>3 DEF IsSystemLike
<1> QED
  BY <1>1, <1>5, <1>6, <1>7 DEF SameCaps, SameNotify, SamePlace, SameSettings

(* A new system or action that is a record new, in one list of its package *)
(* or its parent.                                                          *)
Created(owner, parent, new) ==
  /\ last_id \notin DOMAIN system_likes
  /\ DOMAIN system_likes' = DOMAIN system_likes \cup {last_id}
  /\ system_likes'[last_id] = new
  /\ \A t \in DOMAIN system_likes :
       /\ SameCaps(t) /\ SameNotify(t) /\ SameGenerates(t) /\ SameSettings(t)
       /\ system_likes'[t].nested_systems =
            IF t = parent THEN Append(system_likes[t].nested_systems, last_id)
            ELSE system_likes[t].nested_systems
  /\ Packages' = Packages
  /\ \A p \in Packages :
       /\ package_defs'[p].name = package_defs[p].name
       /\ package_defs'[p].dependencies = package_defs[p].dependencies
       /\ package_defs'[p].top_level_systems =
            IF parent = NoId /\ p = owner
            THEN Append(package_defs[p].top_level_systems, last_id)
            ELSE package_defs[p].top_level_systems

LEMMA CreationEffect ==
  ASSUME RuntimeTypeOK, NEW kind, NEW owner \in Packages, NEW name,
         NEW parent \in KindIds(SystemLikes) \cup {NoId}, NEW parallel, NEW lazy,
         CreateSystemLike(kind, owner, name, parent, parallel, lazy)
  PROVE  Created(owner, parent, NewSystemLike(parent, parallel, lazy))
<1>1. last_id \notin DOMAIN system_likes /\ NoId \notin DOMAIN system_likes
  <2>1. DOMAIN system_likes \subseteq Issued /\ last_id \in Nat
    BY KindIdsNat, MaxIdAssumption DEF RuntimeTypeOK
  <2> QED
    BY <2>1 DEF Issued, NoId
<1>2. PICK new : new = NewSystemLike(parent, parallel, lazy)
  OBVIOUS
<1>3. CASE parent = NoId
  <2>1. /\ package_defs' = [package_defs EXCEPT ![owner].top_level_systems = Append(@, last_id)]
        /\ system_likes' = Put(system_likes, last_id, new)
    BY <1>2, <1>3 DEF CreateSystemLike
  <2>2. PICK q : q = package_defs[owner]
    OBVIOUS
  <2>3. PICK r : r = [q EXCEPT !.top_level_systems = Append(@, last_id)]
    OBVIOUS
  <2>4. package_defs' = [package_defs EXCEPT ![owner] = r]
    BY <2>1, <2>2, <2>3, Zenon
  <2>5. q \in PackageDef
    BY <2>2 DEF RuntimeTypeOK
  <2>6. /\ r.top_level_systems = Append(q.top_level_systems, last_id)
        /\ r.name = q.name /\ r.dependencies = q.dependencies
    BY <2>3, <2>5 DEF PackageDef
  <2>7. Packages' = Packages /\ package_defs'[owner] = r
        /\ \A p \in Packages \ {owner} : package_defs'[p] = package_defs[p]
    BY <2>4 DEF Packages
  <2>8. /\ DOMAIN system_likes' = DOMAIN system_likes \cup {last_id}
        /\ system_likes'[last_id] = new
        /\ \A t \in DOMAIN system_likes \ {last_id} : system_likes'[t] = system_likes[t]
    BY <2>1 DEF Put
  <2> QED
    BY <1>1, <1>2, <1>3, <2>2, <2>6, <2>7, <2>8
    DEF Created, SameCaps, SameNotify, SameGenerates, SameSettings
<1>4. CASE parent # NoId
  <2>1. PICK q : q = system_likes[parent]
    OBVIOUS
  <2>2. PICK r : r = [q EXCEPT !.nested_systems = Append(@, last_id)]
    OBVIOUS
  <2>3. PICK mid : mid = [system_likes EXCEPT ![parent] = r]
    OBVIOUS
  <2>4. mid = [system_likes EXCEPT ![parent].nested_systems = Append(@, last_id)]
    BY <2>1, <2>2, <2>3, Zenon
  <2>5. system_likes' = Put(mid, last_id, new) /\ UNCHANGED package_defs
    BY <1>2, <1>4, <2>4, Zenon DEF CreateSystemLike
  <2>6. parent \in DOMAIN system_likes /\ IsSystemLike(q)
    BY <1>4, <2>1 DEF RuntimeTypeOK
  <2>7. /\ r.nested_systems = Append(q.nested_systems, last_id)
        /\ r.caps = q.caps /\ r.notify_settings = q.notify_settings
        /\ r.generates = q.generates /\ r.parent_system_id = q.parent_system_id
        /\ r.parallel_execution = q.parallel_execution
        /\ r.lazy_iteration_rate = q.lazy_iteration_rate
    BY <2>2, <2>6 DEF IsSystemLike
  <2>8. /\ DOMAIN mid = DOMAIN system_likes /\ mid[parent] = r
        /\ \A t \in DOMAIN system_likes \ {parent} : mid[t] = system_likes[t]
    BY <2>3, <2>6
  <2>9. /\ DOMAIN system_likes' = DOMAIN system_likes \cup {last_id}
        /\ system_likes'[last_id] = new
        /\ \A t \in DOMAIN system_likes \ {last_id} : system_likes'[t] = mid[t]
    BY <2>5, <2>8 DEF Put
  <2>10. Packages' = Packages /\ package_defs' = package_defs
    BY <2>5 DEF Packages
  <2>11. ASSUME NEW t \in DOMAIN system_likes
         PROVE  /\ SameCaps(t) /\ SameNotify(t) /\ SameGenerates(t) /\ SameSettings(t)
                /\ system_likes'[t].nested_systems =
                     IF t = parent THEN Append(system_likes[t].nested_systems, last_id)
                     ELSE system_likes[t].nested_systems
    <3>1. system_likes'[t] = mid[t]
      BY <1>1, <2>9
    <3>2. CASE t = parent
      BY <2>1, <2>7, <2>8, <3>1, <3>2
      DEF SameCaps, SameNotify, SameGenerates, SameSettings
    <3>3. CASE t # parent
      <4>1. system_likes'[t] = system_likes[t]
        BY <2>8, <3>1, <3>3
      <4> QED
        BY <3>3, <4>1 DEF SameCaps, SameNotify, SameGenerates, SameSettings
    <3> QED
      BY <3>2, <3>3
  <2> QED
    BY <1>1, <1>2, <1>4, <2>9, <2>10, <2>11 DEF Created
<1> QED
  BY <1>3, <1>4

LEMMA AddedCapabilityEffect ==
  ASSUME RuntimeTypeOK, NEW sys \in OwnSystems, AddsCapability(sys)
  PROVE  /\ SameOthers(sys) /\ SameNotify(sys) /\ SameGenerates(sys) /\ SamePlace(sys)
         /\ \/ SameCaps(sys)
            \/ \E c \in SeenIds : \E cap :
                 /\ c \notin DOMAIN system_likes[sys].caps
                 /\ system_likes'[sys].caps = Put(system_likes[sys].caps, c, cap)
<1>1. PICK info : SetsCapability(sys, info)
  BY DEF AddsCapability
<1>2. CASE UNCHANGED runtime_vars
  BY <1>2 DEF runtime_vars, SameOthers, SameNotify, SameGenerates, SamePlace,
                   SameSettings, SameCaps
<1>3. ASSUME NEW c \in SeenIds, NEW cap, c \notin DOMAIN system_likes[sys].caps,
             SetSystemCapability(sys, c, cap)
      PROVE  /\ SameOthers(sys) /\ SameNotify(sys) /\ SameGenerates(sys) /\ SamePlace(sys)
             /\ \E d \in SeenIds : \E val :
                 /\ d \notin DOMAIN system_likes[sys].caps
                 /\ system_likes'[sys].caps = Put(system_likes[sys].caps, d, val)
  <2>1. sys \in KindIds(SystemLikes)
    BY DEF OwnSystems
  <2>2. /\ SameOthers(sys) /\ SameNotify(sys) /\ SameGenerates(sys) /\ SamePlace(sys)
        /\ system_likes'[sys].caps = Put(system_likes[sys].caps, c, cap)
    BY <1>3, <2>1, CapabilityEffect
  <2> QED
    BY <1>3, <2>2
<1> QED
  BY <1>1, <1>2, <1>3 DEF SetsCapability

LEMMA SystemsOnlyInBodies ==
  ASSUME \/ CreatesPackage \/ Imports \/ DeclaresComponent \/ DeclaresEnum
         \/ AddsEnumValue \/ AddsField
  PROVE  UNCHANGED system_likes
BY DEF CreatesPackage, Imports, DeclaresComponent, DeclaresEnum, AddsEnumValue, AddsField,
       CreatePackage, AddDependency, CreateComponentLike, CreateEnum, AddEnumValue, AddField

(* Notify settings change only where no capability block is open.          *)
LEMMA NotifyStays ==
  ASSUME RuntimeTypeOK, StoreStep, ~NoCapabilityBlock
  PROVE  \A s \in DOMAIN system_likes : SameNotify(s)
<1>1. CASE UNCHANGED system_likes
  BY <1>1 DEF SameNotify
<1>2. CASE package_id \in Packages /\ CreatesSystem
  <2>1. PICK kind \in SystemLikes, name \in STRING, parent \in OwnSystems \cup {NoId},
             parallel \in Executions, lazy \in Nat :
               CreateSystemLike(kind, package_id, name, parent, parallel, lazy)
    BY <1>2 DEF CreatesSystem
  <2>2. parent \in KindIds(SystemLikes) \cup {NoId}
    BY DEF OwnSystems
  <2> QED
    BY <1>2, <2>1, <2>2, CreationEffect DEF Created
<1>3. ASSUME NEW sys \in OwnSystems, ChangesBody(sys)
      PROVE  \A s \in DOMAIN system_likes : SameNotify(s)
  <2>1. sys \in KindIds(SystemLikes)
    BY DEF OwnSystems
  <2>2. SameOthers(sys) /\ SameNotify(sys)
    <3>1. CASE AddsGenerates(sys)
      BY <2>1, <3>1, GeneratesEffect DEF AddsGenerates
    <3>2. CASE AddsCapability(sys)
      BY <3>2, AddedCapabilityEffect
    <3>3. ASSUME NEW gen, NEW comp, NEW flag, Constrains(sys, gen, comp, flag)
          PROVE  SameOthers(sys) /\ SameNotify(sys)
      BY <2>1, <3>3, ConstraintEffect DEF Constrains
    <3> QED
      BY <1>3, <3>1, <3>2, <3>3 DEF ChangesBody, SetsNotify
  <2> QED
    BY <2>2 DEF SameOthers, SameNotify
<1> QED
  BY <1>1, <1>2, <1>3, SystemsOnlyInBodies DEF StoreStep, store, runtime_vars

(* What an opened block may be, given the blocks around it.                *)
LEMMA BlockOpened ==
  ASSUME Blocks, package_id \in Packages, NEW s \in Statements, EvalStatement(s)
  PROVE  \/ UNCHANGED context_stack
         \/ \E f :
              /\ context_stack' = Append(context_stack, f) /\ f.pkg = package_id
              /\ f.s.op \in SystemOps => context_stack = <<>> \/ Context(1).op \in SystemOps
              /\ f.s.op = "SYSTEM_COMPONENT" =>
                   /\ ContextSystem # NoId /\ ~NotifyStarted
                   /\ \A t \in DOMAIN system_likes : SameNotify(t)
<1>0. Inv /\ FramesResolve /\ TypeOK /\ RuntimeTypeOK
  BY DEF Blocks, Inv, TypeOK
<1>1. \/ UNCHANGED context_stack
      \/ \E ref, assoc : context_stack' =
           Append(context_stack, [s |-> s, ref |-> ref, assoc |-> assoc, pkg |-> package_id])
  BY DEF EvalStatement, EvalEmpty, EvalPackageInBlock, EvalImport, EvalComponent, EvalTransient,
         EvalSystem, EvalAction, EvalEnum, EvalEnumValue, EvalBuiltinTypeField,
         EvalUserTypeField, EvalSystemComponent, EvalSystemWith, EvalSystemGenerates,
         EvalEntityConstraint, EvalSystemNotify, EvalSystemNotifyComponent, FinishField,
         FinishSystemLike, Finish, Rejected, client_vars
<1>2. ASSUME context_stack' # context_stack
      PROVE  /\ s.op \in SystemOps => context_stack = <<>> \/ Context(1).op \in SystemOps
             /\ s.op = "SYSTEM_COMPONENT" =>
                  /\ ContextSystem # NoId /\ ~NotifyStarted
                  /\ \A t \in DOMAIN system_likes : SameNotify(t)
  <2>1. \A checks : ~Rejected(checks)
    BY <1>2 DEF Rejected, client_vars
  <2>2. CASE s.op = "SYSTEM"
    <3>1. Accepted(SystemChecks(s))
      BY <2>1, <2>2 DEF EvalStatement, EvalEmpty, EvalPackageInBlock, EvalImport,
         EvalComponent, EvalTransient, EvalSystem, EvalAction, EvalEnum, EvalEnumValue,
         EvalBuiltinTypeField, EvalUserTypeField, EvalSystemComponent, EvalSystemWith,
         EvalSystemGenerates, EvalEntityConstraint, EvalSystemNotify, EvalSystemNotifyComponent
    <3>2. /\ 1 \in DOMAIN SystemChecks(s)
          /\ SystemChecks(s)[1] = InContext({"NONE", "SYSTEM", "ACTION"})
      BY DEF SystemChecks
    <3>3. InContext({"NONE", "SYSTEM", "ACTION"}).holds
      BY <3>1, <3>2 DEF Accepted
    <3>4. Context(1).op \in {"NONE", "SYSTEM", "ACTION"}
      BY <3>3 DEF InContext, Check
    <3> QED
      BY <1>0, <2>2, <3>4, TopLevel DEF SystemOps
  <2>3. CASE s.op = "ACTION"
    <3>1. Accepted(ActionChecks(s))
      BY <2>1, <2>3 DEF EvalStatement, EvalEmpty, EvalPackageInBlock, EvalImport,
         EvalComponent, EvalTransient, EvalSystem, EvalAction, EvalEnum, EvalEnumValue,
         EvalBuiltinTypeField, EvalUserTypeField, EvalSystemComponent, EvalSystemWith,
         EvalSystemGenerates, EvalEntityConstraint, EvalSystemNotify, EvalSystemNotifyComponent
    <3> QED
      BY <1>0, <2>3, <3>1, TopLevelChecked
  <2>4. CASE s.op = "SYSTEM_COMPONENT"
    <3>1. EvalSystemComponent(s)
      BY <2>4 DEF EvalStatement, EvalEmpty, EvalPackageInBlock, EvalImport,
         EvalComponent, EvalTransient, EvalSystem, EvalAction, EvalEnum, EvalEnumValue,
         EvalBuiltinTypeField, EvalUserTypeField, EvalSystemWith,
         EvalSystemGenerates, EvalEntityConstraint, EvalSystemNotify, EvalSystemNotifyComponent
    <3>2. Accepted(SystemComponentChecks(s))
      BY <2>1, <3>1 DEF EvalSystemComponent
    <3>3. ContextSystem # NoId /\ ~NotifyStarted
      BY <1>0, <3>2, SystemComponentPassed
    <3>4. ASSUME NEW sys \in OwnSystems, AddsCapability(sys)
          PROVE  \A t \in DOMAIN system_likes : SameNotify(t)
      BY <1>0, <3>4, AddedCapabilityEffect DEF SameOthers, SameNotify
    <3>5. \A t \in DOMAIN system_likes : SameNotify(t)
      BY <3>1, <3>4, ComponentKinds DEF store, runtime_vars, SameNotify
    <3> QED
      BY <2>4, <3>3, <3>5 DEF SystemOps
  <2> QED
    BY <2>2, <2>3, <2>4 DEF SystemOps
<1>3. CASE context_stack' # context_stack
  <2>1. PICK ref, assoc : context_stack' =
          Append(context_stack, [s |-> s, ref |-> ref, assoc |-> assoc, pkg |-> package_id])
    BY <1>1, <1>3
  <2>2. PICK f : f = [s |-> s, ref |-> ref, assoc |-> assoc, pkg |-> package_id]
    OBVIOUS
  <2>3. f.s.op = s.op /\ f.pkg = package_id /\ context_stack' = Append(context_stack, f)
    BY <2>1, <2>2
  <2> QED
    BY <1>2, <1>3, <2>3, Zenon
<1> QED
  BY <1>3

LEMMA BlocksInit == Init => Blocks
<1> SUFFICES ASSUME Init PROVE Blocks
  OBVIOUS
<1>1. Inv
  BY InitInv
<1>2. DOMAIN context_stack = {}
  BY DEF Init
<1> QED
  BY <1>1, <1>2 DEF Blocks, FramesResolve, SystemsOutside, NotifyWaits

(* The open blocks that stay open still wait for the notify settings.      *)
LEMMA WaitingStays ==
  ASSUME Blocks, [Next]_vars,
         NEW i \in DOMAIN context_stack, NEW j \in DOMAIN context_stack, i = j + 1,
         context_stack[i].pkg = context_stack[j].pkg,
         context_stack[i].s.op = "SYSTEM_COMPONENT", context_stack[j].s.op \in SystemOps
  PROVE  DOMAIN system_likes'[context_stack[j].ref].notify_settings = {}
<1>1. PICK t : t = context_stack[j].ref
  OBVIOUS
<1>2. PICK f : f = context_stack[j]
  OBVIOUS
<1>3. FrameResolves(f)
  BY <1>2 DEF Blocks, FramesResolve
<1>4. f.ref \in KindIds(SystemLikes)
  BY <1>2, <1>3 DEF FrameResolves, DeclOps, SystemOps, KindOf, KindIds, SystemLikes
<1>5. t \in DOMAIN system_likes
  BY <1>1, <1>2, <1>4 DEF Blocks, Inv, TypeOK, RuntimeTypeOK
<1>6. DOMAIN system_likes[t].notify_settings = {}
  BY <1>1 DEF Blocks, NotifyWaits
<1>7. context_stack # <<>> /\ ~NoCapabilityBlock
  BY DEF NoCapabilityBlock
<1>8. package_id \in Packages /\ RuntimeTypeOK
  BY <1>7 DEF Blocks, Inv, TypeOK, ClientTypeOK
<1>9. SameNotify(t)
  BY <1>5, <1>7, <1>8, NotifyStays, NextStores
<1> QED
  BY <1>1, <1>6, <1>9 DEF SameNotify

LEMMA OpenBlocks ==
  ASSUME Blocks, [Next]_vars
  PROVE  SystemsOutside' /\ NotifyWaits'
<1>0. PICK n \in Nat : n = Len(context_stack) /\ DOMAIN context_stack = 1 .. n
  BY StackLength DEF Blocks
<1>1. ASSUME NEW stack, context_stack' = stack,
             \A i \in DOMAIN stack : i \in DOMAIN context_stack /\ stack[i] = context_stack[i]
      PROVE  SystemsOutside' /\ NotifyWaits'
  <2>1. SystemsOutside'
    BY <1>1 DEF Blocks, SystemsOutside
  <2>2. ASSUME NEW i \in DOMAIN stack, NEW j \in DOMAIN stack, i = j + 1,
               stack[i].pkg = stack[j].pkg,
               stack[i].s.op = "SYSTEM_COMPONENT", stack[j].s.op \in SystemOps
        PROVE  DOMAIN system_likes'[stack[j].ref].notify_settings = {}
    BY <1>1, <2>2, WaitingStays
  <2> QED
    BY <1>1, <2>1, <2>2 DEF NotifyWaits
<1>2. ASSUME NEW f, context_stack' = Append(context_stack, f), f.pkg = package_id,
             f.s.op \in SystemOps => context_stack = <<>> \/ Context(1).op \in SystemOps,
             f.s.op = "SYSTEM_COMPONENT" =>
               /\ ContextSystem # NoId /\ ~NotifyStarted
               /\ \A t \in DOMAIN system_likes : SameNotify(t)
      PROVE  SystemsOutside' /\ NotifyWaits'
  <2>1. PICK stack : stack = Append(context_stack, f)
    OBVIOUS
  <2>2. /\ DOMAIN stack = 1 .. n + 1 /\ stack[n + 1] = f
        /\ \A i \in 1 .. n : stack[i] = context_stack[i]
    <3>1. context_stack \in Seq(FrameType \cup {f})
      BY StackLength, SeqMono DEF Blocks
    <3> QED
      BY <1>0, <2>1, <3>1
  <2>3. Context(1).op \in SystemOps =>
          n \in DOMAIN context_stack /\ context_stack[n].s.op \in SystemOps
    BY <1>0 DEF Context, NoStatement, SystemOps
  <2>4. ASSUME NEW i \in DOMAIN stack, NEW j \in DOMAIN stack, i < j,
               stack[j].s.op \in SystemOps
        PROVE  stack[i].s.op \in SystemOps
    <3>1. i \in 1 .. n /\ stack[i] = context_stack[i]
      BY <1>0, <2>2, <2>4
    <3>2. CASE j \in 1 .. n
      BY <1>0, <2>2, <2>4, <3>1, <3>2 DEF Blocks, SystemsOutside
    <3>3. CASE j = n + 1
      <4>1. n \in DOMAIN context_stack /\ context_stack[n].s.op \in SystemOps
        BY <1>0, <1>2, <2>2, <2>3, <2>4, <3>1, <3>3
      <4>2. i < n \/ i = n
        BY <1>0, <3>1
      <4> QED
        BY <1>0, <3>1, <4>1, <4>2 DEF Blocks, SystemsOutside
    <3> QED
      BY <1>0, <2>2, <3>2, <3>3
  <2>5. ASSUME NEW i \in DOMAIN stack, NEW j \in DOMAIN stack, i = j + 1,
               stack[i].pkg = stack[j].pkg,
               stack[i].s.op = "SYSTEM_COMPONENT", stack[j].s.op \in SystemOps
        PROVE  DOMAIN system_likes'[stack[j].ref].notify_settings = {}
    <3>1. j \in 1 .. n /\ stack[j] = context_stack[j]
      BY <1>0, <2>2, <2>5
    <3>2. CASE i \in 1 .. n
      <4>1. i \in DOMAIN context_stack /\ j \in DOMAIN context_stack
        BY <1>0, <3>1, <3>2
      <4>2. stack[i] = context_stack[i]
        BY <2>2, <3>2
      <4>3. /\ context_stack[i].pkg = context_stack[j].pkg
            /\ context_stack[i].s.op = "SYSTEM_COMPONENT"
            /\ context_stack[j].s.op \in SystemOps
        BY <2>5, <3>1, <4>2
      <4>4. DOMAIN system_likes'[context_stack[j].ref].notify_settings = {}
        BY <2>5, <4>1, <4>3, WaitingStays
      <4> QED
        BY <3>1, <4>4
    <3>3. CASE i = n + 1
      <4>1. j = n
        BY <1>0, <2>5, <3>1, <3>3
      <4>2. ContextSystem # NoId /\ ~NotifyStarted /\ \A t \in DOMAIN system_likes : SameNotify(t)
        BY <1>2, <2>2, <2>5, <3>3
      <4>3. n \in DOMAIN context_stack
        BY <1>0, <3>1, <4>1
      <4>4. Context(1).op \in SystemOps
        BY <1>0, <2>5, <3>1, <4>1, <4>3 DEF Context
      <4>5. Inv /\ FramesResolve
        BY DEF Blocks
      <4>6. context_stack[n].ref = ContextSystem /\ ContextSystem \in KindIds(SystemLikes)
        <5>1. context_stack[n].pkg = package_id
          BY <1>2, <2>2, <2>5, <3>1, <3>3, <4>1
        <5> QED
          BY <1>0, <4>2, <4>4, <4>5, <5>1, ContextSystemPlace
      <4>7. PICK t : t = ContextSystem
        OBVIOUS
      <4>8. SystemRecord(t) = system_likes[t] /\ t \in DOMAIN system_likes
        BY <4>5, <4>6, <4>7, SystemRecordType DEF Inv, TypeOK, RuntimeTypeOK
      <4>9. DOMAIN system_likes[t].notify_settings = {}
        BY <4>2, <4>7, <4>8, Zenon DEF NotifyStarted
      <4> QED
        BY <3>1, <4>1, <4>2, <4>6, <4>7, <4>8, <4>9 DEF SameNotify
    <3> QED
      BY <1>0, <2>2, <3>2, <3>3
  <2> QED
    BY <1>2, <2>1, <2>4, <2>5 DEF SystemsOutside, NotifyWaits
<1>3. CASE EvalPackageStatement \/ SelectPackage
  BY <1>1, <1>3 DEF EvalPackageStatement, SelectPackage
<1>4. CASE EndBlock
  <2>1. PICK stack : stack = Front(context_stack)
    OBVIOUS
  <2>2. \A i \in DOMAIN stack : i \in DOMAIN context_stack /\ stack[i] = context_stack[i]
    BY <1>0, <1>4, <2>1, StackLength DEF Front, EndBlock, Blocks
  <2> QED
    BY <1>1, <1>4, <2>1, <2>2 DEF EndBlock
<1>5. CASE UNCHANGED vars
  BY <1>1, <1>5 DEF vars, client_vars
<1>6. ASSUME package_id \in Packages, NEW s \in Statements, EvalStatement(s)
      PROVE  SystemsOutside' /\ NotifyWaits'
  BY <1>1, <1>2, <1>6, BlockOpened
<1> QED
  BY <1>3, <1>4, <1>5, <1>6 DEF Next

LEMMA BlocksNext == Blocks /\ [Next]_vars => Blocks'
BY NextInv, NextResolves, OpenBlocks DEF Blocks

-----------------------------------------------------------------------------
(* What a step does to the systems there are.                              *)
LEMMA SystemsStep ==
  ASSUME Blocks, [Next]_vars
  PROVE  \/ UNCHANGED <<system_likes, assoc_vars>>
         \/ package_id \in Packages /\ CreatesSystem
         \/ package_id \in Packages /\ \E sys \in OwnSystems : ChangesBody(sys)
<1>1. StoreStep
  BY NextStores
<1> QED
  BY <1>1, SystemsOnlyInBodies DEF StoreStep, store, runtime_vars

LEMMA CreatedSystem ==
  ASSUME RuntimeTypeOK, package_id \in Packages, CreatesSystem
  PROVE  /\ UNCHANGED assoc_vars
         /\ \E kind \in SystemLikes, name \in STRING,
                parent \in OwnSystems \cup {NoId}, new \in {system_likes'[last_id]} :
              /\ NewDef(kind, package_id, name, "NONE")
              /\ full_names' = Put(full_names, last_id,
                                  SystemFullName(kind, package_id, name, parent))
              /\ fields' = IF kind = "action" THEN Put(fields, last_id, <<>>) ELSE fields
              /\ UNCHANGED enum_values
              /\ Created(package_id, parent, new)
              /\ new.parent_system_id = parent /\ new.nested_systems = <<>>
              /\ DOMAIN new.caps = {} /\ DOMAIN new.notify_settings = {}
              /\ DOMAIN new.generates = {}
<1>1. PICK kind \in SystemLikes, name \in STRING, parent \in OwnSystems \cup {NoId},
           parallel \in Executions, lazy \in Nat :
             /\ CreateSystemLike(kind, package_id, name, parent, parallel, lazy)
             /\ UNCHANGED assoc_vars
  BY DEF CreatesSystem
<1>2. parent \in KindIds(SystemLikes) \cup {NoId}
  BY DEF OwnSystems
<1>3. PICK new : new = NewSystemLike(parent, parallel, lazy)
  OBVIOUS
<1>4. /\ new.parent_system_id = parent /\ new.nested_systems = <<>>
      /\ DOMAIN new.caps = {} /\ DOMAIN new.notify_settings = {} /\ DOMAIN new.generates = {}
  BY <1>3 DEF NewSystemLike, EmptyMap
<1>5. Created(package_id, parent, new)
  BY <1>1, <1>2, <1>3, CreationEffect
<1>6. /\ NewDef(kind, package_id, name, "NONE")
      /\ full_names' = Put(full_names, last_id, SystemFullName(kind, package_id, name, parent))
      /\ fields' = IF kind = "action" THEN Put(fields, last_id, <<>>) ELSE fields
      /\ UNCHANGED enum_values
  BY <1>1 DEF CreateSystemLike
<1>7. new = system_likes'[last_id]
  BY <1>5 DEF Created
<1> QED
  BY <1>1, <1>4, <1>5, <1>6, <1>7

-----------------------------------------------------------------------------
(* A system with a notify setting takes no further capability.             *)
LEMMA OtherAssocsStay ==
  ASSUME NEW sys \in OwnSystems, ChangesBody(sys), NEW s, s # sys
  PROVE  AssocList(system_assoc_info', s) = AssocList(system_assoc_info, s)
<1>1. CASE UNCHANGED assoc_vars
  BY <1>1 DEF assoc_vars
<1>2. CASE AddsCapability(sys)
  <2>1. PICK info : Associates(sys, info) /\ SetsCapability(sys, info)
    BY <1>2 DEF AddsCapability
  <2>2. \A f, v : AssocList(Put(f, sys, v), s) = AssocList(f, s)
    BY DEF AssocList, Put
  <2>3. AssocList(info, s) = AssocList(system_assoc_info, s)
    BY <2>1, <2>2, Zenon DEF Associates, AddedAssoc, AddSystemAssoc
  <2>4. \A a, comp, cap :
          AssocList(SetSystemAssocCapability(info, sys, a, comp, cap), s) = AssocList(info, s)
    BY DEF SetSystemAssocCapability, AssocList
  <2> QED
    BY <2>1, <2>3, <2>4, Zenon DEF SetsCapability
<1> QED
  BY <1>1, <1>2 DEF ChangesBody, SetsNotify, AddsGenerates, Constrains

LEMMA FreezeStep ==
  ASSUME Blocks, [Next]_vars, BlocksHere, NEW s \in DOMAIN system_likes,
         DOMAIN system_likes[s].notify_settings # {}
  PROVE  /\ system_likes'[s].caps = system_likes[s].caps
         /\ AssocList(system_assoc_info', s) = AssocList(system_assoc_info, s)
<1>0. RuntimeTypeOK
  BY DEF Blocks, Inv, TypeOK
<1>1. CASE UNCHANGED <<system_likes, assoc_vars>>
  BY <1>1 DEF assoc_vars
<1>2. CASE package_id \in Packages /\ CreatesSystem
  BY <1>0, <1>2, CreatedSystem DEF Created, SameCaps, assoc_vars
<1>3. ASSUME NEW sys \in OwnSystems, ChangesBody(sys)
      PROVE  /\ SameCaps(s)
             /\ AssocList(system_assoc_info', s) = AssocList(system_assoc_info, s)
  <2>1. sys \in KindIds(SystemLikes)
    BY DEF OwnSystems
  <2>2. CASE AddsCapability(sys)
    <3>1. s # sys
      BY <2>2 DEF AddsCapability
    <3> QED
      BY <1>0, <1>3, <2>2, <3>1, AddedCapabilityEffect, OtherAssocsStay DEF SameOthers, SameCaps
  <2>3. CASE UNCHANGED assoc_vars /\ SameOthers(sys) /\ SameCaps(sys)
    BY <2>3 DEF assoc_vars, SameOthers, SameCaps
  <2>4. CASE AddsGenerates(sys)
    BY <1>0, <2>1, <2>3, <2>4, GeneratesEffect DEF AddsGenerates
  <2>5. ASSUME NEW gen, NEW comp, NEW flag, Constrains(sys, gen, comp, flag)
        PROVE  UNCHANGED assoc_vars /\ SameOthers(sys) /\ SameCaps(sys)
    BY <1>0, <2>1, <2>5, ConstraintEffect DEF Constrains
  <2>6. ASSUME NEW comps, NEW setting, SetsNotify(sys, comps, setting)
        PROVE  UNCHANGED assoc_vars /\ SameOthers(sys) /\ SameCaps(sys)
    BY <1>0, <2>1, <2>6, NotifyEffect DEF SetsNotify
  <2> QED
    BY <1>3, <2>2, <2>3, <2>4, <2>5, <2>6 DEF ChangesBody
<1> QED
  BY <1>1, <1>2, <1>3, SystemsStep DEF SameCaps

(* The notify settings of a system come after its capabilities: once it has *)
(* one, eval_system_component_statement refuses every capability, and no    *)
(* with block is open in which an association could still be added, unless  *)
(* the package was changed inside a block.                                  *)
THEOREM NotifyComesLast == Spec => NotifyFreezesCaps
<1>1. Blocks /\ [Next]_vars =>
        [\A s \in DOMAIN system_likes :
           BlocksHere /\ DOMAIN system_likes[s].notify_settings # {} =>
             /\ system_likes'[s].caps = system_likes[s].caps
             /\ AssocList(system_assoc_info', s) = AssocList(system_assoc_info, s)]_vars
  BY FreezeStep
<1> QED
  BY <1>1, BlocksInit, BlocksNext, PTL DEF Spec, NotifyFreezesCaps

-----------------------------------------------------------------------------
(* The association ids are distinct, so a capability of a block goes to    *)
(* one association.                                                        *)
DistinctIds ==
  \A s, t : \A i \in DOMAIN AssocList(system_assoc_info, s),
               j \in DOMAIN AssocList(system_assoc_info, t) :
    AssocList(system_assoc_info, s)[i].id = AssocList(system_assoc_info, t)[j].id
      => s = t /\ i = j

LEMMA AssocListType ==
  ASSUME AssocTypeOK, NEW s
  PROVE  LET list == AssocList(system_assoc_info, s)
         IN /\ list \in Seq(Range(list)) /\ Len(list) \in Nat /\ DOMAIN list = 1 .. Len(list)
            /\ \A i \in DOMAIN list : IsAssoc(list[i])
<1> PICK list : list = AssocList(system_assoc_info, s)
  OBVIOUS
<1>1. list \in Seq(Range(list)) /\ \A i \in DOMAIN list : IsAssoc(list[i])
  <2>1. CASE s \in DOMAIN system_assoc_info
    BY <2>1 DEF AssocList, AssocTypeOK
  <2>2. CASE s \notin DOMAIN system_assoc_info
    <3>1. list = <<>> /\ <<>> \in Seq(Range(<<>>))
      BY <2>2, EmptySeq DEF AssocList
    <3> QED
      BY <3>1
  <2> QED
    BY <2>1, <2>2
<1> QED
  BY <1>1

LEMMA ListOfPut ==
  ASSUME NEW f, NEW k, NEW v, NEW s
  PROVE  AssocList(Put(f, k, v), s) = IF s = k THEN v ELSE AssocList(f, s)
BY DEF AssocList, Put

LEMMA ListOfSet ==
  ASSUME NEW info, NEW sys, NEW a, NEW c, NEW cap
  PROVE  LET list == AssocList(info, sys)
             set  == AssocList(SetSystemAssocCapability(info, sys, a, c, cap), sys)
         IN /\ DOMAIN set = DOMAIN list
            /\ \A i \in DOMAIN list :
                 set[i] = IF list[i].id = a THEN WithCapability(list[i], c, cap) ELSE list[i]
<1>1. CASE sys \in DOMAIN info
  <2>1. AssocList(SetSystemAssocCapability(info, sys, a, c, cap), sys) =
          [i \in DOMAIN info[sys] |-> IF info[sys][i].id = a
                                      THEN WithCapability(info[sys][i], c, cap)
                                      ELSE info[sys][i]]
    BY <1>1 DEF SetSystemAssocCapability, AssocList
  <2>2. AssocList(info, sys) = info[sys]
    BY <1>1 DEF AssocList
  <2> QED
    BY <2>1, <2>2, Zenon
<1>2. CASE sys \notin DOMAIN info
  <2>1. AssocList(SetSystemAssocCapability(info, sys, a, c, cap), sys) = <<>>
    BY <1>2 DEF SetSystemAssocCapability, AssocList
  <2>2. AssocList(info, sys) = <<>>
    BY <1>2 DEF AssocList
  <2> QED
    BY <2>1, <2>2
<1> QED
  BY <1>1, <1>2

(* What a capability statement makes of an association, and the one that   *)
(* it adds.                                                                *)
KeepsAssoc(new, old) ==
  /\ new.id = old.id /\ new.comp_id = old.comp_id /\ new.added_fields = old.added_fields
  /\ \/ new.caps = old.caps
     \/ \E c \in SeenIds : \E cap : c \notin DOMAIN old.caps /\ new.caps = Put(old.caps, c, cap)
FreshAssoc(new) ==
  /\ new.id = last_assoc_id /\ last_assoc_id' = last_assoc_id + 1
  /\ \E comp \in SeenIds \cap KindIds(ComponentLikes), names \in Seq(STRING) \ {<<>>} :
       /\ Accepted(WithChecks(comp, names))
       /\ new = [id |-> last_assoc_id, comp_id |-> comp,
                 added_fields |-> FieldIds(comp, names), caps |-> EmptyMap]
AssocsEvolve(sys, old, new) ==
  /\ \A t : t # sys => AssocList(system_assoc_info', t) = AssocList(system_assoc_info, t)
  /\ \A i \in DOMAIN old : i \in DOMAIN new /\ KeepsAssoc(new[i], old[i])
  /\ \A i \in DOMAIN new \ DOMAIN old : i = Len(old) + 1 /\ FreshAssoc(new[i])

LEMMA AssociatesEffect ==
  ASSUME Inv, NEW sys \in OwnSystems, NEW info, Associates(sys, info),
         NEW old, old = AssocList(system_assoc_info, sys),
         NEW mid, mid = AssocList(info, sys)
  PROVE  /\ \A i \in DOMAIN old : i \in DOMAIN mid /\ mid[i] = old[i]
         /\ \A i \in DOMAIN mid \ DOMAIN old : i = Len(old) + 1 /\ FreshAssoc(mid[i])
         /\ \A t : t # sys => AssocList(info, t) = AssocList(system_assoc_info, t)
<1>1. CASE info = system_assoc_info
  BY <1>1
<1>2. CASE info # system_assoc_info
  <2>1. PICK comp \in SeenIds \cap KindIds(ComponentLikes), names \in Seq(STRING) \ {<<>>} :
             Accepted(WithChecks(comp, names)) /\ info = AddedAssoc(sys, comp, names)
    BY <1>2 DEF Associates
  <2>2. last_assoc_id' = last_assoc_id + 1
    BY <1>2 DEF Associates, NextAssocId
  <2>3. PICK new : new = [id |-> last_assoc_id, comp_id |-> comp,
                          added_fields |-> FieldIds(comp, names), caps |-> EmptyMap]
    OBVIOUS
  <2>4. info = Put(system_assoc_info, sys, Append(old, new))
    BY <2>1, <2>3 DEF AddedAssoc, AddSystemAssoc
  <2>5. mid = Append(old, new) /\ \A t : t # sys => AssocList(info, t) = AssocList(system_assoc_info, t)
    <3>1. PICK v : v = Append(old, new)
      OBVIOUS
    <3>2. info = Put(system_assoc_info, sys, v)
      BY <2>4, <3>1
    <3>3. AssocList(info, sys) = v
      BY <3>2, ListOfPut
    <3>4. ASSUME NEW t, t # sys
          PROVE  AssocList(info, t) = AssocList(system_assoc_info, t)
      BY <3>2, <3>4, ListOfPut
    <3> QED
      BY <3>1, <3>3, <3>4
  <2>6. old \in Seq(Range(old))
    BY AssocListType DEF Inv, TypeOK
  <2>7. /\ DOMAIN mid = 1 .. Len(old) + 1
        /\ DOMAIN old = 1 .. Len(old) /\ Len(old) \in Nat
        /\ \A i \in 1 .. Len(old) : mid[i] = old[i]
        /\ mid[Len(old) + 1] = new
    BY <2>5, <2>6, AppendIsSeq
  <2>8. FreshAssoc(new)
    BY <2>1, <2>2, <2>3 DEF FreshAssoc
  <2>9. \A i \in DOMAIN mid \ DOMAIN old : i = Len(old) + 1
    BY <2>7
  <2> QED
    BY <2>5, <2>7, <2>8, <2>9
<1> QED
  BY <1>1, <1>2

LEMMA AddedCapabilityAssocs ==
  ASSUME Inv, DistinctIds, NEW sys \in OwnSystems, AddsCapability(sys),
         NEW old, old = AssocList(system_assoc_info, sys),
         NEW new, new = AssocList(system_assoc_info', sys)
  PROVE  AssocsEvolve(sys, old, new)
<1>1. PICK info : Associates(sys, info) /\ SetsCapability(sys, info)
  BY DEF AddsCapability
<1>2. PICK mid : mid = AssocList(info, sys)
  OBVIOUS
<1>3. /\ \A i \in DOMAIN old : i \in DOMAIN mid /\ mid[i] = old[i]
      /\ \A i \in DOMAIN mid \ DOMAIN old : i = Len(old) + 1 /\ FreshAssoc(mid[i])
      /\ \A t : t # sys => AssocList(info, t) = AssocList(system_assoc_info, t)
  BY <1>1, <1>2, AssociatesEffect
<1>4. \A t : t # sys => AssocList(system_assoc_info', t) = AssocList(system_assoc_info, t)
  BY <1>1, OtherAssocsStay DEF ChangesBody
<1>5. CASE system_assoc_info' = info
  <2>1. \A x : KeepsAssoc(x, x)
    BY DEF KeepsAssoc
  <2> QED
    BY <1>2, <1>3, <1>4, <1>5, <2>1 DEF AssocsEvolve
<1>6. ASSUME NEW a \in Range(old), NEW comp \in SeenIds, NEW cap, comp \notin DOMAIN a.caps,
             system_assoc_info' = SetSystemAssocCapability(info, sys, a.id, comp, cap)
      PROVE  AssocsEvolve(sys, old, new)
  <2>1. /\ DOMAIN new = DOMAIN mid
        /\ \A i \in DOMAIN mid :
             new[i] = IF mid[i].id = a.id THEN WithCapability(mid[i], comp, cap) ELSE mid[i]
    BY <1>2, <1>6, ListOfSet
  <2>2. PICK k \in DOMAIN old : a = old[k]
    BY <1>6 DEF Range
  <2>3. /\ \A i \in DOMAIN old : IsAssoc(old[i])
        /\ last_assoc_id \in Nat
    BY AssocListType, MaxAssocIdAssumption DEF Inv, TypeOK, AssocTypeOK
  <2>4. ASSUME NEW i \in DOMAIN old
        PROVE  i \in DOMAIN new /\ KeepsAssoc(new[i], old[i])
    <3>1. i \in DOMAIN mid /\ mid[i] = old[i]
      BY <1>3, <2>4
    <3>2. CASE old[i].id # a.id
      BY <2>1, <3>1, <3>2 DEF KeepsAssoc
    <3>3. CASE old[i].id = a.id
      <4>1. i = k
        BY <2>2, <2>4, <3>3 DEF DistinctIds
      <4>2. new[i] = WithCapability(a, comp, cap)
        BY <2>1, <2>2, <3>1, <3>3, <4>1
      <4>3. IsAssoc(a)
        BY <2>2, <2>3
      <4>4. PICK n : n = WithCapability(a, comp, cap)
        OBVIOUS
      <4>5. n = [a EXCEPT !.caps = Put(a.caps, comp, cap)]
        BY <4>4 DEF WithCapability
      <4>6. /\ n.id = a.id /\ n.comp_id = a.comp_id /\ n.added_fields = a.added_fields
            /\ n.caps = Put(a.caps, comp, cap)
        BY <4>3, <4>5 DEF IsAssoc
      <4>7. KeepsAssoc(n, a)
        BY <1>6, <4>6 DEF KeepsAssoc
      <4> QED
        BY <2>1, <2>2, <3>1, <4>1, <4>2, <4>4, <4>7
    <3> QED
      BY <3>2, <3>3
  <2>5. ASSUME NEW i \in DOMAIN new \ DOMAIN old
        PROVE  i = Len(old) + 1 /\ FreshAssoc(new[i])
    <3>1. i \in DOMAIN mid /\ i = Len(old) + 1 /\ FreshAssoc(mid[i])
      BY <1>3, <2>1, <2>5
    <3>2. mid[i].id # a.id
      BY <2>2, <2>3, <3>1 DEF FreshAssoc, IsAssoc
    <3> QED
      BY <2>1, <3>1, <3>2
  <2> QED
    BY <1>4, <2>4, <2>5 DEF AssocsEvolve
<1> QED
  BY <1>1, <1>5, <1>6 DEF SetsCapability

LEMMA AssocsStep ==
  ASSUME Blocks, DistinctIds, [Next]_vars
  PROVE  \/ UNCHANGED assoc_vars
         \/ package_id \in Packages /\ \E sys \in OwnSystems :
              /\ AddsCapability(sys)
              /\ AssocsEvolve(sys, AssocList(system_assoc_info, sys),
                                   AssocList(system_assoc_info', sys))
<1>1. CASE UNCHANGED assoc_vars
  BY <1>1
<1>2. CASE package_id \in Packages /\ CreatesSystem
  BY <1>2 DEF CreatesSystem
<1>3. ASSUME package_id \in Packages, NEW sys \in OwnSystems, ChangesBody(sys)
      PROVE  UNCHANGED assoc_vars \/ AddsCapability(sys)
  BY <1>3 DEF ChangesBody, SetsNotify, AddsGenerates, Constrains
<1>4. ASSUME NEW sys \in OwnSystems, AddsCapability(sys)
      PROVE  AssocsEvolve(sys, AssocList(system_assoc_info, sys),
                               AssocList(system_assoc_info', sys))
  BY <1>4, AddedCapabilityAssocs DEF Blocks
<1> QED
  BY <1>1, <1>2, <1>3, <1>4, SystemsStep

LEMMA DistinctIdsNext == Blocks /\ DistinctIds /\ [Next]_vars => DistinctIds'
<1> SUFFICES ASSUME Blocks, DistinctIds, [Next]_vars PROVE DistinctIds'
  OBVIOUS
<1>1. CASE UNCHANGED assoc_vars
  BY <1>1 DEF assoc_vars, DistinctIds
<1>2. ASSUME NEW sys \in OwnSystems,
             AssocsEvolve(sys, AssocList(system_assoc_info, sys),
                               AssocList(system_assoc_info', sys))
      PROVE  DistinctIds'
  <2>0. AssocTypeOK /\ last_assoc_id \in Nat
    BY MaxAssocIdAssumption DEF Blocks, Inv, TypeOK, AssocTypeOK
  <2>1. ASSUME NEW s, NEW i \in DOMAIN AssocList(system_assoc_info', s)
        PROVE  \/ /\ i \in DOMAIN AssocList(system_assoc_info, s)
                  /\ AssocList(system_assoc_info', s)[i].id = AssocList(system_assoc_info, s)[i].id
                  /\ AssocList(system_assoc_info', s)[i].id < last_assoc_id
               \/ /\ s = sys /\ i = Len(AssocList(system_assoc_info, sys)) + 1
                  /\ AssocList(system_assoc_info', s)[i].id = last_assoc_id
    <3>1. PICK old : old = AssocList(system_assoc_info, s)
      OBVIOUS
    <3>2. PICK new : new = AssocList(system_assoc_info', s)
      OBVIOUS
    <3>3. \A k \in DOMAIN old : old[k].id < last_assoc_id
      BY <2>0, <3>1, AssocListType DEF IsAssoc
    <3>4. CASE s # sys
      BY <1>2, <2>1, <3>1, <3>2, <3>3, <3>4 DEF AssocsEvolve
    <3>5. CASE s = sys
      <4>1. AssocsEvolve(sys, old, new)
        BY <1>2, <3>1, <3>2, <3>5
      <4> QED
        BY <2>1, <3>1, <3>2, <3>3, <3>5, <4>1 DEF AssocsEvolve, KeepsAssoc, FreshAssoc
    <3> QED
      BY <3>4, <3>5
  <2>2. ASSUME NEW s, NEW t, NEW i \in DOMAIN AssocList(system_assoc_info', s),
               NEW j \in DOMAIN AssocList(system_assoc_info', t),
               AssocList(system_assoc_info', s)[i].id = AssocList(system_assoc_info', t)[j].id
        PROVE  s = t /\ i = j
    <3>1. CASE AssocList(system_assoc_info', s)[i].id = last_assoc_id
      <4>1. ~(AssocList(system_assoc_info', s)[i].id < last_assoc_id)
        BY <2>0, <3>1
      <4>2. s = sys /\ i = Len(AssocList(system_assoc_info, sys)) + 1
        BY <2>1, <2>2, <4>1, Zenon
      <4>3. t = sys /\ j = Len(AssocList(system_assoc_info, sys)) + 1
        BY <2>1, <2>2, <4>1, Zenon
      <4> QED
        BY <4>2, <4>3
    <3>2. CASE AssocList(system_assoc_info', s)[i].id # last_assoc_id
      <4>1. /\ i \in DOMAIN AssocList(system_assoc_info, s)
            /\ j \in DOMAIN AssocList(system_assoc_info, t)
            /\ AssocList(system_assoc_info, s)[i].id = AssocList(system_assoc_info, t)[j].id
        BY <2>1, <2>2, <3>2
      <4> QED
        BY <4>1 DEF DistinctIds
    <3> QED
      BY <3>1, <3>2
  <2> QED
    BY <2>2 DEF DistinctIds
<1> QED
  BY <1>1, <1>2, AssocsStep

-----------------------------------------------------------------------------
(* Bodies only grow.                                                       *)
LEMMA PutExtends ==
  ASSUME NEW m, NEW k, NEW v, k \notin DOMAIN m
  PROVE  Extends(Put(m, k, v), m) /\ Extends(m, m)
BY DEF Extends, Put

LEMMA ListEntry ==
  ASSUME NEW info, NEW s, NEW i \in DOMAIN AssocList(info, s)
  PROVE  s \in DOMAIN info /\ info[s][i] = AssocList(info, s)[i]
BY DEF AssocList

LEMMA AssocsGrow ==
  ASSUME Blocks, DistinctIds, [Next]_vars,
         NEW s, NEW i \in DOMAIN AssocList(system_assoc_info, s)
  PROVE  Extends(system_assoc_info'[s][i].caps, system_assoc_info[s][i].caps)
<1>0. system_assoc_info[s][i] = AssocList(system_assoc_info, s)[i]
  BY ListEntry
<1>1. CASE AssocList(system_assoc_info', s) = AssocList(system_assoc_info, s)
  <2>1. system_assoc_info'[s][i] = AssocList(system_assoc_info', s)[i]
    BY <1>1, ListEntry
  <2> QED
    BY <1>0, <1>1, <2>1 DEF Extends
<1>2. CASE AssocsEvolve(s, AssocList(system_assoc_info, s), AssocList(system_assoc_info', s))
  <2>1. PICK old : old = AssocList(system_assoc_info, s)[i]
    OBVIOUS
  <2>2. PICK new : new = AssocList(system_assoc_info', s)[i]
    OBVIOUS
  <2>3. i \in DOMAIN AssocList(system_assoc_info', s) /\ KeepsAssoc(new, old)
    BY <1>2, <2>1, <2>2 DEF AssocsEvolve
  <2>4. Extends(new.caps, old.caps)
    BY <2>3, PutExtends DEF KeepsAssoc, Extends
  <2>5. system_assoc_info'[s][i] = new
    BY <2>2, <2>3, ListEntry
  <2> QED
    BY <1>0, <2>1, <2>4, <2>5
<1>3. CASE UNCHANGED assoc_vars
  BY <1>1, <1>3 DEF assoc_vars
<1> QED
  BY <1>1, <1>2, <1>3, AssocsStep DEF AssocsEvolve

LEMMA ChangedBodyGrows ==
  ASSUME RuntimeTypeOK, NEW sys \in OwnSystems, ChangesBody(sys)
  PROVE  /\ SameOthers(sys) /\ SamePlace(sys)
         /\ Extends(system_likes'[sys].caps, system_likes[sys].caps)
         /\ Extends(system_likes'[sys].notify_settings, system_likes[sys].notify_settings)
         /\ DOMAIN system_likes[sys].generates \subseteq DOMAIN system_likes'[sys].generates
         /\ \A g \in DOMAIN system_likes[sys].generates :
              Extends(system_likes'[sys].generates[g], system_likes[sys].generates[g])
<1>0. sys \in KindIds(SystemLikes)
  BY DEF OwnSystems
<1>1. \A m : Extends(m, m)
  BY DEF Extends
<1>2. CASE AddsGenerates(sys)
  <2>1. /\ SameOthers(sys) /\ SameCaps(sys) /\ SameNotify(sys) /\ SamePlace(sys)
        /\ system_likes'[sys].generates = Put(system_likes[sys].generates, last_id, EmptyMap)
        /\ last_id \notin DOMAIN system_likes[sys].generates
    BY <1>0, <1>2, GeneratesEffect DEF AddsGenerates
  <2>2. Extends(system_likes'[sys].generates, system_likes[sys].generates)
    BY <2>1, PutExtends
  <2> QED
    BY <1>1, <2>1, <2>2 DEF SameCaps, SameNotify, Extends
<1>3. CASE AddsCapability(sys)
  <2>1. /\ SameOthers(sys) /\ SameNotify(sys) /\ SameGenerates(sys) /\ SamePlace(sys)
        /\ \/ SameCaps(sys)
           \/ \E c \in SeenIds : \E cap :
                /\ c \notin DOMAIN system_likes[sys].caps
                /\ system_likes'[sys].caps = Put(system_likes[sys].caps, c, cap)
    BY <1>3, AddedCapabilityEffect
  <2>2. Extends(system_likes'[sys].caps, system_likes[sys].caps)
    BY <1>1, <2>1, PutExtends DEF SameCaps
  <2> QED
    BY <1>1, <2>1, <2>2 DEF SameNotify, SameGenerates
<1>4. ASSUME NEW gen, NEW comp, NEW flag, Constrains(sys, gen, comp, flag)
      PROVE  /\ SameOthers(sys) /\ SamePlace(sys) /\ SameCaps(sys) /\ SameNotify(sys)
             /\ DOMAIN system_likes[sys].generates \subseteq DOMAIN system_likes'[sys].generates
             /\ \A g \in DOMAIN system_likes[sys].generates :
                  Extends(system_likes'[sys].generates[g], system_likes[sys].generates[g])
  <2>1. /\ gen \in DOMAIN system_likes[sys].generates
        /\ comp \notin DOMAIN system_likes[sys].generates[gen]
        /\ SystemGeneratesSetComponent(sys, gen, comp, flag)
    BY <1>4 DEF Constrains
  <2>2. /\ SameOthers(sys) /\ SameCaps(sys) /\ SameNotify(sys) /\ SamePlace(sys)
        /\ DOMAIN system_likes'[sys].generates = DOMAIN system_likes[sys].generates
        /\ \A g \in DOMAIN system_likes[sys].generates \ {gen} :
             system_likes'[sys].generates[g] = system_likes[sys].generates[g]
        /\ system_likes'[sys].generates[gen] = Put(system_likes[sys].generates[gen], comp, flag)
    BY <1>0, <2>1, ConstraintEffect
  <2>3. Extends(system_likes'[sys].generates[gen], system_likes[sys].generates[gen])
    BY <2>1, <2>2, PutExtends
  <2>4. \A g \in DOMAIN system_likes[sys].generates :
          Extends(system_likes'[sys].generates[g], system_likes[sys].generates[g])
    BY <1>1, <2>2, <2>3
  <2> QED
    BY <2>2, <2>4
<1>5. ASSUME NEW comps, NEW setting, SetsNotify(sys, comps, setting)
      PROVE  /\ SameOthers(sys) /\ SamePlace(sys) /\ SameCaps(sys) /\ SameGenerates(sys)
             /\ Extends(system_likes'[sys].notify_settings, system_likes[sys].notify_settings)
  <2>1. SetNotifySettings(sys, comps, setting)
        /\ comps \cap DOMAIN system_likes[sys].notify_settings = {}
    BY <1>5 DEF SetsNotify
  <2>2. /\ SameOthers(sys) /\ SameCaps(sys) /\ SameGenerates(sys) /\ SamePlace(sys)
        /\ DOMAIN system_likes'[sys].notify_settings =
             DOMAIN system_likes[sys].notify_settings \cup comps
        /\ \A c \in DOMAIN system_likes[sys].notify_settings \ comps :
             system_likes'[sys].notify_settings[c] = system_likes[sys].notify_settings[c]
    BY <1>0, <2>1, NotifyEffect
  <2>3. Extends(system_likes'[sys].notify_settings, system_likes[sys].notify_settings)
    BY <2>1, <2>2 DEF Extends
  <2> QED
    BY <2>2, <2>3
<1>6. CASE \E gen, comp, flag : Constrains(sys, gen, comp, flag)
  BY <1>1, <1>4, <1>6 DEF SameCaps, SameNotify
<1>7. CASE \E comps, setting : SetsNotify(sys, comps, setting)
  BY <1>1, <1>5, <1>7 DEF SameCaps, SameGenerates
<1> QED
  BY <1>2, <1>3, <1>6, <1>7 DEF ChangesBody

LEMMA BodyStep ==
  ASSUME Blocks, [Next]_vars, NEW s \in DOMAIN system_likes
  PROVE  /\ s \in DOMAIN system_likes'
         /\ Extends(system_likes'[s].caps, system_likes[s].caps)
         /\ Extends(system_likes'[s].notify_settings, system_likes[s].notify_settings)
         /\ \A g \in DOMAIN system_likes[s].generates :
              Extends(system_likes'[s].generates[g], system_likes[s].generates[g])
<1>0. RuntimeTypeOK
  BY DEF Blocks, Inv, TypeOK
<1>1. \A m : Extends(m, m)
  BY DEF Extends
<1>2. CASE UNCHANGED system_likes
  BY <1>1, <1>2
<1>3. CASE package_id \in Packages /\ CreatesSystem
  <2>1. SameCaps(s) /\ SameNotify(s) /\ SameGenerates(s) /\ s \in DOMAIN system_likes'
    BY <1>0, <1>3, CreatedSystem DEF Created
  <2> QED
    BY <1>1, <2>1 DEF SameCaps, SameNotify, SameGenerates
<1>4. ASSUME NEW sys \in OwnSystems, ChangesBody(sys), s = sys
      PROVE  /\ s \in DOMAIN system_likes'
             /\ Extends(system_likes'[s].caps, system_likes[s].caps)
             /\ Extends(system_likes'[s].notify_settings, system_likes[s].notify_settings)
             /\ \A g \in DOMAIN system_likes[s].generates :
                  Extends(system_likes'[s].generates[g], system_likes[s].generates[g])
  BY <1>0, <1>4, ChangedBodyGrows DEF SameOthers
<1>5. ASSUME NEW sys \in OwnSystems, ChangesBody(sys), s # sys
      PROVE  s \in DOMAIN system_likes' /\ system_likes'[s] = system_likes[s]
  BY <1>0, <1>5, ChangedBodyGrows DEF SameOthers
<1> QED
  BY <1>1, <1>2, <1>3, <1>4, <1>5, SystemsStep

(* What a statement of a body has set stays as it is: no handler replaces  *)
(* or drops a capability, a notify setting or a generates constraint, and  *)
(* a capability of an associating block goes to that association alone,    *)
(* since no two have the same id.                                          *)
THEOREM BodiesOnlyGrow == Spec => SystemBodyOnlyGrows
<1> DEFINE A == \A s \in DOMAIN system_likes :
       LET old == system_likes[s]
           new == system_likes'[s]
       IN /\ Extends(new.caps, old.caps)
          /\ Extends(new.notify_settings, old.notify_settings)
          /\ \A g \in DOMAIN old.generates : Extends(new.generates[g], old.generates[g])
          /\ \A i \in DOMAIN AssocList(system_assoc_info, s) :
               Extends(system_assoc_info'[s][i].caps, system_assoc_info[s][i].caps)
<1>1. Blocks /\ DistinctIds /\ [Next]_vars => [A]_vars
  BY BodyStep, AssocsGrow
<1>2. Init => DistinctIds
  BY DEF Init, AssocInit, EmptyMap, DistinctIds, AssocList
<1>3. SystemBodyOnlyGrows <=> [][A]_vars
  BY PTL DEF SystemBodyOnlyGrows, A
<1> HIDE DEF A
<1> QED
  BY <1>1, <1>2, <1>3, BlocksInit, BlocksNext, DistinctIdsNext, PTL DEF Spec

-----------------------------------------------------------------------------
(* Packages and declarations stay, and a package keeps its name and its    *)
(* imports.                                                                *)
LEMMA StoreGrows ==
  ASSUME Blocks, [Next]_vars
  PROVE  Grows
<1>0. RuntimeTypeOK /\ last_id \in Int
  BY MaxIdAssumption DEF Blocks, Inv, TypeOK, RuntimeTypeOK
<1>1. CASE UNCHANGED store
  BY <1>0, <1>1, RuntimeUnchanged DEF store
<1>2. CASE CreatesPackage
  BY <1>0, <1>2, CreatePackageType DEF CreatesPackage
<1>3. ASSUME package_id \in Packages, Imports
      PROVE  Grows
  BY <1>0, <1>3, AddDependencyType DEF Imports
<1>4. ASSUME package_id \in Packages, DeclaresComponent
      PROVE  Grows
  BY <1>0, <1>4, CreateComponentLikeType DEF DeclaresComponent
<1>5. ASSUME package_id \in Packages, DeclaresEnum
      PROVE  Grows
  BY <1>0, <1>5, CreateEnumType DEF DeclaresEnum
<1>6. CASE AddsEnumValue
  BY <1>0, <1>6, AddEnumValueType DEF AddsEnumValue
<1>7. CASE AddsField
  BY <1>0, <1>7, AddFieldType DEF AddsField
<1>8. ASSUME package_id \in Packages, CreatesSystem
      PROVE  Grows
  <2>1. PICK kind \in SystemLikes, name \in STRING,
                parent \in OwnSystems \cup {NoId}, new \in {system_likes'[last_id]} :
          NewDef(kind, package_id, name, "NONE") /\ Created(package_id, parent, new)
    BY <1>0, <1>8, CreatedSystem
  <2>2. Packages \subseteq Packages' /\ kind \in Kinds /\ "NONE" \in ComponentTypes
    BY <2>1 DEF Created, SystemLikes, Kinds, DeclKinds, ComponentTypes
  <2> QED
    BY <1>0, <1>8, <2>1, <2>2, NewDefType
<1>9. ASSUME NEW sys, ChangesBody(sys)
      PROVE  Grows
  <2>1. OnlySystemLikes \/ UNCHANGED runtime_vars
    BY <1>9 DEF ChangesBody, SetsNotify, SetNotifySettings, AddsGenerates, AddSystemGenerates,
                Constrains, SystemGeneratesSetComponent, AddsCapability, SetsCapability,
                SetSystemCapability
  <2>2. UNCHANGED <<defs, package_defs>>
    BY <2>1 DEF OnlySystemLikes, runtime_vars
  <2>3. last_id' = last_id \/ last_id' = last_id + 1
    BY <1>9 DEF ChangesBody, SetsNotify, SetNotifySettings, AddsGenerates, AddSystemGenerates,
                Constrains, SystemGeneratesSetComponent, AddsCapability, SetsCapability,
                SetSystemCapability, NextId, runtime_vars
  <2> QED
    BY <1>0, <2>2, <2>3 DEF Grows, Packages
<1> QED
  BY <1>1, <1>2, <1>3, <1>4, <1>5, <1>6, <1>7, <1>8, <1>9, NextStores DEF StoreStep

LEMMA PackagesStep ==
  ASSUME Blocks, [Next]_vars
  PROVE  /\ \A p \in Packages :
              /\ package_defs'[p].name = package_defs[p].name
              /\ Visible(p) \subseteq Visible(p)'
              /\ \/ package_id \in Packages /\ CreatesSystem
                 \/ package_defs'[p].top_level_systems = package_defs[p].top_level_systems
         /\ \A p \in Packages' \ Packages : package_defs'[p].top_level_systems = <<>>
<1>0. RuntimeTypeOK /\ last_id \in Nat
  BY MaxIdAssumption DEF Blocks, Inv, TypeOK, RuntimeTypeOK
<1>1. CASE UNCHANGED package_defs
  BY <1>1 DEF Packages, Visible
<1>2. CASE CreatesPackage
  <2>1. PICK name, main : CreatePackage(name, main)
    BY <1>2 DEF CreatesPackage
  <2>2. PICK new : new = [name |-> name, dependencies |-> <<>>, top_level_systems |-> <<>>]
    OBVIOUS
  <2>3. package_defs' = Put(package_defs, last_id, new)
    BY <2>1, <2>2 DEF CreatePackage
  <2>4. last_id \notin Packages
    BY <1>0 DEF RuntimeTypeOK, Issued
  <2>5. /\ Packages' = Packages \cup {last_id} /\ package_defs'[last_id] = new
        /\ \A p \in Packages : package_defs'[p] = package_defs[p]
    BY <2>3, <2>4 DEF Packages, Put
  <2> QED
    BY <2>2, <2>5 DEF Visible
<1>3. ASSUME package_id \in Packages, Imports
      PROVE  /\ Packages' = Packages
             /\ \A p \in Packages :
                  /\ package_defs'[p].name = package_defs[p].name
                  /\ Visible(p) \subseteq Visible(p)'
                  /\ package_defs'[p].top_level_systems = package_defs[p].top_level_systems
  <2>1. PICK d \in Packages : AddDependency(package_id, d)
    BY <1>3 DEF Imports
  <2>2. PICK q : q = package_defs[package_id]
    OBVIOUS
  <2>3. PICK r : r = [q EXCEPT !.dependencies = Append(@, d)]
    OBVIOUS
  <2>4. package_defs' = [package_defs EXCEPT ![package_id] = r]
    BY <2>1, <2>2, <2>3 DEF AddDependency
  <2>5. q \in PackageDef
    BY <1>0, <1>3, <2>2 DEF RuntimeTypeOK
  <2>6. /\ r.dependencies = Append(q.dependencies, d) /\ r.name = q.name
        /\ r.top_level_systems = q.top_level_systems
    BY <2>3, <2>5 DEF PackageDef
  <2>7. ToSet(q.dependencies) \subseteq ToSet(r.dependencies)
    <3>1. PICK list : list = q.dependencies
      OBVIOUS
    <3>2. list \in Seq(Packages)
      BY <2>5, <3>1 DEF PackageDef
    <3>3. \A i \in DOMAIN list : i \in DOMAIN Append(list, d) /\ Append(list, d)[i] = list[i]
      BY <2>1, <3>2
    <3> QED
      BY <2>6, <3>1, <3>3 DEF ToSet
  <2>8. /\ Packages' = Packages /\ package_defs'[package_id] = r
        /\ \A p \in Packages \ {package_id} : package_defs'[p] = package_defs[p]
    BY <1>3, <2>4 DEF Packages
  <2> QED
    BY <2>2, <2>6, <2>7, <2>8 DEF Visible
<1>4. ASSUME package_id \in Packages, CreatesSystem
      PROVE  /\ Packages' = Packages
             /\ \A p \in Packages :
                  /\ package_defs'[p].name = package_defs[p].name
                  /\ Visible(p) \subseteq Visible(p)'
  <2>1. PICK parent, new : Created(package_id, parent, new)
    BY <1>0, <1>4, CreatedSystem
  <2> QED
    BY <2>1 DEF Created, Visible
<1>5. \/ UNCHANGED package_defs \/ CreatesPackage
      \/ package_id \in Packages /\ Imports
      \/ package_id \in Packages /\ CreatesSystem
  <2>1. ASSUME NEW sys, ChangesBody(sys)
        PROVE  UNCHANGED package_defs
    BY <2>1 DEF ChangesBody, SetsNotify, SetNotifySettings, AddsGenerates, AddSystemGenerates,
                Constrains, SystemGeneratesSetComponent, AddsCapability, SetsCapability,
                SetSystemCapability, OnlySystemLikes, runtime_vars
  <2>2. ASSUME DeclaresComponent \/ DeclaresEnum \/ AddsEnumValue \/ AddsField
        PROVE  UNCHANGED package_defs
    BY <2>2 DEF DeclaresComponent, DeclaresEnum, AddsEnumValue, AddsField,
                CreateComponentLike, CreateEnum, AddEnumValue, AddField
  <2> QED
    BY <2>1, <2>2, NextStores DEF StoreStep, store, runtime_vars
<1> QED
  BY <1>1, <1>2, <1>3, <1>4, <1>5

-----------------------------------------------------------------------------
(* The components that a system names.                                     *)
AssocComponents(list) == UNION {DOMAIN assoc.caps \cup {assoc.comp_id} : assoc \in Range(list)}

Named(r, list) ==
  DOMAIN r.caps \cup DOMAIN r.notify_settings
    \cup (UNION {DOMAIN r.generates[g] : g \in DOMAIN r.generates})
    \cup AssocComponents(list)

LEMMA NamedMeans ==
  ASSUME NEW s
  PROVE  /\ NamedComponents(s) = Named(system_likes[s], AssocList(system_assoc_info, s))
         /\ NamedComponents(s)' = Named(system_likes'[s], AssocList(system_assoc_info', s))
<1>1. NamedComponents(s) = Named(system_likes[s], AssocList(system_assoc_info, s))
  BY Zenon DEF NamedComponents, Named, AssocComponents
<1>2. NamedComponents(s)' = Named(system_likes'[s], AssocList(system_assoc_info', s))
  BY Zenon DEF NamedComponents, Named, AssocComponents
<1> QED
  BY <1>1, <1>2

LEMMA EvolvedComponents ==
  ASSUME NEW sys, NEW old, NEW new, AssocsEvolve(sys, old, new), NEW c \in AssocComponents(new)
  PROVE  c \in AssocComponents(old) \/ c \in SeenIds
<1>1. PICK i \in DOMAIN new : c \in DOMAIN new[i].caps \cup {new[i].comp_id}
  BY DEF AssocComponents, Range
<1>2. CASE i \in DOMAIN old
  <2>1. KeepsAssoc(new[i], old[i])
    BY <1>2 DEF AssocsEvolve
  <2>2. ASSUME NEW d \in SeenIds, NEW cap, new[i].caps = Put(old[i].caps, d, cap)
        PROVE  DOMAIN new[i].caps = DOMAIN old[i].caps \cup {d}
    <3>1. PICK m : m = old[i].caps
      OBVIOUS
    <3>2. DOMAIN Put(m, d, cap) = DOMAIN m \cup {d}
      BY DEF Put
    <3> QED
      BY <2>2, <3>1, <3>2
  <2>3. c \in DOMAIN old[i].caps \cup {old[i].comp_id} \/ c \in SeenIds
    BY <1>1, <2>1, <2>2 DEF KeepsAssoc
  <2> QED
    BY <1>2, <2>3 DEF AssocComponents, Range
<1>3. CASE i \notin DOMAIN old
  <2>1. FreshAssoc(new[i])
    BY <1>3 DEF AssocsEvolve
  <2>2. DOMAIN new[i].caps = {} /\ new[i].comp_id \in SeenIds
    BY <2>1 DEF FreshAssoc, EmptyMap
  <2> QED
    BY <1>1, <2>2
<1> QED
  BY <1>2, <1>3

LEMMA NamedInBody ==
  ASSUME Inv, DistinctIds, NEW sys \in OwnSystems, ChangesBody(sys),
         NEW c \in NamedComponents(sys)'
  PROVE  c \in NamedComponents(sys) \/ c \in SeenIds
<1>0. sys \in KindIds(SystemLikes) /\ RuntimeTypeOK
  BY DEF OwnSystems, Inv, TypeOK
<1>1. CASE AddsGenerates(sys)
  <2>1. /\ SameCaps(sys) /\ SameNotify(sys) /\ UNCHANGED assoc_vars
        /\ system_likes'[sys].generates = Put(system_likes[sys].generates, last_id, EmptyMap)
    BY <1>0, <1>1, GeneratesEffect DEF AddsGenerates
  <2>2. PICK gens : gens = system_likes[sys].generates
    OBVIOUS
  <2>3. DOMAIN EmptyMap = {}
    BY DEF EmptyMap
  <2>4. \A g \in DOMAIN Put(gens, last_id, EmptyMap) : c \in DOMAIN Put(gens, last_id, EmptyMap)[g]
          => g \in DOMAIN gens /\ c \in DOMAIN gens[g]
    BY <2>3 DEF Put
  <2> QED
    BY <2>1, <2>2, <2>4, NamedMeans DEF Named, SameCaps, SameNotify, assoc_vars
<1>2. CASE AddsCapability(sys)
  <2>1. /\ SameNotify(sys) /\ SameGenerates(sys)
        /\ \/ SameCaps(sys)
           \/ \E d \in SeenIds : \E cap : system_likes'[sys].caps = Put(system_likes[sys].caps, d, cap)
    BY <1>2, <1>0, AddedCapabilityEffect
  <2>2. c \in DOMAIN system_likes'[sys].caps => c \in DOMAIN system_likes[sys].caps \/ c \in SeenIds
    <3>1. ASSUME NEW d \in SeenIds, NEW cap, system_likes'[sys].caps = Put(system_likes[sys].caps, d, cap)
          PROVE  DOMAIN system_likes'[sys].caps = DOMAIN system_likes[sys].caps \cup {d}
      <4>1. PICK m : m = system_likes[sys].caps
        OBVIOUS
      <4>2. DOMAIN Put(m, d, cap) = DOMAIN m \cup {d}
        BY DEF Put
      <4> QED
        BY <3>1, <4>1, <4>2
    <3> QED
      BY <2>1, <3>1 DEF SameCaps
  <2>3. c \in AssocComponents(AssocList(system_assoc_info', sys)) =>
          c \in AssocComponents(AssocList(system_assoc_info, sys)) \/ c \in SeenIds
    BY <1>2, AddedCapabilityAssocs, EvolvedComponents
  <2> QED
    BY <2>1, <2>2, <2>3, NamedMeans DEF Named, SameNotify, SameGenerates
<1>3. ASSUME NEW gen, NEW comp, NEW flag, Constrains(sys, gen, comp, flag)
      PROVE  c \in NamedComponents(sys) \/ c \in SeenIds
  <2>1. /\ gen \in DOMAIN system_likes[sys].generates /\ comp \in SeenIds
        /\ SystemGeneratesSetComponent(sys, gen, comp, flag) /\ UNCHANGED assoc_vars
    BY <1>3 DEF Constrains
  <2>2. /\ SameCaps(sys) /\ SameNotify(sys)
        /\ DOMAIN system_likes'[sys].generates = DOMAIN system_likes[sys].generates
        /\ \A g \in DOMAIN system_likes[sys].generates \ {gen} :
             system_likes'[sys].generates[g] = system_likes[sys].generates[g]
        /\ system_likes'[sys].generates[gen] = Put(system_likes[sys].generates[gen], comp, flag)
    BY <1>0, <2>1, ConstraintEffect
  <2>3. DOMAIN Put(system_likes[sys].generates[gen], comp, flag) =
          DOMAIN system_likes[sys].generates[gen] \cup {comp}
    BY PutProperties
  <2>4. ASSUME NEW g \in DOMAIN system_likes'[sys].generates, c \in DOMAIN system_likes'[sys].generates[g]
        PROVE  c \in SeenIds \/ c \in DOMAIN system_likes[sys].generates[g]
    BY <2>1, <2>2, <2>3, <2>4
  <2> QED
    BY <2>1, <2>2, <2>4, NamedMeans DEF Named, SameCaps, SameNotify, assoc_vars
<1>4. ASSUME NEW comps, NEW setting, SetsNotify(sys, comps, setting)
      PROVE  c \in NamedComponents(sys) \/ c \in SeenIds
  <2>1. /\ SetNotifySettings(sys, comps, setting) /\ UNCHANGED assoc_vars
        /\ comps \subseteq DOMAIN system_likes[sys].caps \/ comps \subseteq SeenIds
    BY <1>4 DEF SetsNotify
  <2>2. /\ SameCaps(sys) /\ SameGenerates(sys)
        /\ DOMAIN system_likes'[sys].notify_settings =
             DOMAIN system_likes[sys].notify_settings \cup comps
    BY <1>0, <2>1, NotifyEffect
  <2> QED
    BY <2>1, <2>2, NamedMeans DEF Named, SameCaps, SameGenerates, assoc_vars
<1> QED
  BY <1>1, <1>2, <1>3, <1>4 DEF ChangesBody

LEMMA NamedStep ==
  ASSUME Blocks, DistinctIds, [Next]_vars, NEW s \in DOMAIN system_likes',
         NEW c \in NamedComponents(s)'
  PROVE  \/ s \in DOMAIN system_likes /\ c \in NamedComponents(s)
         \/ package_id \in Packages /\ s \in OwnSystems /\ c \in SeenIds
<1>0. RuntimeTypeOK /\ AssocTypeOK /\ Inv
  BY DEF Blocks, Inv, TypeOK
<1>1. CASE UNCHANGED <<system_likes, assoc_vars>>
  BY <1>1, NamedMeans DEF Named, assoc_vars
<1>2. CASE package_id \in Packages /\ CreatesSystem
  <2>1. PICK parent, new :
          /\ Created(package_id, parent, new) /\ UNCHANGED assoc_vars
          /\ DOMAIN new.caps = {} /\ DOMAIN new.notify_settings = {} /\ DOMAIN new.generates = {}
    BY <1>0, <1>2, CreatedSystem
  <2>2. CASE s = last_id
    <3>1. s \notin DOMAIN system_assoc_info
      BY <1>0, <2>1, <2>2 DEF Created, AssocTypeOK, RuntimeTypeOK
    <3>2. AssocList(system_assoc_info', s) = <<>>
      BY <2>1, <3>1 DEF AssocList, assoc_vars
    <3>3. AssocComponents(<<>>) = {}
      BY DEF AssocComponents, Range
    <3>4. system_likes'[s] = new
      BY <2>1, <2>2 DEF Created
    <3> QED
      BY <2>1, <3>2, <3>3, <3>4, NamedMeans DEF Named
  <2>3. CASE s # last_id
    <3>1. s \in DOMAIN system_likes /\ SameCaps(s) /\ SameNotify(s) /\ SameGenerates(s)
      BY <2>1, <2>3 DEF Created
    <3> QED
      BY <2>1, <3>1, NamedMeans DEF Named, SameCaps, SameNotify, SameGenerates, assoc_vars
  <2> QED
    BY <2>2, <2>3
<1>3. ASSUME package_id \in Packages, NEW sys \in OwnSystems, ChangesBody(sys)
      PROVE  \/ s \in DOMAIN system_likes /\ c \in NamedComponents(s)
             \/ package_id \in Packages /\ s \in OwnSystems /\ c \in SeenIds
  <2>1. DOMAIN system_likes' = DOMAIN system_likes
    BY <1>0, <1>3, ChangedBodyGrows DEF SameOthers
  <2>2. CASE s = sys
    BY <1>0, <1>3, <2>1, <2>2, NamedInBody
  <2>3. CASE s # sys
    <3>1. /\ system_likes'[s] = system_likes[s]
          /\ AssocList(system_assoc_info', s) = AssocList(system_assoc_info, s)
      BY <1>0, <1>3, <2>1, <2>3, ChangedBodyGrows, OtherAssocsStay DEF SameOthers
    <3> QED
      BY <2>1, <3>1, NamedMeans DEF Named
  <2> QED
    BY <2>2, <2>3
<1> QED
  BY <1>1, <1>2, <1>3, SystemsStep

LEMMA VisibleNext ==
  Blocks /\ DistinctIds /\ ComponentsVisible /\ [Next]_vars => ComponentsVisible'
<1> SUFFICES ASSUME Blocks, DistinctIds, ComponentsVisible, [Next]_vars
             PROVE  ComponentsVisible'
  OBVIOUS
<1>1. Grows /\ RuntimeTypeOK
  BY StoreGrows DEF Blocks, Inv, TypeOK
<1>2. ASSUME NEW s \in DOMAIN system_likes', NEW c \in NamedComponents(s)', NEW p, p = defs'[s].owner
      PROVE  defs'[c].owner \in Visible(p)'
  <2>1. defs[c].owner \in Visible(defs[s].owner) /\ s \in DOMAIN defs /\ c \in DOMAIN defs
    <3>1. CASE s \in DOMAIN system_likes /\ c \in NamedComponents(s)
      <4>1. defs[c].owner \in Visible(defs[s].owner) /\ s \in DOMAIN defs
        BY <1>1, <3>1 DEF ComponentsVisible, RuntimeTypeOK, KindIds
      <4>2. IsSystemLike(system_likes[s])
        BY <1>1, <3>1 DEF RuntimeTypeOK
      <4>3. \A i \in DOMAIN AssocList(system_assoc_info, s) : IsAssoc(AssocList(system_assoc_info, s)[i])
        BY AssocListType DEF Blocks, Inv, TypeOK
      <4>4. c \in AssocComponents(AssocList(system_assoc_info, s)) => c \in KindIds(ComponentLikes)
        BY <4>3 DEF AssocComponents, Range, IsAssoc, IsCapabilities, IsMap
      <4>5. c \in KindIds(ComponentLikes) \/ c \in KindIds({"component"})
        BY <3>1, <4>2, <4>4, NamedMeans DEF Named, IsSystemLike, IsCapabilities, IsMap
      <4> QED
        BY <4>1, <4>5 DEF KindIds
    <3>2. CASE package_id \in Packages /\ s \in OwnSystems /\ c \in SeenIds
      BY <3>2 DEF OwnSystems, OwnIds, SeenIds
    <3> QED
      BY <1>2, <3>1, <3>2, NamedStep
  <2>2. defs'[s] = defs[s] /\ defs'[c] = defs[c]
    BY <1>1, <2>1 DEF Grows
  <2>3. p \in Packages /\ defs[c].owner \in Visible(p)
    BY <1>1, <1>2, <2>1, <2>2 DEF RuntimeTypeOK, Def
  <2>4. Visible(p) \subseteq Visible(p)'
    BY <2>3, PackagesStep
  <2> QED
    BY <2>2, <2>3, <2>4
<1> QED
  BY <1>2 DEF ComponentsVisible, Visible

(* A system only names components of its own package and of the packages   *)
(* that one imports: every lookup of a body goes through these, and an     *)
(* import is never taken back.                                             *)
THEOREM OnlyVisibleComponents == Spec => []ComponentsVisible
<1>1. Init => DistinctIds /\ ComponentsVisible
  BY DEF Init, RuntimeInit, AssocInit, EmptyMap, DistinctIds, AssocList, ComponentsVisible
<1> QED
  BY <1>1, BlocksInit, BlocksNext, DistinctIdsNext, VisibleNext, PTL DEF Spec
=============================================================================
