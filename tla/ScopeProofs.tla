----------------------------- MODULE ScopeProofs ----------------------------
(***************************************************************************)
(* The evaluator implements Scopes, the lexical scopes of the language.    *)
(* What Scopes sees of the state is taken apart into what it sees of the   *)
(* stack of blocks and of each declaration; then every handler is a step   *)
(* of Scopes, or changes nothing that it sees.                             *)
(***************************************************************************)
EXTENDS ShapeProofs

-----------------------------------------------------------------------------
(* The scope of a block, of any stack.                                     *)
ScopeBlocks(stack, i) == {j \in 1 .. i : stack[j].s.op \in DeclaringOps}
ScopeIn(stack, i) == IF ScopeBlocks(stack, i) = {} THEN NoId
                     ELSE stack[Max(ScopeBlocks(stack, i))].ref

LEMMA MaxBelow ==
  ASSUME NEW i \in Nat, NEW S \in SUBSET (1 .. i), S # {}
  PROVE  Max(S) \in S
<1> DEFINE T == {t \in Nat : i - t \in S}
<1>1. T # {}
  <2>1. PICK x : x \in S
    OBVIOUS
  <2>2. x \in 1 .. i
    BY <2>1
  <2>3. i - x \in Nat /\ i - (i - x) = x
    BY <2>2
  <2> QED
    BY <2>1, <2>3
<1>2. Min(T) \in T /\ \A y \in T : Min(T) <= y
  BY <1>1, MinNat
<1>3. PICK m : m = Min(T)
  OBVIOUS
<1>4. m \in Nat /\ i - m \in S /\ \A y \in T : m <= y
  BY <1>2, <1>3
<1>5. ASSUME NEW y \in S
      PROVE  i - m >= y
  <2>1. y \in 1 .. i
    OBVIOUS
  <2>2. i - y \in Nat /\ i - (i - y) = y
    BY <2>1
  <2>3. m <= i - y
    BY <1>4, <2>2
  <2> QED
    BY <1>4, <2>1, <2>3
<1> QED
  BY <1>4, <1>5 DEF Max

LEMMA ScopeOfTop ==
  ASSUME NEW stack, NEW k \in Nat
  PROVE  ScopeIn(stack, k + 1) = IF stack[k + 1].s.op \in DeclaringOps
                                 THEN stack[k + 1].ref ELSE ScopeIn(stack, k)
<1>1. CASE stack[k + 1].s.op \in DeclaringOps
  <2>1. PICK S : S = ScopeBlocks(stack, k + 1)
    OBVIOUS
  <2>2. S \in SUBSET (1 .. k + 1) /\ k + 1 \in S
    BY <1>1, <2>1 DEF ScopeBlocks
  <2>3. ~(S \subseteq 1 .. k)
    BY <2>2
  <2>4. S # {} /\ Max(S) = k + 1
    BY <2>2, <2>3, MaxOfTop
  <2> QED
    BY <1>1, <2>1, <2>4 DEF ScopeIn
<1>2. CASE stack[k + 1].s.op \notin DeclaringOps
  <2>1. ScopeBlocks(stack, k + 1) = ScopeBlocks(stack, k)
    BY <1>2 DEF ScopeBlocks
  <2> QED
    BY <1>2, <2>1 DEF ScopeIn
<1> QED
  BY <1>1, <1>2

LEMMA ScopesAgree ==
  ASSUME NEW stack, NEW other, NEW i \in Nat, \A j \in 1 .. i : stack[j] = other[j]
  PROVE  ScopeIn(stack, i) = ScopeIn(other, i)
<1>1. PICK S : S = ScopeBlocks(stack, i)
  OBVIOUS
<1>2. ScopeBlocks(other, i) = S /\ S \in SUBSET (1 .. i)
  BY <1>1 DEF ScopeBlocks
<1>3. S # {} => stack[Max(S)] = other[Max(S)]
  BY <1>2, MaxBelow
<1> QED
  BY <1>1, <1>2, <1>3 DEF ScopeIn

LEMMA ScopeSeen ==
  ASSUME NEW i
  PROVE  ScopeAt(i) = ScopeIn(context_stack, i) /\ ScopeAt(i)' = ScopeIn(context_stack', i)
BY DEF ScopeAt, ScopeIn, DeclaringBlocks, ScopeBlocks

-----------------------------------------------------------------------------
(* What Scopes sees of the state, and of a step of the stack.              *)
ScopesSeen == [i \in DOMAIN context_stack |-> ScopeAt(i)]
DeclsSeen  == [d \in DOMAIN defs |-> DeclOf(d)]
HoldsSeen  == [d \in DOMAIN defs |-> HoldsOf(d)]

Enclosed == IF context_stack = <<>> THEN NoId ELSE ScopeAt(Len(context_stack))

LEMMA ScopesType ==
  ASSUME Inv, NEW n, n = Len(context_stack)
  PROVE  /\ n \in Nat /\ DOMAIN context_stack = 1 .. n /\ (n = 0 <=> context_stack = <<>>)
         /\ ScopesSeen \in Seq(Range(ScopesSeen)) /\ Len(ScopesSeen) = n
         /\ DOMAIN ScopesSeen = 1 .. n
         /\ \A i \in 1 .. n : ScopesSeen[i] = ScopeIn(context_stack, i)
<1>1. n \in Nat /\ DOMAIN context_stack = 1 .. n /\ context_stack \in Seq(FrameType)
  BY StackLength
<1>2. n = 0 <=> context_stack = <<>>
  BY <1>1, EmptySeq
<1>3. DOMAIN ScopesSeen = 1 .. n /\ \A i \in 1 .. n : ScopesSeen[i] = ScopeIn(context_stack, i)
  BY <1>1, ScopeSeen DEF ScopesSeen
<1>4. ScopesSeen \in [1 .. n -> Range(ScopesSeen)]
  <2>1. ScopesSeen = [i \in 1 .. n |-> ScopesSeen[i]]
    BY <1>1 DEF ScopesSeen
  <2> QED
    BY <1>3, <2>1 DEF Range
<1>5. ScopesSeen \in Seq(Range(ScopesSeen)) /\ Len(ScopesSeen) = n
  BY <1>1, <1>4, FunctionIsSeq
<1> QED
  BY <1>1, <1>2, <1>3, <1>5

LEMMA EnclosedIsLast ==
  ASSUME Inv
  PROVE  /\ ScopesSeen = <<>> <=> context_stack = <<>>
         /\ Enclosed = IF ScopesSeen = <<>> THEN NoId ELSE Last(ScopesSeen)
         /\ Enclosed = ScopeIn(context_stack, Len(context_stack))
<1>1. PICK n : n = Len(context_stack)
  OBVIOUS
<1>2. /\ n \in Nat /\ (n = 0 <=> context_stack = <<>>)
      /\ ScopesSeen \in Seq(Range(ScopesSeen)) /\ Len(ScopesSeen) = n
      /\ \A i \in 1 .. n : ScopesSeen[i] = ScopeIn(context_stack, i)
  BY <1>1, ScopesType
<1>3. ScopesSeen = <<>> <=> n = 0
  BY <1>2, EmptySeq
<1>4. n # 0 => Last(ScopesSeen) = ScopeIn(context_stack, n)
  BY <1>2 DEF Last
<1>5. n = 0 => ScopeIn(context_stack, n) = NoId
  BY DEF ScopeIn, ScopeBlocks
<1>6. ScopeAt(n) = ScopeIn(context_stack, n)
  BY ScopeSeen
<1> QED
  BY <1>1, <1>2, <1>3, <1>4, <1>5, <1>6 DEF Enclosed

(* The stack as it is, with a block more, and with one less                *)
LEMMA ScopesKept ==
  ASSUME UNCHANGED context_stack
  PROVE  ScopesSeen' = ScopesSeen
BY DEF ScopesSeen, ScopeAt, DeclaringBlocks

LEMMA ScopesPushed ==
  ASSUME Inv, NEW f, context_stack' = Append(context_stack, f),
         NEW d, d = IF f.s.op \in DeclaringOps THEN f.ref ELSE Enclosed
  PROVE  ScopesSeen' = Append(ScopesSeen, d)
<1>1. PICK n : n = Len(context_stack)
  OBVIOUS
<1>2. PICK stack : stack = context_stack'
  OBVIOUS
<1>3. /\ n \in Nat /\ DOMAIN stack = 1 .. n + 1
      /\ stack[n + 1] = f /\ \A i \in 1 .. n : stack[i] = context_stack[i]
  BY <1>1, <1>2, StackAppended
<1>4. /\ ScopesSeen \in Seq(Range(ScopesSeen)) /\ Len(ScopesSeen) = n
      /\ \A i \in 1 .. n : ScopesSeen[i] = ScopeIn(context_stack, i)
  BY <1>1, ScopesType
<1>5. ScopesSeen' = [i \in 1 .. n + 1 |-> ScopeIn(stack, i)]
  BY <1>2, <1>3, ScopeSeen DEF ScopesSeen
<1>6. \A i \in 1 .. n : ScopeIn(stack, i) = ScopesSeen[i]
  <2> SUFFICES ASSUME NEW i \in 1 .. n PROVE ScopeIn(stack, i) = ScopesSeen[i]
    OBVIOUS
  <2>1. i \in Nat /\ \A j \in 1 .. i : stack[j] = context_stack[j]
    BY <1>3
  <2>2. ScopeIn(stack, i) = ScopeIn(context_stack, i)
    BY <2>1, ScopesAgree
  <2> QED
    BY <1>4, <2>2
<1>7. ScopeIn(stack, n + 1) = d
  <2>1. ScopeIn(stack, n) = ScopeIn(context_stack, n)
    BY <1>3, ScopesAgree
  <2>2. Enclosed = ScopeIn(context_stack, n)
    BY <1>1, EnclosedIsLast
  <2> QED
    BY <1>3, <2>1, <2>2, ScopeOfTop
<1>8. PICK q : q = ScopesSeen
  OBVIOUS
<1>9. PICK r : r = [i \in 1 .. n + 1 |-> ScopeIn(stack, i)]
  OBVIOUS
<1>10. r = Append(q, d)
  <2>1. q \in Seq(Range(q)) /\ Len(q) = n
    BY <1>4, <1>8
  <2>2. /\ Append(q, d) \in Seq(Range(Append(q, d))) /\ DOMAIN Append(q, d) = 1 .. n + 1
        /\ \A i \in 1 .. n : Append(q, d)[i] = q[i]
        /\ Append(q, d)[n + 1] = d
    BY <2>1, AppendIsSeq
  <2>3. DOMAIN r = 1 .. n + 1 /\ \A i \in 1 .. n + 1 : r[i] = Append(q, d)[i]
    BY <1>3, <1>6, <1>7, <1>8, <1>9, <2>2
  <2>4. PICK t : t = Append(q, d)
    OBVIOUS
  <2>5. t \in Seq(Range(t)) /\ DOMAIN t = 1 .. n + 1
    BY <2>2, <2>4
  <2>6. t = [i \in 1 .. n + 1 |-> t[i]]
    BY <2>5
  <2>7. r = [i \in 1 .. n + 1 |-> r[i]]
    BY <1>9
  <2> QED
    BY <2>3, <2>4, <2>6, <2>7
<1> QED
  BY <1>5, <1>8, <1>9, <1>10

LEMMA ScopesPopped ==
  ASSUME Inv, context_stack # <<>>, context_stack' = Front(context_stack)
  PROVE  ScopesSeen' = Front(ScopesSeen)
<1>1. PICK n : n = Len(context_stack)
  OBVIOUS
<1>2. PICK stack : stack = context_stack'
  OBVIOUS
<1>3. /\ n \in Nat /\ n # 0 /\ DOMAIN context_stack = 1 .. n
      /\ ScopesSeen \in Seq(Range(ScopesSeen)) /\ Len(ScopesSeen) = n
      /\ \A i \in 1 .. n : ScopesSeen[i] = ScopeIn(context_stack, i)
  BY <1>1, ScopesType
<1>4. DOMAIN stack = 1 .. n - 1 /\ \A i \in 1 .. n - 1 : stack[i] = context_stack[i]
  BY <1>1, <1>2, <1>3, StackLength DEF Front
<1>5. ScopesSeen' = [i \in 1 .. n - 1 |-> ScopeIn(stack, i)]
  BY <1>2, <1>4, ScopeSeen DEF ScopesSeen
<1>6. \A i \in 1 .. n - 1 : ScopeIn(stack, i) = ScopesSeen[i]
  <2> SUFFICES ASSUME NEW i \in 1 .. n - 1 PROVE ScopeIn(stack, i) = ScopesSeen[i]
    OBVIOUS
  <2>1. i \in Nat /\ i \in 1 .. n /\ \A j \in 1 .. i : stack[j] = context_stack[j]
    BY <1>3, <1>4
  <2>2. ScopeIn(stack, i) = ScopeIn(context_stack, i)
    BY <2>1, ScopesAgree
  <2> QED
    BY <1>3, <2>1, <2>2
<1>7. PICK q : q = ScopesSeen
  OBVIOUS
<1>8. Front(q) = [i \in 1 .. n - 1 |-> q[i]]
  BY <1>3, <1>7 DEF Front
<1>9. [i \in 1 .. n - 1 |-> ScopeIn(stack, i)] = [i \in 1 .. n - 1 |-> q[i]]
  BY <1>6, <1>7
<1> QED
  BY <1>5, <1>7, <1>8, <1>9

-----------------------------------------------------------------------------
(* What is said of a declaration, and what only adds to it.                *)
SameBody(new, old) ==
  /\ new.caps = old.caps /\ new.notify_settings = old.notify_settings
  /\ new.generates = old.generates

BodyGrows(new, old) ==
  /\ Extends(new.caps, old.caps)
  /\ Extends(new.notify_settings, old.notify_settings)
  /\ \A g \in DOMAIN old.generates :
       g \in DOMAIN new.generates /\ Extends(new.generates[g], old.generates[g])

ListGrows(new, old) ==
  \A i \in DOMAIN old :
    /\ i \in DOMAIN new
    /\ new[i].id = old[i].id /\ new[i].comp_id = old[i].comp_id
    /\ new[i].added_fields = old[i].added_fields
    /\ Extends(new[i].caps, old[i].caps)

LEMMA ExtendsItself ==
  ASSUME NEW m
  PROVE  Extends(m, m)
BY DEF Extends

LEMMA SaidSame ==
  ASSUME NEW f, NEW v, NEW r, NEW q, NEW a, SameBody(q, r)
  PROVE  Said(f, v, q, a) = Said(f, v, r, a)
BY DEF Said, SameBody

LEMMA EntriesGrow ==
  ASSUME NEW tag, NEW new, NEW old, Extends(new, old)
  PROVE  Entries(tag, old) \subseteq Entries(tag, new)
BY DEF Entries, Extends

LEMMA ConstraintsGrow ==
  ASSUME NEW new, NEW old,
         \A g \in DOMAIN old : g \in DOMAIN new /\ Extends(new[g], old[g])
  PROVE  Constraints(old) \subseteq Constraints(new)
<1> SUFFICES ASSUME NEW x \in Constraints(old) PROVE x \in Constraints(new)
  OBVIOUS
<1>1. PICK g \in DOMAIN old : x \in {<<"constraint", g, c, old[g][c]>> : c \in DOMAIN old[g]}
  BY DEF Constraints
<1>2. PICK c \in DOMAIN old[g] : x = <<"constraint", g, c, old[g][c]>>
  BY <1>1
<1>3. g \in DOMAIN new /\ c \in DOMAIN new[g] /\ new[g][c] = old[g][c]
  BY <1>2 DEF Extends
<1>4. x \in {<<"constraint", g, k, new[g][k]>> : k \in DOMAIN new[g]}
  BY <1>2, <1>3
<1> QED
  BY <1>3, <1>4 DEF Constraints

LEMMA ListGrowsSaid ==
  ASSUME NEW new, NEW old, ListGrows(new, old)
  PROVE  /\ AssocEntries(old) \subseteq AssocEntries(new)
         /\ AssocCaps(old) \subseteq AssocCaps(new)
<1>1. ASSUME NEW x \in AssocEntries(old)
      PROVE  x \in AssocEntries(new)
  <2>1. PICK i \in DOMAIN old :
          x = <<"assoc", i, old[i].id, old[i].comp_id, old[i].added_fields>>
    BY DEF AssocEntries
  <2>2. /\ i \in DOMAIN new
        /\ x = <<"assoc", i, new[i].id, new[i].comp_id, new[i].added_fields>>
    BY <2>1 DEF ListGrows
  <2> QED
    BY <2>2 DEF AssocEntries
<1>2. ASSUME NEW x \in AssocCaps(old)
      PROVE  x \in AssocCaps(new)
  <2>1. PICK i \in DOMAIN old :
          x \in {<<"assoc_cap", i, c, old[i].caps[c]>> : c \in DOMAIN old[i].caps}
    BY DEF AssocCaps
  <2>2. PICK c \in DOMAIN old[i].caps : x = <<"assoc_cap", i, c, old[i].caps[c]>>
    BY <2>1
  <2>3. /\ i \in DOMAIN new /\ c \in DOMAIN new[i].caps
        /\ new[i].caps[c] = old[i].caps[c]
    BY <2>2 DEF ListGrows, Extends
  <2>4. x \in {<<"assoc_cap", i, k, new[i].caps[k]>> : k \in DOMAIN new[i].caps}
    BY <2>2, <2>3
  <2> QED
    BY <2>3, <2>4 DEF AssocCaps
<1> QED
  BY <1>1, <1>2

LEMMA SaidGrows ==
  ASSUME NEW f, NEW g, Extends(g, f), NEW v, NEW w, Extends(w, v),
         NEW r, NEW q, BodyGrows(q, r), NEW a, NEW b, ListGrows(b, a)
  PROVE  Said(f, v, r, a) \subseteq Said(g, w, q, b)
<1>1. /\ Entries("field", f) \subseteq Entries("field", g)
      /\ Entries("value", v) \subseteq Entries("value", w)
      /\ Entries("capability", r.caps) \subseteq Entries("capability", q.caps)
      /\ Entries("notify", r.notify_settings) \subseteq Entries("notify", q.notify_settings)
  BY EntriesGrow DEF BodyGrows
<1>2. {<<"generates", x>> : x \in DOMAIN r.generates}
        \subseteq {<<"generates", x>> : x \in DOMAIN q.generates}
  BY DEF BodyGrows
<1>3. Constraints(r.generates) \subseteq Constraints(q.generates)
  BY ConstraintsGrow DEF BodyGrows
<1>4. AssocEntries(a) \subseteq AssocEntries(b) /\ AssocCaps(a) \subseteq AssocCaps(b)
  BY ListGrowsSaid
<1> QED
  BY <1>1, <1>2, <1>3, <1>4 DEF Said

LEMMA NothingSaid ==
  ASSUME NEW r, DOMAIN r.caps = {}, DOMAIN r.notify_settings = {}, DOMAIN r.generates = {}
  PROVE  Said(<<>>, <<>>, r, <<>>) = {}
BY DEF Said, Entries, Constraints, AssocEntries, AssocCaps

-----------------------------------------------------------------------------
(* One declaration in a step.                                              *)
SystemKept(e) ==
  /\ e \in DOMAIN system_likes' <=> e \in DOMAIN system_likes
  /\ e \in DOMAIN system_likes =>
       SameCaps(e) /\ SameNotify(e) /\ SameGenerates(e) /\ SameSettings(e)

(* What a declaration is, and what its statements have said of it          *)
DeclKept(e) == DeclOf(e)' = DeclOf(e)
HoldsKept(e) == HoldsOf(e)' = HoldsOf(e)

SettingsKept(e) ==
  /\ SystemRecord(e)'.parent_system_id = SystemRecord(e).parent_system_id
  /\ SystemRecord(e)'.parallel_execution = SystemRecord(e).parallel_execution
  /\ SystemRecord(e)'.lazy_iteration_rate = SystemRecord(e).lazy_iteration_rate

LEMMA RecordKept ==
  ASSUME NEW e, SystemKept(e)
  PROVE  SameBody(SystemRecord(e)', SystemRecord(e)) /\ SettingsKept(e)
<1>1. CASE e \in DOMAIN system_likes
  <2>1. SystemRecord(e)' = system_likes'[e] /\ SystemRecord(e) = system_likes[e]
    BY <1>1 DEF SystemKept, SystemRecord
  <2> QED
    BY <1>1, <2>1
    DEF SystemKept, SameBody, SettingsKept, SameCaps, SameNotify, SameGenerates, SameSettings
<1>2. CASE e \notin DOMAIN system_likes
  <2>1. SystemRecord(e)' = SystemRecord(e)
    BY <1>2 DEF SystemKept, SystemRecord, NewSystemLike
  <2> QED
    BY <2>1 DEF SameBody, SettingsKept
<1> QED
  BY <1>1, <1>2

LEMMA DeclIsKept ==
  ASSUME NEW e, defs'[e] = defs[e], SettingsKept(e)
  PROVE  DeclKept(e)
BY DEF DeclKept, DeclOf, SettingsKept

LEMMA HoldsIsKept ==
  ASSUME NEW e, FieldsOf(e)' = FieldsOf(e), ValuesOfEnum(e)' = ValuesOfEnum(e),
         SameBody(SystemRecord(e)', SystemRecord(e)),
         AssocList(system_assoc_info', e) = AssocList(system_assoc_info, e)
  PROVE  HoldsKept(e)
<1>1. PICK f, v, r, q, a :
        /\ f = FieldsOf(e) /\ v = ValuesOfEnum(e)
        /\ r = SystemRecord(e) /\ q = SystemRecord(e)' /\ a = AssocList(system_assoc_info, e)
  OBVIOUS
<1>2. HoldsOf(e) = Said(f, v, r, a) /\ HoldsOf(e)' = Said(f, v, q, a)
  BY <1>1 DEF HoldsOf
<1>3. Said(f, v, q, a) = Said(f, v, r, a)
  BY <1>1, SaidSame
<1> QED
  BY <1>2, <1>3 DEF HoldsKept

LEMMA HoldsGrow ==
  ASSUME NEW e, Extends(FieldsOf(e)', FieldsOf(e)),
         Extends(ValuesOfEnum(e)', ValuesOfEnum(e)),
         BodyGrows(SystemRecord(e)', SystemRecord(e)),
         ListGrows(AssocList(system_assoc_info', e), AssocList(system_assoc_info, e))
  PROVE  HoldsOf(e) \subseteq HoldsOf(e)'
<1>1. PICK f, g, v, w :
        f = FieldsOf(e) /\ g = FieldsOf(e)' /\ v = ValuesOfEnum(e) /\ w = ValuesOfEnum(e)'
  OBVIOUS
<1>2. PICK r, q, a, b :
        /\ r = SystemRecord(e) /\ q = SystemRecord(e)'
        /\ a = AssocList(system_assoc_info, e) /\ b = AssocList(system_assoc_info', e)
  OBVIOUS
<1>3. HoldsOf(e) = Said(f, v, r, a) /\ HoldsOf(e)' = Said(g, w, q, b)
  BY <1>1, <1>2 DEF HoldsOf
<1>4. Said(f, v, r, a) \subseteq Said(g, w, q, b)
  BY <1>1, <1>2, SaidGrows
<1> QED
  BY <1>3, <1>4

-----------------------------------------------------------------------------
(* A step that declares d and nothing else, and one that adds to what is   *)
(* said of d and nothing else.                                             *)
Declared(d, kind, name, parent) ==
  /\ d \notin DOMAIN defs /\ DOMAIN defs' = DOMAIN defs \cup {d}
  /\ \A e \in DOMAIN defs : DeclKept(e) /\ HoldsKept(e)
  /\ HoldsOf(d)' = {}
  /\ DeclOf(d)'.kind = kind /\ DeclOf(d)'.owner = package_id
  /\ DeclOf(d)'.name = name /\ DeclOf(d)'.parent = parent

Filled(d) ==
  /\ d \in DOMAIN defs /\ UNCHANGED defs
  /\ \A e \in DOMAIN defs : DeclKept(e)
  /\ \A e \in DOMAIN defs \ {d} : HoldsKept(e)
  /\ HoldsOf(d) \subseteq HoldsOf(d)'

SeenAsBefore == DeclsSeen' = DeclsSeen /\ HoldsSeen' = HoldsSeen

LEMMA StoreSeen ==
  ASSUME UNCHANGED <<defs, fields, enum_values, system_likes, system_assoc_info>>
  PROVE  SeenAsBefore
BY DEF SeenAsBefore, DeclsSeen, HoldsSeen, DeclOf, HoldsOf, SystemRecord, FieldsOf,
       ValuesOfEnum, AssocList

LEMMA DeclaredSeen ==
  ASSUME NEW d, NEW kind, NEW name, NEW parent, Declared(d, kind, name, parent)
  PROVE  /\ DOMAIN DeclsSeen = DOMAIN defs /\ DOMAIN DeclsSeen' = DOMAIN defs \cup {d}
         /\ DeclsSeen' = Put(DeclsSeen, d, DeclsSeen'[d])
         /\ DeclsSeen'[d] = DeclOf(d)'
         /\ HoldsSeen' = Put(HoldsSeen, d, {})
<1>1. DOMAIN defs' = DOMAIN defs \cup {d} /\ d \notin DOMAIN defs
  BY DEF Declared
<1>2. PICK D, E, H, K :
        D = DeclsSeen /\ E = DeclsSeen' /\ H = HoldsSeen /\ K = HoldsSeen'
  OBVIOUS
<1>3. /\ E = [e \in DOMAIN defs \cup {d} |-> DeclOf(e)']
      /\ K = [e \in DOMAIN defs \cup {d} |-> HoldsOf(e)']
      /\ D = [e \in DOMAIN defs |-> DeclOf(e)] /\ H = [e \in DOMAIN defs |-> HoldsOf(e)]
  BY <1>1, <1>2 DEF DeclsSeen, HoldsSeen
<1>4. \A e \in DOMAIN defs : E[e] = D[e] /\ K[e] = H[e]
  BY <1>3 DEF Declared, DeclKept, HoldsKept
<1>5. E[d] = DeclOf(d)' /\ K[d] = {}
  BY <1>3 DEF Declared
<1>6. E = Put(D, d, E[d])
  BY <1>1, <1>3, <1>4 DEF Put
<1>7. K = Put(H, d, {})
  BY <1>1, <1>3, <1>4, <1>5 DEF Put
<1> QED
  BY <1>2, <1>3, <1>5, <1>6, <1>7

LEMMA FilledSeen ==
  ASSUME NEW d, Filled(d)
  PROVE  /\ DeclsSeen' = DeclsSeen
         /\ DOMAIN HoldsSeen' = DOMAIN HoldsSeen /\ DOMAIN HoldsSeen = DOMAIN defs
         /\ HoldsSeen[d] \subseteq HoldsSeen'[d]
         /\ \A e \in DOMAIN HoldsSeen \ {d} : HoldsSeen'[e] = HoldsSeen[e]
<1>1. PICK H, K : H = HoldsSeen /\ K = HoldsSeen'
  OBVIOUS
<1>2. H = [e \in DOMAIN defs |-> HoldsOf(e)] /\ K = [e \in DOMAIN defs |-> HoldsOf(e)']
  BY <1>1 DEF Filled, HoldsSeen
<1>3. DeclsSeen' = DeclsSeen
  BY DEF Filled, DeclsSeen, DeclKept
<1>4. \A e \in DOMAIN defs \ {d} : K[e] = H[e]
  BY <1>2 DEF Filled, HoldsKept
<1>5. H[d] \subseteq K[d]
  BY <1>2 DEF Filled
<1> QED
  BY <1>1, <1>2, <1>3, <1>4, <1>5

-----------------------------------------------------------------------------
(* The operations that declare.                                            *)
LEMMA NewDefHere ==
  ASSUME Inv, package_id \in Packages, Packages \subseteq Packages',
         NEW kind \in Kinds, NEW name \in STRING, NEW comp_type \in ComponentTypes,
         NewDef(kind, package_id, name, comp_type)
  PROVE  /\ Grows /\ last_id \notin DOMAIN defs /\ DOMAIN defs' = DOMAIN defs \cup {last_id}
         /\ defs'[last_id] = [kind |-> kind, owner |-> package_id, name |-> name,
                              comp_type |-> comp_type]
<1>1. RuntimeTypeOK
  BY DEF Inv, TypeOK
<1>2. /\ Grows /\ last_id \notin DOMAIN defs /\ DOMAIN defs' = DOMAIN defs \cup {last_id}
      /\ defs'[last_id] = [kind |-> kind, owner |-> package_id, name |-> name,
                           comp_type |-> comp_type]
      /\ \A kinds : KindIds(kinds)' =
           IF kind \in kinds THEN KindIds(kinds) \cup {last_id} ELSE KindIds(kinds)
  BY <1>1, NewDefType
<1> QED
  BY <1>2

LEMMA DeclaredBy ==
  ASSUME Inv, package_id \in Packages, Packages \subseteq Packages',
         NEW kind \in Kinds, NEW name \in STRING, NEW comp_type \in ComponentTypes,
         NewDef(kind, package_id, name, comp_type), UNCHANGED assoc_vars,
         \A e \in DOMAIN defs : /\ FieldsOf(e)' = FieldsOf(e)
                                /\ ValuesOfEnum(e)' = ValuesOfEnum(e)
                                /\ SystemKept(e),
         NEW d, d = last_id, FieldsOf(d)' = <<>>, ValuesOfEnum(d)' = <<>>,
         NEW parent, NEW r, r = SystemRecord(d)', r.parent_system_id = parent,
         DOMAIN r.caps = {}, DOMAIN r.notify_settings = {}, DOMAIN r.generates = {}
  PROVE  Declared(d, kind, name, parent)
<1>1. RuntimeTypeOK /\ AssocTypeOK
  BY DEF Inv, TypeOK
<1>2. /\ Grows /\ d \notin DOMAIN defs /\ DOMAIN defs' = DOMAIN defs \cup {d}
      /\ defs'[d] = [kind |-> kind, owner |-> package_id, name |-> name,
                     comp_type |-> comp_type]
  BY NewDefHere
<1>3. ASSUME NEW e \in DOMAIN defs
      PROVE  DeclKept(e) /\ HoldsKept(e)
  <2>1. SameBody(SystemRecord(e)', SystemRecord(e)) /\ SettingsKept(e)
    BY RecordKept
  <2>2. defs'[e] = defs[e]
    BY <1>2 DEF Grows
  <2>3. AssocList(system_assoc_info', e) = AssocList(system_assoc_info, e)
    BY DEF assoc_vars
  <2> QED
    BY <2>1, <2>2, <2>3, DeclIsKept, HoldsIsKept
<1>4. AssocList(system_assoc_info', d) = <<>>
  BY <1>1, <1>2 DEF AssocList, assoc_vars, AssocTypeOK, KindIds
<1>5. HoldsOf(d)' = Said(<<>>, <<>>, r, <<>>)
  BY <1>4 DEF HoldsOf
<1>6. HoldsOf(d)' = {}
  BY <1>5, NothingSaid
<1>7. /\ DeclOf(d)'.kind = kind /\ DeclOf(d)'.owner = package_id
      /\ DeclOf(d)'.name = name /\ DeclOf(d)'.parent = parent
  BY <1>2 DEF DeclOf
<1> QED
  BY <1>2, <1>3, <1>6, <1>7 DEF Declared

LEMMA NoEntriesYet ==
  ASSUME Inv, NEW d, d = last_id
  PROVE  /\ d \notin DOMAIN defs /\ d \notin DOMAIN fields
         /\ d \notin DOMAIN enum_values /\ d \notin DOMAIN system_likes
<1>1. RuntimeTypeOK
  BY DEF Inv, TypeOK
<1>2. d \notin DOMAIN defs
  BY <1>1, MaxIdAssumption DEF RuntimeTypeOK, Issued
<1> QED
  BY <1>1, <1>2 DEF RuntimeTypeOK, KindIds

LEMMA ComponentDeclared ==
  ASSUME Inv, package_id \in Packages, NEW kind \in ComponentLikes, NEW name \in STRING,
         NEW comp_type \in ComponentTypes,
         CreateComponentLike(kind, package_id, name, comp_type), UNCHANGED assoc_vars,
         NEW d, d = last_id
  PROVE  Declared(d, kind, name, NoId)
<1>1. /\ NewDef(kind, package_id, name, comp_type) /\ fields' = Put(fields, d, <<>>)
      /\ UNCHANGED <<package_defs, enum_values, system_likes>>
  BY DEF CreateComponentLike
<1>2. /\ d \notin DOMAIN defs /\ d \notin DOMAIN enum_values /\ d \notin DOMAIN system_likes
  BY NoEntriesYet
<1>3. \A e \in DOMAIN defs : /\ FieldsOf(e)' = FieldsOf(e)
                             /\ ValuesOfEnum(e)' = ValuesOfEnum(e) /\ SystemKept(e)
  BY <1>1, <1>2
  DEF FieldsOf, Put, ValuesOfEnum, SystemKept, SameCaps, SameNotify, SameGenerates, SameSettings
<1>4. FieldsOf(d)' = <<>> /\ ValuesOfEnum(d)' = <<>>
  BY <1>1, <1>2 DEF FieldsOf, Put, ValuesOfEnum
<1>5. PICK r : r = SystemRecord(d)'
  OBVIOUS
<1>6. r = NewSystemLike(NoId, "AUTO", 0)
  BY <1>1, <1>2, <1>5 DEF SystemRecord, NewSystemLike
<1>7. /\ r.parent_system_id = NoId
      /\ DOMAIN r.caps = {} /\ DOMAIN r.notify_settings = {} /\ DOMAIN r.generates = {}
  BY <1>6 DEF NewSystemLike, EmptyMap
<1>8. kind \in Kinds /\ Packages' = Packages
  BY <1>1 DEF ComponentLikes, Kinds, DeclKinds, Packages
<1> QED
  BY <1>1, <1>3, <1>4, <1>5, <1>7, <1>8, DeclaredBy

LEMMA EnumDeclared ==
  ASSUME Inv, package_id \in Packages, NEW name \in STRING,
         CreateEnum(package_id, name), UNCHANGED assoc_vars, NEW d, d = last_id
  PROVE  Declared(d, "enum", name, NoId)
<1>1. /\ NewDef("enum", package_id, name, "NONE") /\ enum_values' = Put(enum_values, d, <<>>)
      /\ UNCHANGED <<package_defs, fields, system_likes>>
  BY DEF CreateEnum
<1>2. /\ d \notin DOMAIN defs /\ d \notin DOMAIN fields /\ d \notin DOMAIN system_likes
  BY NoEntriesYet
<1>3. \A e \in DOMAIN defs : /\ FieldsOf(e)' = FieldsOf(e)
                             /\ ValuesOfEnum(e)' = ValuesOfEnum(e) /\ SystemKept(e)
  BY <1>1, <1>2
  DEF FieldsOf, Put, ValuesOfEnum, SystemKept, SameCaps, SameNotify, SameGenerates, SameSettings
<1>4. FieldsOf(d)' = <<>> /\ ValuesOfEnum(d)' = <<>>
  BY <1>1, <1>2 DEF FieldsOf, Put, ValuesOfEnum
<1>5. PICK r : r = SystemRecord(d)'
  OBVIOUS
<1>6. r = NewSystemLike(NoId, "AUTO", 0)
  BY <1>1, <1>2, <1>5 DEF SystemRecord, NewSystemLike
<1>7. /\ r.parent_system_id = NoId
      /\ DOMAIN r.caps = {} /\ DOMAIN r.notify_settings = {} /\ DOMAIN r.generates = {}
  BY <1>6 DEF NewSystemLike, EmptyMap
<1>8. "enum" \in Kinds /\ "NONE" \in ComponentTypes /\ Packages' = Packages
  BY <1>1 DEF Kinds, ComponentTypes, Packages
<1> QED
  BY <1>1, <1>3, <1>4, <1>5, <1>7, <1>8, DeclaredBy

LEMMA SystemDeclared ==
  ASSUME Inv, package_id \in Packages, NEW kind \in SystemLikes, NEW name \in STRING,
         NEW parent \in KindIds(SystemLikes) \cup {NoId}, NEW parallel, NEW lazy,
         CreateSystemLike(kind, package_id, name, parent, parallel, lazy),
         UNCHANGED assoc_vars, NEW d, d = last_id
  PROVE  Declared(d, kind, name, parent)
<1>1. /\ NewDef(kind, package_id, name, "NONE") /\ UNCHANGED enum_values
      /\ fields' = IF kind = "action" THEN Put(fields, d, <<>>) ELSE fields
  BY DEF CreateSystemLike
<1>2. /\ d \notin DOMAIN defs /\ d \notin DOMAIN fields /\ d \notin DOMAIN enum_values
      /\ d \notin DOMAIN system_likes
  BY NoEntriesYet
<1>3. PICK r : r = NewSystemLike(parent, parallel, lazy)
  OBVIOUS
<1>4. RuntimeTypeOK
  BY DEF Inv, TypeOK
<1>5. Created(package_id, parent, r)
  BY <1>3, <1>4, CreationEffect
<1>6. /\ DOMAIN system_likes' = DOMAIN system_likes \cup {d} /\ system_likes'[d] = r
      /\ \A t \in DOMAIN system_likes :
           SameCaps(t) /\ SameNotify(t) /\ SameGenerates(t) /\ SameSettings(t)
      /\ Packages' = Packages
  BY <1>5 DEF Created
<1>7. \A e \in DOMAIN defs : SystemKept(e)
  BY <1>2, <1>6 DEF SystemKept
<1>8. \A e \in DOMAIN defs : FieldsOf(e)' = FieldsOf(e) /\ ValuesOfEnum(e)' = ValuesOfEnum(e)
  BY <1>1, <1>2 DEF FieldsOf, Put, ValuesOfEnum
<1>9. FieldsOf(d)' = <<>> /\ ValuesOfEnum(d)' = <<>>
  BY <1>1, <1>2 DEF FieldsOf, Put, ValuesOfEnum
<1>10. SystemRecord(d)' = r
  BY <1>6 DEF SystemRecord
<1>11. /\ r.parent_system_id = parent
       /\ DOMAIN r.caps = {} /\ DOMAIN r.notify_settings = {} /\ DOMAIN r.generates = {}
  BY <1>3 DEF NewSystemLike, EmptyMap
<1>12. kind \in Kinds /\ "NONE" \in ComponentTypes
  BY DEF SystemLikes, Kinds, DeclKinds, ComponentTypes
<1> QED
  BY <1>1, <1>6, <1>7, <1>8, <1>9, <1>10, <1>11, <1>12, DeclaredBy

-----------------------------------------------------------------------------
(* The operations that say something of a declaration that there is.       *)
LEMMA FilledBy ==
  ASSUME UNCHANGED defs, NEW d \in DOMAIN defs,
         \A e \in DOMAIN defs \ {d} :
           /\ FieldsOf(e)' = FieldsOf(e) /\ ValuesOfEnum(e)' = ValuesOfEnum(e) /\ SystemKept(e)
           /\ AssocList(system_assoc_info', e) = AssocList(system_assoc_info, e),
         SettingsKept(d), Extends(FieldsOf(d)', FieldsOf(d)),
         Extends(ValuesOfEnum(d)', ValuesOfEnum(d)),
         BodyGrows(SystemRecord(d)', SystemRecord(d)),
         ListGrows(AssocList(system_assoc_info', d), AssocList(system_assoc_info, d))
  PROVE  Filled(d)
<1>1. ASSUME NEW e \in DOMAIN defs \ {d}
      PROVE  DeclKept(e) /\ HoldsKept(e)
  <2>1. SameBody(SystemRecord(e)', SystemRecord(e)) /\ SettingsKept(e)
    BY RecordKept
  <2> QED
    BY <2>1, DeclIsKept, HoldsIsKept
<1>2. DeclKept(d)
  BY DeclIsKept
<1>3. HoldsOf(d) \subseteq HoldsOf(d)'
  BY HoldsGrow
<1> QED
  BY <1>1, <1>2, <1>3 DEF Filled

LEMMA SystemUntouched ==
  ASSUME UNCHANGED <<system_likes, assoc_vars>>, NEW e
  PROVE  /\ SystemKept(e) /\ SettingsKept(e)
         /\ BodyGrows(SystemRecord(e)', SystemRecord(e))
         /\ AssocList(system_assoc_info', e) = AssocList(system_assoc_info, e)
         /\ ListGrows(AssocList(system_assoc_info', e), AssocList(system_assoc_info, e))
<1>1. SystemRecord(e)' = SystemRecord(e)
  BY DEF SystemRecord
<1>2. SystemKept(e)
  BY DEF SystemKept, SameCaps, SameNotify, SameGenerates, SameSettings
<1>3. AssocList(system_assoc_info', e) = AssocList(system_assoc_info, e)
  BY DEF assoc_vars
<1> QED
  BY <1>1, <1>2, <1>3 DEF SettingsKept, BodyGrows, ListGrows, Extends

LEMMA AppendExtends ==
  ASSUME NEW T, NEW list \in Seq(T), NEW x \in T
  PROVE  Extends(Append(list, x), list)
BY DEF Extends

LEMMA FieldFilled ==
  ASSUME Inv, NEW c \in KindIds(Composites), NEW name \in STRING, NEW type \in FieldType,
         AddField(c, name, type), UNCHANGED assoc_vars
  PROVE  Filled(c)
<1>1. RuntimeTypeOK
  BY DEF Inv, TypeOK
<1>2. PICK x : x = [name |-> name, type |-> type]
  OBVIOUS
<1>3. /\ fields' = [fields EXCEPT ![c] = Append(@, x)]
      /\ UNCHANGED <<defs, enum_values, system_likes>>
  BY <1>2, Zenon DEF AddField
<1>4. c \in DOMAIN fields /\ fields[c] \in Seq(Field) /\ x \in Field /\ c \in DOMAIN defs
  BY <1>1, <1>2 DEF RuntimeTypeOK, Field, KindIds
<1>5. fields'[c] = Append(fields[c], x) /\ DOMAIN fields' = DOMAIN fields
      /\ \A e \in DOMAIN fields \ {c} : fields'[e] = fields[e]
  BY <1>3, <1>4
<1>6. Extends(fields'[c], fields[c])
  BY <1>4, <1>5, AppendExtends
<1>7. Extends(FieldsOf(c)', FieldsOf(c))
  BY <1>4, <1>5, <1>6 DEF FieldsOf
<1>8. \A e \in DOMAIN defs \ {c} : FieldsOf(e)' = FieldsOf(e)
  BY <1>5 DEF FieldsOf
<1>9. \A e : ValuesOfEnum(e)' = ValuesOfEnum(e)
  BY <1>3 DEF ValuesOfEnum
<1>10. Extends(ValuesOfEnum(c)', ValuesOfEnum(c))
  BY <1>9, ExtendsItself
<1>11. UNCHANGED <<system_likes, assoc_vars>>
  BY <1>3
<1> QED
  BY <1>3, <1>4, <1>7, <1>8, <1>9, <1>10, <1>11, SystemUntouched, FilledBy

LEMMA ValueFilled ==
  ASSUME Inv, NEW c \in KindIds({"enum"}), NEW name \in STRING, NEW value \in STRING,
         AddEnumValue(c, name, value), UNCHANGED assoc_vars
  PROVE  Filled(c)
<1>1. RuntimeTypeOK
  BY DEF Inv, TypeOK
<1>2. PICK x : x = [name |-> name, value |-> value]
  OBVIOUS
<1>3. /\ enum_values' = [enum_values EXCEPT ![c] = Append(@, x)]
      /\ UNCHANGED <<defs, fields, system_likes>>
  BY <1>2, Zenon DEF AddEnumValue
<1>4. /\ c \in DOMAIN enum_values /\ enum_values[c] \in Seq(EnumValue) /\ x \in EnumValue
      /\ c \in DOMAIN defs
  BY <1>1, <1>2 DEF RuntimeTypeOK, EnumValue, KindIds
<1>5. enum_values'[c] = Append(enum_values[c], x) /\ DOMAIN enum_values' = DOMAIN enum_values
      /\ \A e \in DOMAIN enum_values \ {c} : enum_values'[e] = enum_values[e]
  BY <1>3, <1>4
<1>6. Extends(enum_values'[c], enum_values[c])
  BY <1>4, <1>5, AppendExtends
<1>7. Extends(ValuesOfEnum(c)', ValuesOfEnum(c))
  BY <1>4, <1>5, <1>6 DEF ValuesOfEnum
<1>8. \A e \in DOMAIN defs \ {c} : ValuesOfEnum(e)' = ValuesOfEnum(e)
  BY <1>5 DEF ValuesOfEnum
<1>9. \A e : FieldsOf(e)' = FieldsOf(e)
  BY <1>3 DEF FieldsOf
<1>10. Extends(FieldsOf(c)', FieldsOf(c))
  BY <1>9, ExtendsItself
<1>11. UNCHANGED <<system_likes, assoc_vars>>
  BY <1>3
<1> QED
  BY <1>3, <1>4, <1>7, <1>8, <1>9, <1>10, <1>11, SystemUntouched, FilledBy

LEMMA BodyLeaves ==
  ASSUME NEW sys, ChangesBody(sys)
  PROVE  UNCHANGED <<defs, fields, enum_values>> /\ (AddsCapability(sys) \/ UNCHANGED assoc_vars)
BY DEF ChangesBody, SetsNotify, AddsGenerates, Constrains, AddsCapability, SetsCapability,
       SetNotifySettings, AddSystemGenerates, SystemGeneratesSetComponent,
       SetSystemCapability, OnlySystemLikes, runtime_vars

LEMMA EvolvedGrows ==
  ASSUME NEW sys, NEW old, NEW new, AssocsEvolve(sys, old, new)
  PROVE  ListGrows(new, old)
<1> SUFFICES ASSUME NEW i \in DOMAIN old
             PROVE  /\ i \in DOMAIN new
                    /\ new[i].id = old[i].id /\ new[i].comp_id = old[i].comp_id
                    /\ new[i].added_fields = old[i].added_fields
                    /\ Extends(new[i].caps, old[i].caps)
  BY DEF ListGrows
<1>1. i \in DOMAIN new /\ KeepsAssoc(new[i], old[i])
  BY DEF AssocsEvolve
<1>2. Extends(new[i].caps, old[i].caps)
  BY <1>1, PutExtends, ExtendsItself DEF KeepsAssoc
<1> QED
  BY <1>1, <1>2 DEF KeepsAssoc

LEMMA BodyFilled ==
  ASSUME Inv, DistinctIds, NEW sys \in OwnSystems, ChangesBody(sys)
  PROVE  Filled(sys)
<1>1. RuntimeTypeOK /\ AssocTypeOK
  BY DEF Inv, TypeOK
<1>2. UNCHANGED <<defs, fields, enum_values>>
  BY BodyLeaves
<1>3. /\ SameOthers(sys) /\ SamePlace(sys)
      /\ Extends(system_likes'[sys].caps, system_likes[sys].caps)
      /\ Extends(system_likes'[sys].notify_settings, system_likes[sys].notify_settings)
      /\ DOMAIN system_likes[sys].generates \subseteq DOMAIN system_likes'[sys].generates
      /\ \A g \in DOMAIN system_likes[sys].generates :
           Extends(system_likes'[sys].generates[g], system_likes[sys].generates[g])
  BY <1>1, ChangedBodyGrows
<1>4. sys \in DOMAIN defs /\ sys \in DOMAIN system_likes /\ sys \in DOMAIN system_likes'
  BY <1>1, <1>3 DEF OwnSystems, KindIds, RuntimeTypeOK, SameOthers
<1>5. SystemRecord(sys) = system_likes[sys] /\ SystemRecord(sys)' = system_likes'[sys]
  BY <1>4 DEF SystemRecord
<1>6. BodyGrows(SystemRecord(sys)', SystemRecord(sys)) /\ SettingsKept(sys)
  BY <1>3, <1>5 DEF BodyGrows, SettingsKept, SamePlace, SameSettings
<1>7. PICK old, new : /\ old = AssocList(system_assoc_info, sys)
                      /\ new = AssocList(system_assoc_info', sys)
  OBVIOUS
<1>8. ListGrows(new, old)
  <2>1. CASE AddsCapability(sys)
    <3>1. AssocsEvolve(sys, old, new)
      BY <1>7, <2>1, AddedCapabilityAssocs
    <3> QED
      BY <3>1, EvolvedGrows
  <2>2. CASE UNCHANGED assoc_vars
    <3>1. new = old
      BY <1>7, <2>2 DEF assoc_vars
    <3> QED
      BY <3>1, ExtendsItself DEF ListGrows
  <2> QED
    BY <2>1, <2>2, BodyLeaves
<1>9. \A e : e # sys => AssocList(system_assoc_info', e) = AssocList(system_assoc_info, e)
  BY OtherAssocsStay
<1>10. \A e \in DOMAIN defs \ {sys} : SystemKept(e)
  BY <1>3
  DEF SameOthers, SystemKept, SameCaps, SameNotify, SameGenerates, SameSettings
<1>11. \A e : FieldsOf(e)' = FieldsOf(e) /\ ValuesOfEnum(e)' = ValuesOfEnum(e)
  BY <1>2 DEF FieldsOf, ValuesOfEnum
<1>12. Extends(FieldsOf(sys)', FieldsOf(sys)) /\ Extends(ValuesOfEnum(sys)', ValuesOfEnum(sys))
  BY <1>11, ExtendsItself
<1> QED
  BY <1>2, <1>4, <1>6, <1>7, <1>8, <1>9, <1>10, <1>11, <1>12, FilledBy

-----------------------------------------------------------------------------
(* The steps of Scopes in these terms                                      *)
LexStep == [Lexical!Next]_(Lexical!scope_vars)

LEMMA SameLast ==
  ASSUME NEW q
  PROVE  Lexical!Last(q) = Last(q) /\ Lexical!Front(q) = Front(q)
BY DEF Lexical!Last, Last, Lexical!Front, Front

LEMMA SamePut ==
  ASSUME NEW f, NEW k, NEW v
  PROVE  Lexical!Put(f, k, v) = Put(f, k, v)
BY DEF Lexical!Put, Put

LEMMA EnclosingSeen ==
  ASSUME Inv
  PROVE  Lexical!Enclosing = Enclosed
<1>1. Lexical!Enclosing = IF ScopesSeen = <<>> THEN NoId ELSE Lexical!Last(ScopesSeen)
  BY DEF Lexical!Enclosing, ScopesSeen
<1>2. Lexical!Last(ScopesSeen) = Last(ScopesSeen)
  BY SameLast
<1> QED
  BY <1>1, <1>2, EnclosedIsLast

LEMMA LexStutters ==
  ASSUME UNCHANGED package_id, SeenAsBefore, ScopesSeen' = ScopesSeen
  PROVE  LexStep
BY DEF LexStep, Lexical!scope_vars, SeenAsBefore, ScopesSeen, DeclsSeen, HoldsSeen

LEMMA LexImports ==
  ASSUME Inv, context_stack = <<>>, UNCHANGED package_id, SeenAsBefore,
         ScopesSeen' \in {ScopesSeen, Append(ScopesSeen, NoId)}
  PROVE  LexStep
<1>1. ScopesSeen = <<>>
  BY EnclosedIsLast
<1>2. Lexical!Import
  BY <1>1 DEF Lexical!Import, SeenAsBefore, ScopesSeen, DeclsSeen, HoldsSeen
<1> QED
  BY <1>2 DEF LexStep, Lexical!Next

LEMMA LexCloses ==
  ASSUME Inv, context_stack # <<>>, UNCHANGED package_id, SeenAsBefore,
         ScopesSeen' = Front(ScopesSeen)
  PROVE  LexStep
<1>1. ScopesSeen # <<>> /\ ScopesSeen' = Lexical!Front(ScopesSeen)
  BY EnclosedIsLast, SameLast
<1>2. Lexical!Close
  BY <1>1 DEF Lexical!Close, SeenAsBefore, ScopesSeen, DeclsSeen, HoldsSeen
<1> QED
  BY <1>2 DEF LexStep, Lexical!Next

LEMMA LexSwitches ==
  ASSUME Inv, context_stack = <<>>, UNCHANGED context_stack, SeenAsBefore
  PROVE  LexStep
<1>1. ScopesSeen = <<>> /\ ScopesSeen' = ScopesSeen
  BY EnclosedIsLast, ScopesKept
<1>2. Lexical!SwitchPackage
  BY <1>1 DEF Lexical!SwitchPackage, SeenAsBefore, ScopesSeen, DeclsSeen, HoldsSeen
<1> QED
  BY <1>2 DEF LexStep, Lexical!Next

LEMMA LexDeclares ==
  ASSUME Inv, NEW d, NEW kind, NEW name, NEW parent, parent = Enclosed,
         Declared(d, kind, name, parent), UNCHANGED package_id,
         context_stack # <<>> => kind = "system" /\ Enclosed \in KindIds(SystemLikes),
         \A e \in DOMAIN defs :
           defs[e].owner = package_id /\ defs[e].name = name => defs[e].kind = "enum",
         ScopesSeen' \in {ScopesSeen, Append(ScopesSeen, d)}
  PROVE  LexStep
<1>1. /\ DOMAIN DeclsSeen = DOMAIN defs /\ DOMAIN DeclsSeen' = DOMAIN defs \cup {d}
      /\ DeclsSeen' = Put(DeclsSeen, d, DeclsSeen'[d])
      /\ DeclsSeen'[d] = DeclOf(d)'
      /\ HoldsSeen' = Put(HoldsSeen, d, {})
  BY DeclaredSeen
<1>2. d \notin DOMAIN defs
  BY DEF Declared
<1>3. PICK new : new = DeclsSeen'[d]
  OBVIOUS
<1>4. new.owner = package_id /\ new.parent = Enclosed /\ new.kind = kind /\ new.name = name
  BY <1>1, <1>3 DEF Declared
<1>5. \A e \in DOMAIN defs : /\ DeclsSeen[e].owner = defs[e].owner
                             /\ DeclsSeen[e].name = defs[e].name
                             /\ DeclsSeen[e].kind = defs[e].kind
  BY DEF DeclsSeen, DeclOf
<1>6. ScopesSeen # <<>> =>
        /\ new.kind = "system"
        /\ Enclosed \in DOMAIN DeclsSeen /\ DeclsSeen[Enclosed].kind \in {"system", "action"}
  <2>1. SUFFICES ASSUME ScopesSeen # <<>>
                 PROVE  /\ new.kind = "system" /\ Enclosed \in DOMAIN DeclsSeen
                        /\ DeclsSeen[Enclosed].kind \in {"system", "action"}
    OBVIOUS
  <2>2. kind = "system" /\ Enclosed \in KindIds(SystemLikes)
    BY <2>1, EnclosedIsLast
  <2> QED
    BY <1>1, <1>4, <1>5, <2>2 DEF KindIds, SystemLikes
<1>7. Lexical!MayDeclare(new)
  <2>1. Lexical!MayDeclare(new) <=>
          /\ new.owner = package_id
          /\ new.parent = Lexical!Enclosing
          /\ ScopesSeen # <<>> =>
               /\ new.kind = "system"
               /\ Lexical!Enclosing \in DOMAIN DeclsSeen
               /\ DeclsSeen[Lexical!Enclosing].kind \in {"system", "action"}
          /\ \A e \in DOMAIN DeclsSeen :
               DeclsSeen[e].owner = package_id /\ DeclsSeen[e].name = new.name
                 => DeclsSeen[e].kind = "enum"
    BY DEF Lexical!MayDeclare, ScopesSeen, DeclsSeen
  <2> QED
    BY <1>1, <1>4, <1>5, <1>6, <2>1, EnclosingSeen
<1>8. /\ DeclsSeen' = Lexical!Put(DeclsSeen, d, DeclsSeen'[d])
      /\ HoldsSeen' = Lexical!Put(HoldsSeen, d, {})
  BY <1>1, SamePut
<1>9. Lexical!Declare(d) <=>
        /\ d \notin DOMAIN DeclsSeen
        /\ DeclsSeen' = Lexical!Put(DeclsSeen, d, DeclsSeen'[d])
        /\ Lexical!MayDeclare(DeclsSeen'[d])
        /\ HoldsSeen' = Lexical!Put(HoldsSeen, d, {})
        /\ ScopesSeen' \in {ScopesSeen, Append(ScopesSeen, d)}
        /\ UNCHANGED package_id
  BY DEF Lexical!Declare, ScopesSeen, DeclsSeen, HoldsSeen
<1>10. Lexical!Declare(d) /\ d \in DOMAIN DeclsSeen'
  BY <1>1, <1>2, <1>3, <1>7, <1>8, <1>9
<1> QED
  BY <1>10 DEF LexStep, Lexical!Next, DeclsSeen

LEMMA LexFills ==
  ASSUME Inv, NEW d, Filled(d), UNCHANGED package_id, NEW top, top = Enclosed,
         top \in DOMAIN defs,
         \/ d = top
         \/ /\ defs[d].kind = "enum" /\ defs[top].kind = "enum"
            /\ defs[d].owner = defs[top].owner /\ defs[d].name = defs[top].name,
         ScopesSeen' \in {ScopesSeen, Append(ScopesSeen, top)}
  PROVE  LexStep
<1>1. /\ DeclsSeen' = DeclsSeen
      /\ DOMAIN HoldsSeen' = DOMAIN HoldsSeen /\ DOMAIN HoldsSeen = DOMAIN defs
      /\ HoldsSeen[d] \subseteq HoldsSeen'[d]
      /\ \A e \in DOMAIN HoldsSeen \ {d} : HoldsSeen'[e] = HoldsSeen[e]
  BY FilledSeen
<1>2. d \in DOMAIN defs /\ DOMAIN DeclsSeen = DOMAIN defs
  BY DEF Filled, DeclsSeen
<1>3. \A e \in DOMAIN defs : /\ DeclsSeen[e].owner = defs[e].owner
                             /\ DeclsSeen[e].name = defs[e].name
                             /\ DeclsSeen[e].kind = defs[e].kind
  BY DEF DeclsSeen, DeclOf
<1>4. Lexical!SameEnum(d, top) <=>
        /\ DeclsSeen[d].kind = "enum" /\ DeclsSeen[top].kind = "enum"
        /\ DeclsSeen[d].owner = DeclsSeen[top].owner /\ DeclsSeen[d].name = DeclsSeen[top].name
  BY DEF Lexical!SameEnum, DeclsSeen
<1>5. d = top \/ Lexical!SameEnum(d, top)
  BY <1>2, <1>3, <1>4
<1>6. Lexical!Fill(d) <=>
        /\ Lexical!Enclosing \in DOMAIN DeclsSeen
        /\ d = Lexical!Enclosing \/ Lexical!SameEnum(d, Lexical!Enclosing)
        /\ DOMAIN HoldsSeen' = DOMAIN HoldsSeen
        /\ HoldsSeen[d] \subseteq HoldsSeen'[d]
        /\ \A e \in DOMAIN HoldsSeen \ {d} : HoldsSeen'[e] = HoldsSeen[e]
        /\ ScopesSeen' \in {ScopesSeen, Append(ScopesSeen, Lexical!Enclosing)}
        /\ UNCHANGED <<package_id, DeclsSeen>>
  BY DEF Lexical!Fill, ScopesSeen, DeclsSeen, HoldsSeen
<1>7. Lexical!Enclosing = top
  BY EnclosingSeen
<1>8. Lexical!Fill(d) /\ d \in DOMAIN DeclsSeen
  BY <1>1, <1>2, <1>5, <1>6, <1>7
<1> QED
  BY <1>8 DEF LexStep, Lexical!Next, DeclsSeen

-----------------------------------------------------------------------------
(* The stack after an evaluation                                           *)
LEMMA FinishScopes ==
  ASSUME Inv, NEW s, NEW ref, NEW assoc, NEW code, Finish(s, ref, assoc, code),
         NEW d, d = IF s.op \in DeclaringOps THEN ref ELSE Enclosed
  PROVE  /\ UNCHANGED package_id
         /\ ScopesSeen' \in {ScopesSeen, Append(ScopesSeen, d)}
<1>1. PICK f : f = [s |-> s, ref |-> ref, assoc |-> assoc, pkg |-> package_id]
  OBVIOUS
<1>2. UNCHANGED context_stack \/ context_stack' = Append(context_stack, f)
  BY <1>1 DEF Finish
<1>3. f.s = s /\ f.ref = ref
  BY <1>1
<1>4. CASE UNCHANGED context_stack
  BY <1>4, ScopesKept DEF Finish
<1>5. CASE context_stack' = Append(context_stack, f)
  <2>1. d = IF f.s.op \in DeclaringOps THEN f.ref ELSE Enclosed
    BY <1>3
  <2>2. ScopesSeen' = Append(ScopesSeen, d)
    BY <1>5, <2>1, ScopesPushed
  <2> QED
    BY <2>2 DEF Finish
<1> QED
  BY <1>2, <1>4, <1>5

LEMMA LexRejected ==
  ASSUME UNCHANGED <<store, client_vars>>
  PROVE  LexStep
<1>1. SeenAsBefore
  BY StoreSeen DEF store, runtime_vars, assoc_vars
<1>2. UNCHANGED package_id /\ ScopesSeen' = ScopesSeen
  BY ScopesKept DEF client_vars
<1> QED
  BY <1>1, <1>2, LexStutters

LEMMA RejectedAll ==
  ASSUME NEW checks, Rejected(checks)
  PROVE  UNCHANGED <<store, client_vars>>
BY DEF Rejected, store

(* The declaration that the innermost block is in                          *)
LEMMA TopFrame ==
  ASSUME Inv, Context(1).op # "NONE", NEW n, n = Len(context_stack)
  PROVE  /\ n \in Nat \ {0} /\ n \in DOMAIN context_stack /\ context_stack # <<>>
         /\ Context(1) = context_stack[n].s
<1>1. 1 \in Nat \ {0}
  OBVIOUS
<1>2. /\ 1 <= Len(context_stack) /\ Len(context_stack) + 1 - 1 \in DOMAIN context_stack
      /\ Context(1) = context_stack[Len(context_stack) + 1 - 1].s
  BY <1>1, ContextFrame
<1>3. n \in Nat /\ n + 1 - 1 = n
  BY StackLength
<1> QED
  BY <1>2, <1>3

LEMMA EnclosedTop ==
  ASSUME Inv, NEW n, n = Len(context_stack), n \in Nat \ {0},
         context_stack[n].s.op \in DeclaringOps
  PROVE  Enclosed = context_stack[n].ref
<1>1. n - 1 \in Nat /\ (n - 1) + 1 = n
  OBVIOUS
<1>2. PICK k : k = n - 1
  OBVIOUS
<1>3. ScopeIn(context_stack, k + 1) = context_stack[k + 1].ref
  BY <1>1, <1>2, ScopeOfTop
<1> QED
  BY <1>1, <1>2, <1>3, EnclosedIsLast

LEMMA EnclosedNone ==
  ASSUME Inv, context_stack = <<>>
  PROVE  Enclosed = NoId
BY DEF Enclosed

(* The blocks in which a statement is about a system                       *)
BodyOps == SystemOps \cup {"SYSTEM_COMPONENT", "SYSTEM_WITH", "SYSTEM_GENERATES",
                           "SYSTEM_NOTIFY"}

LEMMA EnclosedBody ==
  ASSUME Blocks, BlocksPlaced, BlocksHere, ContextSystem # NoId, Context(1).op \in BodyOps
  PROVE  Enclosed = ContextSystem
<1>0. Inv /\ FramesResolve
  BY DEF Blocks
<1>1. PICK n : n = Len(context_stack)
  OBVIOUS
<1>2. n \in Nat \ {0} /\ n \in DOMAIN context_stack /\ Context(1) = context_stack[n].s
  BY <1>0, <1>1, TopFrame DEF BodyOps, SystemOps
<1>3. CASE Context(1).op \in SystemOps
  <2>1. context_stack[n].ref = ContextSystem
    BY <1>0, <1>1, <1>2, <1>3, ContextSystemPlace DEF BlocksHere
  <2>2. context_stack[n].s.op \in DeclaringOps
    BY <1>2, <1>3 DEF SystemOps, DeclaringOps
  <2> QED
    BY <1>0, <1>1, <1>2, <2>1, <2>2, EnclosedTop
<1>4. CASE Context(1).op \in {"SYSTEM_COMPONENT", "SYSTEM_GENERATES", "SYSTEM_NOTIFY"}
  <2>1. /\ n - 1 \in DOMAIN context_stack /\ context_stack[n - 1].ref = ContextSystem
        /\ context_stack[n - 1].s.op \in SystemOps
    BY <1>0, <1>1, <1>4, ContextSystemPlace DEF SystemOps, BlocksHere
  <2>2. DOMAIN context_stack = 1 .. n
    BY <1>0, <1>1, StackLength
  <2>3. PICK k \in Nat : n = k + 2
    BY <1>2, <2>1, <2>2
  <2>4. k + 1 \in Nat /\ n - 1 = k + 1 /\ n = (k + 1) + 1
    BY <2>3
  <2>5. ScopeIn(context_stack, k + 1) = ContextSystem
    BY <2>1, <2>4, ScopeOfTop DEF SystemOps, DeclaringOps
  <2>6. ScopeIn(context_stack, n) = ScopeIn(context_stack, k + 1)
    BY <1>2, <1>4, <2>4, ScopeOfTop DEF DeclaringOps
  <2> QED
    BY <1>0, <1>1, <2>5, <2>6, EnclosedIsLast
<1>5. CASE Context(1).op = "SYSTEM_WITH"
  <2>1. /\ n - 1 \in DOMAIN context_stack /\ n - 2 \in DOMAIN context_stack
        /\ context_stack[n - 1].s.op = "SYSTEM_COMPONENT"
    BY <1>2, <1>5 DEF BlocksPlaced, PlacedIn, WithPlaced
  <2>2. ContextSystem = SystemLikeOf(Context(3))
    BY <1>5 DEF ContextSystem
  <2>3. 3 \in Nat \ {0}
    OBVIOUS
  <2>4. /\ context_stack[n + 1 - 3].s.op \in SystemOps
        /\ SystemLikeOf(Context(3)) = context_stack[n + 1 - 3].ref
    BY <1>0, <1>1, <2>2, <2>3, SystemOfContext DEF BlocksHere
  <2>5. DOMAIN context_stack = 1 .. n
    BY <1>0, <1>1, StackLength
  <2>6. PICK k \in Nat : n = k + 3
    BY <1>2, <2>1, <2>5
  <2>7. /\ k + 1 \in Nat /\ n - 2 = k + 1 /\ n + 1 - 3 = k + 1
        /\ (k + 1) + 1 \in Nat /\ n - 1 = (k + 1) + 1 /\ n = ((k + 1) + 1) + 1
    BY <2>6
  <2>8. ScopeIn(context_stack, k + 1) = ContextSystem
    BY <2>2, <2>4, <2>7, ScopeOfTop DEF SystemOps, DeclaringOps
  <2>9. ScopeIn(context_stack, (k + 1) + 1) = ScopeIn(context_stack, k + 1)
    BY <2>1, <2>7, ScopeOfTop DEF DeclaringOps
  <2>10. ScopeIn(context_stack, n) = ScopeIn(context_stack, (k + 1) + 1)
    BY <1>2, <1>5, <2>7, ScopeOfTop DEF DeclaringOps
  <2> QED
    BY <1>0, <1>1, <2>8, <2>9, <2>10, EnclosedIsLast
<1> QED
  BY <1>3, <1>4, <1>5 DEF BodyOps

-----------------------------------------------------------------------------
(* The blocks of enums, which statements find by name among the enums.     *)
EnumFrame(f) ==
  f.s.op = "ENUM" =>
    /\ f.ref \in KindIds({"enum"})
    /\ defs[f.ref].owner = f.pkg /\ defs[f.ref].name = f.s.name

EnumBlocks == \A i \in DOMAIN context_stack : EnumFrame(context_stack[i])

LEMMA EnumFrameStays ==
  ASSUME Blocks, [Next]_vars, NEW f, EnumFrame(f)
  PROVE  EnumFrame(f)'
BY StoreGrows DEF EnumFrame, Grows, KindIds

LEMMA EnumOpened ==
  ASSUME Blocks, package_id \in Packages, NEW s \in Statements, EvalStatement(s)
  PROVE  /\ UNCHANGED package_id
         /\ \/ UNCHANGED context_stack
            \/ \E f : context_stack' = Append(context_stack, f) /\ EnumFrame(f)'
<1>0. Inv /\ FramesResolve
  BY DEF Blocks
<1>1. CASE s.op = "ENUM"
  <2>1. EvalEnum(s)
    BY <1>1
    DEF EvalStatement, EvalEmpty, EvalPackageInBlock, EvalImport, EvalComponent, EvalTransient,
        EvalSystem, EvalAction, EvalEnumValue, EvalBuiltinTypeField, EvalUserTypeField,
        EvalSystemComponent, EvalSystemWith, EvalSystemGenerates, EvalEntityConstraint,
        EvalSystemNotify, EvalSystemNotifyComponent
  <2>2. CASE Rejected(PlainDeclChecks(s))
    BY <2>2 DEF Rejected, client_vars
  <2>3. CASE ~Rejected(PlainDeclChecks(s))
    <3>1. CreateEnum(package_id, s.name) /\ Finish(s, last_id, NoId, "OK")
      BY <2>1, <2>3 DEF EvalEnum
    <3>2. PICK d : d = last_id
      OBVIOUS
    <3>3. PICK f : f = [s |-> s, ref |-> d, assoc |-> NoId, pkg |-> package_id]
      OBVIOUS
    <3>4. /\ UNCHANGED package_id
          /\ UNCHANGED context_stack \/ context_stack' = Append(context_stack, f)
      BY <3>1, <3>2, <3>3 DEF Finish
    <3>5. d \in DOMAIN defs' /\ defs'[d] = [kind |-> "enum", owner |-> package_id,
                                            name |-> s.name, comp_type |-> "NONE"]
      BY <3>1, <3>2 DEF CreateEnum, NewDef, Put
    <3>6. EnumFrame(f)'
      BY <3>3, <3>4, <3>5 DEF EnumFrame, KindIds
    <3> QED
      BY <3>4, <3>6
  <2> QED
    BY <2>2, <2>3
<1>2. CASE s.op # "ENUM"
  <2>1. NothingDone \/ \E ref, assoc, code : Finish(s, ref, assoc, code)
    BY <1>0, StatementKinds DEF StatementDone, Declares
  <2>2. CASE NothingDone
    BY <2>2 DEF NothingDone
  <2>3. CASE \E ref, assoc, code : Finish(s, ref, assoc, code)
    <3>1. PICK ref, assoc, code : Finish(s, ref, assoc, code)
      BY <2>3
    <3>2. PICK f : f = [s |-> s, ref |-> ref, assoc |-> assoc, pkg |-> package_id]
      OBVIOUS
    <3>3. /\ UNCHANGED package_id
          /\ UNCHANGED context_stack \/ context_stack' = Append(context_stack, f)
      BY <3>1, <3>2 DEF Finish
    <3>4. EnumFrame(f)'
      BY <1>2, <3>2 DEF EnumFrame
    <3> QED
      BY <3>3, <3>4
  <2> QED
    BY <2>1, <2>2, <2>3
<1> QED
  BY <1>1, <1>2

LEMMA EnumBlocksNext ==
  ASSUME Blocks, EnumBlocks, [Next]_vars
  PROVE  EnumBlocks'
<1>0. Inv
  BY DEF Blocks
<1>1. PICK n, old, stack :
        n = Len(context_stack) /\ old = context_stack /\ stack = context_stack'
  OBVIOUS
<1>2. n \in Nat /\ DOMAIN old = 1 .. n
  BY <1>0, <1>1, StackLength
<1>3. ASSUME NEW i \in 1 .. n
      PROVE  EnumFrame(old[i])'
  <2>1. PICK f : f = old[i]
    OBVIOUS
  <2>2. EnumFrame(f)
    BY <1>1, <1>2, <2>1 DEF EnumBlocks
  <2>3. EnumFrame(f)'
    BY <2>2, EnumFrameStays
  <2> QED
    BY <2>1, <2>3
<1>4. SUFFICES \A i \in DOMAIN stack : EnumFrame(stack[i])'
  BY <1>1 DEF EnumBlocks
<1>5. CASE UNCHANGED vars
  BY <1>1, <1>2, <1>3, <1>5 DEF vars, client_vars
<1>6. CASE EvalPackageStatement \/ SelectPackage
  BY <1>1, <1>2, <1>3, <1>6 DEF EvalPackageStatement, SelectPackage
<1>7. CASE EndBlock
  <2>1. stack = context_stack \/ stack = Front(context_stack)
    BY <1>1, <1>7 DEF EndBlock
  <2>2. \A i \in DOMAIN stack : i \in 1 .. n /\ stack[i] = old[i]
    BY <1>0, <1>1, <1>2, <2>1, StackLength DEF Front
  <2>3. ASSUME NEW i \in DOMAIN stack
        PROVE  EnumFrame(stack[i])'
    <3>1. EnumFrame(old[i])'
      BY <1>3, <2>2
    <3> QED
      BY <2>2, <3>1
  <2> QED
    BY <2>3
<1>8. CASE package_id \in Packages /\ \E s \in Statements : EvalStatement(s)
  <2>1. PICK s \in Statements : EvalStatement(s)
    BY <1>8
  <2>2. CASE UNCHANGED context_stack
    BY <1>1, <1>2, <1>3, <2>2
  <2>3. CASE \E f : context_stack' = Append(context_stack, f) /\ EnumFrame(f)'
    <3>1. PICK f : context_stack' = Append(context_stack, f) /\ EnumFrame(f)'
      BY <2>3
    <3>2. /\ DOMAIN stack = 1 .. n + 1
          /\ stack[n + 1] = f /\ \A i \in 1 .. n : stack[i] = old[i]
      BY <1>0, <1>1, <3>1, StackAppended
    <3>3. ASSUME NEW i \in 1 .. n
          PROVE  EnumFrame(stack[i])'
      <4>1. EnumFrame(old[i])'
        BY <1>3
      <4> QED
        BY <3>2, <4>1
    <3>4. EnumFrame(stack[n + 1])'
      BY <3>1, <3>2
    <3>5. \A i \in DOMAIN stack : i \in 1 .. n \/ i = n + 1
      BY <1>2, <3>2
    <3> QED
      BY <3>3, <3>4, <3>5
  <2> QED
    BY <1>8, <2>1, <2>2, <2>3, EnumOpened
<1> QED
  BY <1>5, <1>6, <1>7, <1>8 DEF Next

(* The blocks of a client that stays in their package                      *)
LEMMA BlocksStayHere ==
  ASSUME Blocks, BlocksHere, [OrderlyNext]_vars
  PROVE  BlocksHere'
<1>0. Inv
  BY DEF Blocks
<1>1. PICK n, old, stack :
        n = Len(context_stack) /\ old = context_stack /\ stack = context_stack'
  OBVIOUS
<1>2. n \in Nat /\ DOMAIN old = 1 .. n /\ \A i \in 1 .. n : old[i].pkg = package_id
  BY <1>0, <1>1, StackLength DEF BlocksHere
<1>3. CASE UNCHANGED vars
  BY <1>3 DEF vars, client_vars, BlocksHere
<1>4. CASE OrderlyNext /\ (EvalPackageStatement \/ SelectPackage)
  <2>1. UNCHANGED context_stack
    BY <1>4 DEF EvalPackageStatement, SelectPackage
  <2>2. DOMAIN context_stack = {} \/ UNCHANGED package_id
    BY <1>4 DEF OrderlyNext
  <2> QED
    BY <2>1, <2>2 DEF BlocksHere
<1>5. CASE EndBlock
  <2>1. (stack = context_stack \/ stack = Front(context_stack)) /\ UNCHANGED package_id
    BY <1>1, <1>5 DEF EndBlock
  <2>2. \A i \in DOMAIN stack : i \in 1 .. n /\ stack[i] = old[i]
    BY <1>0, <1>1, <1>2, <2>1, StackLength DEF Front
  <2> QED
    BY <1>1, <1>2, <2>1, <2>2 DEF BlocksHere
<1>6. CASE package_id \in Packages /\ \E s \in Statements : EvalStatement(s)
  <2>1. PICK s \in Statements : EvalStatement(s)
    BY <1>6
  <2>2. UNCHANGED package_id
    BY <1>6, <2>1, EnumOpened
  <2>3. CASE UNCHANGED context_stack
    BY <2>2, <2>3 DEF BlocksHere
  <2>4. CASE \E f : context_stack' = Append(context_stack, f) /\ f.pkg = package_id
    <3>1. PICK f : context_stack' = Append(context_stack, f) /\ f.pkg = package_id
      BY <2>4
    <3>2. /\ DOMAIN stack = 1 .. n + 1
          /\ stack[n + 1] = f /\ \A i \in 1 .. n : stack[i] = old[i]
      BY <1>0, <1>1, <3>1, StackAppended
    <3>3. \A i \in DOMAIN stack : i \in 1 .. n \/ i = n + 1
      BY <1>2, <3>2
    <3>4. \A i \in DOMAIN stack : stack[i].pkg = package_id
      BY <1>2, <3>1, <3>2, <3>3
    <3> QED
      BY <1>1, <2>2, <3>4 DEF BlocksHere
  <2> QED
    BY <1>6, <2>1, <2>3, <2>4, BlockOpened
<1> QED
  BY <1>3, <1>4, <1>5, <1>6 DEF OrderlyNext, Next

(* The enum that a value statement finds has the name of its block, and    *)
(* need not be the one the block declared.                                 *)
LEMMA ContextEnumNamed ==
  ASSUME Inv, package_id \in Packages, EnumBlocks, BlocksHere, Context(1).op = "ENUM",
         NEW n, n = Len(context_stack), NEW top, top = context_stack[n].ref,
         NEW e, e = ContextEnum
  PROVE  /\ top \in KindIds({"enum"}) /\ Enclosed = top
         /\ e \in KindIds({"enum"})
         /\ defs[e].owner = defs[top].owner /\ defs[e].name = defs[top].name
<1>1. n \in Nat \ {0} /\ n \in DOMAIN context_stack /\ Context(1) = context_stack[n].s
  BY TopFrame
<1>2. PICK s : s = Context(1)
  OBVIOUS
<1>3. /\ top \in KindIds({"enum"})
      /\ defs[top].owner = package_id /\ defs[top].name = s.name
  BY <1>1, <1>2 DEF EnumBlocks, EnumFrame, BlocksHere
<1>4. Enclosed = top
  BY <1>1, EnclosedTop DEF DeclaringOps
<1>5. RuntimeTypeOK
  BY DEF Inv, TypeOK
<1>6. PICK search : search = Search("enum", <<s.name>>)
  OBVIOUS
<1>7. /\ search \in Seq(SUBSET KindIds({"enum"})) /\ Len(search) > 0
      /\ search[1] = Bare(package_id, "enum", <<s.name>>)
                     \cup Qualified(package_id, "enum", <<s.name>>)
  BY <1>5, <1>6, SearchFirst DEF SystemLikes
<1>8. Qualified(package_id, "enum", <<s.name>>) = {}
  <2>1. PICK name : name = package_defs[package_id].name
    OBVIOUS
  <2>2. name \in Seq(STRING) \ {<<>>}
    BY <1>5, <2>1 DEF RuntimeTypeOK, PackageDef
  <2>3. \A x : <<s.name>> # Append(name, x)
    BY <2>2
  <2> QED
    BY <2>1, <2>3 DEF Qualified
<1>9. PICK first : first = Bare(package_id, "enum", <<s.name>>)
  OBVIOUS
<1>10. search[1] = first
  BY <1>7, <1>8, <1>9
<1>11. top \in first
  BY <1>3, <1>9 DEF Bare, Owned, KindIds
<1>12. first \subseteq Nat
  BY <1>5, <1>9, KindIdsNat DEF Bare, Owned, RuntimeTypeOK, Issued
<1>13. Earliest(search) = Min(first)
  <2>1. PICK found : found = {i \in DOMAIN search : search[i] # {}}
    OBVIOUS
  <2>2. DOMAIN search = 1 .. Len(search) /\ Len(search) \in Nat
    BY <1>7
  <2>3. 1 \in found /\ found \subseteq Nat /\ \A i \in found : 1 <= i
    BY <1>7, <1>10, <1>11, <2>1, <2>2
  <2>4. Min(found) \in found /\ \A y \in found : Min(found) <= y
    BY <2>3, MinNat
  <2>5. Min(found) = 1
    <3>1. PICK m : m = Min(found)
      OBVIOUS
    <3>2. m \in Nat /\ m <= 1 /\ 1 <= m
      BY <2>3, <2>4, <3>1
    <3> QED
      BY <3>1, <3>2
  <2>6. Found(search)
    BY <2>1, <2>3 DEF Found
  <2> QED
    BY <1>10, <2>1, <2>5, <2>6 DEF Earliest
<1>14. Min(first) \in first
  BY <1>11, <1>12, MinNat
<1>15. e = Min(first)
  BY <1>2, <1>6, <1>13 DEF ContextEnum
<1>16. /\ e \in DOMAIN defs /\ defs[e].owner = package_id /\ defs[e].kind = "enum"
       /\ <<s.name>> = <<defs[e].name>>
  BY <1>9, <1>14, <1>15 DEF Bare, Owned
<1>17. defs[e].name = s.name
  BY <1>16
<1> QED
  BY <1>3, <1>4, <1>16, <1>17 DEF KindIds

-----------------------------------------------------------------------------
(* The handlers                                                            *)
LEMMA NameChecked ==
  ASSUME NEW s, \/ Accepted(ComponentChecks(s)) \/ Accepted(PlainDeclChecks(s))
                \/ Accepted(SystemChecks(s)) \/ Accepted(ActionChecks(s))
  PROVE  NameFree(s).holds
<1>1. ASSUME NEW checks, NEW i \in DOMAIN checks, checks[i] = NameFree(s), Accepted(checks)
      PROVE  NameFree(s).holds
  BY <1>1 DEF Accepted
<1>2. /\ 5 \in DOMAIN ComponentChecks(s) /\ ComponentChecks(s)[5] = NameFree(s)
      /\ 3 \in DOMAIN PlainDeclChecks(s) /\ PlainDeclChecks(s)[3] = NameFree(s)
      /\ 4 \in DOMAIN SystemChecks(s) /\ SystemChecks(s)[4] = NameFree(s)
      /\ 3 \in DOMAIN ActionChecks(s) /\ ActionChecks(s)[3] = NameFree(s)
  BY DEF ComponentChecks, PlainDeclChecks, SystemChecks, ActionChecks
<1> QED
  BY <1>1, <1>2, Zenon

LEMMA OnlyEnumsShare ==
  ASSUME Inv, package_id \in Packages, NEW s, NameFree(s).holds
  PROVE  \A e \in DOMAIN defs :
           defs[e].owner = package_id /\ defs[e].name = s.name => defs[e].kind = "enum"
<1>1. RuntimeTypeOK
  BY DEF Inv, TypeOK
<1>2. \A e \in DOMAIN defs : defs[e].kind \in DeclKinds \cup {"enum"}
  BY <1>1 DEF RuntimeTypeOK, Def, Kinds
<1>3. \A e \in KindIds(DeclKinds) : defs[e].owner = package_id => defs[e].name # s.name
  BY <1>1, NameFreeMeans
<1> QED
  BY <1>2, <1>3 DEF KindIds

LEMMA LexTopLevel ==
  ASSUME Blocks, package_id \in Packages, NEW s, NameFree(s).holds, context_stack = <<>>,
         NEW kind, NEW d, Declared(d, kind, s.name, NoId), s.op \in DeclaringOps,
         NEW code, Finish(s, d, NoId, code)
  PROVE  LexStep
<1>1. Inv /\ Enclosed = NoId
  BY EnclosedNone DEF Blocks
<1>2. UNCHANGED package_id /\ ScopesSeen' \in {ScopesSeen, Append(ScopesSeen, d)}
  BY <1>1, FinishScopes
<1>3. \A e \in DOMAIN defs :
        defs[e].owner = package_id /\ defs[e].name = s.name => defs[e].kind = "enum"
  BY <1>1, OnlyEnumsShare
<1> QED
  BY <1>1, <1>2, <1>3, LexDeclares

LEMMA LexComponents ==
  ASSUME Blocks, package_id \in Packages, NEW s \in Statements,
         EvalComponent(s) \/ EvalTransient(s)
  PROVE  LexStep
<1>0. Inv /\ FramesResolve /\ s.name \in STRING
  BY StatementType DEF Blocks
<1>1. PICK d : d = last_id
  OBVIOUS
<1>2. ASSUME NEW kind \in ComponentLikes, NEW comp_type \in ComponentTypes,
             CreateComponentLike(kind, package_id, s.name, comp_type),
             Finish(s, last_id, NoId, "OK"), UNCHANGED assoc_vars,
             s.op \in {"COMPONENT", "TRANSIENT"},
             Accepted(ComponentChecks(s)) \/ Accepted(PlainDeclChecks(s))
      PROVE  LexStep
  <2>1. Declared(d, kind, s.name, NoId)
    BY <1>0, <1>1, <1>2, ComponentDeclared
  <2>2. NameFree(s).holds /\ context_stack = <<>>
    BY <1>0, <1>2, NameChecked, TopLevelChecked
  <2>3. s.op \in DeclaringOps /\ Finish(s, d, NoId, "OK")
    BY <1>1, <1>2 DEF DeclaringOps
  <2> QED
    BY <2>1, <2>2, <2>3, LexTopLevel
<1>3. CASE EvalComponent(s)
  <2> DEFINE comp_type == IF AsksTransient(s) THEN "TRANSIENT" ELSE StreamParam(s)
  <2>1. CASE Rejected(ComponentChecks(s))
    BY <2>1, RejectedAll, LexRejected
  <2>2. CASE ~Rejected(ComponentChecks(s))
    <3>1. /\ CreateComponentLike("component", package_id, s.name, comp_type)
          /\ Accepted(ComponentChecks(s)) /\ UNCHANGED assoc_vars
          /\ Finish(s, last_id, NoId, "OK") /\ s.op = "COMPONENT"
      BY <1>3, <2>2 DEF EvalComponent
    <3>2. ComponentChecks(s)[3] = Check(StreamParam(s) # "INVALID", "INVALID_PARAMETER_VALUE")
      BY DEF ComponentChecks
    <3>3. 3 \in DOMAIN ComponentChecks(s)
      BY DEF ComponentChecks
    <3>4. Check(StreamParam(s) # "INVALID", "INVALID_PARAMETER_VALUE").holds
      BY <3>1, <3>2, <3>3 DEF Accepted
    <3>5. StreamParam(s) # "INVALID"
      BY <3>4, Zenon DEF Check
    <3>6. StreamParam(s) \in {"NONE", "STREAM", "LAZY_STREAM", "INVALID"}
      BY DEF StreamParam
    <3>7. comp_type \in ComponentTypes /\ "component" \in ComponentLikes
      BY <3>5, <3>6 DEF ComponentTypes, ComponentLikes
    <3> HIDE DEF comp_type
    <3> QED
      BY <1>2, <3>1, <3>7
  <2> QED
    BY <2>1, <2>2
<1>4. CASE EvalTransient(s)
  <2>1. CASE Rejected(PlainDeclChecks(s))
    BY <2>1, RejectedAll, LexRejected
  <2>2. CASE ~Rejected(PlainDeclChecks(s))
    <3>1. /\ CreateComponentLike("transient", package_id, s.name, "TRANSIENT")
          /\ Accepted(PlainDeclChecks(s)) /\ UNCHANGED assoc_vars
          /\ Finish(s, last_id, NoId, "OK") /\ s.op = "TRANSIENT"
      BY <1>4, <2>2 DEF EvalTransient
    <3>2. "transient" \in ComponentLikes /\ "TRANSIENT" \in ComponentTypes
      BY DEF ComponentLikes, ComponentTypes
    <3> QED
      BY <1>2, <3>1, <3>2
  <2> QED
    BY <2>1, <2>2
<1> QED
  BY <1>3, <1>4

LEMMA LexEnum ==
  ASSUME Blocks, package_id \in Packages, NEW s \in Statements, EvalEnum(s)
  PROVE  LexStep
<1>0. Inv /\ FramesResolve /\ s.name \in STRING
  BY StatementType DEF Blocks
<1>1. CASE Rejected(PlainDeclChecks(s))
  BY <1>1, RejectedAll, LexRejected
<1>2. CASE ~Rejected(PlainDeclChecks(s))
  <2>1. /\ CreateEnum(package_id, s.name) /\ UNCHANGED assoc_vars
        /\ Accepted(PlainDeclChecks(s))
        /\ Finish(s, last_id, NoId, "OK") /\ s.op = "ENUM"
    BY <1>2 DEF EvalEnum
  <2>2. PICK d : d = last_id
    OBVIOUS
  <2>3. Declared(d, "enum", s.name, NoId)
    BY <1>0, <2>1, <2>2, EnumDeclared
  <2>4. NameFree(s).holds /\ context_stack = <<>>
    BY <1>0, <2>1, NameChecked, TopLevelChecked
  <2>5. s.op \in DeclaringOps /\ Finish(s, d, NoId, "OK")
    BY <2>1, <2>2 DEF DeclaringOps
  <2> QED
    BY <2>3, <2>4, <2>5, LexTopLevel
<1> QED
  BY <1>1, <1>2

LEMMA FinishedSystemLike ==
  ASSUME NEW s, NEW kind, NEW parent, NEW lazy, FinishSystemLike(s, kind, parent, lazy)
  PROVE  /\ UNCHANGED assoc_vars
         /\ \E parallel : CreateSystemLike(kind, package_id, s.name, parent, parallel, lazy)
         /\ \E code : Finish(s, last_id, NoId, code)
BY Zenon DEF FinishSystemLike

LEMMA LexAction ==
  ASSUME Blocks, package_id \in Packages, NEW s \in Statements, EvalAction(s)
  PROVE  LexStep
<1>0. Inv /\ FramesResolve /\ s.name \in STRING
  BY StatementType DEF Blocks
<1>1. CASE Rejected(ActionChecks(s))
  BY <1>1, RejectedAll, LexRejected
<1>2. CASE ~Rejected(ActionChecks(s))
  <2>1. /\ FinishSystemLike(s, "action", NoId, 0) /\ Accepted(ActionChecks(s))
        /\ s.op = "ACTION"
    BY <1>2 DEF EvalAction
  <2>2. PICK parallel, code :
          /\ CreateSystemLike("action", package_id, s.name, NoId, parallel, 0)
          /\ Finish(s, last_id, NoId, code) /\ UNCHANGED assoc_vars
    BY <2>1, FinishedSystemLike
  <2>3. PICK d : d = last_id
    OBVIOUS
  <2>4. "action" \in SystemLikes /\ NoId \in KindIds(SystemLikes) \cup {NoId}
    BY DEF SystemLikes
  <2>5. Declared(d, "action", s.name, NoId)
    BY <1>0, <2>2, <2>3, <2>4, SystemDeclared
  <2>6. NameFree(s).holds /\ context_stack = <<>>
    BY <1>0, <2>1, NameChecked, TopLevelChecked
  <2>7. s.op \in DeclaringOps /\ Finish(s, d, NoId, code)
    BY <2>1, <2>2, <2>3 DEF DeclaringOps
  <2> QED
    BY <2>5, <2>6, <2>7, LexTopLevel
<1> QED
  BY <1>1, <1>2

(* The parent that a system statement finds is the system or action whose  *)
(* block it is in.                                                         *)
LEMMA ParentEncloses ==
  ASSUME Blocks, BlocksHere, package_id \in Packages, NEW s, Accepted(SystemChecks(s)),
         NEW parent, parent = SystemLikeOf(Context(1))
  PROVE  /\ parent = Enclosed /\ parent \in KindIds(SystemLikes) \cup {NoId}
         /\ context_stack # <<>> => parent \in KindIds(SystemLikes)
<1>0. Inv /\ FramesResolve /\ RuntimeTypeOK
  BY DEF Blocks, Inv, TypeOK
<1>1. Context(1).op = "NONE" \/ parent # NoId
  <2>1. /\ 3 \in DOMAIN SystemChecks(s)
        /\ SystemChecks(s)[3] =
             Check(Context(1).op = "NONE" \/ SystemLikeOf(Context(1)) # NoId, "INVALID_CONTEXT")
    BY DEF SystemChecks
  <2>2. Check(Context(1).op = "NONE" \/ SystemLikeOf(Context(1)) # NoId,
              "INVALID_CONTEXT").holds
    BY <2>1, Zenon DEF Accepted
  <2> QED
    BY <2>2, Zenon DEF Check
<1>2. CASE Context(1).op = "NONE"
  <2>1. context_stack = <<>> /\ Enclosed = NoId
    BY <1>0, <1>2, TopLevel, EnclosedNone
  <2>2. parent = NoId
    BY <1>2 DEF SystemLikeOf, FindDeclared
  <2> QED
    BY <2>1, <2>2
<1>3. CASE parent # NoId
  <2>1. PICK n : n = Len(context_stack)
    OBVIOUS
  <2>2. 1 \in Nat \ {0}
    OBVIOUS
  <2>3. /\ 1 <= n /\ n + 1 - 1 \in DOMAIN context_stack
        /\ context_stack[n + 1 - 1].s.op \in SystemOps
        /\ parent = context_stack[n + 1 - 1].ref
        /\ parent \in KindIds(SystemLikes)
    BY <1>0, <1>3, <2>1, <2>2, SystemOfContext DEF BlocksHere
  <2>4. n \in Nat
    BY <1>0, <2>1, StackLength
  <2>5. n \in Nat \ {0} /\ n + 1 - 1 = n
    BY <2>3, <2>4
  <2>6. context_stack[n].s.op \in DeclaringOps /\ parent = context_stack[n].ref
    BY <2>3, <2>5 DEF DeclaringOps, SystemOps
  <2>7. Enclosed = context_stack[n].ref
    BY <1>0, <2>1, <2>5, <2>6, EnclosedTop
  <2> QED
    BY <2>3, <2>6, <2>7
<1> QED
  BY <1>1, <1>2, <1>3

LEMMA LexSystem ==
  ASSUME Blocks, BlocksHere, package_id \in Packages, NEW s \in Statements, EvalSystem(s)
  PROVE  LexStep
<1>0. Inv /\ s.name \in STRING
  BY StatementType DEF Blocks
<1>1. CASE Rejected(SystemChecks(s))
  BY <1>1, RejectedAll, LexRejected
<1>2. CASE ~Rejected(SystemChecks(s))
  <2>1. PICK parent, lazy : parent = SystemLikeOf(Context(1)) /\ lazy = LazyRate(s)
    OBVIOUS
  <2>2. /\ FinishSystemLike(s, "system", parent, lazy) /\ Accepted(SystemChecks(s))
        /\ s.op = "SYSTEM"
    BY <1>2, <2>1 DEF EvalSystem
  <2>3. PICK parallel, code :
          /\ CreateSystemLike("system", package_id, s.name, parent, parallel, lazy)
          /\ Finish(s, last_id, NoId, code) /\ UNCHANGED assoc_vars
    BY <2>2, FinishedSystemLike
  <2>4. PICK d : d = last_id
    OBVIOUS
  <2>5. /\ parent = Enclosed /\ parent \in KindIds(SystemLikes) \cup {NoId}
        /\ context_stack # <<>> => Enclosed \in KindIds(SystemLikes)
    BY <2>1, <2>2, ParentEncloses
  <2>6. Declared(d, "system", s.name, parent)
    BY <1>0, <2>3, <2>4, <2>5, SystemDeclared DEF SystemLikes
  <2>7. UNCHANGED package_id /\ ScopesSeen' \in {ScopesSeen, Append(ScopesSeen, d)}
    BY <1>0, <2>2, <2>3, <2>4, FinishScopes DEF DeclaringOps
  <2>8. \A e \in DOMAIN defs :
          defs[e].owner = package_id /\ defs[e].name = s.name => defs[e].kind = "enum"
    BY <1>0, <2>2, NameChecked, OnlyEnumsShare
  <2> QED
    BY <1>0, <2>5, <2>6, <2>7, <2>8, LexDeclares
<1> QED
  BY <1>1, <1>2

LEMMA LexOthers ==
  ASSUME Blocks, package_id \in Packages, NEW s \in Statements,
         EvalEmpty(s) \/ EvalPackageInBlock(s) \/ EvalImport(s)
  PROVE  LexStep
<1>0. Inv /\ FramesResolve
  BY DEF Blocks
<1>1. CASE EvalEmpty(s)
  BY <1>1, LexRejected DEF EvalEmpty, store
<1>2. CASE EvalPackageInBlock(s)
  BY <1>2, RejectedAll, LexRejected DEF EvalPackageInBlock
<1>3. CASE EvalImport(s)
  <2>1. CASE Rejected(ImportChecks(s))
    BY <2>1, RejectedAll, LexRejected
  <2>2. CASE ~Rejected(ImportChecks(s))
    <3>1. /\ Accepted(ImportChecks(s)) /\ UNCHANGED assoc_vars /\ s.op = "IMPORT"
          /\ Finish(s, NoId, NoId, "OK")
      BY <1>3, <2>2 DEF EvalImport
    <3>2. UNCHANGED <<defs, fields, enum_values, system_likes>>
      BY <1>3, <2>2 DEF EvalImport, AddDependency
    <3>3. SeenAsBefore
      BY <3>1, <3>2, StoreSeen DEF assoc_vars
    <3>4. context_stack = <<>> /\ Enclosed = NoId
      BY <1>0, <3>1, TopLevelChecked, EnclosedNone
    <3>5. UNCHANGED package_id /\ ScopesSeen' \in {ScopesSeen, Append(ScopesSeen, NoId)}
      BY <1>0, <3>1, <3>4, FinishScopes DEF DeclaringOps
    <3> QED
      BY <1>0, <3>3, <3>4, <3>5, LexImports
  <2> QED
    BY <2>1, <2>2
<1> QED
  BY <1>1, <1>2, <1>3

LEMMA LexEnumValue ==
  ASSUME Blocks, EnumBlocks, BlocksHere, package_id \in Packages, NEW s \in Statements,
         EvalEnumValue(s)
  PROVE  LexStep
<1>0. Inv /\ s.name \in STRING /\ s.arg \in STRING
  BY StatementType DEF Blocks
<1>1. CASE Rejected(EnumValueChecks(s))
  BY <1>1, RejectedAll, LexRejected
<1>2. CASE ~Rejected(EnumValueChecks(s))
  <2>1. PICK e : e = ContextEnum
    OBVIOUS
  <2>2. /\ Accepted(EnumValueChecks(s)) /\ AddEnumValue(e, s.name, s.arg)
        /\ Finish(s, e, NoId, "OK") /\ UNCHANGED assoc_vars /\ s.op = "ENUM_VALUE"
    BY <1>2, <2>1 DEF EvalEnumValue
  <2>3. Context(1).op = "ENUM"
    <3>1. InContext({"ENUM"}).holds
      BY <2>2 DEF Accepted, EnumValueChecks
    <3> QED
      BY <3>1, Zenon DEF InContext, Check
  <2>4. PICK n, top : n = Len(context_stack) /\ top = context_stack[n].ref
    OBVIOUS
  <2>5. /\ top \in KindIds({"enum"}) /\ Enclosed = top /\ e \in KindIds({"enum"})
        /\ defs[e].owner = defs[top].owner /\ defs[e].name = defs[top].name
    BY <1>0, <2>1, <2>3, <2>4, ContextEnumNamed
  <2>6. Filled(e)
    BY <1>0, <2>2, <2>5, ValueFilled
  <2>7. UNCHANGED package_id /\ ScopesSeen' \in {ScopesSeen, Append(ScopesSeen, top)}
    BY <1>0, <2>2, <2>5, FinishScopes DEF DeclaringOps
  <2>8. top \in DOMAIN defs /\ defs[e].kind = "enum" /\ defs[top].kind = "enum"
    BY <2>5 DEF KindIds
  <2> QED
    BY <1>0, <2>5, <2>6, <2>7, <2>8, LexFills
<1> QED
  BY <1>1, <1>2

LEMMA LexField ==
  ASSUME Blocks, BlocksHere, package_id \in Packages, NEW s \in Statements,
         s.op \notin DeclaringOps, Accepted(FieldChecks(s)), NEW type \in FieldType, FinishField(s, type)
  PROVE  LexStep
<1>0. Inv /\ FramesResolve /\ s.name \in STRING
  BY StatementType DEF Blocks
<1>1. PICK c : c = CompositeOf(Context(1))
  OBVIOUS
<1>2. Context(1).op \in {"COMPONENT", "TRANSIENT", "ACTION"} /\ c # NoId
  <2> DEFINE ops == {"COMPONENT", "TRANSIENT", "ACTION"}
  <2>1. /\ 1 \in DOMAIN FieldChecks(s) /\ FieldChecks(s)[1] = InContext(ops)
        /\ 3 \in DOMAIN FieldChecks(s)
        /\ FieldChecks(s)[3] = Check(CompositeOf(Context(1)) # NoId, "INVALID_CONTEXT")
    BY DEF FieldChecks
  <2>2. InContext(ops).holds /\ Check(CompositeOf(Context(1)) # NoId, "INVALID_CONTEXT").holds
    BY <2>1, Zenon DEF Accepted
  <2>3. Context(1).op \in ops
    BY <2>2, Zenon DEF InContext, Check
  <2>4. CompositeOf(Context(1)) # NoId
    BY <2>2, Zenon DEF Check
  <2> QED
    BY <1>1, <2>3, <2>4
<1>3. c \in KindIds(Composites)
  BY <1>0, <1>1, <1>2, DeclaredType DEF Inv, TypeOK
<1>4. AddField(c, s.name, type) /\ Finish(s, c, NoId, "OK") /\ UNCHANGED assoc_vars
  BY <1>1 DEF FinishField
<1>5. Filled(c)
  BY <1>0, <1>3, <1>4, FieldFilled
<1>6. PICK n : n = Len(context_stack)
  OBVIOUS
<1>7. n \in Nat \ {0} /\ n \in DOMAIN context_stack /\ Context(1) = context_stack[n].s
  BY <1>0, <1>2, <1>6, TopFrame
<1>8. c = context_stack[n].ref
  BY <1>0, <1>1, <1>2, <1>7, ResolvesMeans DEF ContextResolves, BlockResolves, BlocksHere
<1>9. Enclosed = c
  BY <1>0, <1>2, <1>6, <1>7, <1>8, EnclosedTop DEF DeclaringOps
<1>10. UNCHANGED package_id /\ ScopesSeen' \in {ScopesSeen, Append(ScopesSeen, c)}
  BY <1>0, <1>4, <1>9, FinishScopes
<1>11. c \in DOMAIN defs
  BY <1>3 DEF KindIds
<1> QED
  BY <1>0, <1>5, <1>9, <1>10, <1>11, LexFills

LEMMA LexFields ==
  ASSUME Blocks, BlocksHere, package_id \in Packages, NEW s \in Statements,
         EvalBuiltinTypeField(s) \/ EvalUserTypeField(s)
  PROVE  LexStep
<1>1. CASE EvalBuiltinTypeField(s)
  <2>1. CASE Rejected(FieldChecks(s))
    BY <2>1, RejectedAll, LexRejected
  <2>2. CASE Accepted(FieldChecks(s)) /\ FinishField(s, BuiltinType(s.arg))
    <3>1. BuiltinType(s.arg) \in FieldType
      BY StatementType DEF BuiltinType, FieldType
    <3>2. s.op \notin DeclaringOps
      BY <1>1 DEF EvalBuiltinTypeField, DeclaringOps
    <3> QED
      BY <2>2, <3>1, <3>2, LexField
  <2> QED
    BY <1>1, <2>1, <2>2 DEF EvalBuiltinTypeField
<1>2. CASE EvalUserTypeField(s)
  <2>1. CASE Rejected(UserTypeChecks(s))
    BY <2>1, RejectedAll, LexRejected
  <2>2. CASE Accepted(UserTypeChecks(s)) /\ FinishField(s, UserType(s))
    <3>1. Accepted(FieldChecks(s)) /\ UserType(s) \in FieldType
      BY <2>2, UserTypePassed, UserTypeKnown DEF Blocks, Inv
    <3>2. s.op \notin DeclaringOps
      BY <1>2 DEF EvalUserTypeField, DeclaringOps
    <3> QED
      BY <2>2, <3>1, <3>2, LexField
  <2> QED
    BY <1>2, <2>1, <2>2 DEF EvalUserTypeField, UserType
<1> QED
  BY <1>1, <1>2

(* The statements of a system body                                         *)
BodyFinish(s) ==
  /\ ContextSystem # NoId /\ Context(1).op \in BodyOps
  /\ \E ref, assoc, code : Finish(s, ref, assoc, code)

LEMMA LexBody ==
  ASSUME Blocks, DistinctIds, BlocksPlaced, BlocksHere, package_id \in Packages,
         NEW s, s.op \notin DeclaringOps, BodyFinish(s), UNCHANGED store \/ ChangesContext
  PROVE  LexStep
<1>0. Inv /\ FramesResolve
  BY DEF Blocks
<1>1. PICK sys : sys = ContextSystem
  OBVIOUS
<1>2. Enclosed = sys
  BY <1>1, EnclosedBody DEF BodyFinish
<1>3. sys \in KindIds(SystemLikes) /\ sys \in DOMAIN defs
  BY <1>0, <1>1, ContextSystemPlace DEF BodyFinish, KindIds
<1>4. PICK ref, assoc, code : Finish(s, ref, assoc, code)
  BY DEF BodyFinish
<1>5. UNCHANGED package_id /\ ScopesSeen' \in {ScopesSeen, Append(ScopesSeen, sys)}
  BY <1>0, <1>2, <1>4, FinishScopes
<1>6. CASE UNCHANGED store
  <2>1. UNCHANGED <<defs, fields, enum_values, system_likes, assoc_vars>>
    BY <1>6 DEF store, runtime_vars
  <2>2. \A e : FieldsOf(e)' = FieldsOf(e) /\ ValuesOfEnum(e)' = ValuesOfEnum(e)
    BY <2>1 DEF FieldsOf, ValuesOfEnum
  <2>3. Extends(FieldsOf(sys)', FieldsOf(sys)) /\ Extends(ValuesOfEnum(sys)', ValuesOfEnum(sys))
    BY <2>2, ExtendsItself
  <2>4. Filled(sys)
    BY <1>3, <2>1, <2>2, <2>3, SystemUntouched, FilledBy
  <2> QED
    BY <1>0, <1>2, <1>3, <1>5, <2>4, LexFills
<1>7. CASE ChangesContext
  <2>1. sys \in OwnSystems /\ ChangesBody(sys)
    BY <1>1, <1>7 DEF ChangesContext
  <2>2. Filled(sys)
    BY <1>0, <2>1, BodyFilled
  <2> QED
    BY <1>0, <1>2, <1>3, <1>5, <2>2, LexFills
<1> QED
  BY <1>6, <1>7

LEMMA GeneratesPassed ==
  ASSUME NEW s, Accepted(SystemGeneratesChecks(s))
  PROVE  Context(1).op \in {"SYSTEM", "ACTION"} /\ ContextSystem # NoId
<1> DEFINE ops == {"SYSTEM", "ACTION"}
<1>1. /\ 1 \in DOMAIN SystemGeneratesChecks(s) /\ SystemGeneratesChecks(s)[1] = InContext(ops)
      /\ 3 \in DOMAIN SystemGeneratesChecks(s)
      /\ SystemGeneratesChecks(s)[3] = Check(ContextSystem # NoId, "INVALID_CONTEXT")
  BY DEF SystemGeneratesChecks
<1>2. InContext(ops).holds /\ Check(ContextSystem # NoId, "INVALID_CONTEXT").holds
  BY <1>1, Zenon DEF Accepted
<1>3. Context(1).op \in ops
  BY <1>2, Zenon DEF InContext, Check
<1>4. ContextSystem # NoId
  BY <1>2, Zenon DEF Check
<1> QED
  BY <1>3, <1>4

LEMMA BodyFinishes ==
  ASSUME Blocks, package_id \in Packages, NEW s \in Statements,
         \/ EvalSystemComponent(s) \/ EvalSystemWith(s) \/ EvalSystemGenerates(s)
         \/ EvalEntityConstraint(s) \/ EvalSystemNotify(s) \/ EvalSystemNotifyComponent(s)
  PROVE  UNCHANGED <<store, client_vars>> \/ BodyFinish(s)
<1>0. TypeOK
  BY DEF Blocks, Inv
<1>1. CASE EvalSystemComponent(s)
  <2>1. CASE Rejected(SystemComponentChecks(s))
    BY <2>1, RejectedAll
  <2>2. CASE ~Rejected(SystemComponentChecks(s))
    <3>1. /\ Accepted(SystemComponentChecks(s))
          /\ \E ref, assoc, code : Finish(s, ref, assoc, code)
      BY <1>1, <2>2 DEF EvalSystemComponent
    <3> QED
      BY <1>0, <3>1, SystemComponentPassed DEF BodyFinish, BodyOps, SystemOps
  <2> QED
    BY <2>1, <2>2
<1>2. CASE EvalSystemWith(s)
  <2>1. CASE Rejected(SystemWithChecks(s))
    BY <2>1, RejectedAll
  <2>2. CASE ~Rejected(SystemWithChecks(s))
    <3>1. /\ Accepted(SystemWithChecks(s))
          /\ \E ref, assoc, code : Finish(s, ref, assoc, code)
      BY <1>2, <2>2 DEF EvalSystemWith
    <3> QED
      BY <1>0, <3>1, SystemWithPassed DEF BodyFinish, BodyOps
  <2> QED
    BY <2>1, <2>2
<1>3. CASE EvalSystemGenerates(s)
  <2>1. CASE Rejected(SystemGeneratesChecks(s))
    BY <2>1, RejectedAll
  <2>2. CASE ~Rejected(SystemGeneratesChecks(s))
    <3>1. /\ Accepted(SystemGeneratesChecks(s))
          /\ \E ref, assoc, code : Finish(s, ref, assoc, code)
      BY <1>3, <2>2 DEF EvalSystemGenerates
    <3> QED
      BY <3>1, GeneratesPassed DEF BodyFinish, BodyOps, SystemOps
  <2> QED
    BY <2>1, <2>2
<1>4. CASE EvalEntityConstraint(s)
  <2>1. CASE Rejected(EntityConstraintChecks(s))
    BY <2>1, RejectedAll
  <2>2. CASE ~Rejected(EntityConstraintChecks(s))
    <3>1. /\ Accepted(EntityConstraintChecks(s))
          /\ \E ref, assoc, code : Finish(s, ref, assoc, code)
      BY <1>4, <2>2 DEF EvalEntityConstraint
    <3> QED
      BY <3>1, EntityConstraintPassed DEF BodyFinish, BodyOps
  <2> QED
    BY <2>1, <2>2
<1>5. CASE EvalSystemNotify(s)
  <2>1. CASE Rejected(SystemNotifyChecks(s))
    BY <2>1, RejectedAll
  <2>2. CASE ~Rejected(SystemNotifyChecks(s))
    <3>1. /\ Accepted(SystemNotifyChecks(s))
          /\ \E ref, assoc, code : Finish(s, ref, assoc, code)
      BY <1>5, <2>2 DEF EvalSystemNotify
    <3> QED
      BY <3>1, SystemNotifyPassed DEF BodyFinish, BodyOps, SystemOps
  <2> QED
    BY <2>1, <2>2
<1>6. CASE EvalSystemNotifyComponent(s)
  <2>1. CASE Rejected(NotifyComponentChecks(s))
    BY <2>1, RejectedAll
  <2>2. CASE ~Rejected(NotifyComponentChecks(s))
    <3>1. /\ Accepted(NotifyComponentChecks(s))
          /\ \E ref, assoc, code : Finish(s, ref, assoc, code)
      BY <1>6, <2>2 DEF EvalSystemNotifyComponent
    <3> QED
      BY <3>1, NotifyComponentPassed DEF BodyFinish, BodyOps
  <2> QED
    BY <2>1, <2>2
<1> QED
  BY <1>1, <1>2, <1>3, <1>4, <1>5, <1>6

LEMMA LexBodies ==
  ASSUME Blocks, DistinctIds, BlocksPlaced, BlocksHere, package_id \in Packages,
         NEW s \in Statements,
         \/ EvalSystemComponent(s) \/ EvalSystemWith(s) \/ EvalSystemGenerates(s)
         \/ EvalEntityConstraint(s) \/ EvalSystemNotify(s) \/ EvalSystemNotifyComponent(s)
  PROVE  LexStep
<1>1. CASE UNCHANGED <<store, client_vars>>
  BY <1>1, LexRejected
<1>2. CASE BodyFinish(s)
  <2>1. s.op \notin DeclaringOps
    BY DEF EvalSystemComponent, EvalSystemWith, EvalSystemGenerates, EvalEntityConstraint,
           EvalSystemNotify, EvalSystemNotifyComponent, DeclaringOps
  <2>2. UNCHANGED store \/ ChangesContext
    <3>1. CASE EvalSystemComponent(s)
      BY <3>1, ComponentKinds DEF ChangesContext, ChangesBody
    <3>2. CASE EvalSystemWith(s)
      BY <3>2, WithKinds
    <3>3. CASE EvalSystemGenerates(s) \/ EvalEntityConstraint(s)
      BY <3>3, GeneratesKinds
    <3>4. CASE EvalSystemNotify(s) \/ EvalSystemNotifyComponent(s)
      BY <3>4, NotifyKinds
    <3> QED
      BY <3>1, <3>2, <3>3, <3>4
  <2> QED
    BY <1>2, <2>1, <2>2, LexBody
<1> QED
  BY <1>1, <1>2, BodyFinishes

LEMMA NextLex ==
  ASSUME Blocks, DistinctIds, BlocksPlaced, EnumBlocks, BlocksHere, [OrderlyNext]_vars
  PROVE  LexStep
<1>0. Inv
  BY DEF Blocks
<1>1. CASE UNCHANGED vars
  BY <1>1, LexRejected DEF vars, store
<1>2. ASSUME OrderlyNext, SeenAsBefore, UNCHANGED context_stack
      PROVE  LexStep
  <2>1. CASE context_stack = <<>>
    BY <1>0, <1>2, <2>1, LexSwitches
  <2>2. CASE context_stack # <<>>
    BY <1>2, <2>2, ScopesKept, LexStutters DEF OrderlyNext
  <2> QED
    BY <2>1, <2>2
<1>3. CASE OrderlyNext /\ (EvalPackageStatement \/ SelectPackage)
  <2>1. UNCHANGED <<defs, fields, enum_values, system_likes, assoc_vars, context_stack>>
    BY <1>3 DEF EvalPackageStatement, CreatePackage, SelectPackage, runtime_vars
  <2> QED
    BY <1>2, <1>3, <2>1, StoreSeen DEF assoc_vars
<1>4. CASE EndBlock
  <2>1. /\ UNCHANGED <<runtime_vars, assoc_vars, package_id>> /\ context_stack # <<>>
        /\ UNCHANGED context_stack \/ context_stack' = Front(context_stack)
    BY <1>4 DEF EndBlock
  <2>2. SeenAsBefore
    BY <2>1, StoreSeen DEF runtime_vars, assoc_vars
  <2> QED
    BY <1>0, <2>1, <2>2, ScopesKept, ScopesPopped, LexStutters, LexCloses
<1>5. CASE package_id \in Packages /\ \E s \in Statements : EvalStatement(s)
  <2>1. PICK s \in Statements : EvalStatement(s)
    BY <1>5
  <2> QED
    BY <1>5, <2>1, LexOthers, LexComponents, LexSystem, LexAction, LexEnum, LexEnumValue,
       LexFields, LexBodies
    DEF EvalStatement
<1> QED
  BY <1>1, <1>3, <1>4, <1>5 DEF OrderlyNext, Next

LEMMA InitLex == Init => EnumBlocks /\ BlocksHere /\ Lexical!Init
<1> SUFFICES ASSUME Init PROVE EnumBlocks /\ BlocksHere /\ Lexical!Init
  OBVIOUS
<1>1. context_stack = <<>> /\ defs = EmptyMap /\ package_id = NoId
  BY DEF Init, RuntimeInit
<1>2. EnumBlocks /\ BlocksHere
  BY <1>1 DEF EnumBlocks, BlocksHere
<1>3. Inv
  BY InitInv
<1>4. ScopesSeen = <<>>
  BY <1>1, <1>3, EnclosedIsLast
<1>5. DOMAIN defs = {}
  BY <1>1, EmptyIsMap
<1>6. DeclsSeen = Lexical!EmptyMap /\ HoldsSeen = Lexical!EmptyMap
  BY <1>5 DEF DeclsSeen, HoldsSeen, Lexical!EmptyMap
<1> QED
  BY <1>1, <1>2, <1>4, <1>6 DEF Lexical!Init, ScopesSeen, DeclsSeen, HoldsSeen

(* The evaluator implements Scopes.  Each statement finds its context by   *)
(* name, in a store that has changed since the block was opened, and yet a *)
(* declaration always becomes a child of the one whose block it is in,     *)
(* anything else is said of that one alone, what was said stays, and what  *)
(* is refused changes nothing; only an enum may be mistaken for an earlier *)
(* one of its package and name.  The client stays in a package while its   *)
(* blocks are open: after a change inside a block, a statement may find    *)
(* another declaration of the name.                                        *)
THEOREM StatementsInScope == OrderlySpec => ImplementsScopes
<1> DEFINE OrderlyInv == Blocks /\ DistinctIds /\ BlocksPlaced /\ EnumBlocks /\ BlocksHere
<1>1. Init => OrderlyInv /\ Lexical!Init
  BY BlocksInit, PlacedInit, InitLex
<1>2. OrderlyInv /\ [OrderlyNext]_vars
        => OrderlyInv' /\ [Lexical!Next]_(Lexical!scope_vars)
  <2>1. [OrderlyNext]_vars => [Next]_vars
    BY DEF OrderlyNext
  <2>2. OrderlyInv /\ [OrderlyNext]_vars => OrderlyInv'
    BY <2>1, BlocksNext, DistinctIdsNext, BlocksPlacedNext, EnumBlocksNext, BlocksStayHere
  <2>3. OrderlyInv /\ [OrderlyNext]_vars => LexStep
    BY NextLex
  <2> QED
    BY <2>2, <2>3 DEF LexStep
<1> HIDE DEF OrderlyInv
<1> QED
  BY <1>1, <1>2, PTL DEF OrderlySpec, ImplementsScopes, Lexical!Spec
=============================================================================
